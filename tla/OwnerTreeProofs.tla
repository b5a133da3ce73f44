-------------------------- MODULE OwnerTreeProofs ---------------------------
(***************************************************************************)
(* Theorems about OwnerTree, for any owners, functions, items and threads, *)
(* any nesting of calls and any walks.                                     *)
(*                                                                         *)
(* What holds on any number of threads says where a function or an item    *)
(* is: in its owner's list, in exactly one frame that has taken it, or     *)
(* done with; and that the lists of an owner that is gone are empty or     *)
(* about to be taken.  The order of cleanup needs a single thread: then    *)
(* the tree has no cycle, and what a frame owes is in reach of the frames  *)
(* above it until it has run.                                              *)
(***************************************************************************)
EXTENDS OwnerTree, SequenceTheorems, TLAPS

(* The program counters at which a frame is below another, those of        *)
(* Cleanup::cleanup, those of Owner::pause and Owner::resume, and all       *)
Callers == {"with", "function", "kids", "items"}
Cleaners == {"take", "kids", "fns", "function", "nodes", "items"}
Walkers == {"pause", "resume"}
Pcs == Callers \cup Cleaners \cup Walkers \cup {"push", "register", "release"}

FrameType ==
    [pc : Pcs, owner : Owners \cup {None}, drop : BOOLEAN, kids : Seq(Owners), fns : Seq(Fns),
     nodes : Seq(Items), items : Seq(Owners \cup {None}), arg : Owners \cup Items \cup {None},
     due : SUBSET Fns]

(* Every variable has its type.                                             *)
Types ==
    /\ status \in [Owners -> {"unborn", "live", "gone"}]
    /\ held \subseteq Owners
    /\ parent \in [Owners -> Owners \cup {None}]
    /\ children \in [Owners -> Seq(Owners)]
    /\ cleanups \in [Owners -> Seq(Fns)]
    /\ nodes \in [Owners -> Seq(Items)]
    /\ paused \in [Owners -> BOOLEAN]
    /\ DOMAIN arena \subseteq Items
    /\ arena \in [DOMAIN arena -> Owners \cup {None}]
    /\ current \in [Threads -> Owners \cup {None}]
    /\ stack \in [Threads -> Seq(FrameType)]
    /\ ran \in [Fns -> Nat]
    /\ owned \in [Fns \cup Items -> Owners \cup {None}]
    /\ disposed \subseteq Items

(* What a frame has left to do goes with its program counter.               *)
FrameInv(f) ==
    /\ f.pc \in Cleaners \cup Walkers \cup {"push", "with"} => f.owner \in Owners
    /\ f.pc = "with" => f.arg \in Owners \cup {None}
    /\ f.pc = "register" => f.arg \in Items
    /\ f.pc = "take" => f.due = {}
    /\ f.pc \notin {"kids", "fns", "function"} => f.fns = <<>>
    /\ f.pc \notin {"kids", "fns", "function", "nodes"} => f.nodes = <<>>
FramesInv == \A f \in Frames : FrameInv(f)

(* What a frame alone has: functions to run, items to drop or to register   *)
Burden(f) ==
    Range(f.fns) \cup Range(f.nodes) \cup (IF f.pc = "register" THEN {f.arg} ELSE {})

(* No two frames have a function or an item in common.                      *)
Free(frames, f) == \A g \in frames : Burden(g) \cap Burden(f) = {}
Disjoint(frames) ==
    \A i, j \in DOMAIN frames : i # j => Burden(frames[i]) \cap Burden(frames[j]) = {}
Apart ==
    /\ \A t \in Threads : Disjoint(stack[t])
    /\ \A t, u \in Threads : t # u => \A f \in Range(stack[t]) : Free(Range(stack[u]), f)

(* A function is in its owner's list, or taken out of it to be run, or has  *)
(* been run, and only one of the three.                                     *)
FnListed ==
    \A o \in Owners :
        /\ IsInjective(cleanups[o])
        /\ \A x \in Range(cleanups[o]) :
              owned[x] = o /\ ran[x] = 0 /\ \A g \in Frames : x \notin Range(g.fns)
FnTaken ==
    \A g \in Frames : IsInjective(g.fns) /\ \A x \in Range(g.fns) : owned[x] # None /\ ran[x] = 0
FnPlaced ==
    \A x \in Fns : /\ ran[x] \in {0, 1}
                   /\ owned[x] = None => ran[x] = 0
                   /\ owned[x] # None => \/ x \in Range(cleanups[owned[x]]) \/ ran[x] = 1
                                         \/ \E g \in Frames : x \in Range(g.fns)
FnInv == FnListed /\ FnTaken /\ FnPlaced

(* An item in a list, or taken out of it, belongs to that list's owner and  *)
(* is in the arena, unless it has been disposed of.                         *)
ItemInv ==
    /\ \A o \in Owners : \A n \in Range(nodes[o]) :
          /\ owned[n] = o /\ (n \in DOMAIN arena \/ n \in disposed)
          /\ \A g \in Frames : n \notin Range(g.nodes)
    /\ \A g \in Frames : \A n \in Range(g.nodes) :
          owned[n] # None /\ (n \in DOMAIN arena \/ n \in disposed)
    /\ \A g \in Frames : g.pc = "register" => owned[g.arg] = None /\ g.arg \in DOMAIN arena
    /\ ItemsOwned

(* The lists of an owner that is gone are empty, or about to be taken.      *)
GoneInv ==
    \A o \in Owners : status[o] = "gone" =>
        \/ cleanups[o] = <<>> /\ nodes[o] = <<>>
        \/ \E g \in Frames : g.pc = "take" /\ g.owner = o

-----------------------------------------------------------------------------
(* On one thread                                                            *)

Lone == \A t, u \in Threads : t = u

(* Only some code calls, and an owner that is not built has no children.    *)
Below == \A t \in Threads : ~Idle(t) => \A f \in Range(Tail(stack[t])) : f.pc \in Callers
BornInv ==
    /\ Below
    /\ \A o \in held : status[o] # "unborn"
    /\ \A o \in Owners : status[o] = "unborn" => children[o] = <<>>
    /\ \A g \in Frames : g.pc = "push" =>
          status[g.owner] # "unborn" /\ parent[g.owner] # g.owner /\ children[g.owner] = <<>>

(* No owner is below itself.                                                *)
Acyclic ==
    \A o \in Owners : \E set \in SUBSET Owners :
        Closed(set) /\ LiveChildren(o) \subseteq set /\ o \notin set

(* The owners that a frame is about to clean up                             *)
ToClean(f) ==
    {c \in Owners : \/ f.pc = "take" /\ c = f.owner
                    \/ f.pc = "kids" /\ c \in Range(f.kids) /\ Alive(c)}

(* A function has run, or is in one of some frames, or with an owner that   *)
(* one of those frames will reach.                                          *)
Reached(frames, g) ==
    \/ ran[g] = 1
    \/ \E f \in frames : g \in Range(f.fns)
    \/ \A set \in SUBSET Owners :
          Closed(set) /\ (\A f \in frames : ToClean(f) \subseteq set) =>
              \E o \in set : g \in Range(cleanups[o])

(* The functions due before a frame's own have run when its own begin, and  *)
(* until then they are reached by the frames from there to the innermost.   *)
Due(frames, f) ==
    /\ f.pc = "kids" => \A g \in f.due : g \notin Range(f.fns) /\ Reached(frames, g)
    /\ f.pc \in {"fns", "function"} => \A g \in f.due : ran[g] = 1
UpTo(s, i) == {s[j] : j \in 1 .. i}
DueFrom(frames, s) == \A i \in DOMAIN s : Due(frames \cup UpTo(s, i), s[i])
DueInv == \A t \in Threads : DueFrom({}, stack[t])

(* What holds on any number of threads, and what holds on one               *)
SharedInv == Types /\ FramesInv /\ Apart /\ FnInv /\ ItemInv /\ GoneInv
LoneFacts == BornInv /\ Acyclic /\ DueInv

IInv == SharedInv /\ (Lone => LoneFacts)

-----------------------------------------------------------------------------
(* Places in a sequence that is one longer                                  *)
LEMMA OneMore ==
    \A n \in Nat : /\ \A i \in 1 .. n : i \in 1 .. n + 1 /\ i + 1 \in 1 .. n + 1
                   /\ 1 \in 1 .. n + 1 /\ n + 1 \in 1 .. n + 1
                   /\ \A i \in 1 .. n + 1 : i = 1 \/ \E j \in 1 .. n : i = j + 1
                   /\ \A i \in 1 .. n + 1 : i = n + 1 \/ i \in 1 .. n
<1>1. \A n \in Nat : \A i \in 1 .. n + 1 : i = 1 \/ (i - 1 \in 1 .. n /\ i = (i - 1) + 1)
  OBVIOUS
<1>2. \A n \in Nat : \A i \in 1 .. n + 1 : i = 1 \/ \E j \in 1 .. n : i = j + 1
  BY Zenon, <1>1
<1>3. \A n \in Nat : /\ \A i \in 1 .. n : i \in 1 .. n + 1 /\ i + 1 \in 1 .. n + 1
                     /\ 1 \in 1 .. n + 1 /\ n + 1 \in 1 .. n + 1
                     /\ \A i \in 1 .. n + 1 : i = n + 1 \/ i \in 1 .. n
  OBVIOUS
<1> QED
  BY Zenon, <1>2, <1>3

(* A sequence that is extended in front                                     *)
LEMMA Extended ==
    ASSUME NEW S, NEW s \in Seq(S), NEW x \in S
    PROVE  <<x>> \o s \in Seq(S) /\ Range(<<x>> \o s) = Range(s) \cup {x}
<1>1. DOMAIN s = 1 .. Len(s) /\ Len(s) \in Nat
  OBVIOUS
<1>2. /\ <<x>> \o s \in Seq(S) /\ DOMAIN (<<x>> \o s) = 1 .. Len(s) + 1
      /\ (<<x>> \o s)[1] = x
      /\ \A i \in 1 .. Len(s) : (<<x>> \o s)[i + 1] = s[i]
  OBVIOUS
<1>3. ASSUME NEW y \in Range(s) PROVE y \in Range(<<x>> \o s)
  <2>1. PICK i \in 1 .. Len(s) : y = s[i]
    BY Zenon, <1>1 DEF Range
  <2>2. y = (<<x>> \o s)[i + 1] /\ i + 1 \in 1 .. Len(s) + 1
    BY Zenon, <1>1, <1>2, <2>1, OneMore
  <2> QED
    BY Zenon, <1>2, <2>2 DEF Range
<1>4. x \in Range(<<x>> \o s)
  <2>1. 1 \in DOMAIN (<<x>> \o s)
    BY Zenon, <1>1, <1>2, OneMore
  <2> QED
    BY Zenon, <1>2, <2>1 DEF Range
<1>5. ASSUME NEW y \in Range(<<x>> \o s) PROVE y \in Range(s) \cup {x}
  <2>1. PICK j \in 1 .. Len(s) + 1 : y = (<<x>> \o s)[j]
    BY Zenon, <1>2 DEF Range
  <2>2. CASE j = 1
    BY Zenon, <1>2, <2>1, <2>2
  <2>3. CASE j # 1
    <3>1. PICK i \in 1 .. Len(s) : j = i + 1
      BY Zenon, <1>1, <2>3, OneMore
    <3>2. y = s[i]
      BY Zenon, <1>2, <2>1, <3>1
    <3> QED
      BY Zenon, <1>1, <3>2 DEF Range
  <2> QED
    BY Zenon, <2>2, <2>3
<1> QED
  BY Zenon, <1>2, <1>3, <1>4, <1>5

(* A sequence that is appended to                                           *)
LEMMA Appended ==
    ASSUME NEW S, NEW s \in Seq(S), NEW x \in S
    PROVE  Append(s, x) \in Seq(S) /\ Range(Append(s, x)) = Range(s) \cup {x}
<1>1. DOMAIN s = 1 .. Len(s) /\ Len(s) \in Nat
  OBVIOUS
<1>2. /\ Append(s, x) \in Seq(S) /\ DOMAIN Append(s, x) = 1 .. Len(s) + 1
      /\ Append(s, x)[Len(s) + 1] = x
      /\ \A i \in 1 .. Len(s) : Append(s, x)[i] = s[i]
  OBVIOUS
<1>3. ASSUME NEW y \in Range(s) PROVE y \in Range(Append(s, x))
  <2>1. PICK i \in 1 .. Len(s) : y = s[i]
    BY Zenon, <1>1 DEF Range
  <2>2. y = Append(s, x)[i] /\ i \in 1 .. Len(s) + 1
    BY Zenon, <1>1, <1>2, <2>1, OneMore
  <2> QED
    BY Zenon, <1>2, <2>2 DEF Range
<1>4. x \in Range(Append(s, x))
  <2>1. Len(s) + 1 \in DOMAIN Append(s, x)
    BY Zenon, <1>1, <1>2, OneMore
  <2> QED
    BY Zenon, <1>2, <2>1 DEF Range
<1>5. ASSUME NEW y \in Range(Append(s, x)) PROVE y \in Range(s) \cup {x}
  <2>1. PICK j \in 1 .. Len(s) + 1 : y = Append(s, x)[j]
    BY Zenon, <1>2 DEF Range
  <2>2. j = Len(s) + 1 \/ j \in 1 .. Len(s)
    BY Zenon, <1>1, OneMore
  <2> QED
    BY Zenon, <1>1, <1>2, <2>1, <2>2 DEF Range
<1> QED
  BY Zenon, <1>2, <1>3, <1>4, <1>5

(* A sequence that is shortened                                             *)
LEMMA Shortened ==
    ASSUME NEW S, NEW s \in Seq(S), s # <<>>
    PROVE  /\ Head(s) \in S /\ Tail(s) \in Seq(S)
           /\ Range(s) = Range(Tail(s)) \cup {Head(s)}
<1>1. /\ Head(s) \in S /\ Head(s) = s[1] /\ Tail(s) \in Seq(S)
      /\ Len(s) \in Nat \ {0} /\ Len(Tail(s)) = Len(s) - 1
      /\ \A i \in 1 .. Len(s) - 1 : Tail(s)[i] = s[i + 1]
  OBVIOUS
<1>2. Range(s) = Range(Tail(s)) \cup {Head(s)}
  <2> DEFINE n == Len(s) - 1
  <2>1. n \in Nat /\ Len(s) = n + 1 /\ DOMAIN s = 1 .. n + 1 /\ DOMAIN Tail(s) = 1 .. n
    BY <1>1
  <2>2. Head(s) = s[1] /\ \A i \in 1 .. n : Tail(s)[i] = s[i + 1]
    BY Zenon, <1>1
  <2> HIDE DEF n
  <2>3. ASSUME NEW y \in Range(s) PROVE y \in Range(Tail(s)) \cup {Head(s)}
    <3>1. PICK i \in 1 .. n + 1 : y = s[i]
      BY Zenon, <2>1 DEF Range
    <3>2. CASE i = 1
      BY Zenon, <2>2, <3>1, <3>2
    <3>3. CASE i # 1
      <4>1. PICK j \in 1 .. n : i = j + 1
        BY Zenon, OneMore, <2>1, <3>3
      <4>2. y = Tail(s)[j]
        BY Zenon, <2>2, <3>1, <4>1
      <4> QED
        BY Zenon, <2>1, <4>2 DEF Range
    <3> QED
      BY Zenon, <3>2, <3>3
  <2>4. ASSUME NEW i \in 1 .. n PROVE Tail(s)[i] \in Range(s)
    <3>1. i + 1 \in DOMAIN s
      BY Zenon, OneMore, <2>1
    <3> QED
      BY Zenon, <2>2, <3>1 DEF Range
  <2>5. 1 \in DOMAIN s
    BY Zenon, OneMore, <2>1
  <2>6. Range(Tail(s)) \subseteq Range(s) /\ Head(s) \in Range(s)
    BY Zenon, <2>1, <2>2, <2>4, <2>5 DEF Range
  <2> QED
    BY Zenon, <2>3, <2>6
<1> QED
  BY Zenon, <1>1, <1>2

(* A call stack that keeps its frames apart, with a frame more or less      *)
LEMMA Pushing ==
    ASSUME NEW S, NEW s \in Seq(S), NEW x \in S
    PROVE  /\ Disjoint(s) /\ Free(Range(s), x) => Disjoint(<<x>> \o s)
           /\ \A y \in S : <<y, x>> \o s = <<y>> \o (<<x>> \o s)
           /\ s # <<>> /\ Disjoint(s) => Disjoint(Tail(s)) /\ Free(Range(Tail(s)), Head(s))
<1>1. ASSUME Disjoint(s), Free(Range(s), x) PROVE Disjoint(<<x>> \o s)
  <2> DEFINE r == <<x>> \o s
  <2>1. r[1] = x /\ DOMAIN r = 1 .. Len(s) + 1 /\ (\A i \in 1 .. Len(s) : r[i + 1] = s[i])
    <3>1. r \in Seq(S) /\ r[1] = x /\ Len(r) = Len(s) + 1 /\ (\A i \in 1 .. Len(s) : r[i + 1] = s[i])
      OBVIOUS
    <3> QED
      BY Zenon, <3>1, LenProperties
  <2>2. SUFFICES ASSUME NEW i \in DOMAIN r, NEW j \in DOMAIN r, i # j
                 PROVE  Burden(r[i]) \cap Burden(r[j]) = {}
    BY Zenon DEF Disjoint
  <2>3. DOMAIN s = 1 .. Len(s) /\ Len(s) \in Nat
    OBVIOUS
  <2> HIDE DEF r
  <2>4. ASSUME NEW k \in DOMAIN r, k # 1 PROVE k - 1 \in DOMAIN s /\ r[k] = s[k - 1]
    <3>1. k - 1 \in 1 .. Len(s) /\ (k - 1) + 1 = k
      BY <2>1, <2>3, <2>4
    <3> QED
      BY Zenon, <2>1, <2>3, <3>1
  <2>5. CASE i = 1
    <3>1. j # 1
      BY Zenon, <2>2, <2>5
    <3>2. r[j] \in Range(s)
      BY Zenon, <2>4, <3>1 DEF Range
    <3> QED
      BY Zenon, <1>1, <2>1, <2>5, <3>2 DEF Free
  <2>6. CASE j = 1
    <3>1. i # 1
      BY Zenon, <2>2, <2>6
    <3>2. r[i] \in Range(s)
      BY Zenon, <2>4, <3>1 DEF Range
    <3> QED
      BY Zenon, <1>1, <2>1, <2>6, <3>2 DEF Free
  <2>7. CASE i # 1 /\ j # 1
    <3>1. i - 1 # j - 1
      BY <2>1, <2>2, <2>3
    <3> QED
      BY Zenon, <1>1, <2>4, <2>7, <3>1 DEF Disjoint
  <2> QED
    BY Zenon, <2>5, <2>6, <2>7
<1>2. ASSUME NEW y \in S PROVE <<y, x>> \o s = <<y>> \o (<<x>> \o s)
  <2>1. <<y, x>> = <<y>> \o <<x>> /\ <<y>> \in Seq(S) /\ <<x>> \in Seq(S)
    OBVIOUS
  <2> QED
    BY <2>1, ConcatAssociative
<1>3. ASSUME s # <<>>, Disjoint(s) PROVE Disjoint(Tail(s)) /\ Free(Range(Tail(s)), Head(s))
  <2>1. /\ Head(s) = s[1] /\ Len(s) \in Nat \ {0} /\ DOMAIN Tail(s) = 1 .. Len(s) - 1
        /\ DOMAIN s = 1 .. Len(s)
        /\ \A i \in 1 .. Len(s) - 1 : Tail(s)[i] = s[i + 1]
    BY <1>3
  <2>2. Disjoint(Tail(s))
    <3>1. SUFFICES ASSUME NEW i \in 1 .. Len(s) - 1, NEW j \in 1 .. Len(s) - 1, i # j
                   PROVE  Burden(Tail(s)[i]) \cap Burden(Tail(s)[j]) = {}
      BY Zenon, <2>1 DEF Disjoint
    <3>2. i + 1 \in DOMAIN s /\ j + 1 \in DOMAIN s /\ i + 1 # j + 1
      BY <2>1, <3>1
    <3>3. Burden(s[i + 1]) \cap Burden(s[j + 1]) = {}
      BY Zenon, <1>3, <3>2 DEF Disjoint
    <3> QED
      BY Zenon, <2>1, <3>3
  <2>3. ASSUME NEW g \in Range(Tail(s)) PROVE Burden(g) \cap Burden(Head(s)) = {}
    <3>1. PICK i \in 1 .. Len(s) - 1 : g = s[i + 1]
      BY Zenon, <2>1 DEF Range
    <3>2. i + 1 \in DOMAIN s /\ 1 \in DOMAIN s /\ i + 1 # 1
      BY <2>1
    <3>3. Burden(s[i + 1]) \cap Burden(s[1]) = {}
      BY Zenon, <1>3, <3>2 DEF Disjoint
    <3> QED
      BY Zenon, <2>1, <3>1, <3>3
  <2> QED
    BY Zenon, <2>2, <2>3 DEF Free
<1> QED
  BY Zenon, <1>1, <1>2, <1>3

(* The frames but the innermost one of a thread                             *)
Others(t) == (UNION {Range(stack[u]) : u \in Threads \ {t}}) \cup Range(Tail(stack[t]))

(* The frames after a call, a return or a change of the innermost frame,    *)
(* which keep their functions and items apart.                              *)
LEMMA Stacks ==
    ASSUME Types, NEW t \in Threads
    PROVE  /\ \A f \in FrameType : Enter(t, f) =>
                 /\ stack' \in [Threads -> Seq(FrameType)] /\ Frames' = Frames \cup {f}
                 /\ Apart /\ Free(Frames, f) => Apart'
           /\ ~Idle(t) =>
                 /\ Top(t) \in FrameType /\ Frames = Others(t) \cup {Top(t)}
                 /\ Apart => Free(Others(t), Top(t))
                 /\ \A f \in FrameType : Goto(t, f) =>
                       /\ stack' \in [Threads -> Seq(FrameType)] /\ Frames' = Others(t) \cup {f}
                       /\ Apart /\ Free(Others(t), f) => Apart'
                 /\ \A c, f \in FrameType : Call(t, c, f) =>
                       /\ stack' \in [Threads -> Seq(FrameType)] /\ Frames' = Others(t) \cup {c, f}
                       /\ Apart /\ Burden(c) = {} /\ Free(Others(t), f) => Apart'
                 /\ Return(t) =>
                       /\ stack' \in [Threads -> Seq(FrameType)] /\ Frames' = Others(t)
                       /\ Apart => Apart'
<1> DEFINE s == stack[t]
           Rest == UNION {Range(stack[u]) : u \in Threads \ {t}}
<1>1. s \in Seq(FrameType) /\ Frames = Rest \cup Range(s) /\ Others(t) = Rest \cup Range(Tail(s))
  <2>1. stack \in [Threads -> Seq(FrameType)]
    BY Zenon DEF Types
  <2>2. Frames = Rest \cup Range(s)
    BY Zenon DEF Frames
  <2>3. s \in Seq(FrameType)
    BY Zenon, <2>1
  <2>4. Others(t) = Rest \cup Range(Tail(s))
    BY Zenon DEF Others
  <2> QED
    BY Zenon, <2>2, <2>3, <2>4
<1>2. ASSUME NEW r \in Seq(FrameType), stack' = [stack EXCEPT ![t] = r]
      PROVE  /\ stack' \in [Threads -> Seq(FrameType)] /\ Frames' = Rest \cup Range(r)
             /\ Apart /\ Disjoint(r) /\ (\A f \in Range(r) : Free(Rest, f)) => Apart'
  <2>1. /\ stack' \in [Threads -> Seq(FrameType)] /\ stack'[t] = r
        /\ \A u \in Threads : u # t => stack'[u] = stack[u]
    BY Zenon, <1>2 DEF Types
  <2>2. Frames' = Rest \cup Range(r)
    BY Zenon, <2>1 DEF Frames
  <2>3. ASSUME Apart, Disjoint(r), \A f \in Range(r) : Free(Rest, f)
        PROVE  Apart'
    <3>1. ASSUME NEW u \in Threads PROVE Disjoint(stack'[u])
      BY Zenon, <2>1, <2>3 DEF Apart
    <3>2. ASSUME NEW u \in Threads, u # t, NEW f \in Range(r), NEW g \in Range(stack[u])
          PROVE  Burden(g) \cap Burden(f) = {} /\ Burden(f) \cap Burden(g) = {}
      BY Zenon, <2>3, <3>2 DEF Free
    <3>3. ASSUME NEW u \in Threads, NEW v \in Threads, u # v, NEW f \in Range(stack'[u])
          PROVE  Free(Range(stack'[v]), f)
      <4>1. CASE u = t
        BY Zenon, <2>1, <3>2, <3>3, <4>1 DEF Free
      <4>2. CASE v = t
        BY Zenon, <2>1, <3>2, <3>3, <4>2 DEF Free
      <4>3. CASE u # t /\ v # t
        BY Zenon, <2>1, <2>3, <3>3, <4>3 DEF Apart
      <4> QED
        BY Zenon, <4>1, <4>2, <4>3
    <3> QED
      BY Zenon, <3>1, <3>3 DEF Apart
  <2> QED
    BY Zenon, <2>1, <2>2, <2>3
<1>3. Apart => Disjoint(s) /\ \A f \in Range(s) : Free(Rest, f)
  BY Zenon DEF Apart, Free
<1>4. ASSUME NEW f \in FrameType, Enter(t, f)
      PROVE  /\ stack' \in [Threads -> Seq(FrameType)] /\ Frames' = Frames \cup {f}
             /\ Apart /\ Free(Frames, f) => Apart'
  <2>1. <<f>> \o s \in Seq(FrameType) /\ Range(<<f>> \o s) = Range(s) \cup {f}
    BY <1>1, Extended
  <2>2. stack' = [stack EXCEPT ![t] = <<f>> \o s]
    BY Zenon, <1>4 DEF Enter, Types
  <2>3. Free(Frames, f) => Free(Range(s), f) /\ Free(Rest, f)
    BY Zenon, <1>1 DEF Free
  <2>4. Disjoint(s) /\ Free(Range(s), f) => Disjoint(<<f>> \o s)
    BY Zenon, <1>1, Pushing
  <2> HIDE DEF s, Rest
  <2> QED
    BY Zenon, <1>1, <1>2, <1>3, <2>1, <2>2, <2>3, <2>4
<1>5. ASSUME ~Idle(t)
      PROVE  /\ Top(t) \in FrameType /\ Frames = Others(t) \cup {Top(t)}
             /\ Tail(s) \in Seq(FrameType) /\ Range(s) = Range(Tail(s)) \cup {Top(t)}
             /\ Apart => /\ Free(Others(t), Top(t)) /\ Disjoint(Tail(s))
                         /\ \A f \in Range(Tail(s)) : Free(Rest, f)
  <2>1. s # <<>> /\ Top(t) = Head(s)
    BY Zenon, <1>5 DEF Idle, Top
  <2>2. Top(t) \in FrameType /\ Tail(s) \in Seq(FrameType) /\ Range(s) = Range(Tail(s)) \cup {Top(t)}
    BY Zenon, <1>1, <2>1, Shortened
  <2>3. Disjoint(s) => Disjoint(Tail(s)) /\ Free(Range(Tail(s)), Top(t))
    BY Zenon, <1>1, <2>1, <2>2, Pushing
  <2> HIDE DEF s, Rest
  <2>4. Apart => Free(Others(t), Top(t))
    BY Zenon, <1>1, <1>3, <2>2, <2>3 DEF Free
  <2> QED
    BY Zenon, <1>1, <1>3, <2>2, <2>3, <2>4
<1>6. ASSUME ~Idle(t), NEW f \in FrameType
      PROVE  LET r == <<f>> \o Tail(s)
             IN /\ r \in Seq(FrameType) /\ Range(r) = Range(Tail(s)) \cup {f}
                /\ Apart /\ Free(Others(t), f) =>
                      Disjoint(r) /\ \A g \in Range(r) : Free(Rest, g)
  <2> DEFINE r == <<f>> \o Tail(s)
  <2>1. r \in Seq(FrameType) /\ Range(r) = Range(Tail(s)) \cup {f}
    <3>1. Tail(s) \in Seq(FrameType)
      BY Zenon, <1>5, <1>6
    <3>2. ASSUME NEW q \in Seq(FrameType)
          PROVE  <<f>> \o q \in Seq(FrameType) /\ Range(<<f>> \o q) = Range(q) \cup {f}
      BY Extended
    <3> QED
      BY Zenon, <3>1, <3>2
  <2>2. Disjoint(Tail(s)) /\ Free(Range(Tail(s)), f) => Disjoint(r)
    BY Zenon, <1>5, <1>6, Pushing
  <2>3. Free(Others(t), f) => Free(Range(Tail(s)), f) /\ Free(Rest, f)
    BY Zenon, <1>1 DEF Free
  <2> HIDE DEF s, Rest, r
  <2>4. Apart /\ Free(Others(t), f) => Disjoint(r) /\ \A g \in Range(r) : Free(Rest, g)
    BY Zenon, <1>5, <1>6, <2>1, <2>2, <2>3
  <2> QED
    BY Zenon, <2>1, <2>4 DEF r
<1>7. ASSUME ~Idle(t), NEW f \in FrameType, Goto(t, f)
      PROVE  /\ stack' \in [Threads -> Seq(FrameType)] /\ Frames' = Others(t) \cup {f}
             /\ Apart /\ Free(Others(t), f) => Apart'
  <2>1. stack' = [stack EXCEPT ![t] = <<f>> \o Tail(s)]
    BY Zenon, <1>7 DEF Goto, Types
  <2> HIDE DEF s, Rest
  <2> QED
    BY Zenon, <1>1, <1>2, <1>6, <1>7, <2>1
<1>8. ASSUME ~Idle(t), NEW c \in FrameType, NEW f \in FrameType, Call(t, c, f)
      PROVE  /\ stack' \in [Threads -> Seq(FrameType)] /\ Frames' = Others(t) \cup {c, f}
             /\ Apart /\ Burden(c) = {} /\ Free(Others(t), f) => Apart'
  <2> DEFINE r == <<f>> \o Tail(s)
  <2>1. <<c, f>> \o Tail(s) = <<c>> \o r
    BY Zenon, <1>5, <1>8, Pushing
  <2>2. stack' = [stack EXCEPT ![t] = <<c>> \o r]
    BY Zenon, <1>8, <2>1 DEF Call, Types
  <2>3. /\ r \in Seq(FrameType) /\ Range(r) = Range(Tail(s)) \cup {f}
        /\ Apart /\ Free(Others(t), f) => Disjoint(r) /\ \A g \in Range(r) : Free(Rest, g)
    BY Zenon, <1>6, <1>8
  <2>4. /\ <<c>> \o r \in Seq(FrameType) /\ Range(<<c>> \o r) = Range(r) \cup {c}
        /\ Disjoint(r) /\ Free(Range(r), c) => Disjoint(<<c>> \o r)
    <3> HIDE DEF r
    <3>1. /\ <<c>> \o r \in Seq(FrameType) /\ Range(<<c>> \o r) = Range(r) \cup {c}
      BY <2>3, Extended
    <3> QED
      BY Zenon, <2>3, <3>1, Pushing
  <2>5. Burden(c) = {} => Free(Range(r), c) /\ Free(Rest, c)
    BY Zenon DEF Free
  <2> HIDE DEF s, Rest, r
  <2>6. Frames' = Others(t) \cup {c, f} /\ stack' \in [Threads -> Seq(FrameType)]
    <3>1. Frames' = Rest \cup Range(<<c>> \o r) /\ stack' \in [Threads -> Seq(FrameType)]
      BY Zenon, <1>2, <2>2, <2>4
    <3> QED
      BY Zenon, <1>1, <2>3, <2>4, <3>1
  <2>7. ASSUME Apart, Burden(c) = {}, Free(Others(t), f) PROVE Apart'
    <3>1. Disjoint(<<c>> \o r) /\ \A g \in Range(<<c>> \o r) : Free(Rest, g)
      BY Zenon, <2>3, <2>4, <2>5, <2>7
    <3> QED
      BY Zenon, <1>2, <2>2, <2>4, <2>7, <3>1
  <2> QED
    BY Zenon, <2>6, <2>7
<1>9. ASSUME ~Idle(t), Return(t)
      PROVE  /\ stack' \in [Threads -> Seq(FrameType)] /\ Frames' = Others(t)
             /\ Apart => Apart'
  <2>1. stack' = [stack EXCEPT ![t] = Tail(s)]
    BY Zenon, <1>9 DEF Return, Types
  <2> HIDE DEF s, Rest
  <2> QED
    BY Zenon, <1>1, <1>2, <1>5, <1>9, <2>1
<1> QED
  BY Zenon, <1>4, <1>5, <1>7, <1>8, <1>9

(* Vec::retain keeps the elements that are in the set.                      *)
LEMMA Retained ==
    ASSUME NEW S, NEW s \in Seq(S), NEW keep, NEW q \in Retain(s, keep)
    PROVE  q \in Seq(S) /\ Range(q) = Range(s) \cap keep
<1> DEFINE kept == {i \in DOMAIN s : s[i] \in keep}
           Places(n) == {p \in [1 .. n -> kept] :
                           Range(p) = kept /\ \A i, j \in 1 .. n : i < j => p[i] < p[j]}
<1>0. PICK n \in 0 .. Len(s) : \E p \in Places(n) : q = [j \in DOMAIN p |-> s[p[j]]]
  BY Zenon DEF Retain
<1>1. PICK p \in Places(n) : q = [j \in DOMAIN p |-> s[p[j]]]
  BY Zenon, <1>0
<1>2. p \in [1 .. n -> kept] /\ Range(p) = kept
  BY Zenon, <1>1
<1>3. n \in Nat
  OBVIOUS
<1>4. \A i \in kept : i \in DOMAIN s /\ s[i] \in S /\ s[i] \in keep /\ s[i] \in Range(s)
  <2>1. \A i \in DOMAIN s : s[i] \in S
    OBVIOUS
  <2> QED
    BY Zenon, <2>1 DEF Range
<1>5. DOMAIN q = 1 .. n /\ \A j \in 1 .. n : q[j] = s[p[j]] /\ p[j] \in kept
  BY Zenon, <1>1, <1>2
<1>6. q \in [1 .. n -> S]
  <2>1. q = [j \in 1 .. n |-> s[p[j]]]
    BY Zenon, <1>1, <1>2
  <2> HIDE DEF kept
  <2> QED
    BY Zenon, <1>4, <1>5, <2>1
<1>7. ASSUME NEW y \in Range(s) \cap keep PROVE y \in Range(q)
  <2>1. PICK i \in kept : y = s[i]
    BY Zenon DEF Range
  <2>2. PICK j \in 1 .. n : i = p[j]
    BY Zenon, <1>2, <2>1 DEF Range
  <2> QED
    BY Zenon, <1>5, <2>1, <2>2 DEF Range
<1>8. ASSUME NEW y \in Range(q) PROVE y \in Range(s) \cap keep
  <2>1. PICK j \in DOMAIN q : y = q[j]
    BY Zenon DEF Range
  <2>2. p[j] \in kept /\ y = s[p[j]]
    BY Zenon, <1>5, <2>1
  <2> QED
    BY Zenon, <1>4, <2>2
<1>9. q \in Seq(S)
  BY <1>3, <1>6
<1> QED
  BY Zenon, <1>7, <1>8, <1>9

-----------------------------------------------------------------------------
(* A frame without functions and items, and one that has those of another   *)
Bare(f) == f.fns = <<>> /\ f.nodes = <<>>
Blank(f) == Bare(f) /\ f.pc # "register"
Like(f, h) == f.fns = h.fns /\ f.nodes = h.nodes /\ f.owner = h.owner

(* A step that hands on what the frames have                                *)
Steady ==
    /\ stack' \in [Threads -> Seq(FrameType)] /\ FramesInv' /\ Apart'
    /\ \A f \in Frames' : \/ f \in Frames \/ Blank(f)
                          \/ f.pc # "register" /\ \E h \in Frames : Like(f, h)
    /\ \A h \in Frames : \/ h \in Frames'
                         \/ h.pc # "take" /\ (Bare(h) \/ \E f \in Frames' : Like(f, h))

(* The frame of a call that has just begun                                  *)
LEMMA NewFrame ==
    ASSUME NEW pc \in Pcs, NEW o \in Owners \cup {None}
    PROVE  /\ Frame(pc, o) \in FrameType /\ Bare(Frame(pc, o))
           /\ Frame(pc, o).pc = pc /\ Frame(pc, o).owner = o /\ Frame(pc, o).due = {}
  BY DEF Frame, FrameType, Bare

(* What a blank frame has, and one that has what another had                *)
LEMMA Burdens ==
    /\ \A f : Blank(f) => Burden(f) = {}
    /\ \A f, h : Like(f, h) /\ f.pc # "register" => Burden(f) \subseteq Burden(h)
<1>1. Range(<<>>) = {}
  BY DEF Range
<1>2. ASSUME NEW f, Blank(f) PROVE Burden(f) = {}
  BY Zenon, <1>1, <1>2 DEF Blank, Bare, Burden
<1>3. ASSUME NEW f, NEW h, Like(f, h), f.pc # "register" PROVE Burden(f) \subseteq Burden(h)
  BY Zenon, <1>3 DEF Like, Burden
<1> QED
  BY Zenon, <1>2, <1>3

(* Calling, going on and returning are steady, if what the innermost frame  *)
(* has is kept.                                                             *)
LEMMA Calls ==
    ASSUME Types, FramesInv, Apart, NEW t \in Threads
    PROVE  /\ \A f \in FrameType : Enter(t, f) /\ Blank(f) /\ FrameInv(f) => Steady
           /\ ~Idle(t) /\ Top(t).pc # "take" =>
                 /\ \A f \in FrameType :
                       /\ Goto(t, f) /\ FrameInv(f)
                       /\ \/ Blank(f) /\ Bare(Top(t))
                          \/ f.pc # "register" /\ Like(f, Top(t))
                       => Steady
                 /\ \A c, f \in FrameType :
                       /\ Call(t, c, f) /\ Blank(c) /\ FrameInv(c) /\ FrameInv(f)
                       /\ f.pc # "register" /\ Like(f, Top(t))
                       => Steady
                 /\ Return(t) /\ Bare(Top(t)) => Steady
<1>1. ASSUME NEW f \in FrameType, Enter(t, f), Blank(f), FrameInv(f) PROVE Steady
  <2>1. Free(Frames, f)
    BY Zenon, <1>1, Burdens DEF Free
  <2>2. stack' \in [Threads -> Seq(FrameType)] /\ Frames' = Frames \cup {f} /\ Apart'
    BY Zenon, <1>1, <2>1, Stacks
  <2> QED
    BY Zenon, <1>1, <2>2 DEF Steady, FramesInv
<1>2. ASSUME ~Idle(t), Top(t).pc # "take" 
      PROVE  /\ Frames = Others(t) \cup {Top(t)} /\ Free(Others(t), Top(t)) /\ Top(t) \in FrameType
             /\ \A f : Burden(f) \subseteq Burden(Top(t)) => Free(Others(t), f)
  <2>1. Frames = Others(t) \cup {Top(t)} /\ Free(Others(t), Top(t)) /\ Top(t) \in FrameType
    BY Zenon, <1>2, Stacks
  <2> QED
    BY Zenon, <2>1 DEF Free
<1>3. ASSUME ~Idle(t), Top(t).pc # "take", NEW f \in FrameType, Goto(t, f), FrameInv(f),
             \/ Blank(f) /\ Bare(Top(t))
             \/ f.pc # "register" /\ Like(f, Top(t))
      PROVE  Steady
  <2>1. Burden(f) \subseteq Burden(Top(t))
    BY Zenon, <1>3, Burdens
  <2>2. Free(Others(t), f)
    BY Zenon, <1>2, <1>3, <2>1
  <2>3. stack' \in [Threads -> Seq(FrameType)] /\ Frames' = Others(t) \cup {f} /\ Apart'
    BY Zenon, <1>3, <2>2, Stacks
  <2>4. Frames = Others(t) \cup {Top(t)}
    BY Zenon, <1>2, <1>3
  <2> QED
    BY Zenon, <1>3, <2>3, <2>4 DEF Steady, FramesInv
<1>4. ASSUME ~Idle(t), Top(t).pc # "take", NEW c \in FrameType, NEW f \in FrameType, Call(t, c, f),
             Blank(c), FrameInv(c), FrameInv(f), f.pc # "register", Like(f, Top(t))
      PROVE  Steady
  <2>1. Burden(f) \subseteq Burden(Top(t)) /\ Burden(c) = {}
    BY Zenon, <1>4, Burdens
  <2>2. Free(Others(t), f)
    BY Zenon, <1>2, <1>4, <2>1
  <2>3. stack' \in [Threads -> Seq(FrameType)] /\ Frames' = Others(t) \cup {c, f} /\ Apart'
    BY Zenon, <1>4, <2>1, <2>2, Stacks
  <2>4. Frames = Others(t) \cup {Top(t)}
    BY Zenon, <1>2, <1>4
  <2> QED
    BY Zenon, <1>4, <2>3, <2>4 DEF Steady, FramesInv
<1>5. ASSUME ~Idle(t), Top(t).pc # "take", Return(t), Bare(Top(t)) PROVE Steady
  <2>1. stack' \in [Threads -> Seq(FrameType)] /\ Frames' = Others(t) /\ Apart'
    BY Zenon, <1>5, Stacks
  <2>2. Frames = Others(t) \cup {Top(t)}
    BY Zenon, <1>2, <1>5
  <2> QED
    BY Zenon, <1>5, <2>1, <2>2 DEF Steady, FramesInv
<1> QED
  BY Zenon, <1>1, <1>3, <1>4, <1>5

(* What is in a list                                                        *)
LEMMA Elements == \A S : \A s \in Seq(S) : Range(s) \subseteq S
  BY DEF Range

(* What is in the frames and the lists                                      *)
LEMMA Contents ==
    ASSUME Types
    PROVE  /\ \A g \in Frames : g \in FrameType /\ Range(g.fns) \subseteq Fns /\ Range(g.nodes) \subseteq Items
           /\ \A o \in Owners : /\ Range(cleanups[o]) \subseteq Fns /\ Range(nodes[o]) \subseteq Items
                               /\ Range(children[o]) \subseteq Owners
<1>1. \A S : \A s \in Seq(S) : Range(s) \subseteq S
  BY Zenon, Elements
<1>2. ASSUME NEW g \in Frames
      PROVE  g \in FrameType /\ Range(g.fns) \subseteq Fns /\ Range(g.nodes) \subseteq Items
  <2>1. PICK t \in Threads : g \in Range(stack[t])
    BY Zenon DEF Frames
  <2>2. g \in FrameType
    BY Zenon, <1>1, <2>1 DEF Types
  <2>3. g.fns \in Seq(Fns) /\ g.nodes \in Seq(Items)
    BY Zenon, <2>2 DEF FrameType
  <2> QED
    BY Zenon, <1>1, <2>2, <2>3
<1>3. ASSUME NEW o \in Owners
      PROVE  /\ Range(cleanups[o]) \subseteq Fns /\ Range(nodes[o]) \subseteq Items
             /\ Range(children[o]) \subseteq Owners
  <2>1. cleanups[o] \in Seq(Fns) /\ nodes[o] \in Seq(Items) /\ children[o] \in Seq(Owners)
    BY Zenon DEF Types
  <2> QED
    BY Zenon, <1>1, <2>1
<1> QED
  BY Zenon, <1>2, <1>3

(* A step that hands on the functions of the frames, and leaves those in    *)
(* the lists alone                                                          *)
LEMMA FnKept ==
    ASSUME Types, FnInv, UNCHANGED <<cleanups, ran>>, \A x \in Fns : owned'[x] = owned[x],
           \A f \in Frames' : f.fns = <<>> \/ \E h \in Frames : f.fns = h.fns,
           \A h \in Frames : h.fns = <<>> \/ \E f \in Frames' : f.fns = h.fns
    PROVE  FnInv'
<1>0. Range(<<>>) = {} /\ IsInjective(<<>>)
  BY DEF Range, IsInjective
<1>1. ASSUME NEW f \in Frames'
      PROVE  IsInjective(f.fns) /\ \A x \in Range(f.fns) : owned'[x] # None /\ ran[x] = 0
  <2>1. CASE f.fns = <<>>
    BY Zenon, <1>0, <2>1
  <2>2. CASE f.fns # <<>>
    <3>1. PICK h \in Frames : f.fns = h.fns
      BY Zenon, <2>2
    <3>2. \A x \in Range(h.fns) : owned'[x] = owned[x]
      BY Zenon, Contents
    <3> QED
      BY Zenon, <3>1, <3>2 DEF FnInv, FnTaken
  <2> QED
    BY Zenon, <2>1, <2>2
<1>2. ASSUME NEW o \in Owners, NEW x \in Range(cleanups[o])
      PROVE  owned'[x] = o /\ ran[x] = 0 /\ \A g \in Frames' : x \notin Range(g.fns)
  <2>1. x \in Fns
    BY Zenon, Contents
  <2> QED
    BY Zenon, <1>0, <2>1 DEF FnInv, FnListed
<1>3. ASSUME NEW x \in Fns, owned[x] # None
      PROVE  \/ x \in Range(cleanups[owned[x]]) \/ ran[x] = 1
             \/ \E g \in Frames' : x \in Range(g.fns)
  BY Zenon, <1>0, <1>3 DEF FnInv, FnPlaced
<1>4. FnListed'
  BY Zenon, <1>2 DEF FnInv, FnListed
<1>5. FnTaken'
  BY Zenon, <1>1 DEF FnTaken
<1>6. FnPlaced'
  BY Zenon, <1>3 DEF FnInv, FnPlaced
<1> QED
  BY Zenon, <1>4, <1>5, <1>6 DEF FnInv

(* A step that hands on the items of the frames, and leaves those in the    *)
(* lists alone                                                              *)
LEMMA ItemKept ==
    ASSUME Types, FramesInv, ItemInv, UNCHANGED <<nodes, arena, disposed>>,
           \A n \in Items : owned'[n] = owned[n],
           \A f \in Frames' : f.nodes = <<>> \/ \E h \in Frames : f.nodes = h.nodes,
           \A h \in Frames : h.nodes = <<>> \/ \E f \in Frames' : f.nodes = h.nodes /\ f.owner = h.owner,
           \A f \in Frames' : f.pc = "register" => f \in Frames
    PROVE  ItemInv'
<1>0. Range(<<>>) = {}
  BY DEF Range
<1>1. ASSUME NEW o \in Owners, NEW n \in Range(nodes[o])
      PROVE  /\ owned'[n] = o /\ (n \in DOMAIN arena \/ n \in disposed)
             /\ \A g \in Frames' : n \notin Range(g.nodes)
  <2>1. n \in Items
    BY Zenon, Contents
  <2> QED
    BY Zenon, <1>0, <2>1 DEF ItemInv
<1>2. ASSUME NEW g \in Frames', NEW n \in Range(g.nodes)
      PROVE  owned'[n] # None /\ (n \in DOMAIN arena \/ n \in disposed)
  <2>1. PICK h \in Frames : n \in Range(h.nodes)
    BY Zenon, <1>0, <1>2
  <2>2. n \in Items
    BY Zenon, <2>1, Contents
  <2> QED
    BY Zenon, <2>1, <2>2 DEF ItemInv
<1>3. ASSUME NEW g \in Frames', g.pc = "register"
      PROVE  owned'[g.arg] = None /\ g.arg \in DOMAIN arena
  <2>1. g \in Frames /\ g.arg \in Items
    BY Zenon, <1>3 DEF FramesInv, FrameInv
  <2> QED
    BY Zenon, <1>3, <2>1 DEF ItemInv
<1>4. ASSUME NEW n \in DOMAIN arena, owned'[n] # None
      PROVE  \/ n \in Range(nodes[owned'[n]])
             \/ \E f \in Frames' : f.owner = owned'[n] /\ n \in Range(f.nodes)
  <2>1. n \in Items /\ owned'[n] = owned[n]
    BY Zenon DEF Types
  <2>2. CASE n \in Range(nodes[owned[n]])
    BY Zenon, <2>1, <2>2
  <2>3. CASE n \notin Range(nodes[owned[n]])
    <3>1. PICK h \in Frames : h.owner = owned[n] /\ n \in Range(h.nodes)
      BY Zenon, <1>4, <2>1, <2>3 DEF ItemInv, ItemsOwned
    <3> QED
      BY Zenon, <1>0, <2>1, <3>1
  <2> QED
    BY Zenon, <2>2, <2>3
<1>5. ItemsOwned'
  BY Zenon, <1>4 DEF ItemsOwned
<1> QED
  BY Zenon, <1>1, <1>2, <1>3, <1>5 DEF ItemInv

(* A steady step preserves what the invariant says of functions and items.  *)
LEMMA Steadily ==
    ASSUME Types, FramesInv, Steady
    PROVE  /\ FnInv /\ UNCHANGED <<cleanups, ran>> /\ (\A x \in Fns : owned'[x] = owned[x]) => FnInv'
           /\ ItemInv /\ UNCHANGED <<nodes, arena, disposed>> /\ (\A n \in Items : owned'[n] = owned[n])
              => ItemInv'
           /\ GoneInv /\ UNCHANGED <<cleanups, nodes>>
                /\ (\A o \in Owners : status'[o] = "gone" =>
                       status[o] = "gone" \/ \E g \in Frames' : g.pc = "take" /\ g.owner = o)
              => GoneInv'
<1>1. /\ \A f \in Frames' : f.fns = <<>> \/ \E h \in Frames : f.fns = h.fns
      /\ \A h \in Frames : h.fns = <<>> \/ \E f \in Frames' : f.fns = h.fns
  BY Zenon DEF Steady, Blank, Bare, Like
<1>2. /\ \A f \in Frames' : f.nodes = <<>> \/ \E h \in Frames : f.nodes = h.nodes
      /\ \A h \in Frames : h.nodes = <<>> \/ \E f \in Frames' : f.nodes = h.nodes /\ f.owner = h.owner
      /\ \A f \in Frames' : f.pc = "register" => f \in Frames
  BY Zenon DEF Steady, Blank, Bare, Like
<1>3. GoneInv /\ UNCHANGED <<cleanups, nodes>>
        /\ (\A o \in Owners : status'[o] = "gone" =>
               status[o] = "gone" \/ \E g \in Frames' : g.pc = "take" /\ g.owner = o)
      => GoneInv'
  BY Zenon DEF GoneInv, Steady
<1> QED
  BY Zenon, <1>1, <1>2, <1>3, FnKept, ItemKept

(* A frame that goes on                                                     *)
LEMMA Onward ==
    ASSUME NEW h \in FrameType
    PROVE  /\ \A pc \in Pcs : LET f == [h EXCEPT !.pc = pc]
                 IN f \in FrameType /\ Like(f, h) /\ f.pc = pc /\ f.arg = h.arg /\ f.due = h.due
                    /\ f.kids = h.kids
           /\ \A kids \in Seq(Owners) : LET f == [h EXCEPT !.kids = kids]
                 IN f \in FrameType /\ Like(f, h) /\ f.pc = h.pc /\ f.arg = h.arg /\ f.due = h.due
                    /\ f.kids = kids
           /\ \A items \in Seq(Owners \cup {None}) : LET f == [h EXCEPT !.items = items]
                 IN f \in FrameType /\ Like(f, h) /\ f.pc = h.pc /\ f.arg = h.arg /\ f.due = h.due
                    /\ f.kids = h.kids
  BY DEF FrameType, Like

(* A steady step that leaves the lists, the functions and the items alone   *)
Calm ==
    /\ Steady /\ UNCHANGED <<lists, arena, ran, history>>
    /\ \A o \in Owners : status'[o] = "gone" =>
          status[o] = "gone" \/ \E g \in Frames' : g.pc = "take" /\ g.owner = o

(* Calm steps keep the invariant.                                           *)
LEMMA Calmly ==
    ASSUME SharedInv, Calm,
           status' \in [Owners -> {"unborn", "live", "gone"}], held' \subseteq Owners,
           parent' \in [Owners -> Owners \cup {None}], children' \in [Owners -> Seq(Owners)],
           paused' \in [Owners -> BOOLEAN], current' \in [Threads -> Owners \cup {None}]
    PROVE  SharedInv'
<1>1. Types'
  BY Zenon DEF SharedInv, Types, Calm, Steady, lists, history
<1>2. FnInv' /\ ItemInv' /\ GoneInv'
  BY Zenon, Steadily DEF SharedInv, Calm, lists, history
<1> QED
  BY Zenon, <1>1, <1>2 DEF SharedInv, Calm, Steady

(* The calls that user code makes, but for those that register or dispose   *)
LEMMA CallSteps ==
    ASSUME SharedInv, NEW t \in Threads, NEW o \in Owners,
           \/ New(t, o) \/ With(t, o) \/ DropHandle(t, o) \/ Cleanup(t, o)
           \/ Walk(t, o, "pause") \/ Walk(t, o, "resume")
    PROVE  SharedInv'
<1> USE DEF SharedInv
<1>1. /\ status' \in [Owners -> {"unborn", "live", "gone"}] /\ held' \subseteq Owners
      /\ parent' \in [Owners -> Owners \cup {None}] /\ children' = children
      /\ paused' = paused /\ current' \in [Threads -> Owners \cup {None}]
      /\ \A p \in Owners : status'[p] = "gone" => status[p] = "gone"
      /\ UNCHANGED <<lists, arena, ran, history>>
  <2>1. CASE New(t, o)
    <3>1. Current(t) \in Owners \cup {None}
      BY Zenon DEF Current, Types
    <3> QED
      BY Zenon, <2>1, <3>1 DEF New, Types, history
  <2>2. CASE With(t, o)
    BY Zenon, <2>2 DEF With, Types, tree, history
  <2>3. CASE DropHandle(t, o)
    BY Zenon, <2>3 DEF DropHandle, Types, tree, history
  <2>4. CASE Cleanup(t, o)
    BY Zenon, <2>4 DEF Cleanup, Types, tree, history
  <2>5. CASE Walk(t, o, "pause") \/ Walk(t, o, "resume")
    BY Zenon, <2>5 DEF Walk, Types, tree, history
  <2> QED
    BY Zenon, <2>1, <2>2, <2>3, <2>4, <2>5
<1>2. \E f \in FrameType : Enter(t, f) /\ Blank(f) /\ FrameInv(f)
  <2>0. /\ \A pc \in {"push", "with", "release", "take", "pause", "resume"} : pc \in Pcs
        /\ o \in Owners \cup {None}
    BY Zenon DEF Pcs, Callers, Cleaners, Walkers
  <2>1. ASSUME NEW pc \in {"push", "release", "take"}
        PROVE  Frame(pc, o) \in FrameType /\ Blank(Frame(pc, o)) /\ FrameInv(Frame(pc, o))
    <3> DEFINE f == Frame(pc, o)
    <3>0. pc \in Pcs
      BY Zenon, <2>0
    <3>1. f \in FrameType /\ f.pc = pc /\ f.owner = o /\ Bare(f) /\ f.due = {}
      BY Zenon, <2>0, <3>0, NewFrame
    <3> HIDE DEF f
    <3>2. Blank(f) /\ FrameInv(f)
      BY Zenon, <3>1 DEF Blank, Bare, FrameInv
    <3> QED
      BY Zenon, <3>1, <3>2 DEF f
  <2>2. CASE New(t, o) \/ DropHandle(t, o) \/ Cleanup(t, o)
    BY Zenon, <2>1, <2>2 DEF New, DropHandle, Cleanup
  <2>3. CASE With(t, o)
    <3> DEFINE h == Frame("with", o)
               f == [h EXCEPT !.arg = current[t]]
    <3>1. h \in FrameType /\ h.pc = "with" /\ h.owner = o /\ Bare(h)
      BY Zenon, <2>0, NewFrame
    <3>2. current[t] \in Owners \cup {None}
      BY Zenon DEF Types
    <3> HIDE DEF h
    <3>3. f \in FrameType /\ f.pc = "with" /\ f.owner = o /\ Bare(f) /\ f.arg = current[t]
      BY <3>1, <3>2 DEF FrameType, Bare
    <3>4. Enter(t, f)
      BY Zenon, <2>3 DEF With, h
    <3> HIDE DEF f
    <3>5. Blank(f) /\ FrameInv(f)
      BY Zenon, <3>2, <3>3 DEF Blank, Bare, FrameInv
    <3> QED
      BY Zenon, <3>3, <3>4, <3>5
  <2>4. ASSUME NEW pc \in {"pause", "resume"}, Walk(t, o, pc)
        PROVE  \E f \in FrameType : Enter(t, f) /\ Blank(f) /\ FrameInv(f)
    <3> DEFINE h == Frame(pc, o)
               f == [h EXCEPT !.kids = <<o>>]
    <3>0. pc \in Pcs
      BY Zenon, <2>0
    <3>1. h \in FrameType /\ h.pc = pc /\ h.owner = o /\ Bare(h)
      BY Zenon, <2>0, <3>0, NewFrame
    <3>2. <<o>> \in Seq(Owners)
      OBVIOUS
    <3> HIDE DEF h
    <3>3. f \in FrameType /\ f.pc = pc /\ f.owner = o /\ Bare(f)
      BY <3>1, <3>2 DEF FrameType, Bare
    <3>4. Enter(t, f)
      BY Zenon, <2>4 DEF Walk, h
    <3> HIDE DEF f
    <3>5. Blank(f) /\ FrameInv(f)
      BY Zenon, <3>2, <3>3 DEF Blank, Bare, FrameInv
    <3> QED
      BY Zenon, <3>3, <3>4, <3>5
  <2> QED
    BY Zenon, <2>2, <2>3, <2>4
<1>3. Steady
  BY Zenon, <1>2, Calls
<1>4. Calm
  BY Zenon, <1>1, <1>3 DEF Calm
<1>5. children' \in [Owners -> Seq(Owners)] /\ paused' \in [Owners -> BOOLEAN]
  BY Zenon, <1>1 DEF Types
<1> QED
  BY Zenon, <1>1, <1>4, <1>5, Calmly

(* What a walk of the tree has left                                         *)
LEMMA Walked ==
    ASSUME Types, NEW t \in Threads, WalkStep(t), Top(t) \in FrameType
    PROVE  \/ Goto(t, Frame("release", Top(t).owner))
           \/ \E kids \in Seq(Owners) : Goto(t, [Top(t) EXCEPT !.kids = kids])
<1>1. PICK h \in FrameType : h = Top(t)
  BY Zenon
<1>2. PICK s \in Seq(Owners) : s = h.kids
  BY Zenon DEF FrameType
<1>3. s # <<>> => SubSeq(s, 1, Len(s) - 1) \in Seq(Owners) /\ s[Len(s)] \in Owners
  OBVIOUS
<1>4. s # <<>> => SubSeq(s, 1, Len(s) - 1) \o children[s[Len(s)]] \in Seq(Owners)
  <2>1. s # <<>> => children[s[Len(s)]] \in Seq(Owners)
    BY Zenon, <1>3 DEF Types
  <2> QED
    BY <1>3, <2>1
<1>5. \/ Goto(t, Frame("release", h.owner))
      \/ s # <<>> /\ Goto(t, [h EXCEPT !.kids = SubSeq(s, 1, Len(s) - 1)])
      \/ s # <<>> /\ Goto(t, [h EXCEPT !.kids = SubSeq(s, 1, Len(s) - 1) \o children[s[Len(s)]]])
  BY Zenon, <1>1, <1>2 DEF WalkStep
<1> QED
  BY Zenon, <1>1, <1>3, <1>4, <1>5

(* The steps of calls that only hand on what their frame has                *)
LEMMA HandOnSteps ==
    ASSUME SharedInv, NEW t \in Threads,
           \/ EndWith(t) \/ PushChild(t) \/ Release(t) \/ NextChild(t) \/ EndFn(t)
           \/ DropItem(t) \/ WalkStep(t)
    PROVE  SharedInv'
<1> USE DEF SharedInv
<1> DEFINE h == Top(t)
<1>1. ~Idle(t) /\ h \in FrameType /\ h \in Frames /\ FrameInv(h)
  <2>1. ~Idle(t)
    BY Zenon DEF EndWith, PushChild, Release, NextChild, EndFn, DropItem, WalkStep, At
  <2>2. h \in FrameType /\ h \in Frames
    BY Zenon, <2>1, Stacks
  <2> QED
    BY Zenon, <2>1, <2>2 DEF FramesInv
<1>2. /\ h.owner \in Owners \cup {None} /\ h.kids \in Seq(Owners) /\ h.fns \in Seq(Fns)
      /\ h.items \in Seq(Owners \cup {None}) /\ h.arg \in Owners \cup Items \cup {None}
  BY Zenon, <1>1 DEF FrameType
<1>3. \A pc \in {"release", "take", "fns", "kids", "items", "pause", "resume"} : pc \in Pcs /\ pc # "register"
  BY Zenon DEF Pcs, Callers, Cleaners, Walkers
<1>4. ASSUME NEW pc \in {"release", "take"}, NEW o \in Owners \cup {None}, pc = "take" => o \in Owners
      PROVE  Frame(pc, o) \in FrameType /\ Blank(Frame(pc, o)) /\ FrameInv(Frame(pc, o))
  <2> DEFINE f == Frame(pc, o)
  <2>1. pc \in Pcs
    BY Zenon, <1>3
  <2>2. f \in FrameType /\ f.pc = pc /\ f.owner = o /\ Bare(f) /\ f.due = {}
    BY Zenon, <2>1, NewFrame
  <2> HIDE DEF f
  <2>3. Blank(f) /\ FrameInv(f)
    BY Zenon, <1>4, <2>2 DEF Blank, Bare, FrameInv, Cleaners, Walkers
  <2> QED
    BY Zenon, <2>2, <2>3 DEF f
<1> HIDE DEF h
<1>5. Bare(h) /\ h.pc # "take" /\ Goto(t, Frame("release", h.owner)) => Steady
  BY Zenon, <1>1, <1>2, <1>4, Calls DEF h
<1>6. ASSUME NEW f \in FrameType, Like(f, h), f.pc \in {"fns", "kids", "items", "pause", "resume"},
             h.pc = f.pc \/ (f.pc = "fns" /\ h.pc \in {"kids", "function"}), Goto(t, f)
      PROVE  Steady
  <2>1. h.pc # "take" /\ f.pc # "register"
    BY Zenon, <1>6
  <2>2. FrameInv(f)
    BY Zenon, <1>1, <1>6 DEF FrameInv, Like, Cleaners, Walkers
  <2> QED
    BY Zenon, <1>1, <1>6, <2>1, <2>2, Calls DEF h
<1>7. CASE EndWith(t)
  <2>1. h.pc = "with" /\ Goto(t, Frame("release", h.owner))
        /\ current' = [current EXCEPT ![t] = h.arg]
        /\ UNCHANGED <<status, held, tree, lists, paused, arena, ran, history>>
    BY Zenon, <1>7 DEF EndWith, At, h
  <2>2. Bare(h) /\ h.arg \in Owners \cup {None}
    BY Zenon, <1>1, <2>1 DEF FrameInv, Bare
  <2>3. Calm
    BY Zenon, <1>5, <2>1, <2>2 DEF Calm
  <2> QED
    BY Zenon, <2>1, <2>2, <2>3, Calmly DEF Types, tree
<1>8. CASE PushChild(t)
  <2>1. h.pc = "push" /\ Return(t) /\ h.owner \in Owners /\ Bare(h)
    BY Zenon, <1>1, <1>8 DEF PushChild, At, FrameInv, Bare, h
  <2>2. Steady
    BY Zenon, <1>1, <2>1, Calls DEF h
  <2>3. Calm
    BY Zenon, <1>8, <2>2 DEF Calm, PushChild
  <2>4. children' \in [Owners -> Seq(Owners)]
    <3> DEFINE p == parent[h.owner]
    <3>1. CASE ~Alive(p)
      BY Zenon, <1>8, <3>1 DEF PushChild, Types, h
    <3>2. CASE Alive(p)
      <4>1. p \in Owners /\ children[p] \in Seq(Owners)
        BY Zenon, <2>1, <3>2 DEF Types, Alive
      <4>2. PICK kept \in Pruned(children[p]) : children' = [children EXCEPT ![p] = Append(kept, h.owner)]
        BY Zenon, <1>8, <3>2 DEF PushChild, h
      <4>3. kept \in Seq(Owners)
        BY Zenon, <4>1, <4>2, Retained DEF Pruned
      <4>4. Append(kept, h.owner) \in Seq(Owners)
        BY Zenon, <2>1, <4>3, AppendProperties
      <4> QED
        BY Zenon, <4>1, <4>2, <4>4 DEF Types
    <3> QED
      BY Zenon, <3>1, <3>2
  <2>5. held' \subseteq Owners /\ UNCHANGED <<status, parent, paused, current>>
    BY Zenon, <1>8, <2>1 DEF PushChild, Types, h
  <2> QED
    BY Zenon, <2>3, <2>4, <2>5, Calmly DEF Types
<1>9. CASE Release(t)
  <2>1. /\ h.pc = "release" /\ UNCHANGED <<held, tree, lists, paused, arena, current, ran, history>>
        /\ \/ Return(t) /\ UNCHANGED status
           \/ /\ h.owner # None /\ status' = [status EXCEPT ![h.owner] = "gone"]
              /\ Goto(t, [Frame("take", h.owner) EXCEPT !.drop = TRUE])
    BY Zenon, <1>9 DEF Release, At, h
  <2>2. Bare(h)
    BY Zenon, <1>1, <2>1 DEF FrameInv, Bare
  <2>3. CASE Return(t) /\ UNCHANGED status
    <3>1. Calm
      BY Zenon, <1>1, <2>1, <2>2, <2>3, Calls DEF Calm, h
    <3> QED
      BY Zenon, <2>1, <2>3, <3>1, Calmly DEF Types, tree
  <2>4. CASE /\ h.owner # None /\ status' = [status EXCEPT ![h.owner] = "gone"]
             /\ Goto(t, [Frame("take", h.owner) EXCEPT !.drop = TRUE])
    <3>1. h.owner \in Owners
      BY Zenon, <1>2, <2>4
    <3>2. PICK p \in Owners : p = h.owner
      BY Zenon, <3>1
    <3> DEFINE g == Frame("take", p)
               f == [g EXCEPT !.drop = TRUE]
    <3>3. g \in FrameType /\ g.pc = "take" /\ g.owner = h.owner /\ Bare(g) /\ g.due = {}
      <4>1. "take" \in Pcs /\ p \in Owners \cup {None}
        BY Zenon, <1>3
      <4> QED
        BY Zenon, <3>2, <4>1, NewFrame
    <3> HIDE DEF g
    <3>4. f \in FrameType /\ f.pc = "take" /\ f.owner = h.owner /\ Bare(f) /\ f.due = {}
      BY <3>3 DEF FrameType, Bare
    <3>5. Goto(t, f)
      BY Zenon, <2>4, <3>2 DEF g
    <3> HIDE DEF f
    <3>6. Blank(f) /\ FrameInv(f)
      BY Zenon, <3>1, <3>4 DEF Blank, Bare, FrameInv, Walkers
    <3>7. Steady /\ f \in Frames'
      <4>1. Frames' = Others(t) \cup {f}
        BY Zenon, <1>1, <3>4, <3>5, Stacks
      <4>2. Steady
        BY Zenon, <1>1, <2>1, <2>2, <3>4, <3>5, <3>6, Calls DEF h
      <4> QED
        BY Zenon, <4>1, <4>2
    <3>8. /\ status' \in [Owners -> {"unborn", "live", "gone"}]
          /\ \A o \in Owners : status'[o] = "gone" => status[o] = "gone" \/ o = h.owner
      BY Zenon, <2>4, <3>1 DEF Types
    <3>9. Calm
      BY Zenon, <2>1, <3>4, <3>7, <3>8 DEF Calm
    <3> QED
      BY Zenon, <2>1, <3>8, <3>9, Calmly DEF Types, tree
  <2> QED
    BY Zenon, <2>1, <2>3, <2>4
<1>10. CASE NextChild(t) \/ EndFn(t) \/ DropItem(t) \/ WalkStep(t)
  <2>1. UNCHANGED <<status, held, tree, lists, arena, current, ran, history>>
    BY Zenon, <1>10 DEF NextChild, EndFn, DropItem, WalkStep
  <2>2. Steady
    <3>1. CASE NextChild(t)
      <4>1. h.pc = "kids"
        BY Zenon, <3>1 DEF NextChild, At, h
      <4>2. CASE h.kids = <<>>
        <5> DEFINE f == [h EXCEPT !.pc = "fns"]
        <5>1. f \in FrameType /\ Like(f, h) /\ f.pc = "fns"
          BY Zenon, <1>1, <1>3, Onward
        <5>2. Goto(t, f)
          BY Zenon, <3>1, <4>2 DEF NextChild, h
        <5> HIDE DEF f
        <5> QED
          BY Zenon, <1>6, <4>1, <5>1, <5>2
      <4>3. CASE h.kids # <<>>
        <5> DEFINE f == [h EXCEPT !.kids = Tail(h.kids)]
                   c == Head(h.kids)
        <5>1. Tail(h.kids) \in Seq(Owners) /\ c \in Owners
          BY Zenon, <1>2, <4>3, Shortened
        <5>2. f \in FrameType /\ Like(f, h) /\ f.pc = "kids"
          BY Zenon, <1>1, <4>1, <5>1, Onward
        <5>3. Goto(t, f) \/ Call(t, Frame("take", c), f)
          BY Zenon, <3>1, <4>3 DEF NextChild, h
        <5>4. Frame("take", c) \in FrameType /\ Blank(Frame("take", c)) /\ FrameInv(Frame("take", c))
          BY Zenon, <1>4, <5>1
        <5> HIDE DEF f, c
        <5>5. FrameInv(f)
          BY Zenon, <1>1, <4>1, <5>2 DEF FrameInv, Like, Cleaners
        <5>6. CASE Goto(t, f)
          BY Zenon, <1>6, <4>1, <5>2, <5>6
        <5>7. CASE Call(t, Frame("take", c), f)
          BY Zenon, <1>1, <4>1, <5>2, <5>4, <5>5, <5>7, Calls DEF h
        <5> QED
          BY Zenon, <5>3, <5>6, <5>7
      <4> QED
        BY Zenon, <4>2, <4>3
    <3>2. CASE EndFn(t)
      <4> DEFINE f == [h EXCEPT !.pc = "fns"]
      <4>1. f \in FrameType /\ Like(f, h) /\ f.pc = "fns"
        BY Zenon, <1>1, <1>3, Onward
      <4>2. Goto(t, f) /\ h.pc = "function"
        BY Zenon, <3>2 DEF EndFn, At, h
      <4> HIDE DEF f
      <4> QED
        BY Zenon, <1>6, <4>1, <4>2
    <3>3. CASE DropItem(t)
      <4>1. h.pc = "items" /\ Bare(h) /\ h.pc # "take"
        BY Zenon, <1>1, <3>3 DEF DropItem, At, FrameInv, Bare, h
      <4>2. CASE h.items # <<>>
        <5> DEFINE f == [h EXCEPT !.items = Tail(h.items)]
                   c == Frame("release", Head(h.items))
        <5>1. Tail(h.items) \in Seq(Owners \cup {None}) /\ Head(h.items) \in Owners \cup {None}
          BY Zenon, <1>2, <4>2, Shortened
        <5>2. f \in FrameType /\ Like(f, h) /\ f.pc = "items"
          BY Zenon, <1>1, <4>1, <5>1, Onward
        <5>3. Call(t, c, f)
          BY Zenon, <3>3, <4>2 DEF DropItem, h
        <5>4. c \in FrameType /\ Blank(c) /\ FrameInv(c)
          BY Zenon, <1>4, <5>1
        <5> HIDE DEF f, c
        <5>5. FrameInv(f)
          BY Zenon, <1>1, <4>1, <5>2 DEF FrameInv, Like, Cleaners
        <5> QED
          BY Zenon, <1>1, <4>1, <5>2, <5>3, <5>4, <5>5, Calls DEF h
      <4>3. CASE h.items = <<>>
        <5>1. Return(t) \/ Goto(t, Frame("release", h.owner))
          BY Zenon, <3>3, <4>3 DEF DropItem, h
        <5>2. Return(t) => Steady
          BY Zenon, <1>1, <4>1, Calls DEF h
        <5> QED
          BY Zenon, <1>5, <4>1, <5>1, <5>2
      <4> QED
        BY Zenon, <4>2, <4>3
    <3>4. CASE WalkStep(t)
      <4>1. h.pc \in {"pause", "resume"} /\ Bare(h) /\ h.pc # "take"
        BY Zenon, <1>1, <3>4 DEF WalkStep, At, FrameInv, Bare, h
      <4>2. \/ Goto(t, Frame("release", h.owner))
            \/ \E kids \in Seq(Owners) : Goto(t, [h EXCEPT !.kids = kids])
        BY Zenon, <1>1, <3>4, Walked DEF h
      <4>3. ASSUME NEW kids \in Seq(Owners), Goto(t, [h EXCEPT !.kids = kids]) PROVE Steady
        <5> DEFINE f == [h EXCEPT !.kids = kids]
        <5>1. f \in FrameType /\ Like(f, h) /\ f.pc = h.pc
          BY Zenon, <1>1, Onward
        <5>2. Goto(t, f)
          BY Zenon, <4>3
        <5> HIDE DEF f
        <5> QED
          BY Zenon, <1>6, <4>1, <5>1, <5>2
      <4> QED
        BY Zenon, <1>2, <1>5, <4>1, <4>2, <4>3
    <3> QED
      BY Zenon, <1>10, <3>1, <3>2, <3>3, <3>4
  <2>3. paused' \in [Owners -> BOOLEAN]
    <3>1. CASE WalkStep(t)
      <4> DEFINE on == At(t, "pause")
      <4>1. on \in BOOLEAN
        BY DEF At
      <4>2. paused' = paused \/ \E o \in Owners : paused' = [paused EXCEPT ![o] = on]
        <5>1. h.kids # <<>> => h.kids[Len(h.kids)] \in Owners
          <6>1. ASSUME NEW s \in Seq(Owners), s # <<>> PROVE s[Len(s)] \in Owners
            BY <6>1
          <6> QED
            BY Zenon, <1>2, <6>1
        <5> QED
          BY Zenon, <3>1, <5>1 DEF WalkStep, h
      <4> HIDE DEF on
      <4> QED
        BY Zenon, <4>1, <4>2 DEF Types
    <3>2. CASE ~WalkStep(t)
      BY Zenon, <1>10, <3>2 DEF Types, NextChild, EndFn, DropItem
    <3> QED
      BY Zenon, <3>1, <3>2
  <2>4. Calm
    BY Zenon, <2>1, <2>2 DEF Calm
  <2> QED
    BY Zenon, <2>1, <2>3, <2>4, Calmly DEF Types, tree
<1> QED
  BY Zenon, <1>7, <1>8, <1>9, <1>10

(* Owner::child changes no list that the shared invariant is about.         *)
LEMMA ChildStep ==
    ASSUME SharedInv, NEW t \in Threads, NEW p \in Owners, NEW o \in Owners, Child(t, p, o)
    PROVE  SharedInv'
<1> USE DEF SharedInv
<1>1. Frames' = Frames /\ UNCHANGED <<lists, arena, ran, history, stack>>
  BY Zenon DEF Child, Frames, history
<1>2. PICK kept \in Pruned(children[p]) : children' = [children EXCEPT ![p] = Append(kept, o)]
  BY Zenon DEF Child
<1>3. children' \in [Owners -> Seq(Owners)]
  <2>1. children[p] \in Seq(Owners)
    BY Zenon DEF Types
  <2>2. kept \in Seq(Owners)
    BY Zenon, <1>2, <2>1, Retained DEF Pruned
  <2>3. Append(kept, o) \in Seq(Owners)
    BY Zenon, <2>2, AppendProperties
  <2> QED
    BY Zenon, <1>2, <2>3 DEF Types
<1>4. /\ status' \in [Owners -> {"unborn", "live", "gone"}] /\ held' \subseteq Owners
      /\ parent' \in [Owners -> Owners \cup {None}] /\ paused' \in [Owners -> BOOLEAN]
      /\ current' \in [Threads -> Owners \cup {None}]
      /\ \A q \in Owners : status'[q] = "gone" => status[q] = "gone"
  BY Zenon DEF Child, Types
<1>5. Steady
  BY Zenon, <1>1 DEF Steady, Types, FramesInv, Apart
<1>6. Calm
  BY Zenon, <1>1, <1>4, <1>5 DEF Calm
<1> QED
  BY Zenon, <1>3, <1>4, <1>6, Calmly

(* A function is registered, with a live owner.                             *)
LEMMA OnCleanupStep ==
    ASSUME SharedInv, NEW t \in Threads, NEW f \in Fns, OnCleanup(t, f)
    PROVE  SharedInv'
<1> USE DEF SharedInv
<1>1. PICK c \in Owners : c = Current(t) /\ Alive(c)
  BY Zenon, OwnerAssumption DEF OnCleanup, Current, Types, Alive
<1>2. /\ owned[f] = None /\ c # None /\ status[c] = "live"
      /\ owned' = [owned EXCEPT ![f] = c] /\ cleanups' = [cleanups EXCEPT ![c] = Append(cleanups[c], f)]
      /\ UNCHANGED <<status, held, tree, nodes, paused, arena, current, stack, ran, disposed>>
      /\ Frames' = Frames
  BY Zenon, <1>1 DEF OnCleanup, Alive, Types, Frames
<1>3. cleanups[c] \in Seq(Fns)
  BY Zenon DEF Types
<1>4. Append(cleanups[c], f) \in Seq(Fns) /\ Range(Append(cleanups[c], f)) = Range(cleanups[c]) \cup {f}
  <2>1. ASSUME NEW s \in Seq(Fns)
        PROVE  Append(s, f) \in Seq(Fns) /\ Range(Append(s, f)) = Range(s) \cup {f}
    BY Appended
  <2> QED
    BY Zenon, <1>3, <2>1
<1>5. /\ cleanups' \in [Owners -> Seq(Fns)] /\ cleanups'[c] = Append(cleanups[c], f)
      /\ \A o \in Owners : o # c => cleanups'[o] = cleanups[o]
      /\ owned' \in [Fns \cup Items -> Owners \cup {None}] /\ owned'[f] = c
      /\ \A x \in Fns \cup Items : x # f => owned'[x] = owned[x]
  BY Zenon, <1>2, <1>4 DEF Types
<1>6. Types'
  BY Zenon, <1>2, <1>5 DEF Types, tree
<1>7. FramesInv' /\ Apart'
  BY Zenon, <1>2 DEF FramesInv, Apart
<1>8. /\ \A o \in Owners : f \notin Range(cleanups[o])
      /\ ran[f] = 0 /\ \A g \in Frames : f \notin Range(g.fns)
  <2>1. \A o \in Owners : o # None
    BY Zenon, OwnerAssumption
  <2> QED
    BY Zenon, <1>2, <2>1 DEF FnInv, FnListed, FnTaken, FnPlaced
<1>9. FnInv'
  <2>1. ASSUME NEW o \in Owners PROVE IsInjective(cleanups'[o])
    <3>1. CASE o # c
      BY Zenon, <1>5, <3>1 DEF FnInv, FnListed
    <3>2. CASE o = c
      <4> DEFINE s == cleanups[c]
      <4>1. IsInjective(s) /\ f \notin Range(s) /\ s \in Seq(Fns)
        BY Zenon, <1>3, <1>8 DEF FnInv, FnListed
      <4> HIDE DEF s
      <4>2. \A i \in DOMAIN s : s[i] # f
        BY Zenon, <4>1 DEF Range
      <4>3. /\ DOMAIN Append(s, f) = 1 .. Len(s) + 1 /\ DOMAIN s = 1 .. Len(s) /\ Len(s) \in Nat
            /\ \A i \in 1 .. Len(s) + 1 : Append(s, f)[i] = IF i = Len(s) + 1 THEN f ELSE s[i]
        BY <4>1
      <4>4. IsInjective(Append(s, f))
        BY <4>1, <4>2, <4>3 DEF IsInjective
      <4> QED
        BY Zenon, <1>5, <3>2, <4>4 DEF s
    <3> QED
      BY Zenon, <3>1, <3>2
  <2>2. ASSUME NEW o \in Owners, NEW x \in Range(cleanups'[o])
        PROVE  owned'[x] = o /\ ran[x] = 0 /\ \A g \in Frames : x \notin Range(g.fns)
    <3>1. CASE x = f
      <4>1. o = c
        BY Zenon, <1>5, <1>8, <2>2, <3>1
      <4> QED
        BY Zenon, <1>5, <1>8, <3>1, <4>1
    <3>2. CASE x # f
      <4>1. x \in Range(cleanups[o])
        <5>1. CASE o # c
          BY Zenon, <1>5, <2>2, <5>1
        <5>2. CASE o = c
          <6>1. x \in Range(cleanups[c]) \cup {f}
            BY Zenon, <1>4, <1>5, <2>2, <5>2
          <6> QED
            BY Zenon, <3>2, <5>2, <6>1
        <5> QED
          BY Zenon, <5>1, <5>2
      <4>2. x \in Fns
        BY Zenon, <4>1, Contents
      <4> QED
        BY Zenon, <1>5, <3>2, <4>1, <4>2 DEF FnInv, FnListed
    <3> QED
      BY Zenon, <3>1, <3>2
  <2>3. ASSUME NEW g \in Frames
        PROVE  IsInjective(g.fns) /\ \A x \in Range(g.fns) : owned'[x] # None /\ ran[x] = 0
    <3>1. ASSUME NEW x \in Range(g.fns) PROVE x \in Fns \cup Items /\ x # f
      BY Zenon, <1>8, Contents
    <3> QED
      BY Zenon, <1>5, <3>1 DEF FnInv, FnTaken
  <2>4. ASSUME NEW x \in Fns
        PROVE  /\ ran[x] \in {0, 1} /\ (owned'[x] = None => ran[x] = 0)
               /\ owned'[x] # None => \/ x \in Range(cleanups'[owned'[x]]) \/ ran[x] = 1
                                      \/ \E g \in Frames : x \in Range(g.fns)
    <3>1. CASE x = f
      BY Zenon, <1>2, <1>4, <1>5, <1>8, <3>1
    <3>2. CASE x # f
      <4>1. owned'[x] = owned[x]
        BY Zenon, <1>5, <3>2
      <4>2. owned[x] # None => Range(cleanups[owned[x]]) \subseteq Range(cleanups'[owned[x]])
        BY Zenon, <1>4, <1>5 DEF Types
      <4> QED
        BY Zenon, <4>1, <4>2 DEF FnInv, FnPlaced
    <3> QED
      BY Zenon, <3>1, <3>2
  <2>5. FnListed'
    BY Zenon, <1>2, <2>1, <2>2 DEF FnListed
  <2>6. FnTaken'
    BY Zenon, <1>2, <2>3 DEF FnTaken
  <2>7. FnPlaced'
    BY Zenon, <1>2, <2>4 DEF FnPlaced
  <2> QED
    BY Zenon, <2>5, <2>6, <2>7 DEF FnInv
<1>10. ItemInv'
  <2>1. \A n \in Items : owned'[n] = owned[n]
    BY Zenon, <1>5, OwnerAssumption
  <2> QED
    BY Zenon, <1>2, <2>1, ItemKept
<1>11. GoneInv'
  BY Zenon, <1>2, <1>5 DEF GoneInv
<1> QED
  BY Zenon, <1>6, <1>7, <1>9, <1>10, <1>11

(* An item is put into the arena: nobody has it but the frame that is to    *)
(* register it.                                                             *)
LEMMA NewItemStep ==
    ASSUME SharedInv, NEW t \in Threads, NEW n \in Items, NEW o \in Owners \cup {None}, NewItem(t, n, o)
    PROVE  SharedInv'
<1> USE DEF SharedInv
<1>1. PICK h \in FrameType : h = Frame("register", None) /\ h.pc = "register" /\ Bare(h)
  <2>1. "register" \in Pcs
    BY Zenon DEF Pcs
  <2> QED
    BY Zenon, <2>1, NewFrame
<1>2. PICK f : f = [h EXCEPT !.arg = n]
  BY Zenon
<1>3. f \in FrameType /\ f.pc = "register" /\ Bare(f) /\ f.arg = n
  BY <1>1, <1>2 DEF FrameType, Bare
<1>4. /\ owned[n] = None /\ n \notin DOMAIN arena /\ held' = held \ {o} /\ Enter(t, f)
      /\ arena' = [m \in DOMAIN arena \cup {n} |-> IF m = n THEN o ELSE arena[m]]
      /\ UNCHANGED <<status, tree, lists, paused, current, ran, history>>
  BY Zenon, <1>1, <1>2 DEF NewItem
<1>5. FrameInv(f)
  BY Zenon, <1>3 DEF FrameInv, Bare, Cleaners, Walkers
<1>6. Range(<<>>) = {} /\ n \notin Fns
  <2>1. n \notin Fns
    BY Zenon, OwnerAssumption
  <2> QED
    BY <2>1 DEF Range
<1>7. Free(Frames, f)
  <2>1. ASSUME NEW g \in Frames PROVE n \notin Burden(g)
    <3>1. n \notin Range(g.fns)
      BY Zenon, <1>6, Contents
    <3>2. n \notin Range(g.nodes) /\ ~(g.pc = "register" /\ n = g.arg)
      BY Zenon, <1>4 DEF ItemInv
    <3> QED
      BY Zenon, <3>1, <3>2 DEF Burden
  <2>2. Burden(f) = {n}
    BY Zenon, <1>3, <1>6 DEF Burden, Bare
  <2> QED
    BY Zenon, <2>1, <2>2 DEF Free
<1>8. stack' \in [Threads -> Seq(FrameType)] /\ Frames' = Frames \cup {f} /\ Apart'
  BY Zenon, <1>3, <1>4, <1>7, Stacks
<1>9. FramesInv'
  BY Zenon, <1>5, <1>8 DEF FramesInv
<1>10. DOMAIN arena' = DOMAIN arena \cup {n} /\ arena' \in [DOMAIN arena' -> Owners \cup {None}]
  <2>1. DOMAIN arena' = DOMAIN arena \cup {n}
    BY Zenon, <1>4
  <2>2. ASSUME NEW m \in DOMAIN arena \cup {n} PROVE (IF m = n THEN o ELSE arena[m]) \in Owners \cup {None}
    BY Zenon DEF Types
  <2> QED
    BY Zenon, <1>4, <2>1, <2>2
<1>11. Types'
  BY Zenon, <1>4, <1>8, <1>10 DEF Types, tree, lists, history
<1>12. FnInv'
  <2>1. \A x \in Fns : owned'[x] = owned[x]
    BY Zenon, <1>4 DEF history
  <2> QED
    BY Zenon, <1>3, <1>4, <1>8, <2>1, FnKept DEF Bare, lists
<1>13. ItemInv'
  <2>1. ASSUME NEW p \in Owners, NEW m \in Range(nodes[p])
        PROVE  /\ owned[m] = p /\ (m \in DOMAIN arena' \/ m \in disposed)
               /\ \A g \in Frames' : m \notin Range(g.nodes)
    BY Zenon, <1>3, <1>6, <1>8, <1>10 DEF ItemInv, Bare
  <2>2. ASSUME NEW g \in Frames', NEW m \in Range(g.nodes)
        PROVE  owned[m] # None /\ (m \in DOMAIN arena' \/ m \in disposed)
    BY Zenon, <1>3, <1>6, <1>8, <1>10, <2>2 DEF ItemInv, Bare
  <2>3. ASSUME NEW g \in Frames', g.pc = "register" PROVE owned[g.arg] = None /\ g.arg \in DOMAIN arena'
    BY Zenon, <1>3, <1>4, <1>8, <1>10, <2>3 DEF ItemInv
  <2>4. ItemsOwned'
    <3>1. ASSUME NEW m \in DOMAIN arena', owned[m] # None
          PROVE  m \in Range(nodes[owned[m]]) \/ \E g \in Frames' : g.owner = owned[m] /\ m \in Range(g.nodes)
      <4>1. m \in DOMAIN arena
        BY Zenon, <1>4, <1>10, <3>1
      <4> QED
        BY Zenon, <1>8, <3>1, <4>1 DEF ItemInv, ItemsOwned
    <3> QED
      BY Zenon, <1>4, <3>1 DEF ItemsOwned, lists, history
  <2> QED
    BY Zenon, <1>4, <2>1, <2>2, <2>3, <2>4 DEF ItemInv, lists, history
<1>14. GoneInv'
  BY Zenon, <1>4, <1>8 DEF GoneInv, lists
<1> QED
  BY Zenon, <1>8, <1>9, <1>11, <1>12, <1>13, <1>14

(* An item is disposed of, and its value dropped.                           *)
LEMMA DisposeStep ==
    ASSUME SharedInv, NEW t \in Threads, NEW n \in Items, Dispose(t, n)
    PROVE  SharedInv'
<1> USE DEF SharedInv
<1>1. n \in DOMAIN arena /\ arena[n] \in Owners \cup {None}
  BY Zenon DEF Dispose, Types
<1>2. PICK f \in FrameType : f = Frame("release", arena[n]) /\ f.pc = "release" /\ Bare(f)
  <2>1. "release" \in Pcs
    BY Zenon DEF Pcs
  <2> QED
    BY Zenon, <1>1, <2>1, NewFrame
<1>3. /\ owned[n] # None /\ arena' = [m \in DOMAIN arena \ {n} |-> arena[m]]
      /\ disposed' = disposed \cup {n} /\ Enter(t, f)
      /\ UNCHANGED <<status, held, tree, lists, paused, current, ran, owned>>
  BY Zenon, <1>2 DEF Dispose, Without
<1>4. Blank(f) /\ FrameInv(f)
  BY Zenon, <1>2 DEF Blank, FrameInv, Bare, Cleaners, Walkers
<1>5. Steady /\ Frames' = Frames \cup {f}
  <2>1. Steady
    BY Zenon, <1>3, <1>4, Calls
  <2> QED
    BY Zenon, <1>3, <2>1, Stacks
<1>6. DOMAIN arena' = DOMAIN arena \ {n} /\ arena' \in [DOMAIN arena' -> Owners \cup {None}]
  <2>1. DOMAIN arena' = DOMAIN arena \ {n}
    BY Zenon, <1>3
  <2>2. ASSUME NEW m \in DOMAIN arena \ {n} PROVE arena[m] \in Owners \cup {None}
    BY Zenon DEF Types
  <2> QED
    BY Zenon, <1>3, <2>1, <2>2
<1>7. Types'
  BY Zenon, <1>3, <1>5, <1>6 DEF Types, tree, lists, Steady
<1>8. FnInv' /\ GoneInv'
  BY Zenon, <1>3, <1>5, Steadily DEF lists
<1>9. ItemInv'
  <2>0. Range(<<>>) = {}
    BY DEF Range
  <2>1. \A m : m \in DOMAIN arena \/ m \in disposed => m \in DOMAIN arena' \/ m \in disposed'
    BY Zenon, <1>3, <1>6
  <2>2. ASSUME NEW p \in Owners, NEW m \in Range(nodes[p])
        PROVE  /\ owned[m] = p /\ (m \in DOMAIN arena' \/ m \in disposed')
               /\ \A g \in Frames' : m \notin Range(g.nodes)
    BY Zenon, <1>2, <1>5, <2>0, <2>1 DEF ItemInv, Bare
  <2>3. ASSUME NEW g \in Frames', NEW m \in Range(g.nodes)
        PROVE  owned[m] # None /\ (m \in DOMAIN arena' \/ m \in disposed')
    BY Zenon, <1>2, <1>5, <2>0, <2>1, <2>3 DEF ItemInv, Bare
  <2>4. ASSUME NEW g \in Frames', g.pc = "register" PROVE owned[g.arg] = None /\ g.arg \in DOMAIN arena'
    BY Zenon, <1>2, <1>3, <1>5, <1>6, <2>4 DEF ItemInv
  <2>5. ItemsOwned'
    <3>1. ASSUME NEW m \in DOMAIN arena', owned[m] # None
          PROVE  m \in Range(nodes[owned[m]]) \/ \E g \in Frames' : g.owner = owned[m] /\ m \in Range(g.nodes)
      BY Zenon, <1>5, <1>6, <3>1 DEF ItemInv, ItemsOwned
    <3> QED
      BY Zenon, <1>3, <3>1 DEF ItemsOwned, lists
  <2> QED
    BY Zenon, <1>3, <2>2, <2>3, <2>4, <2>5 DEF ItemInv, lists
<1> QED
  BY Zenon, <1>5, <1>7, <1>8, <1>9 DEF Steady

(* An item is registered with the current owner, if there is one.           *)
LEMMA RegisterStep ==
    ASSUME SharedInv, NEW t \in Threads, Register(t)
    PROVE  SharedInv'
<1> USE DEF SharedInv
<1>1. ~Idle(t) /\ Return(t) /\ Top(t).pc = "register"
  BY Zenon DEF Register, At
<1>2. PICK h \in FrameType : h = Top(t)
  BY Zenon, <1>1, Stacks
<1>3. /\ Frames = Others(t) \cup {h} /\ Free(Others(t), h) /\ Frames' = Others(t)
      /\ stack' \in [Threads -> Seq(FrameType)] /\ Apart' /\ FramesInv'
  <2>1. /\ Frames = Others(t) \cup {h} /\ Free(Others(t), h) /\ Frames' = Others(t)
        /\ stack' \in [Threads -> Seq(FrameType)] /\ Apart'
    BY Zenon, <1>1, <1>2, Stacks
  <2> QED
    BY Zenon, <2>1 DEF FramesInv
<1>4. PICK n \in Items : n = h.arg
  BY Zenon, <1>1, <1>2, <1>3 DEF FramesInv, FrameInv
<1>5. h.pc = "register" /\ Bare(h) /\ h \in Frames /\ owned[n] = None /\ n \in DOMAIN arena
  BY Zenon, <1>1, <1>2, <1>3, <1>4 DEF FramesInv, FrameInv, Bare, ItemInv
<1>6. Steady
  BY Zenon, <1>1, <1>2, <1>5, Calls
<1>7. UNCHANGED <<status, held, tree, cleanups, paused, arena, current, ran, disposed>>
  BY Zenon DEF Register
<1>8. CASE Current(t) = None
  <2>1. UNCHANGED <<nodes, owned>>
    BY Zenon, <1>8 DEF Register
  <2>2. Calm
    BY Zenon, <1>6, <1>7, <2>1 DEF Calm, lists, history
  <2> QED
    BY Zenon, <1>7, <2>2, Calmly DEF Types, tree
<1>9. CASE Current(t) # None
  <2>1. PICK c \in Owners : c = Current(t) /\ status[c] = "live"
    BY Zenon, <1>9 DEF Current, Alive, Types
  <2>2. PICK kept \in PrunedNodes(nodes[c]) : nodes' = [nodes EXCEPT ![c] = Append(kept, n)]
    BY Zenon, <1>2, <1>4, <1>9, <2>1 DEF Register
  <2>3. owned' = [owned EXCEPT ![n] = c]
    BY Zenon, <1>2, <1>4, <1>9, <2>1 DEF Register
  <2>4. kept \in Seq(Items) /\ \A m : /\ m \in Range(kept) => m \in Range(nodes[c])
                                      /\ m \in Range(nodes[c]) /\ m \in DOMAIN arena => m \in Range(kept)
    <3>1. nodes[c] \in Seq(Items)
      BY Zenon DEF Types
    <3>2. CASE kept = nodes[c]
      BY Zenon, <3>1, <3>2
    <3>3. CASE kept \in Retain(nodes[c], DOMAIN arena)
      <4>1. kept \in Seq(Items) /\ Range(kept) = Range(nodes[c]) \cap DOMAIN arena
        BY Zenon, <3>1, <3>3, Retained
      <4> QED
        BY Zenon, <4>1
    <3> QED
      BY Zenon, <2>2, <3>2, <3>3 DEF PrunedNodes
  <2>5. Append(kept, n) \in Seq(Items) /\ \A m : m \in Range(Append(kept, n)) <=> m \in Range(kept) \/ m = n
    <3>1. Append(kept, n) \in Seq(Items) /\ Range(Append(kept, n)) = Range(kept) \cup {n}
      BY <2>4, Appended
    <3> QED
      BY Zenon, <3>1
  <2>6. /\ nodes' \in [Owners -> Seq(Items)] /\ nodes'[c] = Append(kept, n)
        /\ \A o \in Owners : o # c => nodes'[o] = nodes[o]
        /\ owned' \in [Fns \cup Items -> Owners \cup {None}] /\ owned'[n] = c
        /\ \A x \in Fns \cup Items : x # n => owned'[x] = owned[x]
    BY Zenon, <2>2, <2>3, <2>5 DEF Types
  <2>7. Types'
    BY Zenon, <1>3, <1>7, <2>6 DEF Types, tree
  <2>8. FnInv'
    <3>1. \A x \in Fns : owned'[x] = owned[x]
      BY Zenon, <2>6, OwnerAssumption
    <3> QED
      BY Zenon, <1>6, <1>7, <3>1, Steadily
  <2>9. GoneInv'
    BY Zenon, <1>3, <1>5, <1>7, <2>1, <2>6 DEF GoneInv
  <2>10. ItemInv'
    <3>0. Range(<<>>) = {} /\ \A o \in Owners : o # None
      <4>1. \A o \in Owners : o # None
        BY Zenon, OwnerAssumption
      <4> QED
        BY <4>1 DEF Range
    <3>1. /\ \A p \in Owners : n \notin Range(nodes[p])
          /\ \A g \in Frames : n \notin Range(g.nodes)
      BY Zenon, <1>5, <3>0 DEF ItemInv
    <3>2. ASSUME NEW p \in Owners, NEW m \in Range(nodes'[p])
          PROVE  m \in Range(nodes[p]) \/ (m = n /\ p = c)
      <4>1. CASE p = c
        BY Zenon, <2>4, <2>5, <2>6, <3>2, <4>1
      <4>2. CASE p # c
        BY Zenon, <2>6, <3>2, <4>2
      <4> QED
        BY Zenon, <4>1, <4>2
    <3>3. ASSUME NEW p \in Owners, NEW m \in Range(nodes'[p])
          PROVE  /\ owned'[m] = p /\ (m \in DOMAIN arena \/ m \in disposed)
                 /\ \A g \in Frames' : m \notin Range(g.nodes)
      <4>1. CASE m = n /\ p = c
        BY Zenon, <1>3, <1>5, <2>6, <3>1, <4>1
      <4>2. CASE m \in Range(nodes[p])
        <5>1. m \in Items /\ m # n
          BY Zenon, <3>1, <4>2, Contents
        <5> QED
          BY Zenon, <1>3, <2>6, <4>2, <5>1 DEF ItemInv
      <4> QED
        BY Zenon, <3>2, <4>1, <4>2
    <3>4. ASSUME NEW g \in Frames', NEW m \in Range(g.nodes)
          PROVE  owned'[m] # None /\ (m \in DOMAIN arena \/ m \in disposed)
      <4>1. g \in Frames
        BY Zenon, <1>3
      <4>2. m \in Items /\ m # n
        BY Zenon, <3>1, <4>1, Contents
      <4> QED
        BY Zenon, <2>6, <4>1, <4>2 DEF ItemInv
    <3>5. ASSUME NEW g \in Frames', g.pc = "register" PROVE owned'[g.arg] = None /\ g.arg \in DOMAIN arena
      <4>1. g \in Frames /\ g.arg \in Items
        BY Zenon, <1>3, <3>5 DEF FramesInv, FrameInv
      <4>2. g.arg # n
        BY Zenon, <1>3, <1>4, <1>5, <3>5 DEF Free, Burden
      <4> QED
        BY Zenon, <2>6, <3>5, <4>1, <4>2 DEF ItemInv
    <3>6. ASSUME NEW m \in DOMAIN arena, owned'[m] # None
          PROVE  m \in Range(nodes'[owned'[m]]) \/ \E g \in Frames' : g.owner = owned'[m] /\ m \in Range(g.nodes)
      <4>1. CASE m = n
        BY Zenon, <2>5, <2>6, <4>1
      <4>2. CASE m # n
        <5>1. m \in Items /\ owned'[m] = owned[m] /\ owned[m] \in Owners
          BY Zenon, <2>6, <3>6, <4>2 DEF Types
        <5>2. CASE m \in Range(nodes[owned[m]])
          BY Zenon, <2>4, <2>5, <2>6, <5>1, <5>2
        <5>3. CASE m \notin Range(nodes[owned[m]])
          <6>1. PICK g \in Frames : g.owner = owned[m] /\ m \in Range(g.nodes)
            BY Zenon, <3>6, <5>1, <5>3 DEF ItemInv, ItemsOwned
          <6>2. g # h
            BY Zenon, <1>5, <3>0, <6>1 DEF Bare
          <6> QED
            BY Zenon, <1>3, <5>1, <6>1, <6>2
        <5> QED
          BY Zenon, <5>2, <5>3
      <4> QED
        BY Zenon, <4>1, <4>2
    <3>7. ItemsOwned'
      BY Zenon, <1>7, <3>6 DEF ItemsOwned
    <3> QED
      BY Zenon, <1>7, <3>3, <3>4, <3>5, <3>7 DEF ItemInv
  <2> QED
    BY Zenon, <1>3, <2>7, <2>8, <2>9, <2>10
<1> QED
  BY Zenon, <1>8, <1>9

(* All three lists of an owner pass to the frame that cleans it up.         *)
LEMMA TakeStep ==
    ASSUME SharedInv, NEW t \in Threads, Take(t)
    PROVE  SharedInv'
<1> USE DEF SharedInv
<1>1. ~Idle(t) /\ Top(t).pc = "take"
  BY Zenon DEF Take, At
<1>2. PICK h \in FrameType : h = Top(t)
  BY Zenon, <1>1, Stacks
<1>3. Frames = Others(t) \cup {h} /\ h \in Frames /\ h.pc = "take" /\ FrameInv(h) /\ Bare(h)
  <2>1. Frames = Others(t) \cup {h} /\ h \in Frames
    BY Zenon, <1>1, <1>2, Stacks
  <2> QED
    BY Zenon, <1>1, <1>2, <2>1 DEF FramesInv, FrameInv, Bare
<1>4. PICK o \in Owners : o = h.owner
  BY Zenon, <1>3 DEF FrameInv, Cleaners
<1>5. PICK due \in SUBSET Fns : due = UNION {Range(cleanups[c]) : c \in Descendants(o)}
  BY Zenon, Contents DEF Descendants
<1>6. /\ children[o] \in Seq(Owners) /\ cleanups[o] \in Seq(Fns) /\ nodes[o] \in Seq(Items)
      /\ Range(cleanups[o]) \subseteq Fns /\ Range(nodes[o]) \subseteq Items
      /\ Range(<<>>) = {} /\ IsInjective(<<>>)
  <2>1. Range(<<>>) = {} /\ IsInjective(<<>>)
    BY DEF Range, IsInjective
  <2> QED
    BY Zenon, <2>1, Contents DEF Types
<1>7. PICK f : f = [h EXCEPT !.pc = "kids", !.kids = children[o], !.fns = cleanups[o],
                             !.nodes = nodes[o], !.due = due]
  BY Zenon
<1>8. f \in FrameType /\ f.pc = "kids" /\ f.owner = o /\ f.fns = cleanups[o] /\ f.nodes = nodes[o]
  <2>1. "kids" \in Pcs
    BY Zenon DEF Pcs, Callers
  <2> QED
    BY <1>4, <1>6, <1>7, <2>1 DEF FrameType
<1>9. /\ Goto(t, f) /\ UNCHANGED <<status, held, parent, paused, arena, current, ran, history>>
      /\ children' = [children EXCEPT ![o] = <<>>]
      /\ cleanups' = [cleanups EXCEPT ![o] = <<>>]
      /\ nodes' = [nodes EXCEPT ![o] = <<>>]
  BY Zenon, <1>2, <1>4, <1>5, <1>7 DEF Take
<1>10. FrameInv(f)
  BY Zenon, <1>8 DEF FrameInv, Cleaners, Walkers
<1>11. Free(Others(t), f)
  <2>1. ASSUME NEW g \in Others(t), NEW y \in Burden(g) PROVE y \notin Burden(f)
    <3>1. g \in Frames
      BY Zenon, <1>3
    <3>2. Burden(f) = Range(cleanups[o]) \cup Range(nodes[o])
      BY Zenon, <1>8 DEF Burden
    <3>3. \A x : ~(x \in Fns /\ x \in Items)
      BY Zenon, OwnerAssumption
    <3>4. CASE y \in Range(g.fns)
      BY Zenon, <1>6, <3>1, <3>2, <3>3, <3>4, Contents DEF FnInv, FnListed
    <3>5. CASE y \in Range(g.nodes)
      BY Zenon, <1>6, <3>1, <3>2, <3>3, <3>5, Contents DEF ItemInv
    <3>6. CASE g.pc = "register" /\ y = g.arg
      <4>1. y \in Items /\ owned[y] = None
        BY Zenon, <3>1, <3>6 DEF FramesInv, FrameInv, ItemInv
      <4>2. o # None
        BY Zenon, OwnerAssumption
      <4> QED
        BY Zenon, <1>6, <3>2, <3>3, <4>1, <4>2 DEF ItemInv
    <3> QED
      BY Zenon, <2>1, <3>4, <3>5, <3>6 DEF Burden
  <2> QED
    BY Zenon, <2>1 DEF Free
<1>12. stack' \in [Threads -> Seq(FrameType)] /\ Frames' = Others(t) \cup {f} /\ Apart'
  BY Zenon, <1>1, <1>8, <1>9, <1>11, Stacks
<1>13. FramesInv'
  BY Zenon, <1>3, <1>10, <1>12 DEF FramesInv
<1>14. /\ children' \in [Owners -> Seq(Owners)]
       /\ cleanups' \in [Owners -> Seq(Fns)] /\ nodes' \in [Owners -> Seq(Items)]
       /\ cleanups'[o] = <<>> /\ nodes'[o] = <<>>
       /\ \A p \in Owners : p # o => cleanups'[p] = cleanups[p] /\ nodes'[p] = nodes[p]
  <2>1. \A S : <<>> \in Seq(S)
    OBVIOUS
  <2> QED
    BY Zenon, <1>9, <2>1 DEF Types
<1>15. Types'
  BY Zenon, <1>9, <1>12, <1>14 DEF Types, history
<1>16. FnInv'
  <2>1. ASSUME NEW p \in Owners
        PROVE  /\ IsInjective(cleanups'[p])
               /\ \A x \in Range(cleanups'[p]) :
                     owned[x] = p /\ ran[x] = 0 /\ \A g \in Frames' : x \notin Range(g.fns)
    <3>1. CASE p = o
      BY Zenon, <1>6, <1>14, <3>1
    <3>2. CASE p # o
      <4>1. ASSUME NEW x \in Range(cleanups[p]), NEW g \in Frames' PROVE x \notin Range(g.fns)
        <5>1. owned[x] = p /\ \A k \in Frames : x \notin Range(k.fns)
          BY Zenon DEF FnInv, FnListed
        <5>2. x \notin Range(cleanups[o])
          BY Zenon, <3>2, <5>1 DEF FnInv, FnListed
        <5> QED
          BY Zenon, <1>3, <1>8, <1>12, <5>1, <5>2
      <4> QED
        BY Zenon, <1>14, <3>2, <4>1 DEF FnInv, FnListed
    <3> QED
      BY Zenon, <3>1, <3>2
  <2>2. ASSUME NEW g \in Frames'
        PROVE  IsInjective(g.fns) /\ \A x \in Range(g.fns) : owned[x] # None /\ ran[x] = 0
    <3>1. CASE g = f
      <4>1. o # None
        BY Zenon, OwnerAssumption
      <4> QED
        BY Zenon, <1>8, <3>1, <4>1 DEF FnInv, FnListed
    <3>2. CASE g # f
      BY Zenon, <1>3, <1>12, <3>2 DEF FnInv, FnTaken
    <3> QED
      BY Zenon, <3>1, <3>2
  <2>3. ASSUME NEW x \in Fns, owned[x] # None
        PROVE  \/ x \in Range(cleanups'[owned[x]]) \/ ran[x] = 1
               \/ \E g \in Frames' : x \in Range(g.fns)
    <3>1. owned[x] \in Owners
      BY Zenon, <2>3 DEF Types
    <3>2. CASE x \in Range(cleanups[owned[x]])
      BY Zenon, <1>8, <1>12, <1>14, <3>1, <3>2
    <3>3. CASE x \notin Range(cleanups[owned[x]])
      BY Zenon, <1>3, <1>6, <1>12, <2>3, <3>3 DEF FnInv, FnPlaced, Bare
    <3> QED
      BY Zenon, <3>2, <3>3
  <2>4. FnListed'
    BY Zenon, <1>9, <2>1 DEF FnListed, history
  <2>5. FnTaken'
    BY Zenon, <1>9, <2>2 DEF FnTaken, history
  <2>6. FnPlaced'
    BY Zenon, <1>9, <2>3 DEF FnInv, FnPlaced, history
  <2> QED
    BY Zenon, <2>4, <2>5, <2>6 DEF FnInv
<1>17. ItemInv'
  <2>1. ASSUME NEW p \in Owners, NEW n \in Range(nodes'[p])
        PROVE  /\ owned[n] = p /\ (n \in DOMAIN arena \/ n \in disposed)
               /\ \A g \in Frames' : n \notin Range(g.nodes)
    <3>1. CASE p = o
      BY Zenon, <1>6, <1>14, <2>1, <3>1
    <3>2. CASE p # o
      <4>1. n \in Range(nodes[p])
        BY Zenon, <1>14, <2>1, <3>2
      <4>2. /\ owned[n] = p /\ (n \in DOMAIN arena \/ n \in disposed)
            /\ \A k \in Frames : n \notin Range(k.nodes)
        BY Zenon, <4>1 DEF ItemInv
      <4>3. n \notin Range(nodes[o])
        BY Zenon, <3>2, <4>2 DEF ItemInv
      <4> QED
        BY Zenon, <1>3, <1>8, <1>12, <4>2, <4>3
    <3> QED
      BY Zenon, <3>1, <3>2
  <2>2. ASSUME NEW g \in Frames', NEW n \in Range(g.nodes)
        PROVE  owned[n] # None /\ (n \in DOMAIN arena \/ n \in disposed)
    <3>1. CASE g = f
      <4>1. o # None
        BY Zenon, OwnerAssumption
      <4> QED
        BY Zenon, <1>8, <2>2, <3>1, <4>1 DEF ItemInv
    <3>2. CASE g # f
      BY Zenon, <1>3, <1>12, <2>2, <3>2 DEF ItemInv
    <3> QED
      BY Zenon, <3>1, <3>2
  <2>3. ASSUME NEW g \in Frames', g.pc = "register" PROVE owned[g.arg] = None /\ g.arg \in DOMAIN arena
    BY Zenon, <1>3, <1>8, <1>12, <2>3 DEF ItemInv
  <2>4. ASSUME NEW n \in DOMAIN arena, owned[n] # None
        PROVE  \/ n \in Range(nodes'[owned[n]])
               \/ \E g \in Frames' : g.owner = owned[n] /\ n \in Range(g.nodes)
    <3>1. owned[n] \in Owners
      BY Zenon, <2>4 DEF Types
    <3>2. CASE n \in Range(nodes[owned[n]])
      BY Zenon, <1>8, <1>12, <1>14, <3>1, <3>2
    <3>3. CASE n \notin Range(nodes[owned[n]])
      BY Zenon, <1>3, <1>6, <1>12, <2>4, <3>3 DEF ItemInv, ItemsOwned, Bare
    <3> QED
      BY Zenon, <3>2, <3>3
  <2>5. ItemsOwned'
    BY Zenon, <1>9, <2>4 DEF ItemsOwned, history
  <2> QED
    BY Zenon, <1>9, <2>1, <2>2, <2>3, <2>5 DEF ItemInv, history
<1>18. GoneInv'
  <2>1. ASSUME NEW p \in Owners, status[p] = "gone"
        PROVE  \/ cleanups'[p] = <<>> /\ nodes'[p] = <<>>
               \/ \E g \in Frames' : g.pc = "take" /\ g.owner = p
    <3>1. CASE p = o
      BY Zenon, <1>14, <3>1
    <3>2. CASE p # o
      BY Zenon, <1>3, <1>4, <1>12, <1>14, <2>1, <3>2 DEF GoneInv
    <3> QED
      BY Zenon, <3>1, <3>2
  <2> QED
    BY Zenon, <1>9, <2>1 DEF GoneInv
<1> QED
  BY Zenon, <1>12, <1>13, <1>15, <1>16, <1>17, <1>18

(* The next function of a list without repetitions is not in the rest.      *)
LEMMA NextOne ==
    ASSUME NEW s \in Seq(Fns), s # <<>>, IsInjective(s)
    PROVE  /\ Head(s) \in Fns /\ Tail(s) \in Seq(Fns) /\ IsInjective(Tail(s))
           /\ \A y : y \in Range(s) <=> y \in Range(Tail(s)) \/ y = Head(s)
           /\ Head(s) \notin Range(Tail(s))
<1>1. Head(s) \in Fns /\ Tail(s) \in Seq(Fns) /\ Range(s) = Range(Tail(s)) \cup {Head(s)}
  BY Zenon, Shortened
<1>2. /\ Head(s) = s[1] /\ Len(s) \in Nat \ {0} /\ DOMAIN Tail(s) = 1 .. Len(s) - 1
      /\ DOMAIN s = 1 .. Len(s)
      /\ \A i \in 1 .. Len(s) - 1 : Tail(s)[i] = s[i + 1]
  OBVIOUS
<1>3. \A i, j \in 1 .. Len(s) : s[i] = s[j] => i = j
  BY Zenon, <1>2 DEF IsInjective
<1>4. \A i, j \in 1 .. Len(s) - 1 : s[i + 1] = s[j + 1] => i = j
  BY <1>2, <1>3
<1>5. \A i \in 1 .. Len(s) - 1 : s[i + 1] # s[1]
  BY <1>2, <1>3
<1>6. IsInjective(Tail(s))
  BY Zenon, <1>2, <1>4 DEF IsInjective
<1>7. Head(s) \notin Range(Tail(s))
  BY Zenon, <1>2, <1>5 DEF Range
<1> QED
  BY Zenon, <1>1, <1>6, <1>7

(* A function is taken out of the frame and run.                            *)
LEMMA NextFnStep ==
    ASSUME SharedInv, NEW t \in Threads, NextFn(t)
    PROVE  SharedInv'
<1> USE DEF SharedInv
<1>1. ~Idle(t) /\ Top(t).pc = "fns"
  BY Zenon DEF NextFn, At
<1>2. PICK h \in FrameType : h = Top(t)
  BY Zenon, <1>1, Stacks
<1>3. /\ Frames = Others(t) \cup {h} /\ h \in Frames /\ h.pc = "fns" /\ FrameInv(h)
      /\ Free(Others(t), h) /\ h.fns \in Seq(Fns) /\ IsInjective(h.fns)
  <2>1. Frames = Others(t) \cup {h} /\ h \in Frames /\ Free(Others(t), h)
    BY Zenon, <1>1, <1>2, Stacks
  <2> QED
    BY Zenon, <1>1, <1>2, <2>1 DEF FramesInv, FnInv, FnTaken, FrameType
<1>4. UNCHANGED <<status, held, tree, lists, paused, arena, current, history>>
  BY Zenon DEF NextFn
<1>5. CASE h.fns = <<>>
  <2>1. PICK f : f = [h EXCEPT !.pc = "nodes"]
    BY Zenon
  <2>2. f \in FrameType /\ Like(f, h) /\ f.pc = "nodes"
    <3>1. "nodes" \in Pcs
      BY Zenon DEF Pcs, Cleaners
    <3> QED
      BY Zenon, <2>1, <3>1, Onward
  <2>3. Goto(t, f) /\ UNCHANGED ran
    BY Zenon, <1>2, <1>5, <2>1 DEF NextFn
  <2>4. FrameInv(f)
    BY Zenon, <1>3, <1>5, <2>2 DEF FrameInv, Like, Cleaners, Walkers
  <2>5. Steady
    BY Zenon, <1>1, <1>2, <2>2, <2>3, <2>4, Calls
  <2>6. Calm
    BY Zenon, <1>4, <2>3, <2>5 DEF Calm
  <2> QED
    BY Zenon, <1>4, <2>6, Calmly DEF Types, tree
<1>6. CASE h.fns # <<>>
  <2>1. PICK x \in Fns : x = Head(h.fns)
    BY Zenon, <1>3, <1>6, NextOne
  <2>2. PICK rest \in Seq(Fns) : rest = Tail(h.fns)
    BY Zenon, <1>3, <1>6, NextOne
  <2>3. IsInjective(rest) /\ x \notin Range(rest) /\ \A y : y \in Range(h.fns) <=> y \in Range(rest) \/ y = x
    BY Zenon, <1>3, <1>6, <2>1, <2>2, NextOne
  <2>4. PICK f : f = [h EXCEPT !.pc = "function", !.fns = rest]
    BY Zenon
  <2>5. f \in FrameType /\ f.pc = "function" /\ f.fns = rest /\ f.nodes = h.nodes /\ f.owner = h.owner
    <3>1. "function" \in Pcs
      BY Zenon DEF Pcs, Callers
    <3> QED
      BY <2>4, <3>1 DEF FrameType
  <2>6. Goto(t, f) /\ ran' = [ran EXCEPT ![x] = ran[x] + 1]
    BY Zenon, <1>2, <1>6, <2>1, <2>2, <2>4 DEF NextFn
  <2>7. ran[x] = 0 /\ owned[x] # None
    BY Zenon, <1>3, <2>3 DEF FnInv, FnTaken
  <2>8. ran' \in [Fns -> Nat] /\ ran'[x] = 1 /\ \A y \in Fns : y # x => ran'[y] = ran[y]
    <3>1. ran[x] + 1 = 1 /\ ran[x] + 1 \in Nat
      BY <2>7
    <3> QED
      BY Zenon, <2>6, <3>1 DEF Types
  <2>9. FrameInv(f)
    BY Zenon, <1>3, <2>5 DEF FrameInv, Cleaners, Walkers
  <2>10. Free(Others(t), f)
    <3>1. Burden(f) \subseteq Burden(h)
      BY Zenon, <2>3, <2>5 DEF Burden
    <3> QED
      BY Zenon, <1>3, <3>1 DEF Free
  <2>11. stack' \in [Threads -> Seq(FrameType)] /\ Frames' = Others(t) \cup {f} /\ Apart'
    BY Zenon, <1>1, <2>5, <2>6, <2>10, Stacks
  <2>12. FramesInv'
    BY Zenon, <1>3, <2>9, <2>11 DEF FramesInv
  <2>13. Types'
    BY Zenon, <1>4, <2>8, <2>11 DEF Types, tree, lists, history
  <2>14. FnInv'
    <3>1. ASSUME NEW p \in Owners, NEW y \in Range(cleanups[p])
          PROVE  owned[y] = p /\ ran'[y] = 0 /\ \A g \in Frames' : y \notin Range(g.fns)
      <4>1. y \in Fns /\ y # x /\ y \notin Range(h.fns)
        BY Zenon, <1>3, <2>3, Contents DEF FnInv, FnListed
      <4> QED
        BY Zenon, <1>3, <2>3, <2>5, <2>8, <2>11, <4>1 DEF FnInv, FnListed
    <3>2. ASSUME NEW g \in Frames'
          PROVE  IsInjective(g.fns) /\ \A y \in Range(g.fns) : owned[y] # None /\ ran'[y] = 0
      <4>1. CASE g = f
        <5>1. ASSUME NEW y \in Range(rest) PROVE y \in Fns /\ y # x /\ y \in Range(h.fns)
          BY Zenon, <1>3, <2>3, Contents
        <5> QED
          BY Zenon, <1>3, <2>3, <2>5, <2>8, <4>1, <5>1 DEF FnInv, FnTaken
      <4>2. CASE g # f
        <5>1. g \in Others(t) /\ g \in Frames
          BY Zenon, <1>3, <2>11, <4>2
        <5>2. ASSUME NEW y \in Range(g.fns) PROVE y \in Fns /\ y # x
          <6>1. y \in Burden(g) /\ x \in Burden(h)
            BY Zenon, <2>3 DEF Burden
          <6> QED
            BY Zenon, <1>3, <5>1, <6>1, Contents DEF Free
        <5> QED
          BY Zenon, <2>8, <5>1, <5>2 DEF FnInv, FnTaken
      <4> QED
        BY Zenon, <4>1, <4>2
    <3>3. ASSUME NEW y \in Fns
          PROVE  /\ ran'[y] \in {0, 1} /\ (owned[y] = None => ran'[y] = 0)
                 /\ owned[y] # None => \/ y \in Range(cleanups[owned[y]]) \/ ran'[y] = 1
                                       \/ \E g \in Frames' : y \in Range(g.fns)
      <4>1. CASE y = x
        BY Zenon, <2>7, <2>8, <4>1
      <4>2. CASE y # x
        <5>1. (\E g \in Frames : y \in Range(g.fns)) => \E g \in Frames' : y \in Range(g.fns)
          BY Zenon, <1>3, <2>3, <2>5, <2>11, <4>2
        <5> QED
          BY Zenon, <2>8, <4>2, <5>1 DEF FnInv, FnPlaced
      <4> QED
        BY Zenon, <4>1, <4>2
    <3>4. FnListed'
      BY Zenon, <1>4, <3>1 DEF FnInv, FnListed, lists, history
    <3>5. FnTaken'
      BY Zenon, <1>4, <3>2 DEF FnTaken, history
    <3>6. FnPlaced'
      BY Zenon, <1>4, <3>3 DEF FnPlaced, lists, history
    <3> QED
      BY Zenon, <3>4, <3>5, <3>6 DEF FnInv
  <2>15. ItemInv'
    <3>1. /\ \A g \in Frames' : g.nodes = <<>> \/ \E k \in Frames : g.nodes = k.nodes
          /\ \A k \in Frames : k.nodes = <<>> \/ \E g \in Frames' : g.nodes = k.nodes /\ g.owner = k.owner
          /\ \A g \in Frames' : g.pc = "register" => g \in Frames
      BY Zenon, <1>3, <2>5, <2>11
    <3> QED
      BY Zenon, <1>4, <3>1, ItemKept DEF lists, history
  <2>16. GoneInv'
    BY Zenon, <1>3, <1>4, <2>11 DEF GoneInv, lists
  <2> QED
    BY Zenon, <2>11, <2>12, <2>13, <2>14, <2>15, <2>16
<1> QED
  BY Zenon, <1>5, <1>6

(* The values that leave the arena                                          *)
LEMMA Removed ==
    ASSUME Types, NEW s \in Seq(Items), NEW taken \in Retain(s, DOMAIN arena)
    PROVE  /\ taken \in Seq(Items)
           /\ \A n : n \in Range(taken) <=> n \in Range(s) /\ n \in DOMAIN arena
           /\ [i \in DOMAIN taken |-> arena[taken[i]]] \in Seq(Owners \cup {None})
<1>1. taken \in Seq(Items) /\ \A n : n \in Range(taken) <=> n \in Range(s) /\ n \in DOMAIN arena
  <2>1. taken \in Seq(Items) /\ Range(taken) = Range(s) \cap DOMAIN arena
    BY Zenon, Retained
  <2> QED
    BY Zenon, <2>1
<1>2. DOMAIN taken = 1 .. Len(taken) /\ Len(taken) \in Nat
  BY <1>1
<1>3. ASSUME NEW i \in DOMAIN taken PROVE arena[taken[i]] \in Owners \cup {None}
  <2>1. taken[i] \in DOMAIN arena
    BY Zenon, <1>1 DEF Range
  <2> QED
    BY Zenon, <2>1 DEF Types
<1>4. [i \in DOMAIN taken |-> arena[taken[i]]] \in [1 .. Len(taken) -> Owners \cup {None}]
  BY Zenon, <1>2, <1>3
<1>5. ASSUME NEW n \in Nat, NEW S, NEW q \in [1 .. n -> S] PROVE q \in Seq(S)
  OBVIOUS
<1> QED
  BY Zenon, <1>1, <1>2, <1>4, <1>5

(* The items of a frame leave the arena.                                    *)
LEMMA RemoveNodesStep ==
    ASSUME SharedInv, NEW t \in Threads, RemoveNodes(t)
    PROVE  SharedInv'
<1> USE DEF SharedInv
<1>1. ~Idle(t) /\ Top(t).pc = "nodes"
  BY Zenon DEF RemoveNodes, At
<1>2. PICK h \in FrameType : h = Top(t)
  BY Zenon, <1>1, Stacks
<1>3. /\ Frames = Others(t) \cup {h} /\ h \in Frames /\ h.pc = "nodes" /\ FrameInv(h)
      /\ Free(Others(t), h) /\ h.nodes \in Seq(Items) /\ h.fns = <<>>
  <2>1. Frames = Others(t) \cup {h} /\ h \in Frames /\ Free(Others(t), h)
    BY Zenon, <1>1, <1>2, Stacks
  <2> QED
    BY Zenon, <1>1, <1>2, <2>1 DEF FramesInv, FrameInv, FrameType
<1>4. PICK taken \in Retain(h.nodes, DOMAIN arena) :
         /\ arena' = Without(Range(taken))
         /\ Goto(t, [h EXCEPT !.pc = "items", !.nodes = <<>>,
                        !.items = [i \in DOMAIN taken |-> arena[taken[i]]]])
  BY Zenon, <1>2 DEF RemoveNodes
<1>5. taken \in Seq(Items) /\ \A n : n \in Range(taken) <=> n \in Range(h.nodes) /\ n \in DOMAIN arena
  BY Zenon, <1>3, <1>4, Removed
<1>6. PICK items \in Seq(Owners \cup {None}) : items = [i \in DOMAIN taken |-> arena[taken[i]]]
  BY Zenon, <1>3, <1>4, Removed
<1>7. PICK f : f = [h EXCEPT !.pc = "items", !.nodes = <<>>, !.items = items]
  BY Zenon
<1>8. f \in FrameType /\ f.pc = "items" /\ Bare(f) /\ f.owner = h.owner /\ Blank(f)
  <2>1. "items" \in Pcs
    BY Zenon DEF Pcs, Callers
  <2>2. PICK none \in Seq(Items) : none = <<>>
    <3>1. <<>> \in Seq(Items)
      OBVIOUS
    <3> QED
      BY Zenon, <3>1
  <2>3. f = [h EXCEPT !.pc = "items", !.nodes = none, !.items = items]
    BY Zenon, <1>7, <2>2
  <2>4. f \in FrameType /\ f.pc = "items" /\ f.fns = h.fns /\ f.nodes = none /\ f.owner = h.owner
    BY <2>1, <2>3 DEF FrameType
  <2> QED
    BY Zenon, <1>3, <2>2, <2>4 DEF Bare, Blank
<1>9. Goto(t, f) /\ UNCHANGED <<status, held, tree, lists, paused, current, ran, history>>
  BY Zenon, <1>4, <1>6, <1>7 DEF RemoveNodes
<1>10. FrameInv(f)
  BY Zenon, <1>3, <1>8 DEF FrameInv, Bare, Cleaners, Walkers
<1>11. Free(Others(t), f)
  BY Zenon, <1>8, Burdens DEF Free
<1>12. stack' \in [Threads -> Seq(FrameType)] /\ Frames' = Others(t) \cup {f} /\ Apart'
  BY Zenon, <1>1, <1>8, <1>9, <1>11, Stacks
<1>13. FramesInv'
  BY Zenon, <1>3, <1>10, <1>12 DEF FramesInv
<1>14. /\ \A n : n \in DOMAIN arena' <=> n \in DOMAIN arena /\ n \notin Range(h.nodes)
       /\ DOMAIN arena' \subseteq Items /\ arena' \in [DOMAIN arena' -> Owners \cup {None}]
  <2>1. DOMAIN arena' = DOMAIN arena \ Range(taken)
    BY Zenon, <1>4 DEF Without
  <2>2. ASSUME NEW n \in DOMAIN arena \ Range(taken) PROVE arena[n] \in Owners \cup {None}
    BY Zenon DEF Types
  <2>3. arena' \in [DOMAIN arena' -> Owners \cup {None}]
    BY Zenon, <1>4, <2>1, <2>2 DEF Without
  <2> QED
    BY Zenon, <1>5, <2>1, <2>3 DEF Types
<1>15. Types'
  BY Zenon, <1>9, <1>12, <1>14 DEF Types, tree, lists, history
<1>16. FnInv'
  <2>1. /\ \A g \in Frames' : g.fns = <<>> \/ \E k \in Frames : g.fns = k.fns
        /\ \A k \in Frames : k.fns = <<>> \/ \E g \in Frames' : g.fns = k.fns
    BY Zenon, <1>3, <1>8, <1>12 DEF Bare
  <2> QED
    BY Zenon, <1>9, <2>1, FnKept DEF lists, history
<1>17. ItemInv'
  <2>0. Range(<<>>) = {}
    BY DEF Range
  <2>1. ASSUME NEW p \in Owners, NEW n \in Range(nodes[p])
        PROVE  /\ owned[n] = p /\ (n \in DOMAIN arena' \/ n \in disposed)
               /\ \A g \in Frames' : n \notin Range(g.nodes)
    BY Zenon, <1>3, <1>8, <1>12, <1>14, <2>0 DEF ItemInv, Bare
  <2>2. ASSUME NEW g \in Frames', NEW n \in Range(g.nodes)
        PROVE  owned[n] # None /\ (n \in DOMAIN arena' \/ n \in disposed)
    <3>1. g \in Others(t) /\ g \in Frames
      BY Zenon, <1>3, <1>8, <1>12, <2>0, <2>2 DEF Bare
    <3>2. n \notin Range(h.nodes)
      BY Zenon, <1>3, <2>2, <3>1 DEF Free, Burden
    <3> QED
      BY Zenon, <1>14, <2>2, <3>1, <3>2 DEF ItemInv
  <2>3. ASSUME NEW g \in Frames', g.pc = "register" PROVE owned[g.arg] = None /\ g.arg \in DOMAIN arena'
    <3>1. g \in Frames
      BY Zenon, <1>3, <1>8, <1>12, <2>3
    <3>2. owned[g.arg] = None /\ g.arg \in DOMAIN arena
      BY Zenon, <2>3, <3>1 DEF ItemInv
    <3>3. g.arg \notin Range(h.nodes)
      BY Zenon, <1>3, <3>2 DEF ItemInv
    <3> QED
      BY Zenon, <1>14, <3>2, <3>3
  <2>4. ASSUME NEW n \in DOMAIN arena', owned[n] # None
        PROVE  \/ n \in Range(nodes[owned[n]])
               \/ \E g \in Frames' : g.owner = owned[n] /\ n \in Range(g.nodes)
    BY Zenon, <1>3, <1>12, <1>14, <2>4 DEF ItemInv, ItemsOwned
  <2>5. ItemsOwned'
    BY Zenon, <1>9, <2>4 DEF ItemsOwned, lists, history
  <2> QED
    BY Zenon, <1>9, <2>1, <2>2, <2>3, <2>5 DEF ItemInv, lists, history
<1>18. GoneInv'
  BY Zenon, <1>3, <1>9, <1>12 DEF GoneInv, lists
<1> QED
  BY Zenon, <1>12, <1>13, <1>15, <1>16, <1>17, <1>18

(* What happens to no function is kept in reach                             *)
Mono(lost) ==
    /\ \A g \in Fns : ran[g] = 1 => ran'[g] = 1
    /\ \A o \in Owners : /\ LiveChildren(o) \subseteq LiveChildren(o)' \cup lost
                         /\ Range(cleanups[o]) \subseteq Range(cleanups'[o])
    /\ \A c \in Owners : Alive(c) => Alive(c)' \/ c \in lost

(* What some frames were to reach, others will, whatever frames are below.  *)
Handed(old, new) ==
    \A rest : \A g \in Fns : Reached(old \cup rest, g) => Reached(new \cup rest, g)'

(* Handing on what is to be reached, when no list is emptied                *)
LEMMA HandingOn ==
    ASSUME NEW old, NEW new, NEW lost, Mono(lost),
           \A f \in old : /\ \A g \in Range(f.fns) : ran'[g] = 1 \/ \E k \in new : g \in Range(k.fns)
                          /\ \A c \in ToClean(f) : c \in lost \/ \E k \in new : c \in ToClean(k)',
           \A c \in lost : \E k \in new : c \in ToClean(k)'
    PROVE  Handed(old, new)
<1>1. SUFFICES ASSUME NEW rest, NEW g \in Fns, Reached(old \cup rest, g)
               PROVE  Reached(new \cup rest, g)'
  BY Zenon DEF Handed
<1>2. CASE ran[g] = 1
  BY Zenon, <1>2 DEF Reached, Mono
<1>3. CASE \E f \in old \cup rest : g \in Range(f.fns)
  BY Zenon, <1>3 DEF Reached
<1>4. CASE \A set \in SUBSET Owners :
             Closed(set) /\ (\A f \in old \cup rest : ToClean(f) \subseteq set) =>
                 \E o \in set : g \in Range(cleanups[o])
  <2>1. ASSUME NEW set \in SUBSET Owners, Closed(set)', \A f \in new \cup rest : ToClean(f)' \subseteq set
        PROVE  \E o \in set : g \in Range(cleanups'[o])
    <3>1. lost \subseteq set
      BY Zenon, <2>1
    <3>2. Closed(set)
      <4>1. ASSUME NEW o \in set PROVE LiveChildren(o) \subseteq set
        BY Zenon, <2>1, <3>1 DEF Closed, Mono
      <4> QED
        BY Zenon, <4>1 DEF Closed
    <3>3. ASSUME NEW f \in rest, NEW c \in ToClean(f) PROVE c \in set
      <4>1. c \in ToClean(f)' \/ c \in lost
        BY Zenon DEF ToClean, Mono
      <4> QED
        BY Zenon, <2>1, <3>1, <4>1
    <3>4. ASSUME NEW f \in old, NEW c \in ToClean(f) PROVE c \in set
      BY Zenon, <2>1, <3>1
    <3>5. PICK o \in set : g \in Range(cleanups[o])
      BY Zenon, <1>4, <3>2, <3>3, <3>4
    <3> QED
      BY Zenon, <3>5 DEF Mono
  <2> QED
    BY Zenon, <2>1 DEF Reached
<1> QED
  BY Zenon, <1>1, <1>2, <1>3, <1>4 DEF Reached

(* The same of one frame, when no owner is lost                             *)
LEMMA HandingOver ==
    ASSUME NEW h, NEW new, Mono({}),
           \A g \in Range(h.fns) : ran'[g] = 1 \/ \E k \in new : g \in Range(k.fns),
           \A c \in ToClean(h) : \E k \in new : c \in ToClean(k)'
    PROVE  Handed({h}, new)
<1>1. ASSUME NEW f \in {h}
      PROVE  /\ \A g \in Range(f.fns) : ran'[g] = 1 \/ \E k \in new : g \in Range(k.fns)
             /\ \A c \in ToClean(f) : c \in {} \/ \E k \in new : c \in ToClean(k)'
  BY Zenon
<1> QED
  BY <1>1, HandingOn

(* The frames up to a place                                                 *)
LEMMA Places ==
    ASSUME NEW s \in Seq(FrameType), NEW x \in FrameType
    PROVE  /\ DOMAIN s = 1 .. Len(s) /\ Len(s) \in Nat
           /\ DOMAIN (<<x>> \o s) = 1 .. Len(s) + 1
           /\ (<<x>> \o s)[1] = x /\ UpTo(<<x>> \o s, 1) = {x}
           /\ \A i \in 1 .. Len(s) : /\ (<<x>> \o s)[i + 1] = s[i]
                                     /\ UpTo(<<x>> \o s, i + 1) = {x} \cup UpTo(s, i)
<1> DEFINE r == <<x>> \o s
<1>1. /\ DOMAIN s = 1 .. Len(s) /\ Len(s) \in Nat
      /\ DOMAIN r = 1 .. Len(s) + 1 /\ r[1] = x
      /\ \A i \in 1 .. Len(s) : r[i + 1] = s[i]
  OBVIOUS
<1> HIDE DEF r
<1>2. UpTo(r, 1) = {x}
  <2>1. \A j : j \in 1 .. 1 <=> j = 1
    OBVIOUS
  <2> QED
    BY Zenon, <1>1, <2>1 DEF UpTo
<1>3. ASSUME NEW i \in 1 .. Len(s) PROVE UpTo(r, i + 1) = {x} \cup UpTo(s, i)
  <2>1. i \in Nat /\ \A j \in 1 .. i : j \in 1 .. Len(s)
    BY <1>1
  <2>2. ASSUME NEW y \in UpTo(r, i + 1) PROVE y \in {x} \cup UpTo(s, i)
    <3>1. PICK j \in 1 .. i + 1 : y = r[j]
      BY Zenon DEF UpTo
    <3>2. CASE j = 1
      BY Zenon, <1>1, <3>1, <3>2
    <3>3. CASE j # 1
      <4>1. PICK k \in 1 .. i : j = k + 1
        BY Zenon, <2>1, <3>3, OneMore
      <4> QED
        BY Zenon, <1>1, <2>1, <3>1, <4>1 DEF UpTo
    <3> QED
      BY Zenon, <3>2, <3>3
  <2>3. ASSUME NEW y \in UpTo(s, i) PROVE y \in UpTo(r, i + 1)
    <3>1. PICK j \in 1 .. i : y = s[j]
      BY Zenon DEF UpTo
    <3>2. j + 1 \in 1 .. i + 1 /\ y = r[j + 1]
      BY Zenon, <1>1, <2>1, <3>1, OneMore
    <3> QED
      BY Zenon, <3>2 DEF UpTo
  <2>4. x \in UpTo(r, i + 1)
    BY Zenon, <1>1, <2>1, OneMore DEF UpTo
  <2> QED
    BY Zenon, <2>2, <2>3, <2>4
<1> QED
  BY Zenon, <1>1, <1>2, <1>3 DEF r

(* What is due in a call stack, frame by frame                              *)
LEMMA DueSplit ==
    ASSUME NEW s \in Seq(FrameType), NEW x \in FrameType, NEW frames
    PROVE  /\ DueFrom(frames, <<x>> \o s) =>
                 Due(frames \cup {x}, x) /\ DueFrom(frames \cup {x}, s)
           /\ (Due(frames \cup {x}, x) /\ DueFrom(frames \cup {x}, s)
                 => DueFrom(frames, <<x>> \o s))'
<1>1. /\ DOMAIN s = 1 .. Len(s) /\ Len(s) \in Nat
      /\ DOMAIN (<<x>> \o s) = 1 .. Len(s) + 1
      /\ (<<x>> \o s)[1] = x /\ UpTo(<<x>> \o s, 1) = {x}
      /\ \A i \in 1 .. Len(s) : /\ (<<x>> \o s)[i + 1] = s[i]
                                /\ UpTo(<<x>> \o s, i + 1) = {x} \cup UpTo(s, i)
  BY Zenon, Places
<1>2. ASSUME NEW i \in 1 .. Len(s)
      PROVE  frames \cup UpTo(<<x>> \o s, i + 1) = (frames \cup {x}) \cup UpTo(s, i)
  BY Zenon, <1>1
<1>3. ASSUME DueFrom(frames, <<x>> \o s)
      PROVE  Due(frames \cup {x}, x) /\ DueFrom(frames \cup {x}, s)
  <2>1. 1 \in DOMAIN (<<x>> \o s)
    BY Zenon, <1>1, OneMore
  <2>2. Due(frames \cup {x}, x)
    BY Zenon, <1>1, <1>3, <2>1 DEF DueFrom
  <2>3. ASSUME NEW i \in DOMAIN s PROVE Due((frames \cup {x}) \cup UpTo(s, i), s[i])
    <3>1. i \in 1 .. Len(s) /\ i + 1 \in DOMAIN (<<x>> \o s)
      BY Zenon, <1>1, OneMore
    <3>2. Due(frames \cup UpTo(<<x>> \o s, i + 1), (<<x>> \o s)[i + 1])
      BY Zenon, <1>3, <3>1 DEF DueFrom
    <3> QED
      BY Zenon, <1>1, <1>2, <3>1, <3>2
  <2> QED
    BY Zenon, <2>2, <2>3 DEF DueFrom
<1>4. ASSUME Due(frames \cup {x}, x)', DueFrom(frames \cup {x}, s)'
      PROVE  DueFrom(frames, <<x>> \o s)'
  <2>1. ASSUME NEW j \in DOMAIN (<<x>> \o s)
        PROVE  Due(frames \cup UpTo(<<x>> \o s, j), (<<x>> \o s)[j])'
    <3>1. CASE j = 1
      BY Zenon, <1>1, <1>4, <3>1
    <3>2. CASE j # 1
      <4>1. PICK i \in 1 .. Len(s) : j = i + 1
        BY Zenon, <1>1, <3>2, OneMore
      <4>2. Due((frames \cup {x}) \cup UpTo(s, i), s[i])'
        BY Zenon, <1>1, <1>4 DEF DueFrom
      <4> QED
        BY Zenon, <1>1, <1>2, <4>1, <4>2
    <3> QED
      BY Zenon, <3>1, <3>2
  <2> QED
    BY Zenon, <2>1 DEF DueFrom
<1> QED
  BY Zenon, <1>3, <1>4

(* The frames below those that hand on what is to be reached                *)
LEMMA DueBelow ==
    ASSUME NEW s \in Seq(FrameType), NEW old, NEW new, Handed(old, new), DueFrom(old, s),
           \A g \in Fns : ran[g] = 1 => ran'[g] = 1
    PROVE  DueFrom(new, s)'
<1>1. ASSUME NEW i \in DOMAIN s PROVE Due(new \cup UpTo(s, i), s[i])'
  <2>1. Due(old \cup UpTo(s, i), s[i])
    BY Zenon DEF DueFrom
  <2>2. s[i].due \subseteq Fns
    <3>1. s[i] \in FrameType
      OBVIOUS
    <3> QED
      BY Zenon, <3>1 DEF FrameType
  <2>3. \A g \in s[i].due : Reached(old \cup UpTo(s, i), g) => Reached(new \cup UpTo(s, i), g)'
    BY Zenon, <2>2 DEF Handed
  <2> QED
    BY Zenon, <2>1, <2>2, <2>3 DEF Due
<1> QED
  BY Zenon, <1>1 DEF DueFrom

(* A call stack, its innermost frame and the rest                           *)
LEMMA Unfold ==
    ASSUME NEW s \in Seq(FrameType)
    PROVE  /\ s # <<>> => /\ Head(s) \in FrameType /\ Tail(s) \in Seq(FrameType)
                          /\ s = <<Head(s)>> \o Tail(s)
                          /\ Range(s) = Range(Tail(s)) \cup {Head(s)}
           /\ \A x \in FrameType : /\ <<x>> \o s \in Seq(FrameType) /\ Tail(<<x>> \o s) = s
                                   /\ Range(<<x>> \o s) = Range(s) \cup {x}
                                   /\ \A y \in FrameType : <<y, x>> \o s = <<y>> \o (<<x>> \o s)
<1>1. ASSUME s # <<>>
      PROVE  /\ Head(s) \in FrameType /\ Tail(s) \in Seq(FrameType)
             /\ Range(s) = Range(Tail(s)) \cup {Head(s)}
  BY Zenon, <1>1, Shortened
<1>2. ASSUME s # <<>> PROVE s = <<Head(s)>> \o Tail(s)
  BY <1>2
<1>3. ASSUME NEW x \in FrameType
      PROVE  <<x>> \o s \in Seq(FrameType) /\ Range(<<x>> \o s) = Range(s) \cup {x}
  BY Extended
<1>4. ASSUME NEW x \in FrameType PROVE Tail(<<x>> \o s) = s
  OBVIOUS
<1>5. ASSUME NEW x \in FrameType, NEW y \in FrameType PROVE <<y, x>> \o s = <<y>> \o (<<x>> \o s)
  BY Zenon, Pushing
<1> QED
  BY Zenon, <1>1, <1>2, <1>3, <1>4, <1>5

(* The innermost frame of the only thread, and the frames below             *)
LEMMA Innermost ==
    ASSUME Types, Lone, DueInv, Below, NEW t \in Threads, ~Idle(t)
    PROVE  \E h \in FrameType : \E rest \in Seq(FrameType) :
              /\ h = Top(t) /\ rest = Tail(stack[t]) /\ Range(stack[t]) = Range(rest) \cup {h}
              /\ Due({h}, h) /\ DueFrom({h}, rest) /\ Others(t) = Range(rest)
              /\ \A f \in Range(rest) : f.pc \in Callers
<1>1. PICK s \in Seq(FrameType) : s = stack[t]
  BY Zenon DEF Types
<1>2. DueFrom({}, s) /\ \A u \in Threads : u = t
  BY Zenon, <1>1 DEF DueInv, Lone
<1>3. s # <<>>
  BY Zenon, <1>1 DEF Idle
<1>4. PICK h \in FrameType : h = Head(s)
  BY Zenon, <1>3, Unfold
<1>5. PICK rest \in Seq(FrameType) : rest = Tail(s)
  BY Zenon, <1>3, Unfold
<1>6. s = <<h>> \o rest /\ Range(s) = Range(rest) \cup {h}
  BY Zenon, <1>3, <1>4, <1>5, Unfold
<1>7. DueFrom({}, <<h>> \o rest)
  BY Zenon, <1>2, <1>6
<1>8. Due({} \cup {h}, h) /\ DueFrom({} \cup {h}, rest)
  BY Zenon, <1>7, DueSplit
<1>9. {} \cup {h} = {h}
  BY Zenon
<1>10. Due({h}, h) /\ DueFrom({h}, rest)
  BY Zenon, <1>8, <1>9
<1>11. \A f \in Range(rest) : f.pc \in Callers
  BY Zenon, <1>1, <1>5 DEF Below
<1>12. Others(t) = Range(rest)
  BY Zenon, <1>1, <1>2, <1>5 DEF Others
<1> QED
  BY Zenon, <1>1, <1>4, <1>5, <1>6, <1>10, <1>11, <1>12 DEF Top

(* Calling, going on and returning on the only thread                       *)
LEMMA LoneCalls ==
    ASSUME Types, Lone, DueInv, Below, NEW t \in Threads,
           \A g \in Fns : ran[g] = 1 => ran'[g] = 1
    PROVE  /\ Idle(t) \/ Top(t).pc \in Callers =>
                 /\ \A g \in Frames : g.pc \in Callers
                 /\ \A f \in FrameType : Enter(t, f) /\ Handed({}, {f}) /\ Due({f}, f)'
                                            => DueInv' /\ Below'
           /\ UNCHANGED stack /\ Handed({}, {}) => DueInv' /\ Below'
           /\ ~Idle(t) =>
                 /\ Due({Top(t)}, Top(t)) /\ \A g \in Others(t) : g.pc \in Callers
                 /\ \A f \in FrameType :
                       Goto(t, f) /\ Handed({Top(t)}, {f}) /\ Due({f}, f)' => DueInv' /\ Below'
                 /\ \A c, f \in FrameType :
                       /\ Call(t, c, f) /\ f.pc \in Callers /\ Handed({Top(t)}, {c, f})
                       /\ Due({c}, c)' /\ Due({c, f}, f)'
                       => DueInv' /\ Below'
                 /\ Return(t) /\ Handed({Top(t)}, {}) => DueInv' /\ Below'
<1>1. PICK s \in Seq(FrameType) : s = stack[t]
  BY Zenon DEF Types
<1>2. DueFrom({}, s) /\ Frames = Range(s) /\ \A u \in Threads : u = t
  BY Zenon, <1>1 DEF DueInv, Lone, Frames
<1>3. ASSUME NEW r \in Seq(FrameType), stack' = [stack EXCEPT ![t] = r], DueFrom({}, r)',
             r # <<>> => \A f \in Range(Tail(r)) : f.pc \in Callers
      PROVE  DueInv' /\ Below'
  <2>1. stack'[t] = r
    BY Zenon, <1>3 DEF Types
  <2>2. ASSUME NEW u \in Threads PROVE DueFrom({}, stack[u])'
    <3>1. stack'[u] = r
      BY Zenon, <1>2, <2>1
    <3> QED
      BY Zenon, <1>3, <3>1
  <2>3. ASSUME NEW u \in Threads, stack'[u] # <<>> PROVE \A f \in Range(Tail(stack'[u])) : f.pc \in Callers
    <3>1. stack'[u] = r
      BY Zenon, <1>2, <2>1
    <3> QED
      BY Zenon, <1>3, <2>3, <3>1
  <2>4. DueInv'
    BY Zenon, <2>2 DEF DueInv
  <2>5. Below'
    BY Zenon, <2>3 DEF Below, Idle
  <2> QED
    BY Zenon, <2>4, <2>5
<1>4. ASSUME ~Idle(t)
      PROVE  \E h \in FrameType : \E rest \in Seq(FrameType) :
                /\ h = Top(t) /\ rest = Tail(stack[t]) /\ Range(s) = Range(rest) \cup {h}
                /\ Due({h}, h) /\ DueFrom({h}, rest) /\ Others(t) = Range(rest)
                /\ \A f \in Range(rest) : f.pc \in Callers
  BY Zenon, <1>1, <1>4, Innermost
<1>5. ASSUME Idle(t) \/ Top(t).pc \in Callers PROVE \A g \in Range(s) : g.pc \in Callers
  <2>1. CASE Idle(t)
    <3>1. Range(<<>>) = {}
      BY DEF Range
    <3> QED
      BY Zenon, <1>1, <2>1, <3>1 DEF Idle
  <2>2. CASE ~Idle(t)
    <3>1. PICK h \in FrameType : \E rest \in Seq(FrameType) :
             /\ h = Top(t) /\ Range(s) = Range(rest) \cup {h} /\ \A g \in Range(rest) : g.pc \in Callers
      BY Zenon, <1>4, <2>2
    <3> QED
      BY Zenon, <1>5, <2>2, <3>1
  <2> QED
    BY Zenon, <2>1, <2>2
<1>6. ASSUME Idle(t) \/ Top(t).pc \in Callers, NEW f \in FrameType, Enter(t, f),
             Handed({}, {f}), Due({f}, f)'
      PROVE  DueInv' /\ Below'
  <2>1. \A g \in Range(s) : g.pc \in Callers
    BY Zenon, <1>5, <1>6
  <2>2. DueFrom({f}, s)'
    BY Zenon, <1>2, <1>6, DueBelow
  <2>3. {} \cup {f} = {f}
    BY Zenon
  <2>4. DueFrom({}, <<f>> \o s)'
    BY Zenon, <1>6, <2>2, <2>3, DueSplit
  <2>5. <<f>> \o s \in Seq(FrameType) /\ Tail(<<f>> \o s) = s
    BY Zenon, Unfold
  <2>6. stack' = [stack EXCEPT ![t] = <<f>> \o s]
    BY Zenon, <1>1, <1>6 DEF Enter, Types
  <2> QED
    BY Zenon, <1>3, <2>1, <2>4, <2>5, <2>6
<1>7. ASSUME UNCHANGED stack, Handed({}, {}) PROVE DueInv' /\ Below'
  <2>1. DueFrom({}, s)'
    BY Zenon, <1>2, <1>7, DueBelow
  <2>2. ASSUME NEW u \in Threads PROVE DueFrom({}, stack[u])'
    <3>1. stack'[u] = s
      BY Zenon, <1>1, <1>2, <1>7
    <3> QED
      BY Zenon, <2>1, <3>1
  <2>3. DueInv'
    BY Zenon, <2>2 DEF DueInv
  <2>4. Below'
    BY Zenon, <1>7 DEF Below, Idle
  <2> QED
    BY Zenon, <2>3, <2>4
<1>8. ASSUME ~Idle(t), NEW f \in FrameType, Goto(t, f), Handed({Top(t)}, {f}), Due({f}, f)'
      PROVE  DueInv' /\ Below'
  <2>1. PICK rest \in Seq(FrameType) : /\ rest = Tail(stack[t]) /\ DueFrom({Top(t)}, rest)
                                       /\ \A g \in Range(rest) : g.pc \in Callers
    BY Zenon, <1>4, <1>8
  <2>2. DueFrom({f}, rest)'
    BY Zenon, <1>8, <2>1, DueBelow
  <2>3. {} \cup {f} = {f}
    BY Zenon
  <2>4. DueFrom({}, <<f>> \o rest)'
    BY Zenon, <1>8, <2>2, <2>3, DueSplit
  <2>5. <<f>> \o rest \in Seq(FrameType) /\ Tail(<<f>> \o rest) = rest
    BY Zenon, Unfold
  <2>6. stack' = [stack EXCEPT ![t] = <<f>> \o rest]
    BY Zenon, <1>8, <2>1 DEF Goto, Types
  <2> QED
    BY Zenon, <1>3, <2>1, <2>4, <2>5, <2>6
<1>9. ASSUME ~Idle(t), NEW c \in FrameType, NEW f \in FrameType, Call(t, c, f), f.pc \in Callers,
             Handed({Top(t)}, {c, f}), Due({c}, c)', Due({c, f}, f)'
      PROVE  DueInv' /\ Below'
  <2>1. PICK rest \in Seq(FrameType) : /\ rest = Tail(stack[t]) /\ DueFrom({Top(t)}, rest)
                                       /\ \A g \in Range(rest) : g.pc \in Callers
    BY Zenon, <1>4, <1>9
  <2>2. DueFrom({c, f}, rest)'
    BY Zenon, <1>9, <2>1, DueBelow
  <2>3. {} \cup {c} = {c} /\ {c} \cup {f} = {c, f}
    BY Zenon
  <2>4. PICK r \in Seq(FrameType) : r = <<f>> \o rest /\ Range(r) = Range(rest) \cup {f}
    BY Zenon, Unfold
  <2>5. DueFrom({c}, <<f>> \o rest)'
    BY Zenon, <1>9, <2>2, <2>3, DueSplit
  <2>6. DueFrom({}, <<c>> \o r)'
    BY Zenon, <1>9, <2>3, <2>4, <2>5, DueSplit
  <2>7. <<c>> \o r \in Seq(FrameType) /\ Tail(<<c>> \o r) = r /\ <<c, f>> \o rest = <<c>> \o r
    BY Zenon, <2>4, Unfold
  <2>8. stack' = [stack EXCEPT ![t] = <<c>> \o r]
    BY Zenon, <1>9, <2>1, <2>7 DEF Call, Types
  <2>9. \A g \in Range(r) : g.pc \in Callers
    BY Zenon, <1>9, <2>1, <2>4
  <2> QED
    BY Zenon, <1>3, <2>6, <2>7, <2>8, <2>9
<1>10. ASSUME ~Idle(t), Return(t), Handed({Top(t)}, {}) PROVE DueInv' /\ Below'
  <2>1. PICK rest \in Seq(FrameType) : /\ rest = Tail(stack[t]) /\ DueFrom({Top(t)}, rest)
                                       /\ \A g \in Range(rest) : g.pc \in Callers
    BY Zenon, <1>4, <1>10
  <2>2. DueFrom({}, rest)'
    BY Zenon, <1>10, <2>1, DueBelow
  <2>3. stack' = [stack EXCEPT ![t] = rest]
    BY Zenon, <1>10, <2>1 DEF Return, Types
  <2>4. ASSUME rest # <<>> PROVE \A f \in Range(Tail(rest)) : f.pc \in Callers
    <3>1. Range(rest) = Range(Tail(rest)) \cup {Head(rest)}
      BY Zenon, <2>4, Unfold
    <3> QED
      BY Zenon, <2>1, <3>1
  <2> QED
    BY Zenon, <1>3, <2>2, <2>3, <2>4
<1> QED
  BY Zenon, <1>2, <1>4, <1>5, <1>8, <1>9, <1>10, <1>6, <1>7

(* No owner is below itself after a step that takes children away, or that  *)
(* adds one that has no children.                                           *)
LEMMA StillAcyclic ==
    ASSUME Acyclic
    PROVE  /\ (\A q \in Owners : LiveChildren(q)' \subseteq LiveChildren(q)) => Acyclic'
           /\ \A o \in Owners :
                 /\ \A q \in Owners : LiveChildren(q)' \subseteq LiveChildren(q) \cup {o}
                 /\ LiveChildren(o)' = {}
                 => Acyclic'
<1>1. ASSUME \A q \in Owners : LiveChildren(q)' \subseteq LiveChildren(q) PROVE Acyclic'
  <2>1. ASSUME NEW o \in Owners
        PROVE  \E set \in SUBSET Owners : Closed(set)' /\ LiveChildren(o)' \subseteq set /\ o \notin set
    <3>1. PICK set \in SUBSET Owners : Closed(set) /\ LiveChildren(o) \subseteq set /\ o \notin set
      BY Zenon DEF Acyclic
    <3>2. Closed(set)'
      BY Zenon, <1>1, <3>1 DEF Closed
    <3> QED
      BY Zenon, <1>1, <3>1, <3>2
  <2> QED
    BY Zenon, <2>1 DEF Acyclic
<1>2. ASSUME NEW o \in Owners, \A q \in Owners : LiveChildren(q)' \subseteq LiveChildren(q) \cup {o},
             LiveChildren(o)' = {}
      PROVE  Acyclic'
  <2>1. ASSUME NEW q \in Owners
        PROVE  \E set \in SUBSET Owners : Closed(set)' /\ LiveChildren(q)' \subseteq set /\ q \notin set
    <3>1. CASE q = o
      <4>1. {} \in SUBSET Owners /\ Closed({})'
        BY Zenon DEF Closed
      <4> QED
        BY Zenon, <1>2, <3>1, <4>1
    <3>2. CASE q # o
      <4>1. PICK set \in SUBSET Owners : Closed(set) /\ LiveChildren(q) \subseteq set /\ q \notin set
        BY Zenon DEF Acyclic
      <4>2. PICK more \in SUBSET Owners : more = set \cup {o}
        BY Zenon
      <4>3. ASSUME NEW p \in more PROVE LiveChildren(p)' \subseteq more
        <5>1. CASE p = o
          BY Zenon, <1>2, <5>1
        <5>2. CASE p # o
          BY Zenon, <1>2, <4>1, <4>2, <5>2 DEF Closed
        <5> QED
          BY Zenon, <5>1, <5>2
      <4>4. Closed(more)'
        BY Zenon, <4>3 DEF Closed
      <4>5. LiveChildren(q)' \subseteq more /\ q \notin more
        BY Zenon, <1>2, <3>2, <4>1, <4>2
      <4> QED
        BY Zenon, <4>4, <4>5
    <3> QED
      BY Zenon, <3>1, <3>2
  <2> QED
    BY Zenon, <2>1 DEF Acyclic
<1> QED
  BY Zenon, <1>1, <1>2

(* A step that leaves the tree and the functions alone, but for handles     *)
Plain == UNCHANGED <<status, tree, cleanups, ran>> /\ held' \subseteq held

(* A frame that reaches no owner and no function, and one that owes none    *)
Passive(f) == f.fns = <<>> /\ f.pc \notin {"take", "kids"}
Undue(f) == f.pc \notin {"push", "kids", "fns", "function"}

(* Plain steps keep what was in reach in reach, and the tree acyclic.       *)
LEMMA Plainly ==
    ASSUME LoneFacts, Plain
    PROVE  /\ Mono({}) /\ Acyclic'
           /\ Below' /\ (\A g \in Frames' : g.pc # "push") => BornInv'
<1>1. /\ \A q : LiveChildren(q)' = LiveChildren(q)
      /\ \A c : Alive(c)' <=> Alive(c)
      /\ cleanups' = cleanups /\ ran' = ran /\ status' = status /\ children' = children
  BY Zenon DEF Plain, tree, LiveChildren, Alive
<1>2. Mono({})
  BY Zenon, <1>1 DEF Mono
<1>3. Acyclic'
  BY Zenon, <1>1, StillAcyclic DEF LoneFacts
<1>4. ASSUME Below', \A g \in Frames' : g.pc # "push" PROVE BornInv'
  BY Zenon, <1>1, <1>4 DEF BornInv, LoneFacts, Plain
<1> QED
  BY Zenon, <1>2, <1>3, <1>4

(* Handing on nothing                                                       *)
LEMMA Nothing ==
    ASSUME Mono({})
    PROVE  /\ \A new : Handed({}, new)
           /\ \A f, new : Passive(f) => Handed({f}, new)
           /\ \A f, frames : Undue(f) => Due(frames, f)'
<1>1. ASSUME NEW new PROVE Handed({}, new)
  BY Zenon, HandingOn
<1>2. ASSUME NEW f, NEW new, Passive(f) PROVE Handed({f}, new)
  <2>1. Range(<<>>) = {}
    BY DEF Range
  <2>2. Range(f.fns) = {} /\ ToClean(f) = {}
    BY Zenon, <1>2, <2>1 DEF Passive, ToClean
  <2> QED
    BY Zenon, <2>2, HandingOn
<1>3. ASSUME NEW f, NEW frames, Undue(f) PROVE Due(frames, f)'
  BY Zenon, <1>3 DEF Undue, Due
<1> QED
  BY Zenon, <1>1, <1>2, <1>3

(* Plain calls                                                              *)
LEMMA PlainCalls ==
    ASSUME Types, Lone, LoneFacts, Plain, NEW t \in Threads
    PROVE  /\ UserCode(t) => \A f \in FrameType : Enter(t, f) /\ Undue(f) => LoneFacts'
           /\ ~Idle(t) =>
                 /\ \A f \in FrameType : Goto(t, f) /\ Undue(f) /\ Passive(Top(t)) => LoneFacts'
                 /\ \A c, f \in FrameType :
                       /\ Call(t, c, f) /\ Undue(c) /\ Undue(f) /\ f.pc \in Callers /\ Passive(Top(t))
                       => LoneFacts'
                 /\ Return(t) /\ Passive(Top(t)) => LoneFacts'
<1>1. /\ Mono({}) /\ Acyclic' /\ DueInv /\ Below
      /\ Below' /\ (\A g \in Frames' : g.pc # "push") => BornInv'
      /\ \A g \in Fns : ran[g] = 1 => ran'[g] = 1
  BY Zenon, Plainly DEF LoneFacts, BornInv, Mono
<1>2. \A pc \in Callers : pc # "push"
  BY Zenon DEF Callers
<1>3. ASSUME UserCode(t), NEW f \in FrameType, Enter(t, f), Undue(f) PROVE LoneFacts'
  <2>1. Idle(t) \/ Top(t).pc \in Callers
    BY Zenon, <1>3 DEF UserCode, At, Callers
  <2>2. Handed({}, {f}) /\ Due({f}, f)'
    BY Zenon, <1>1, <1>3, Nothing
  <2>3. DueInv' /\ Below' /\ \A g \in Frames : g.pc \in Callers
    BY Zenon, <1>1, <1>3, <2>1, <2>2, LoneCalls
  <2>4. Frames' = Frames \cup {f}
    BY Zenon, <1>3, Stacks
  <2>5. \A g \in Frames' : g.pc # "push"
    BY Zenon, <1>2, <1>3, <2>3, <2>4 DEF Undue
  <2> QED
    BY Zenon, <1>1, <2>3, <2>5 DEF LoneFacts
<1>4. ASSUME ~Idle(t), NEW f \in FrameType, Goto(t, f), Undue(f), Passive(Top(t)) PROVE LoneFacts'
  <2>1. Handed({Top(t)}, {f}) /\ Due({f}, f)'
    BY Zenon, <1>1, <1>4, Nothing
  <2>2. DueInv' /\ Below' /\ \A g \in Others(t) : g.pc \in Callers
    BY Zenon, <1>1, <1>4, <2>1, LoneCalls
  <2>3. Frames' = Others(t) \cup {f}
    BY Zenon, <1>4, Stacks
  <2>4. \A g \in Frames' : g.pc # "push"
    BY Zenon, <1>2, <1>4, <2>2, <2>3 DEF Undue
  <2> QED
    BY Zenon, <1>1, <2>2, <2>4 DEF LoneFacts
<1>5. ASSUME ~Idle(t), NEW c \in FrameType, NEW f \in FrameType, Call(t, c, f), Undue(c), Undue(f),
             f.pc \in Callers, Passive(Top(t))
      PROVE  LoneFacts'
  <2>1. Handed({Top(t)}, {c, f}) /\ Due({c}, c)' /\ Due({c, f}, f)'
    BY Zenon, <1>1, <1>5, Nothing
  <2>2. DueInv' /\ Below' /\ \A g \in Others(t) : g.pc \in Callers
    BY Zenon, <1>1, <1>5, <2>1, LoneCalls
  <2>3. Frames' = Others(t) \cup {c, f}
    BY Zenon, <1>5, Stacks
  <2>4. \A g \in Frames' : g.pc # "push"
    BY Zenon, <1>2, <1>5, <2>2, <2>3 DEF Undue
  <2> QED
    BY Zenon, <1>1, <2>2, <2>4 DEF LoneFacts
<1>6. ASSUME ~Idle(t), Return(t), Passive(Top(t)) PROVE LoneFacts'
  <2>1. Handed({Top(t)}, {})
    BY Zenon, <1>1, <1>6, Nothing
  <2>2. DueInv' /\ Below' /\ \A g \in Others(t) : g.pc \in Callers
    BY Zenon, <1>1, <1>6, <2>1, LoneCalls
  <2>3. Frames' = Others(t)
    BY Zenon, <1>6, Stacks
  <2>4. \A g \in Frames' : g.pc # "push"
    BY Zenon, <1>2, <2>2, <2>3
  <2> QED
    BY Zenon, <1>1, <2>2, <2>4 DEF LoneFacts
<1> QED
  BY Zenon, <1>3, <1>4, <1>5, <1>6

(* On the only thread, the calls of user code but for Owner::new            *)
LEMMA LoneCallSteps ==
    ASSUME SharedInv, Lone, LoneFacts, NEW t \in Threads,
           \/ \E o \in Owners : \/ With(t, o) \/ DropHandle(t, o) \/ Cleanup(t, o)
                                \/ \E pc \in {"pause", "resume"} : Walk(t, o, pc)
           \/ \E n \in Items : Dispose(t, n) \/ \E o \in Owners \cup {None} : NewItem(t, n, o)
    PROVE  LoneFacts'
<1> USE DEF SharedInv
<1>1. Plain
  BY Zenon DEF Plain, With, DropHandle, Cleanup, Walk, Dispose, NewItem, lists
<1>2. UserCode(t)
  BY Zenon DEF With, DropHandle, Cleanup, Walk, Dispose, NewItem
<1>3. SUFFICES \E f \in FrameType : Enter(t, f) /\ Undue(f)
  BY Zenon, <1>1, <1>2, PlainCalls
<1>4. ASSUME NEW pc \in {"with", "release", "take", "pause", "resume", "register"}, NEW o \in Owners \cup {None}
      PROVE  Frame(pc, o) \in FrameType /\ Undue(Frame(pc, o))
  <2>1. pc \in Pcs
    BY Zenon DEF Pcs, Callers, Cleaners, Walkers
  <2>2. Frame(pc, o) \in FrameType /\ Frame(pc, o).pc = pc
    BY Zenon, <2>1, NewFrame
  <2> QED
    BY Zenon, <2>2 DEF Undue
<1>5. ASSUME NEW o \in Owners, DropHandle(t, o) \/ Cleanup(t, o)
      PROVE  \E f \in FrameType : Enter(t, f) /\ Undue(f)
  BY Zenon, <1>4, <1>5 DEF DropHandle, Cleanup
<1>6. ASSUME NEW o \in Owners, With(t, o) PROVE \E f \in FrameType : Enter(t, f) /\ Undue(f)
  <2>1. PICK h \in FrameType : h = Frame("with", o) /\ Undue(h)
    BY Zenon, <1>4
  <2>2. PICK f : f = [h EXCEPT !.arg = current[t]]
    BY Zenon
  <2>3. current[t] \in Owners \cup Items \cup {None}
    BY Zenon DEF Types
  <2>4. f \in FrameType /\ f.pc = h.pc
    BY <2>2, <2>3 DEF FrameType
  <2>5. Enter(t, f)
    BY Zenon, <1>6, <2>1, <2>2 DEF With
  <2> QED
    BY Zenon, <2>1, <2>4, <2>5 DEF Undue
<1>7. ASSUME NEW o \in Owners, NEW pc \in {"pause", "resume"}, Walk(t, o, pc)
      PROVE  \E f \in FrameType : Enter(t, f) /\ Undue(f)
  <2>1. PICK h \in FrameType : h = Frame(pc, o) /\ Undue(h)
    BY Zenon, <1>4
  <2>2. PICK f : f = [h EXCEPT !.kids = <<o>>]
    BY Zenon
  <2>3. <<o>> \in Seq(Owners)
    OBVIOUS
  <2>4. f \in FrameType /\ f.pc = h.pc
    BY <2>2, <2>3 DEF FrameType
  <2>5. Enter(t, f)
    BY Zenon, <1>7, <2>1, <2>2 DEF Walk
  <2> QED
    BY Zenon, <2>1, <2>4, <2>5 DEF Undue
<1>8. ASSUME NEW n \in Items, Dispose(t, n) PROVE \E f \in FrameType : Enter(t, f) /\ Undue(f)
  <2>1. arena[n] \in Owners \cup {None}
    BY Zenon, <1>8 DEF Dispose, Types
  <2> QED
    BY Zenon, <1>4, <1>8, <2>1 DEF Dispose
<1>9. ASSUME NEW n \in Items, NEW o \in Owners \cup {None}, NewItem(t, n, o)
      PROVE  \E f \in FrameType : Enter(t, f) /\ Undue(f)
  <2>1. PICK h \in FrameType : h = Frame("register", None) /\ Undue(h)
    BY Zenon, <1>4
  <2>2. PICK f : f = [h EXCEPT !.arg = n]
    BY Zenon
  <2>3. f \in FrameType /\ f.pc = h.pc
    BY <2>2 DEF FrameType
  <2>4. Enter(t, f)
    BY Zenon, <1>9, <2>1, <2>2 DEF NewItem
  <2> QED
    BY Zenon, <2>1, <2>3, <2>4 DEF Undue
<1> QED
  BY Zenon, <1>5, <1>6, <1>7, <1>8, <1>9

(* On the only thread, the steps that reach nothing                         *)
LEMMA LonePassiveSteps ==
    ASSUME SharedInv, Lone, LoneFacts, NEW t \in Threads,
           \/ EndWith(t) \/ Register(t) \/ RemoveNodes(t) \/ DropItem(t) \/ WalkStep(t)
           \/ Release(t) /\ UNCHANGED status /\ Return(t)
    PROVE  LoneFacts'
<1> USE DEF SharedInv
<1>1. Plain
  BY Zenon DEF Plain, EndWith, Register, RemoveNodes, DropItem, WalkStep, Release, lists
<1>2. ~Idle(t)
  BY Zenon DEF EndWith, Register, RemoveNodes, DropItem, WalkStep, Release, At
<1>3. PICK h \in FrameType : h = Top(t) /\ h \in Frames
  BY Zenon, <1>2, Stacks
<1>4. h.pc \in {"with", "register", "nodes", "items", "pause", "resume", "release"}
  BY Zenon, <1>3 DEF EndWith, Register, RemoveNodes, DropItem, WalkStep, Release, At
<1>5. Passive(h)
  <2>1. h.fns = <<>>
    BY Zenon, <1>3, <1>4 DEF FramesInv, FrameInv
  <2> QED
    BY Zenon, <1>4, <2>1 DEF Passive
<1>6. /\ h.owner \in Owners \cup {None} /\ h.kids \in Seq(Owners) /\ h.nodes \in Seq(Items)
      /\ h.items \in Seq(Owners \cup {None})
  BY Zenon, <1>3 DEF FrameType
<1>7. ASSUME NEW o \in Owners \cup {None}
      PROVE  Frame("release", o) \in FrameType /\ Undue(Frame("release", o))
  <2>1. "release" \in Pcs
    BY Zenon DEF Pcs
  <2>2. Frame("release", o) \in FrameType /\ Frame("release", o).pc = "release"
    BY Zenon, <2>1, NewFrame
  <2> QED
    BY Zenon, <2>2 DEF Undue
<1>8. /\ Return(t) => LoneFacts'
      /\ \A f \in FrameType : Goto(t, f) /\ Undue(f) => LoneFacts'
      /\ \A c, f \in FrameType : Call(t, c, f) /\ Undue(c) /\ Undue(f) /\ f.pc \in Callers => LoneFacts'
  BY Zenon, <1>1, <1>2, <1>3, <1>5, PlainCalls
<1>9. CASE EndWith(t)
  <2>1. Goto(t, Frame("release", h.owner))
    BY Zenon, <1>3, <1>9 DEF EndWith
  <2> QED
    BY Zenon, <1>6, <1>7, <1>8, <2>1
<1>10. CASE Register(t) \/ (Release(t) /\ UNCHANGED status /\ Return(t))
  BY Zenon, <1>8, <1>10 DEF Register
<1>11. CASE RemoveNodes(t)
  <2>1. PICK taken \in Retain(h.nodes, DOMAIN arena) :
           Goto(t, [h EXCEPT !.pc = "items", !.nodes = <<>>,
                      !.items = [i \in DOMAIN taken |-> arena[taken[i]]]])
    BY Zenon, <1>3, <1>11 DEF RemoveNodes
  <2>2. PICK items \in Seq(Owners \cup {None}) : items = [i \in DOMAIN taken |-> arena[taken[i]]]
    BY Zenon, <1>6, <2>1, Removed
  <2>3. PICK none \in Seq(Items) : none = <<>>
    <3>1. <<>> \in Seq(Items)
      OBVIOUS
    <3> QED
      BY Zenon, <3>1
  <2>4. PICK f : f = [h EXCEPT !.pc = "items", !.nodes = none, !.items = items]
    BY Zenon
  <2>5. "items" \in Pcs
    BY Zenon DEF Pcs, Callers
  <2>6. f \in FrameType /\ f.pc = "items"
    BY <2>4, <2>5 DEF FrameType
  <2>7. Goto(t, f) /\ Undue(f)
    BY Zenon, <2>1, <2>2, <2>3, <2>4, <2>6 DEF Undue
  <2> QED
    BY Zenon, <1>8, <2>6, <2>7
<1>12. CASE DropItem(t)
  <2>1. h.pc = "items"
    BY Zenon, <1>3, <1>12 DEF DropItem, At
  <2>2. CASE h.items # <<>>
    <3>1. PICK items \in Seq(Owners \cup {None}) : items = Tail(h.items)
      BY Zenon, <1>6, <2>2, Shortened
    <3>2. PICK o \in Owners \cup {None} : o = Head(h.items)
      BY Zenon, <1>6, <2>2, Shortened
    <3>3. PICK f : f = [h EXCEPT !.items = items]
      BY Zenon
    <3>4. f \in FrameType /\ f.pc = "items"
      BY Zenon, <2>1, <3>3, Onward
    <3>5. Call(t, Frame("release", o), f) /\ Undue(f) /\ f.pc \in Callers
      BY Zenon, <1>3, <1>12, <2>2, <3>1, <3>2, <3>3, <3>4 DEF DropItem, Undue, Callers
    <3> QED
      BY Zenon, <1>7, <1>8, <3>4, <3>5
  <2>3. CASE h.items = <<>>
    <3>1. Return(t) \/ Goto(t, Frame("release", h.owner))
      BY Zenon, <1>3, <1>12, <2>3 DEF DropItem
    <3> QED
      BY Zenon, <1>6, <1>7, <1>8, <3>1
  <2> QED
    BY Zenon, <2>2, <2>3
<1>13. CASE WalkStep(t)
  <2>1. h.pc \in {"pause", "resume"}
    BY Zenon, <1>3, <1>13 DEF WalkStep, At
  <2>2. \/ Goto(t, Frame("release", h.owner))
        \/ \E kids \in Seq(Owners) : Goto(t, [h EXCEPT !.kids = kids])
    BY Zenon, <1>3, <1>13, Walked
  <2>3. ASSUME NEW kids \in Seq(Owners), Goto(t, [h EXCEPT !.kids = kids]) PROVE LoneFacts'
    <3>1. PICK f : f = [h EXCEPT !.kids = kids]
      BY Zenon
    <3>2. f \in FrameType /\ f.pc = h.pc
      BY Zenon, <3>1, Onward
    <3>3. Goto(t, f) /\ Undue(f)
      BY Zenon, <2>1, <2>3, <3>1, <3>2 DEF Undue
    <3> QED
      BY Zenon, <1>8, <3>2, <3>3
  <2> QED
    BY Zenon, <1>6, <1>7, <1>8, <2>2, <2>3
<1> QED
  BY Zenon, <1>9, <1>10, <1>11, <1>12, <1>13

(* On the only thread, an owner is built and made the current owner's child *)
(* later, or made the child of an owner at once, or pushed onto its parent. *)
LEMMA LoneBirths ==
    ASSUME SharedInv, Lone, LoneFacts, NEW t \in Threads,
           \/ \E o \in Owners : New(t, o) \/ \E p \in Owners : Child(t, p, o)
           \/ PushChild(t)
    PROVE  LoneFacts'
<1> USE DEF SharedInv
<1>0. Range(<<>>) = {} /\ (\A o \in Owners : o # None) /\ (\A pc \in Callers : pc # "push") /\ BornInv /\ Below
  <2>1. Range(<<>>) = {}
    BY DEF Range
  <2> QED
    BY Zenon, <2>1, OwnerAssumption DEF Callers, LoneFacts, BornInv
<1>1. ASSUME NEW o \in Owners, New(t, o) PROVE LoneFacts'
  <2>1. /\ UserCode(t) /\ status[o] = "unborn" /\ status' = [status EXCEPT ![o] = "live"]
        /\ parent' = [parent EXCEPT ![o] = Current(t)] /\ Enter(t, Frame("push", o))
        /\ UNCHANGED <<held, children, cleanups, ran>>
    BY Zenon, <1>1 DEF New, lists
  <2>2. /\ status'[o] = "live" /\ (\A q \in Owners : q # o => status'[q] = status[q])
        /\ parent'[o] = Current(t) /\ Current(t) # o /\ children[o] = <<>>
    BY Zenon, <1>0, <2>1 DEF Types, Current, Alive, BornInv
  <2>3. /\ \A c \in Owners : Alive(c) => Alive(c)'
        /\ \A c \in Owners : Alive(c)' => Alive(c) \/ c = o
    BY Zenon, <2>2 DEF Alive
  <2>4. /\ \A q \in Owners : LiveChildren(q) \subseteq LiveChildren(q)'
        /\ \A q \in Owners : LiveChildren(q)' \subseteq LiveChildren(q) \cup {o}
        /\ LiveChildren(o)' = {}
    <3>1. \A q \in Owners : LiveChildren(q) \subseteq LiveChildren(q)' /\ LiveChildren(q)' \subseteq LiveChildren(q) \cup {o}
      BY Zenon, <2>1, <2>3, Contents DEF LiveChildren
    <3>2. LiveChildren(o)' = {}
      BY Zenon, <1>0, <2>1, <2>2 DEF LiveChildren
    <3> QED
      BY Zenon, <3>1, <3>2
  <2>5. Mono({})
    BY Zenon, <2>1, <2>3, <2>4 DEF Mono
  <2>6. Acyclic'
    BY Zenon, <2>4, StillAcyclic DEF LoneFacts
  <2>7. PICK f \in FrameType : f = Frame("push", o) /\ f.pc = "push" /\ f.owner = o
    <3>1. "push" \in Pcs /\ o \in Owners \cup {None}
      BY Zenon DEF Pcs
    <3>2. Frame("push", o) \in FrameType /\ Frame("push", o).pc = "push" /\ Frame("push", o).owner = o
      BY Zenon, <3>1, NewFrame
    <3> QED
      BY Zenon, <3>2
  <2>8. Handed({}, {f}) /\ Due({f}, f)'
    BY Zenon, <2>5, <2>7, Nothing DEF Due
  <2>9. DueInv' /\ Below' /\ \A g \in Frames : g.pc \in Callers
    <3>1. Idle(t) \/ Top(t).pc \in Callers
      BY Zenon, <2>1 DEF UserCode, At, Callers
    <3> QED
      BY Zenon, <1>0, <2>1, <2>5, <2>7, <2>8, <3>1, LoneCalls DEF LoneFacts, Mono
  <2>10. Frames' = Frames \cup {f}
    BY Zenon, <2>1, <2>7, Stacks
  <2>11. ASSUME NEW g \in Frames', g.pc = "push"
         PROVE  status'[g.owner] # "unborn" /\ parent'[g.owner] # g.owner /\ children'[g.owner] = <<>>
    <3>1. g = f
      BY Zenon, <1>0, <2>9, <2>10, <2>11
    <3> QED
      BY Zenon, <2>1, <2>2, <2>7, <3>1
  <2>12. \A q \in Owners : status'[q] = "unborn" => status[q] = "unborn"
    BY Zenon, <2>2
  <2>13. BornInv'
    BY Zenon, <1>0, <2>1, <2>9, <2>11, <2>12 DEF BornInv, Types
  <2> QED
    BY Zenon, <2>6, <2>9, <2>13 DEF LoneFacts
<1>2. ASSUME NEW o \in Owners, NEW p \in Owners, NEW kept \in Pruned(children[p]), p # o, children[o] = <<>>,
             status[p] # "unborn", children' = [children EXCEPT ![p] = Append(kept, o)],
             \A c \in Owners : /\ Alive(c) => Alive(c)'
                               /\ Alive(c)' => Alive(c) \/ c = o,
             UNCHANGED <<cleanups, ran>>
      PROVE  /\ Mono({}) /\ Acyclic' /\ children'[o] = <<>>
             /\ \A q \in Owners : status[q] = "unborn" => children'[q] = <<>>
  <2>1. children[p] \in Seq(Owners)
    BY Zenon DEF Types
  <2>2. kept \in Seq(Owners) /\ \A c \in Owners : /\ c \in Range(kept) => c \in Range(children[p])
                                                  /\ c \in Range(children[p]) /\ Alive(c) => c \in Range(kept)
    <3>1. CASE kept = children[p]
      BY Zenon, <2>1, <3>1
    <3>2. CASE kept \in Retain(children[p], {c \in Owners : Alive(c)})
      <4>1. kept \in Seq(Owners) /\ Range(kept) = Range(children[p]) \cap {c \in Owners : Alive(c)}
        BY Zenon, <2>1, <3>2, Retained
      <4> QED
        BY Zenon, <4>1
    <3> QED
      BY Zenon, <1>2, <3>1, <3>2 DEF Pruned
  <2>3. \A c : c \in Range(Append(kept, o)) <=> c \in Range(kept) \/ c = o
    <3>1. Range(Append(kept, o)) = Range(kept) \cup {o}
      BY <2>2, Appended
    <3> QED
      BY Zenon, <3>1
  <2>4. children'[p] = Append(kept, o) /\ \A q \in Owners : q # p => children'[q] = children[q]
    BY Zenon, <1>2 DEF Types
  <2>5. ASSUME NEW q \in Owners, NEW c \in Owners
        PROVE  /\ c \in LiveChildren(q) => c \in LiveChildren(q)'
               /\ c \in LiveChildren(q)' => c \in LiveChildren(q) \/ c = o
    <3>1. CASE q = p
      BY Zenon, <1>2, <2>2, <2>3, <2>4, <3>1 DEF LiveChildren
    <3>2. CASE q # p
      BY Zenon, <1>2, <2>4, <3>2 DEF LiveChildren
    <3> QED
      BY Zenon, <3>1, <3>2
  <2>6. ASSUME NEW q \in Owners
        PROVE  LiveChildren(q) \subseteq LiveChildren(q)' /\ LiveChildren(q)' \subseteq LiveChildren(q) \cup {o}
    <3>1. LiveChildren(q) \subseteq Owners
      BY Zenon, Contents DEF LiveChildren
    <3>2. LiveChildren(q)' \subseteq Owners
      <4>1. CASE q = p
        <5>1. Range(Append(kept, o)) \subseteq Owners
          BY Zenon, <2>2, <2>3, Elements
        <5> QED
          BY Zenon, <2>4, <4>1, <5>1 DEF LiveChildren
      <4>2. CASE q # p
        BY Zenon, <2>4, <4>2, Contents DEF LiveChildren
      <4> QED
        BY Zenon, <4>1, <4>2
    <3> QED
      BY Zenon, <2>5, <3>1, <3>2
  <2>7. LiveChildren(o)' = {}
    BY Zenon, <1>0, <1>2, <2>4 DEF LiveChildren
  <2>8. Mono({})
    BY Zenon, <1>2, <2>6 DEF Mono
  <2>9. Acyclic'
    BY Zenon, <2>6, <2>7, StillAcyclic DEF LoneFacts
  <2> QED
    BY Zenon, <1>0, <1>2, <2>4, <2>8, <2>9 DEF BornInv
<1>3. ASSUME NEW o \in Owners, NEW p \in Owners, Child(t, p, o) PROVE LoneFacts'
  <2>1. /\ UserCode(t) /\ p \in held /\ status[o] = "unborn" /\ status' = [status EXCEPT ![o] = "live"]
        /\ held' = held \cup {o} /\ parent' = [parent EXCEPT ![o] = p]
        /\ UNCHANGED <<cleanups, stack, ran>> /\ Frames' = Frames
    BY Zenon, <1>3 DEF Child, lists, Frames
  <2>2. PICK kept \in Pruned(children[p]) : children' = [children EXCEPT ![p] = Append(kept, o)]
    BY Zenon, <1>3 DEF Child
  <2>3. /\ status'[o] = "live" /\ (\A q \in Owners : q # o => status'[q] = status[q])
        /\ status[p] # "unborn" /\ p # o /\ children[o] = <<>>
    BY Zenon, <1>0, <2>1 DEF Types, BornInv
  <2>4. \A c \in Owners : (Alive(c) => Alive(c)') /\ (Alive(c)' => Alive(c) \/ c = o)
    BY Zenon, <2>3 DEF Alive
  <2>5. /\ Mono({}) /\ Acyclic' /\ children'[o] = <<>>
        /\ \A q \in Owners : status[q] = "unborn" => children'[q] = <<>>
    BY Zenon, <1>2, <2>1, <2>2, <2>3, <2>4
  <2>6. DueInv' /\ Below' /\ \A g \in Frames : g.pc \in Callers
    <3>1. Idle(t) \/ Top(t).pc \in Callers
      BY Zenon, <2>1 DEF UserCode, At, Callers
    <3>2. Handed({}, {})
      BY Zenon, <2>5, Nothing
    <3> QED
      BY Zenon, <1>0, <2>1, <2>5, <3>1, <3>2, LoneCalls DEF LoneFacts, Mono
  <2>7. /\ \A q \in held' : status'[q] # "unborn"
        /\ \A q \in Owners : status'[q] = "unborn" => status[q] = "unborn"
    BY Zenon, <1>0, <2>1, <2>3 DEF BornInv, Types
  <2>8. BornInv'
    BY Zenon, <1>0, <2>1, <2>5, <2>6, <2>7 DEF BornInv
  <2> QED
    BY Zenon, <2>5, <2>6, <2>8 DEF LoneFacts
<1>4. CASE PushChild(t)
  <2>1. ~Idle(t) /\ Top(t).pc = "push" /\ Return(t) /\ UNCHANGED <<status, cleanups, ran>>
    BY Zenon, <1>4 DEF PushChild, At, lists
  <2>2. PICK h \in FrameType : h = Top(t) /\ h \in Frames /\ Frames' = Others(t)
    BY Zenon, <2>1, Stacks
  <2>3. PICK o \in Owners : o = h.owner
    BY Zenon, <2>1, <2>2 DEF FramesInv, FrameInv
  <2>4. status[o] # "unborn" /\ parent[o] # o /\ children[o] = <<>>
    BY Zenon, <1>0, <2>1, <2>2, <2>3 DEF BornInv
  <2>5. held' = held \cup {o}
    BY Zenon, <1>4, <2>2, <2>3 DEF PushChild
  <2>6. \A c \in Owners : Alive(c)' <=> Alive(c)
    BY Zenon, <2>1 DEF Alive
  <2>7. /\ Mono({}) /\ Acyclic'
        /\ \A q \in Owners : status[q] = "unborn" => children'[q] = <<>>
    <3>1. CASE ~Alive(parent[o])
      <4>1. children' = children
        BY Zenon, <1>4, <2>2, <2>3, <3>1 DEF PushChild
      <4>2. \A q \in Owners : LiveChildren(q)' = LiveChildren(q)
        BY Zenon, <2>6, <4>1, Contents DEF LiveChildren
      <4>3. Mono({})
        BY Zenon, <2>1, <2>6, <4>2 DEF Mono
      <4>4. Acyclic'
        BY Zenon, <4>2, StillAcyclic DEF LoneFacts
      <4> QED
        BY Zenon, <1>0, <4>1, <4>3, <4>4 DEF BornInv
    <3>2. CASE Alive(parent[o])
      <4>1. PICK p \in Owners : p = parent[o]
        BY Zenon, <3>2 DEF Types, Alive
      <4>2. PICK kept \in Pruned(children[p]) : children' = [children EXCEPT ![p] = Append(kept, o)]
        BY Zenon, <1>4, <2>2, <2>3, <3>2, <4>1 DEF PushChild
      <4>3. status[p] # "unborn" /\ p # o
        BY Zenon, <2>4, <3>2, <4>1 DEF Alive
      <4> QED
        BY Zenon, <1>2, <2>1, <2>4, <2>6, <4>2, <4>3
    <3> QED
      BY Zenon, <3>1, <3>2
  <2>8. Passive(h)
    BY Zenon, <2>1, <2>2 DEF Passive, FramesInv, FrameInv
  <2>9. DueInv' /\ Below' /\ \A g \in Frames' : g.pc \in Callers
    <3>1. Handed({h}, {})
      BY Zenon, <2>7, <2>8, Nothing
    <3> QED
      BY Zenon, <1>0, <2>1, <2>2, <2>7, <3>1, LoneCalls DEF LoneFacts, Mono
  <2>10. BornInv'
    BY Zenon, <1>0, <2>1, <2>4, <2>5, <2>7, <2>9 DEF BornInv
  <2> QED
    BY Zenon, <2>7, <2>9, <2>10 DEF LoneFacts
<1> QED
  BY Zenon, <1>1, <1>3, <1>4

(* On the only thread, a function is registered.                            *)
LEMMA LoneOnCleanup ==
    ASSUME SharedInv, Lone, LoneFacts, NEW t \in Threads, NEW f \in Fns, OnCleanup(t, f)
    PROVE  LoneFacts'
<1> USE DEF SharedInv
<1>1. PICK c \in Owners : c = Current(t)
  BY Zenon, OwnerAssumption DEF OnCleanup, Current, Types, Alive
<1>2. /\ cleanups' = [cleanups EXCEPT ![c] = Append(cleanups[c], f)] /\ UNCHANGED <<status, held, tree, stack, ran>>
      /\ Frames' = Frames
  <2>1. UNCHANGED <<status, held, tree, stack, ran>>
    BY Zenon DEF OnCleanup
  <2>2. cleanups' = [cleanups EXCEPT ![c] = Append(cleanups[c], f)]
    BY Zenon, <1>1 DEF OnCleanup, Types
  <2> QED
    BY Zenon, <2>1, <2>2 DEF Frames
<1>3. \A o \in Owners : Range(cleanups[o]) \subseteq Range(cleanups'[o])
  <2>1. PICK s \in Seq(Fns) : s = cleanups[c]
    BY Zenon DEF Types
  <2>2. Range(Append(s, f)) = Range(s) \cup {f}
    BY Appended
  <2> QED
    BY Zenon, <1>2, <2>1, <2>2 DEF Types
<1>4. (\A q : LiveChildren(q)' = LiveChildren(q)) /\ \A q : Alive(q)' <=> Alive(q)
  BY Zenon, <1>2 DEF tree, LiveChildren, Alive
<1>5. Mono({})
  BY Zenon, <1>2, <1>3, <1>4 DEF Mono
<1>6. Acyclic'
  BY Zenon, <1>4, StillAcyclic DEF LoneFacts
<1>7. DueInv' /\ Below'
  <2>1. Handed({}, {})
    BY Zenon, <1>5, Nothing
  <2> QED
    BY Zenon, <1>2, <1>5, <2>1, LoneCalls DEF LoneFacts, BornInv, Mono
<1>8. BornInv'
  BY Zenon, <1>2, <1>7 DEF LoneFacts, BornInv, tree
<1> QED
  BY Zenon, <1>6, <1>7, <1>8 DEF LoneFacts

(* On the only thread, the frame that has functions goes on.                *)
LEMMA LoneFns ==
    ASSUME SharedInv, Lone, LoneFacts, NEW t \in Threads, NextFn(t) \/ EndFn(t)
    PROVE  LoneFacts'
<1> USE DEF SharedInv
<1>1. ~Idle(t) /\ Top(t).pc \in {"fns", "function"} /\ UNCHANGED <<status, tree, cleanups, held>>
  BY Zenon DEF NextFn, EndFn, At, lists
<1>2. PICK h \in FrameType : h = Top(t) /\ h \in Frames
  BY Zenon, <1>1, Stacks
<1>3. Due({h}, h) /\ (\A g \in h.due : ran[g] = 1) /\ h.due \subseteq Fns /\ h.fns \in Seq(Fns) /\ Below
  <2>1. Due({h}, h)
    BY Zenon, <1>1, <1>2, Innermost DEF LoneFacts, BornInv
  <2> QED
    BY Zenon, <1>1, <1>2, <2>1 DEF Due, FrameType, LoneFacts, BornInv
<1>4. (\A q : LiveChildren(q)' = LiveChildren(q)) /\ \A q : Alive(q)' <=> Alive(q)
  BY Zenon, <1>1 DEF tree, LiveChildren, Alive
<1>5. ASSUME \A g \in Fns : ran[g] = 1 => ran'[g] = 1, NEW f \in FrameType, Goto(t, f),
             f.pc \in {"fns", "function", "nodes"}, f.due = h.due,
             \A g \in Range(h.fns) : g \in Range(f.fns) \/ ran'[g] = 1
      PROVE  LoneFacts'
  <2>1. Mono({})
    BY Zenon, <1>1, <1>4, <1>5 DEF Mono
  <2>2. ToClean(h) = {}
    BY Zenon, <1>1, <1>2 DEF ToClean
  <2>3. Handed({h}, {f})
    BY Zenon, <1>5, <2>1, <2>2, HandingOver
  <2>4. Due({f}, f)'
    BY Zenon, <1>3, <1>5 DEF Due
  <2>5. DueInv' /\ Below' /\ \A g \in Others(t) : g.pc \in Callers
    BY Zenon, <1>1, <1>2, <1>3, <1>5, <2>3, <2>4, LoneCalls DEF LoneFacts
  <2>6. Frames' = Others(t) \cup {f}
    BY Zenon, <1>1, <1>5, Stacks
  <2>7. \A g \in Frames' : g.pc # "push"
    BY Zenon, <1>5, <2>5, <2>6 DEF Callers
  <2>8. Acyclic'
    BY Zenon, <1>4, StillAcyclic DEF LoneFacts
  <2>9. BornInv'
    BY Zenon, <1>1, <2>5, <2>7 DEF LoneFacts, BornInv, tree
  <2> QED
    BY Zenon, <2>5, <2>8, <2>9 DEF LoneFacts
<1>6. \A pc \in {"fns", "function", "nodes"} : pc \in Pcs
  BY Zenon DEF Pcs, Callers, Cleaners
<1>7. CASE EndFn(t)
  <2>1. PICK f : f = [h EXCEPT !.pc = "fns"]
    BY Zenon
  <2>2. f \in FrameType /\ f.pc = "fns" /\ f.fns = h.fns /\ f.due = h.due
    BY Zenon, <1>6, <2>1, Onward DEF Like
  <2>3. Goto(t, f) /\ UNCHANGED ran
    BY Zenon, <1>2, <1>7, <2>1 DEF EndFn
  <2> QED
    BY Zenon, <1>5, <2>2, <2>3
<1>8. CASE NextFn(t) /\ h.fns = <<>>
  <2>1. PICK f : f = [h EXCEPT !.pc = "nodes"]
    BY Zenon
  <2>2. f \in FrameType /\ f.pc = "nodes" /\ f.fns = h.fns /\ f.due = h.due
    BY Zenon, <1>6, <2>1, Onward DEF Like
  <2>3. Goto(t, f) /\ UNCHANGED ran
    BY Zenon, <1>2, <1>8, <2>1 DEF NextFn
  <2> QED
    BY Zenon, <1>5, <2>2, <2>3
<1>9. CASE NextFn(t) /\ h.fns # <<>>
  <2>0. IsInjective(h.fns)
    BY Zenon, <1>2 DEF FnInv, FnTaken
  <2>1. PICK x \in Fns : x = Head(h.fns)
    BY Zenon, <1>3, <1>9, <2>0, NextOne
  <2>2. PICK rest \in Seq(Fns) : rest = Tail(h.fns)
    BY Zenon, <1>3, <1>9, <2>0, NextOne
  <2>3. \A y : y \in Range(h.fns) <=> y \in Range(rest) \/ y = x
    BY Zenon, <1>3, <1>9, <2>0, <2>1, <2>2, NextOne
  <2>4. PICK f : f = [h EXCEPT !.pc = "function", !.fns = rest]
    BY Zenon
  <2>5. f \in FrameType /\ f.pc = "function" /\ f.fns = rest /\ f.due = h.due
    <3>1. "function" \in Pcs
      BY Zenon, <1>6
    <3> QED
      BY <2>4, <3>1 DEF FrameType
  <2>6. Goto(t, f) /\ ran' = [ran EXCEPT ![x] = ran[x] + 1]
    BY Zenon, <1>2, <1>9, <2>1, <2>2, <2>4 DEF NextFn
  <2>7. ran[x] = 0
    BY Zenon, <1>2, <2>3 DEF FnInv, FnTaken
  <2>8. ran'[x] = 1 /\ \A y \in Fns : y # x => ran'[y] = ran[y]
    <3>1. ran[x] + 1 = 1
      BY <2>7
    <3> QED
      BY Zenon, <2>6, <3>1 DEF Types
  <2>9. \A g \in Fns : ran[g] = 1 => ran'[g] = 1
    BY Zenon, <2>8
  <2> QED
    BY Zenon, <1>5, <2>3, <2>5, <2>6, <2>8, <2>9
<1> QED
  BY Zenon, <1>7, <1>8, <1>9

(* On the only thread, the next child of an owner is cleaned up, or all of  *)
(* them have been, and so have all owners below.                            *)
LEMMA LoneNextChild ==
    ASSUME SharedInv, Lone, LoneFacts, NEW t \in Threads, NextChild(t)
    PROVE  LoneFacts'
<1> USE DEF SharedInv
<1>1. ~Idle(t) /\ Top(t).pc = "kids" /\ Plain /\ ran' = ran
  BY Zenon DEF NextChild, At, lists, Plain
<1>2. PICK h \in FrameType : h = Top(t) /\ h \in Frames
  BY Zenon, <1>1, Stacks
<1>3. Due({h}, h) /\ h.kids \in Seq(Owners) /\ h.due \subseteq Fns
  <2>1. Due({h}, h)
    BY Zenon, <1>1, <1>2, Innermost DEF LoneFacts, BornInv
  <2> QED
    BY Zenon, <2>1 DEF FrameType
<1>4. /\ Mono({}) /\ Acyclic' /\ Below /\ DueInv /\ h.pc = "kids"
      /\ Below' /\ (\A g \in Frames' : g.pc # "push") => BornInv'
      /\ \A g \in Fns : ran[g] = 1 => ran'[g] = 1
      /\ \A c : Alive(c)' <=> Alive(c)
  BY Zenon, <1>1, <1>2, Plainly DEF LoneFacts, BornInv, Mono, Plain, Alive
<1>5. \A pc \in Callers \cup {"take", "fns"} : pc # "push"
  BY Zenon DEF Callers
<1>6. ASSUME NEW f \in FrameType, Goto(t, f), Handed({h}, {f}), Due({f}, f)', f.pc \in {"fns", "kids"}
      PROVE  LoneFacts'
  <2>1. DueInv' /\ Below' /\ \A g \in Others(t) : g.pc \in Callers
    BY Zenon, <1>1, <1>2, <1>4, <1>6, LoneCalls
  <2>2. Frames' = Others(t) \cup {f}
    BY Zenon, <1>1, <1>6, Stacks
  <2>3. \A g \in Frames' : g.pc # "push"
    BY Zenon, <1>5, <1>6, <2>1, <2>2
  <2> QED
    BY Zenon, <1>4, <2>1, <2>3 DEF LoneFacts
<1>7. CASE h.kids = <<>>
  <2>1. PICK f : f = [h EXCEPT !.pc = "fns"]
    BY Zenon
  <2>2. f \in FrameType /\ f.pc = "fns" /\ f.fns = h.fns /\ f.due = h.due
    <3>1. "fns" \in Pcs
      BY Zenon DEF Pcs, Cleaners
    <3> QED
      BY Zenon, <2>1, <3>1, Onward DEF Like
  <2>3. Goto(t, f)
    BY Zenon, <1>2, <1>7, <2>1 DEF NextChild
  <2>4. ToClean(h) = {}
    <3>1. Range(<<>>) = {}
      BY DEF Range
    <3> QED
      BY Zenon, <1>4, <1>7, <3>1 DEF ToClean
  <2>5. Handed({h}, {f})
    BY Zenon, <1>4, <2>2, <2>4, HandingOver
  <2>6. ASSUME NEW g \in h.due PROVE ran[g] = 1
    <3>1. g \notin Range(h.fns) /\ Reached({h}, g)
      BY Zenon, <1>3, <1>4 DEF Due
    <3>2. {} \in SUBSET Owners /\ Closed({}) /\ \A k \in {h} : ToClean(k) \subseteq {}
      BY Zenon, <2>4 DEF Closed
    <3> QED
      BY Zenon, <3>1, <3>2 DEF Reached
  <2>7. Due({f}, f)'
    BY Zenon, <1>1, <2>2, <2>6 DEF Due
  <2> QED
    BY Zenon, <1>6, <2>2, <2>3, <2>5, <2>7
<1>8. CASE h.kids # <<>>
  <2>1. PICK c \in Owners : c = Head(h.kids)
    BY Zenon, <1>3, <1>8, Shortened
  <2>2. PICK kids \in Seq(Owners) : kids = Tail(h.kids)
    BY Zenon, <1>3, <1>8, Shortened
  <2>3. \A k : k \in Range(h.kids) <=> k \in Range(kids) \/ k = c
    <3>1. Range(h.kids) = Range(kids) \cup {c}
      BY Zenon, <1>3, <1>8, <2>1, <2>2, Shortened
    <3> QED
      BY Zenon, <3>1
  <2>4. PICK f : f = [h EXCEPT !.kids = kids]
    BY Zenon
  <2>5. f \in FrameType /\ f.pc = "kids" /\ f.fns = h.fns /\ f.due = h.due /\ f.kids = kids
    BY Zenon, <1>4, <2>4, Onward DEF Like
  <2>6. /\ \A k \in ToClean(h) : k \in ToClean(f)' \/ (Alive(c) /\ k = c)
    BY Zenon, <1>4, <2>3, <2>5 DEF ToClean
  <2>7. \A frames : Handed({h}, frames) => Due(frames, f)'
    <3>1. ASSUME NEW frames, Handed({h}, frames), NEW g \in h.due
          PROVE  g \notin Range(f.fns) /\ Reached(frames, g)'
      <4>1. g \notin Range(h.fns) /\ Reached({h}, g) /\ g \in Fns
        BY Zenon, <1>3, <1>4 DEF Due
      <4>2. {h} \cup {} = {h} /\ frames \cup {} = frames
        BY Zenon
      <4>3. Reached({h} \cup {}, g) => Reached(frames \cup {}, g)'
        BY Zenon, <3>1, <4>1 DEF Handed
      <4> QED
        BY Zenon, <2>5, <4>1, <4>2, <4>3
    <3> QED
      BY Zenon, <2>5, <3>1 DEF Due
  <2>8. CASE ~Alive(c)
    <3>1. Goto(t, f)
      BY Zenon, <1>2, <1>8, <2>1, <2>2, <2>4, <2>8 DEF NextChild
    <3>2. Handed({h}, {f})
      <4>1. \A x \in ToClean(h) : \E l \in {f} : x \in ToClean(l)'
        BY Zenon, <2>6, <2>8
      <4>2. \A x \in Range(h.fns) : \E l \in {f} : x \in Range(l.fns)
        BY Zenon, <2>5
      <4> QED
        BY Zenon, <1>4, <4>1, <4>2, HandingOver
    <3> QED
      BY Zenon, <1>6, <2>5, <2>7, <3>1, <3>2
  <2>9. CASE Alive(c)
    <3>1. PICK g \in FrameType : g = Frame("take", c) /\ g.pc = "take" /\ g.owner = c
      <4>1. "take" \in Pcs /\ c \in Owners \cup {None}
        BY Zenon DEF Pcs, Cleaners
      <4>2. Frame("take", c) \in FrameType /\ Frame("take", c).pc = "take" /\ Frame("take", c).owner = c
        BY Zenon, <4>1, NewFrame
      <4> QED
        BY Zenon, <4>2
    <3>2. Call(t, g, f)
      BY Zenon, <1>2, <1>8, <2>1, <2>2, <2>4, <2>9, <3>1 DEF NextChild
    <3>3. c \in ToClean(g)'
      BY Zenon, <3>1 DEF ToClean
    <3>4. Handed({h}, {g, f})
      <4>1. \A x \in ToClean(h) : \E l \in {g, f} : x \in ToClean(l)'
        BY Zenon, <2>6, <3>3
      <4>2. \A x \in Range(h.fns) : \E l \in {g, f} : x \in Range(l.fns)
        BY Zenon, <2>5
      <4> QED
        BY Zenon, <1>4, <4>1, <4>2, HandingOver
    <3>5. Due({g}, g)' /\ Due({g, f}, f)'
      BY Zenon, <2>7, <3>1, <3>4 DEF Due
    <3>6. f.pc \in Callers
      BY Zenon, <2>5 DEF Callers
    <3>7. DueInv' /\ Below' /\ \A k \in Others(t) : k.pc \in Callers
      BY Zenon, <1>1, <1>2, <1>4, <2>5, <3>2, <3>4, <3>5, <3>6, LoneCalls
    <3>8. Frames' = Others(t) \cup {g, f}
      BY Zenon, <1>1, <2>5, <3>1, <3>2, Stacks
    <3>9. \A k \in Frames' : k.pc # "push"
      BY Zenon, <1>5, <3>1, <3>6, <3>7, <3>8
    <3> QED
      BY Zenon, <1>4, <3>7, <3>9 DEF LoneFacts
  <2> QED
    BY Zenon, <2>8, <2>9
<1> QED
  BY Zenon, <1>7, <1>8

(* On the only thread, the last reference to an owner goes, and the owner   *)
(* is about to be cleaned up.                                               *)
LEMMA LoneRelease ==
    ASSUME SharedInv, Lone, LoneFacts, NEW t \in Threads, Release(t)
    PROVE  LoneFacts'
<1> USE DEF SharedInv
<1>1. ~Idle(t) /\ Top(t).pc = "release" /\ UNCHANGED <<held, tree, cleanups, ran>>
  BY Zenon DEF Release, At, lists
<1>2. PICK h \in FrameType : h = Top(t) /\ h \in Frames
  BY Zenon, <1>1, Stacks
<1>3. CASE UNCHANGED status /\ Return(t)
  BY Zenon, <1>3, LonePassiveSteps
<1>4. CASE ~(UNCHANGED status /\ Return(t))
  <2>1. PICK o : o = h.owner
    BY Zenon
  <2>2. /\ o # None /\ status' = [status EXCEPT ![o] = "gone"]
        /\ Goto(t, [Frame("take", o) EXCEPT !.drop = TRUE])
    BY Zenon, <1>2, <1>4, <2>1 DEF Release
  <2>3. o \in Owners
    BY <2>1, <2>2 DEF FrameType
  <2>4. PICK g \in FrameType : g = Frame("take", o) /\ g.pc = "take" /\ g.owner = o
    <3>1. "take" \in Pcs /\ o \in Owners \cup {None}
      BY Zenon, <2>3 DEF Pcs, Cleaners
    <3>2. Frame("take", o) \in FrameType /\ Frame("take", o).pc = "take" /\ Frame("take", o).owner = o
      BY Zenon, <3>1, NewFrame
    <3> QED
      BY Zenon, <3>2
  <2>5. PICK f \in FrameType : f = [g EXCEPT !.drop = TRUE] /\ f.pc = "take" /\ f.owner = o
    <3>1. PICK f : f = [g EXCEPT !.drop = TRUE]
      BY Zenon
    <3>2. f \in FrameType /\ f.pc = g.pc /\ f.owner = g.owner
      BY <3>1 DEF FrameType
    <3> QED
      BY Zenon, <2>4, <3>1, <3>2
  <2>6. Goto(t, f)
    BY Zenon, <2>2, <2>4, <2>5
  <2>7. status'[o] = "gone" /\ \A q \in Owners : q # o => status'[q] = status[q]
    BY Zenon, <2>2, <2>3 DEF Types
  <2>8. children' = children /\ parent' = parent /\ held' = held
    BY Zenon, <1>1 DEF tree
  <2>9. ASSUME NEW q \in Owners
        PROVE  /\ Alive(q) => Alive(q)' \/ q = o
               /\ Alive(q)' => Alive(q)
    BY Zenon, <2>7 DEF Alive
  <2>10. \A q \in Owners : Range(children[q]) \subseteq Owners
    BY Zenon, Contents
  <2>11. ASSUME NEW q \in Owners
         PROVE  /\ LiveChildren(q) \subseteq LiveChildren(q)' \cup {o}
                /\ LiveChildren(q)' \subseteq LiveChildren(q)
    BY Zenon, <2>8, <2>9, <2>10 DEF LiveChildren
  <2>12. Mono({o})
    BY Zenon, <1>1, <2>9, <2>11 DEF Mono
  <2>13. Acyclic'
    BY Zenon, <2>11, StillAcyclic DEF LoneFacts
  <2>14. ToClean(h) = {} /\ o \in ToClean(f)'
    BY Zenon, <1>1, <1>2, <2>3, <2>5 DEF ToClean
  <2>15. Range(h.fns) = {}
    <3>1. h.fns = <<>>
      BY Zenon, <1>1, <1>2 DEF FramesInv, FrameInv
    <3>2. Range(<<>>) = {}
      BY DEF Range
    <3> QED
      BY Zenon, <3>1, <3>2
  <2>16. Handed({h}, {f})
    <3>1. ASSUME NEW k \in {h}
          PROVE  /\ \A x \in Range(k.fns) : ran'[x] = 1 \/ \E l \in {f} : x \in Range(l.fns)
                 /\ \A c \in ToClean(k) : c \in {o} \/ \E l \in {f} : c \in ToClean(l)'
      BY Zenon, <2>14, <2>15
    <3>2. ASSUME NEW c \in {o} PROVE \E l \in {f} : c \in ToClean(l)'
      BY Zenon, <2>14
    <3> QED
      BY <2>12, <3>1, <3>2, HandingOn
  <2>17. Due({f}, f)'
    BY Zenon, <2>5 DEF Due
  <2>18. DueInv' /\ Below' /\ \A k \in Others(t) : k.pc \in Callers
    BY Zenon, <1>1, <1>2, <2>6, <2>16, <2>17, LoneCalls DEF LoneFacts, BornInv
  <2>19. \A k \in Frames' : k.pc # "push"
    <3>1. Frames' = Others(t) \cup {f}
      BY Zenon, <1>1, <2>6, Stacks
    <3> QED
      BY Zenon, <2>5, <2>18, <3>1 DEF Callers
  <2>20. \A q \in Owners : status'[q] = "unborn" => status[q] = "unborn"
    BY Zenon, <2>7
  <2>21. BornInv'
    <3>1. \A q \in held' : q \in Owners
      BY Zenon, <2>8 DEF Types
    <3> QED
      BY Zenon, <2>8, <2>18, <2>19, <2>20, <3>1 DEF LoneFacts, BornInv
  <2> QED
    BY Zenon, <2>13, <2>18, <2>21 DEF LoneFacts
<1> QED
  BY Zenon, <1>3, <1>4

(* On the only thread, the lists of an owner are taken: what is below the   *)
(* owner is reached by its children, and by no other way through it.        *)
LEMMA LoneTake ==
    ASSUME SharedInv, Lone, LoneFacts, NEW t \in Threads, Take(t)
    PROVE  LoneFacts'
<1> USE DEF SharedInv
<1>1. ~Idle(t) /\ Top(t).pc = "take" /\ UNCHANGED <<status, held, parent, ran>>
  BY Zenon DEF Take, At
<1>2. PICK h \in FrameType : h = Top(t) /\ h \in Frames
  BY Zenon, <1>1, Stacks
<1>3. PICK o \in Owners : o = h.owner
  BY Zenon, <1>1, <1>2 DEF FramesInv, FrameInv, Cleaners
<1>4. PICK due : due = UNION {Range(cleanups[c]) : c \in Descendants(o)}
  BY Zenon
<1>5. PICK f : f = [h EXCEPT !.pc = "kids", !.kids = children[o], !.fns = cleanups[o],
                             !.nodes = nodes[o], !.due = due]
  BY Zenon
<1>6. Goto(t, f) /\ children' = [children EXCEPT ![o] = <<>>] /\ cleanups' = [cleanups EXCEPT ![o] = <<>>]
  BY Zenon, <1>2, <1>3, <1>4, <1>5 DEF Take
<1>7. due \subseteq Fns
  BY Zenon, <1>4, Contents DEF Descendants
<1>8. f \in FrameType /\ f.pc = "kids" /\ f.kids = children[o] /\ f.fns = cleanups[o] /\ f.due = due
  <2>1. children[o] \in Seq(Owners) /\ cleanups[o] \in Seq(Fns) /\ nodes[o] \in Seq(Items) /\ "kids" \in Pcs
    BY Zenon DEF Types, Pcs, Callers
  <2> QED
    BY <1>5, <1>7, <2>1 DEF FrameType
<1>9. Range(<<>>) = {}
  BY DEF Range
<1>10. /\ children'[o] = <<>> /\ cleanups'[o] = <<>>
       /\ \A q \in Owners : q # o => children'[q] = children[q] /\ cleanups'[q] = cleanups[q]
  BY Zenon, <1>6 DEF Types
<1>11. \A c : Alive(c)' <=> Alive(c)
  BY Zenon, <1>1 DEF Alive
<1>12. LiveChildren(o)' = {} /\ \A q \in Owners : q # o => LiveChildren(q)' = LiveChildren(q)
  BY Zenon, <1>9, <1>10, <1>11 DEF LiveChildren
<1>13. LiveChildren(o) = ToClean(f)' /\ ToClean(h) = {o}
  <2>1. Range(children[o]) \subseteq Owners
    BY Zenon, Contents
  <2> QED
    BY Zenon, <1>1, <1>2, <1>3, <1>8, <1>11, <2>1 DEF LiveChildren, ToClean
<1>14. ASSUME NEW set \in SUBSET Owners, Closed(set)', ToClean(f)' \subseteq set
       PROVE  Closed(set \cup {o}) /\ set \cup {o} \in SUBSET Owners
  <2>1. ASSUME NEW q \in set \cup {o} PROVE LiveChildren(q) \subseteq set
    BY Zenon, <1>12, <1>13, <1>14 DEF Closed
  <2> QED
    BY Zenon, <2>1 DEF Closed
<1>15. Acyclic'
  <2>1. \A q \in Owners : LiveChildren(q)' \subseteq LiveChildren(q)
    BY Zenon, <1>12
  <2> QED
    BY Zenon, <2>1, StillAcyclic DEF LoneFacts
<1>16. Handed({h}, {f})
  <2>1. SUFFICES ASSUME NEW rest, NEW g \in Fns, Reached({h} \cup rest, g)
                 PROVE  Reached({f} \cup rest, g)'
    BY Zenon DEF Handed
  <2>2. CASE ran[g] = 1
    BY Zenon, <1>1, <2>2 DEF Reached
  <2>3. CASE \E k \in {h} \cup rest : g \in Range(k.fns)
    <3>1. h.fns = <<>>
      BY Zenon, <1>1, <1>2 DEF FramesInv, FrameInv
    <3> QED
      BY Zenon, <1>9, <2>3, <3>1 DEF Reached
  <2>4. CASE g \in Range(cleanups[o])
    BY Zenon, <1>8, <2>4 DEF Reached
  <2>5. CASE /\ g \notin Range(cleanups[o])
             /\ \A set \in SUBSET Owners :
                   Closed(set) /\ (\A k \in {h} \cup rest : ToClean(k) \subseteq set) =>
                       \E q \in set : g \in Range(cleanups[q])
    <3>1. ASSUME NEW set \in SUBSET Owners, Closed(set)', \A k \in {f} \cup rest : ToClean(k)' \subseteq set
          PROVE  \E q \in set : g \in Range(cleanups'[q])
      <4>1. Closed(set \cup {o}) /\ set \cup {o} \in SUBSET Owners
        BY Zenon, <1>14, <3>1
      <4>2. ASSUME NEW k \in {h} \cup rest, NEW c \in ToClean(k) PROVE c \in set \cup {o}
        <5>1. CASE k = h
          BY Zenon, <1>13, <4>2, <5>1
        <5>2. CASE k \in rest
          <6>1. c \in ToClean(k)'
            BY Zenon, <1>11, <4>2 DEF ToClean
          <6> QED
            BY Zenon, <3>1, <5>2, <6>1
        <5> QED
          BY Zenon, <5>1, <5>2
      <4>3. PICK q \in set \cup {o} : g \in Range(cleanups[q])
        BY Zenon, <2>5, <4>1, <4>2
      <4>4. q # o /\ q \in set /\ q \in Owners
        BY Zenon, <2>5, <4>3
      <4> QED
        BY Zenon, <1>10, <4>3, <4>4
    <3> QED
      BY Zenon, <3>1 DEF Reached
  <2> QED
    BY Zenon, <2>1, <2>2, <2>3, <2>4, <2>5 DEF Reached
<1>17. ASSUME NEW g \in due PROVE g \notin Range(f.fns) /\ Reached({f}, g)'
  <2>1. PICK c \in Descendants(o) : g \in Range(cleanups[c])
    BY Zenon, <1>4
  <2>2. c \in Owners /\ \A set \in SUBSET Owners : Closed(set) /\ LiveChildren(o) \subseteq set => c \in set
    BY Zenon DEF Descendants
  <2>3. c # o
    BY Zenon, <2>2 DEF LoneFacts, Acyclic
  <2>4. g \notin Range(f.fns)
    <3>1. owned[g] = c /\ (g \in Range(cleanups[o]) => owned[g] = o)
      BY Zenon, <2>1, <2>2 DEF FnInv, FnListed
    <3> QED
      BY Zenon, <1>8, <2>3, <3>1
  <2>5. ASSUME NEW set \in SUBSET Owners, Closed(set)', \A k \in {f} : ToClean(k)' \subseteq set
        PROVE  \E q \in set : g \in Range(cleanups'[q])
    <3>1. Closed(set \cup {o}) /\ set \cup {o} \in SUBSET Owners /\ LiveChildren(o) \subseteq set \cup {o}
      BY Zenon, <1>13, <1>14, <2>5
    <3>2. c \in set
      BY Zenon, <2>2, <2>3, <3>1
    <3> QED
      BY Zenon, <1>10, <2>1, <2>2, <2>3, <3>2
  <2> QED
    BY Zenon, <2>4, <2>5 DEF Reached
<1>18. Due({f}, f)'
  BY Zenon, <1>8, <1>17 DEF Due
<1>19. DueInv' /\ Below' /\ \A k \in Others(t) : k.pc \in Callers
  BY Zenon, <1>1, <1>2, <1>6, <1>8, <1>16, <1>18, LoneCalls DEF LoneFacts, BornInv
<1>20. \A k \in Frames' : k.pc # "push"
  <2>1. Frames' = Others(t) \cup {f}
    BY Zenon, <1>1, <1>6, <1>8, Stacks
  <2> QED
    BY Zenon, <1>8, <1>19, <2>1 DEF Callers
<1>21. BornInv'
  BY Zenon, <1>1, <1>10, <1>19, <1>20 DEF LoneFacts, BornInv
<1> QED
  BY Zenon, <1>15, <1>19, <1>21 DEF LoneFacts

(* The invariant holds before any call.                                     *)
LEMMA Initially == Init => IInv
<1> SUFFICES ASSUME Init PROVE IInv
  OBVIOUS
<1> USE DEF Init
<1>1. PICK none : none = <<>>
  BY Zenon
<1>2. /\ Range(none) = {} /\ IsInjective(none) /\ DOMAIN none = {} /\ none \in [{} -> Owners \cup {None}]
      /\ \A S : none \in Seq(S)
  BY <1>1 DEF Range, IsInjective
<1>3. Types
  <2>1. status \in [Owners -> {"unborn", "live", "gone"}] /\ ran \in [Fns -> Nat]
    <3>1. 0 \in Nat
      OBVIOUS
    <3> QED
      BY Zenon, <3>1
  <2>2. held \subseteq Owners /\ disposed \subseteq Items
    BY Zenon, OwnerAssumption
  <2>3. /\ parent \in [Owners -> Owners \cup {None}] /\ paused \in [Owners -> BOOLEAN]
        /\ current \in [Threads -> Owners \cup {None}] /\ owned \in [Fns \cup Items -> Owners \cup {None}]
    BY Zenon
  <2>4. /\ children \in [Owners -> Seq(Owners)] /\ cleanups \in [Owners -> Seq(Fns)]
        /\ nodes \in [Owners -> Seq(Items)] /\ stack \in [Threads -> Seq(FrameType)]
    BY Zenon, <1>1, <1>2
  <2>5. DOMAIN arena \subseteq Items /\ arena \in [DOMAIN arena -> Owners \cup {None}]
    BY Zenon, <1>1, <1>2
  <2> QED
    BY Zenon, <2>1, <2>2, <2>3, <2>4, <2>5 DEF Types
<1>4. /\ \A t \in Threads : stack[t] = none
      /\ \A o \in Owners : children[o] = none /\ cleanups[o] = none /\ nodes[o] = none
      /\ \A x \in Fns : ran[x] = 0 /\ owned[x] = None
  BY Zenon, <1>1
<1>5. Frames = {} /\ DOMAIN arena = {}
  BY Zenon, <1>1, <1>2, <1>4 DEF Frames
<1>6. FramesInv /\ Apart
  BY Zenon, <1>2, <1>4, <1>5 DEF FramesInv, Apart, Disjoint
<1>7. FnInv /\ ItemInv
  BY Zenon, <1>2, <1>4, <1>5 DEF FnInv, FnListed, FnTaken, FnPlaced, ItemInv, ItemsOwned
<1>8. GoneInv
  BY Zenon, <1>1, <1>4 DEF GoneInv
<1>9. BornInv
  <2>1. Below
    BY Zenon, <1>1, <1>4 DEF Below, Idle
  <2>2. \A o \in held : status[o] # "unborn"
    BY Zenon, OwnerAssumption
  <2> QED
    BY Zenon, <1>1, <1>4, <1>5, <2>1, <2>2 DEF BornInv
<1>10. Acyclic
  <2>1. ASSUME NEW o \in Owners
        PROVE  {} \in SUBSET Owners /\ Closed({}) /\ LiveChildren(o) \subseteq {} /\ o \notin {}
    BY Zenon, <1>2, <1>4 DEF Closed, LiveChildren
  <2> QED
    BY Zenon, <2>1 DEF Acyclic
<1>11. DueInv
  BY Zenon, <1>2, <1>4 DEF DueInv, DueFrom
<1> QED
  BY Zenon, <1>3, <1>6, <1>7, <1>8, <1>9, <1>10, <1>11 DEF IInv, SharedInv, LoneFacts

(* Every step keeps the invariant on any number of threads.                 *)
LEMMA SharedNext ==
    ASSUME SharedInv, Next
    PROVE  SharedInv'
<1>1. PICK t \in Threads :
        \/ \E o \in Owners :
              \/ New(t, o) \/ With(t, o) \/ DropHandle(t, o) \/ Cleanup(t, o)
              \/ \E p \in Owners : Child(t, p, o)
              \/ \E pc \in {"pause", "resume"} : Walk(t, o, pc)
        \/ \E f \in Fns : OnCleanup(t, f)
        \/ \E n \in Items : Dispose(t, n) \/ \E o \in Owners \cup {None} : NewItem(t, n, o)
        \/ EndWith(t)
        \/ Step(t)
  BY Zenon DEF Next
<1>2. ASSUME NEW o \in Owners,
             \/ New(t, o) \/ With(t, o) \/ DropHandle(t, o) \/ Cleanup(t, o)
             \/ \E p \in Owners : Child(t, p, o)
             \/ \E pc \in {"pause", "resume"} : Walk(t, o, pc)
      PROVE  SharedInv'
  BY Zenon, <1>2, CallSteps, ChildStep
<1>3. ASSUME NEW f \in Fns, OnCleanup(t, f) PROVE SharedInv'
  BY Zenon, <1>3, OnCleanupStep
<1>4. ASSUME NEW n \in Items, Dispose(t, n) \/ \E o \in Owners \cup {None} : NewItem(t, n, o)
      PROVE  SharedInv'
  BY Zenon, <1>4, DisposeStep, NewItemStep
<1>5. CASE EndWith(t) \/ Step(t)
  BY Zenon, <1>5, HandOnSteps, RegisterStep, TakeStep, NextFnStep, RemoveNodesStep DEF Step
<1> QED
  BY Zenon, <1>1, <1>2, <1>3, <1>4, <1>5

(* Every step keeps what holds on one thread.                               *)
LEMMA LoneNext ==
    ASSUME SharedInv, Lone, LoneFacts, Next
    PROVE  LoneFacts'
<1>1. PICK t \in Threads :
        \/ \E o \in Owners :
              \/ New(t, o) \/ With(t, o) \/ DropHandle(t, o) \/ Cleanup(t, o)
              \/ \E p \in Owners : Child(t, p, o)
              \/ \E pc \in {"pause", "resume"} : Walk(t, o, pc)
        \/ \E f \in Fns : OnCleanup(t, f)
        \/ \E n \in Items : Dispose(t, n) \/ \E o \in Owners \cup {None} : NewItem(t, n, o)
        \/ EndWith(t)
        \/ Step(t)
  BY Zenon DEF Next
<1>2. ASSUME NEW o \in Owners,
             \/ New(t, o) \/ With(t, o) \/ DropHandle(t, o) \/ Cleanup(t, o)
             \/ \E p \in Owners : Child(t, p, o)
             \/ \E pc \in {"pause", "resume"} : Walk(t, o, pc)
      PROVE  LoneFacts'
  BY Zenon, <1>2, LoneCallSteps, LoneBirths
<1>3. ASSUME NEW f \in Fns, OnCleanup(t, f) PROVE LoneFacts'
  BY Zenon, <1>3, LoneOnCleanup
<1>4. ASSUME NEW n \in Items, Dispose(t, n) \/ \E o \in Owners \cup {None} : NewItem(t, n, o)
      PROVE  LoneFacts'
  BY Zenon, <1>4, LoneCallSteps
<1>5. CASE EndWith(t) \/ Register(t) \/ RemoveNodes(t) \/ DropItem(t) \/ WalkStep(t)
  BY Zenon, <1>5, LonePassiveSteps
<1>6. CASE PushChild(t) \/ Release(t) \/ Take(t) \/ NextChild(t) \/ NextFn(t) \/ EndFn(t)
  BY Zenon, <1>6, LoneBirths, LoneRelease, LoneTake, LoneNextChild, LoneFns
<1> QED
  BY Zenon, <1>1, <1>2, <1>3, <1>4, <1>5, <1>6 DEF Step

(* Nothing changes in a step of the rest of the program.                    *)
LEMMA Stuttering ==
    ASSUME IInv, UNCHANGED vars
    PROVE  IInv'
<1>1. /\ UNCHANGED <<status, held, parent, children, cleanups, nodes, paused, arena>>
      /\ UNCHANGED <<current, stack, ran, owned, disposed>>
  BY Zenon DEF vars, tree, lists, history
<1>2. Frames' = Frames
  BY Zenon, <1>1 DEF Frames
<1>3. (Types /\ FramesInv /\ Apart)'
  BY Zenon, <1>1, <1>2 DEF IInv, SharedInv, Types, FramesInv, Apart
<1>4. (FnInv /\ ItemInv /\ GoneInv)'
  <2>1. FnInv'
    BY Zenon, <1>1, <1>2 DEF IInv, SharedInv, FnInv, FnListed, FnTaken, FnPlaced
  <2>2. ItemInv'
    BY Zenon, <1>1, <1>2 DEF IInv, SharedInv, ItemInv, ItemsOwned
  <2>3. GoneInv'
    BY Zenon, <1>1, <1>2 DEF IInv, SharedInv, GoneInv
  <2> QED
    BY Zenon, <2>1, <2>2, <2>3
<1>5. ASSUME LoneFacts PROVE LoneFacts'
  <2>1. /\ \A c : Alive(c)' <=> Alive(c)
        /\ \A q : LiveChildren(q)' = LiveChildren(q)
    BY Zenon, <1>1 DEF Alive, LiveChildren
  <2>2. BornInv'
    BY Zenon, <1>1, <1>2, <1>5 DEF LoneFacts, BornInv, Below, Idle
  <2>3. Acyclic'
    BY Zenon, <1>5, <2>1, StillAcyclic DEF LoneFacts
  <2>4. ASSUME NEW frames, NEW g, Reached(frames, g) PROVE Reached(frames, g)'
    <3>1. \A set : Closed(set)' <=> Closed(set)
      BY Zenon, <2>1 DEF Closed
    <3>2. \A f : ToClean(f)' = ToClean(f)
      BY Zenon, <2>1 DEF ToClean
    <3> QED
      BY Zenon, <1>1, <2>4, <3>1, <3>2 DEF Reached
  <2>5. ASSUME NEW frames, NEW f, Due(frames, f) PROVE Due(frames, f)'
    BY Zenon, <1>1, <2>4, <2>5 DEF Due
  <2>6. DueInv'
    BY Zenon, <1>1, <1>5, <2>5 DEF LoneFacts, DueInv, DueFrom
  <2> QED
    BY Zenon, <2>2, <2>3, <2>6 DEF LoneFacts
<1> QED
  BY Zenon, <1>3, <1>4, <1>5 DEF IInv, SharedInv, Lone

(* The invariant is inductive.                                              *)
THEOREM Invariance == Spec => []IInv
<1>1. Init => IInv
  BY Initially
<1>2. IInv /\ [Next]_vars => IInv'
  <2> SUFFICES ASSUME IInv, [Next]_vars PROVE IInv'
    OBVIOUS
  <2>1. CASE Next
    <3>1. SharedInv'
      BY Zenon, <2>1, SharedNext DEF IInv
    <3>2. Lone => LoneFacts'
      BY Zenon, <2>1, LoneNext DEF IInv
    <3> QED
      BY Zenon, <3>1, <3>2 DEF IInv, Lone
  <2>2. CASE UNCHANGED vars
    BY Zenon, <2>2, Stuttering
  <2> QED
    BY Zenon, <2>1, <2>2
<1> QED
  BY <1>1, <1>2, PTL DEF Spec

(* Nothing is left behind (NothingLeft): on any number of threads, a        *)
(* function runs at most once, and when an owner is gone and no call is in  *)
(* progress, its functions have run and its items have left the arena.      *)
THEOREM NothingLeftBehind == Spec => []NothingLeft
<1>1. IInv => NothingLeft
  <2> SUFFICES ASSUME IInv PROVE NothingLeft
    OBVIOUS
  <2>1. ASSUME NEW f \in Fns PROVE ran[f] <= 1
    <3>1. ran[f] = 0 \/ ran[f] = 1
      BY Zenon DEF IInv, SharedInv, FnInv, FnPlaced
    <3> QED
      BY <3>1
  <2>2. ASSUME Quiet, NEW o \in Owners, status[o] = "gone"
        PROVE  /\ \A f \in Fns : owned[f] = o => ran[f] = 1
               /\ \A n \in Items : owned[n] = o => n \notin DOMAIN arena
    <3>1. Range(<<>>) = {}
      BY DEF Range
    <3>2. Frames = {}
      BY Zenon, <2>2, <3>1 DEF Quiet, Idle, Frames
    <3>3. Range(cleanups[o]) = {} /\ Range(nodes[o]) = {} /\ o # None
      BY Zenon, <2>2, <3>1, <3>2, OwnerAssumption DEF IInv, SharedInv, GoneInv
    <3>4. ASSUME NEW f \in Fns, owned[f] = o PROVE ran[f] = 1
      BY Zenon, <3>2, <3>3, <3>4 DEF IInv, SharedInv, FnInv, FnPlaced
    <3>5. ASSUME NEW n \in Items, owned[n] = o PROVE n \notin DOMAIN arena
      BY Zenon, <3>2, <3>3, <3>5 DEF IInv, SharedInv, ItemInv, ItemsOwned
    <3> QED
      BY Zenon, <3>4, <3>5
  <2> QED
    BY Zenon, <2>1, <2>2 DEF NothingLeft
<1> QED
  BY <1>1, Invariance, PTL

(* No item is orphaned (ItemsOwned), on any number of threads.              *)
THEOREM ItemsAlwaysOwned == Spec => []ItemsOwned
<1>1. IInv => ItemsOwned
  BY Zenon DEF IInv, SharedInv, ItemInv
<1> QED
  BY <1>1, Invariance, PTL

(* Owner::cleanup, on one thread: when an owner's own functions begin to    *)
(* run, every function that was registered below it has run, and its items  *)
(* are still there (CleanupOrder).                                          *)
THEOREM OrderOfCleanup ==
    ASSUME Lone
    PROVE  Spec => []CleanupOrder
<1>1. IInv => CleanupOrder
  <2> SUFFICES ASSUME IInv, NEW f \in Frames, f.pc \in {"fns", "function"}
               PROVE  /\ \A g \in f.due : ran[g] = 1
                      /\ \A n \in Range(f.nodes) : n \in DOMAIN arena \/ n \in disposed
    BY Zenon DEF CleanupOrder
  <2>1. PICK t \in Threads : f \in Range(stack[t])
    BY Zenon DEF Frames
  <2>2. PICK i \in DOMAIN stack[t] : f = stack[t][i]
    BY Zenon, <2>1 DEF Range
  <2>3. \A g \in f.due : ran[g] = 1
    BY Zenon, <2>2 DEF IInv, LoneFacts, DueInv, DueFrom, Due
  <2> QED
    BY Zenon, <2>3 DEF IInv, SharedInv, ItemInv
<1> QED
  BY <1>1, Invariance, PTL

=============================================================================
