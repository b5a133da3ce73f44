------------------------------ MODULE OwnerTree ------------------------------
(***************************************************************************)
(* The ownership tree of reactive_graph: owners hold their children weakly *)
(* and own cleanup functions and arena items; cleaning up or dropping an   *)
(* owner cleans up its children, runs its functions and drops its items,   *)
(* which may themselves hold the last handle of another owner.             *)
(*                                                                         *)
(* Every thread has a call stack; a step is one critical section of an     *)
(* owner's lock or of the arena's.  A frame that works on an owner holds a *)
(* strong reference to it, unless it is the owner's drop.                  *)
(***************************************************************************)
EXTENDS Naturals, Sequences, Functions

CONSTANTS
    Owners,         \* owners, each created at most once
    Fns,            \* cleanup functions, each registered at most once
    Items,          \* arena items, each created at most once
    Threads,
    None,
    Root,           \* an owner that is there from the start
    Pausable,       \* the owners that the program pauses and resumes
    MaxDepth        \* bound on the user's calls nested on one thread

ASSUME OwnerAssumption ==
    /\ Root \in Owners
    /\ None \notin Owners
    /\ Fns \cap Items = {}
    /\ MaxDepth \in Nat

VARIABLES
    status,         \* each owner is "unborn", "live" or "gone"
    held,           \* the owners that user code holds a handle of
    parent,         \* OwnerInner.parent, weak
    children,       \* OwnerInner.children, weak
    cleanups,       \* OwnerInner.cleanups
    nodes,          \* OwnerInner.nodes
    paused,         \* OwnerInner.paused
    arena,          \* what the arena holds: item -> the owner stored in it, or None
    current,        \* OWNER of each thread, weak
    stack,          \* call stack of each thread, innermost frame first
    ran,            \* history: how often each function has run
    owned,          \* history: the owner each function or item belongs to
    disposed        \* history: the items the user has disposed of

vars == <<status, held, parent, children, cleanups, nodes, paused, arena, current,
          stack, ran, owned, disposed>>
tree == <<parent, children>>
lists == <<cleanups, nodes>>
history == <<owned, disposed>>

(* A frame: the owner it works for and whether it drops it; the children,   *)
(* functions and items left to deal with, and the values taken out of the   *)
(* arena; an argument; and (history) the functions below it at the start.   *)
Frame(pc, o) ==
    [pc |-> pc, owner |-> o, drop |-> FALSE, kids |-> <<>>, fns |-> <<>>,
     nodes |-> <<>>, items |-> <<>>, arg |-> None, due |-> {}]

Init ==
    /\ status = [o \in Owners |-> IF o = Root THEN "live" ELSE "unborn"]
    /\ held = {Root}
    /\ parent = [o \in Owners |-> None]
    /\ children = [o \in Owners |-> <<>>]
    /\ cleanups = [o \in Owners |-> <<>>]
    /\ nodes = [o \in Owners |-> <<>>]
    /\ paused = [o \in Owners |-> FALSE]
    /\ arena = <<>>
    /\ current = [t \in Threads |-> None]
    /\ stack = [t \in Threads |-> <<>>]
    /\ ran = [f \in Fns |-> 0]
    /\ owned = [x \in Fns \cup Items |-> None]
    /\ disposed = {}

Idle(t) == stack[t] = <<>>
Top(t) == Head(stack[t])
At(t, pc) == ~Idle(t) /\ Top(t).pc = pc
Goto(t, frame) == stack' = [stack EXCEPT ![t] = <<frame>> \o Tail(@)]
Enter(t, callee) == stack' = [stack EXCEPT ![t] = <<callee>> \o @]
Call(t, callee, frame) == stack' = [stack EXCEPT ![t] = <<callee, frame>> \o Tail(@)]
Return(t) == stack' = [stack EXCEPT ![t] = Tail(@)]

(* User code is in control: at the top, in Owner::with, in a cleanup.       *)
UserCode(t) == (Idle(t) \/ At(t, "with") \/ At(t, "function")) /\ Len(stack[t]) < MaxDepth

Alive(o) == o # None /\ status[o] = "live"

(* Owner::current: the thread's weak owner, upgraded *)
Current(t) == IF Alive(current[t]) THEN current[t] ELSE None

Frames == UNION {Range(stack[t]) : t \in Threads}

(* Vec::retain: the elements that are in a set, in their order              *)
Retain(seq, set) ==
    LET kept == {i \in DOMAIN seq : seq[i] \in set}
        Places(n) == {p \in [1 .. n -> kept] :
                        Range(p) = kept /\ \A i, j \in 1 .. n : i < j => p[i] < p[j]}
    IN {[j \in DOMAIN p |-> seq[p[j]]] : p \in UNION {Places(n) : n \in 0 .. Len(seq)}}

(* The arena, without some items *)
Without(gone) == [n \in DOMAIN arena \ gone |-> arena[n]]

-----------------------------------------------------------------------------
(* Creating owners.  The pruning of dead children happens when the vector   *)
(* is full, which is any time as far as this model knows.                   *)

Pruned(seq) == {seq} \cup Retain(seq, {o \in Owners : Alive(o)})

(* Owner::new: the owner is built first and then pushed onto its parent.    *)
New(t, o) ==
    /\ UserCode(t)
    /\ status[o] = "unborn"
    /\ status' = [status EXCEPT ![o] = "live"]
    /\ parent' = [parent EXCEPT ![o] = Current(t)]
    /\ Enter(t, Frame("push", o))
    /\ UNCHANGED <<held, children, lists, paused, arena, current, ran, history>>

PushChild(t) ==
    /\ At(t, "push")
    /\ LET o == Top(t).owner
           p == parent[o]
       IN /\ held' = held \cup {o}
          /\ IF Alive(p)
             THEN \E kept \in Pruned(children[p]) :
                     children' = [children EXCEPT ![p] = Append(kept, o)]
             ELSE UNCHANGED children
    /\ Return(t)
    /\ UNCHANGED <<status, parent, lists, paused, arena, current, ran, history>>

(* Owner::child: under the parent's lock, which also hands down paused.     *)
Child(t, p, o) ==
    /\ UserCode(t)
    /\ p \in held
    /\ status[o] = "unborn"
    /\ status' = [status EXCEPT ![o] = "live"]
    /\ held' = held \cup {o}
    /\ parent' = [parent EXCEPT ![o] = p]
    /\ \E kept \in Pruned(children[p]) : children' = [children EXCEPT ![p] = Append(kept, o)]
    /\ paused' = [paused EXCEPT ![o] = paused[p]]
    /\ UNCHANGED <<lists, arena, current, stack, ran, owned, disposed>>

-----------------------------------------------------------------------------
(* The current owner, and what is registered with it *)

With(t, o) ==
    /\ UserCode(t)
    /\ o \in held
    /\ Enter(t, [Frame("with", o) EXCEPT !.arg = current[t]])
    /\ current' = [current EXCEPT ![t] = o]
    /\ UNCHANGED <<status, held, tree, lists, paused, arena, ran, history>>

EndWith(t) ==
    /\ At(t, "with")
    /\ current' = [current EXCEPT ![t] = Top(t).arg]
    /\ Goto(t, Frame("release", Top(t).owner))
    /\ UNCHANGED <<status, held, tree, lists, paused, arena, ran, history>>

OnCleanup(t, f) ==
    /\ UserCode(t)
    /\ Current(t) # None
    /\ owned[f] = None
    /\ owned' = [owned EXCEPT ![f] = Current(t)]
    /\ cleanups' = [cleanups EXCEPT ![Current(t)] = Append(@, f)]
    /\ UNCHANGED <<status, held, tree, nodes, paused, arena, current, stack, ran, disposed>>

(* ArenaItem::new: into the arena, and then registered with the owner.  The *)
(* value may be a handle of an owner.                                       *)
NewItem(t, n, o) ==
    /\ UserCode(t)
    /\ Current(t) # None
    /\ owned[n] = None
    /\ n \notin DOMAIN arena
    /\ o \in held \cup {None}
    /\ held' = held \ {o}
    /\ arena' = [m \in DOMAIN arena \cup {n} |-> IF m = n THEN o ELSE arena[m]]
    /\ Enter(t, [Frame("register", None) EXCEPT !.arg = n])
    /\ UNCHANGED <<status, tree, lists, paused, current, ran, history>>

(* Owner::register drops the ids of disposed items when the vector is full. *)
PrunedNodesAll(seq) == {<<>>}

PrunedNodes(seq) == {seq} \cup Retain(seq, DOMAIN arena)

Register(t) ==
    /\ At(t, "register")
    /\ LET n == Top(t).arg
           o == Current(t)
       IN IF o = None THEN UNCHANGED <<nodes, owned>>
          ELSE /\ owned' = [owned EXCEPT ![n] = o]
               /\ \E kept \in PrunedNodes(nodes[o]) :
                     nodes' = [nodes EXCEPT ![o] = Append(kept, n)]
    /\ Return(t)
    /\ UNCHANGED <<status, held, tree, cleanups, paused, arena, current, ran, disposed>>

(* ArenaItem::dispose, and dropping a handle: the value goes last.          *)
Dispose(t, n) ==
    /\ UserCode(t)
    /\ owned[n] # None
    /\ n \in DOMAIN arena
    /\ arena' = Without({n})
    /\ disposed' = disposed \cup {n}
    /\ Enter(t, Frame("release", arena[n]))
    /\ UNCHANGED <<status, held, tree, lists, paused, current, ran, owned>>

DropHandle(t, o) ==
    /\ UserCode(t)
    /\ o \in held
    /\ held' = held \ {o}
    /\ Enter(t, Frame("release", o))
    /\ UNCHANGED <<status, tree, lists, paused, arena, current, ran, history>>

-----------------------------------------------------------------------------
(* Cleaning up *)

(* A strong reference, besides the one that thread t is about to give up    *)
Referenced(t, o) ==
    \/ o \in held
    \/ \E n \in DOMAIN arena : arena[n] = o
    \/ \E u \in Threads : \E i \in DOMAIN stack[u] :
          /\ <<u, i>> # <<t, 1>>
          /\ \/ stack[u][i].owner = o /\ ~stack[u][i].drop
             \/ o \in Range(stack[u][i].items)

(* The last reference gone, OwnerInner is dropped on this thread.           *)
Release(t) ==
    /\ At(t, "release")
    /\ LET o == Top(t).owner
       IN IF o = None \/ Referenced(t, o)
          THEN Return(t) /\ UNCHANGED status
          ELSE /\ status' = [status EXCEPT ![o] = "gone"]
               /\ Goto(t, [Frame("take", o) EXCEPT !.drop = TRUE])
    /\ UNCHANGED <<held, tree, lists, paused, arena, current, ran, history>>

(* Owner::cleanup, called by the user or by an effect about to run again    *)
Cleanup(t, o) ==
    /\ UserCode(t)
    /\ o \in held
    /\ Enter(t, Frame("take", o))
    /\ UNCHANGED <<status, held, tree, lists, paused, arena, current, ran, history>>

(* The live owners below an owner, through the lists of children: those in  *)
(* every set that has the owner's live children and those of its members    *)
LiveChildren(o) == {c \in Range(children[o]) : Alive(c)}
Closed(set) == \A o \in set : LiveChildren(o) \subseteq set
Descendants(o) ==
    {c \in Owners : \A set \in SUBSET Owners :
                        Closed(set) /\ LiveChildren(o) \subseteq set => c \in set}

(* All three lists are taken under one lock.                                *)
TakeClone(t) ==
    /\ At(t, "take")
    /\ LET o == Top(t).owner
       IN /\ Goto(t, [Top(t) EXCEPT !.pc = "kids", !.kids = children[o],
                        !.fns = cleanups[o], !.nodes = nodes[o],
                        !.due = UNION {Range(cleanups[c]) : c \in Descendants(o)}])
          /\ children' = [children EXCEPT ![o] = <<>>]
          /\ nodes' = [nodes EXCEPT ![o] = <<>>]
    /\ UNCHANGED <<status, held, parent, cleanups, paused, arena, current, ran, history>>

Take(t) ==
    /\ At(t, "take")
    /\ LET o == Top(t).owner
       IN /\ Goto(t, [Top(t) EXCEPT !.pc = "kids", !.kids = children[o],
                        !.fns = cleanups[o], !.nodes = nodes[o],
                        !.due = UNION {Range(cleanups[c]) : c \in Descendants(o)}])
          /\ children' = [children EXCEPT ![o] = <<>>]
          /\ cleanups' = [cleanups EXCEPT ![o] = <<>>]
          /\ nodes' = [nodes EXCEPT ![o] = <<>>]
    /\ UNCHANGED <<status, held, parent, paused, arena, current, ran, history>>

NextChildSkip(t) ==
    /\ At(t, "kids")
    /\ Goto(t, [Top(t) EXCEPT !.pc = "fns"])
    /\ UNCHANGED <<status, held, tree, lists, paused, arena, current, ran, history>>

NextChild(t) ==
    /\ At(t, "kids")
    /\ IF Top(t).kids = <<>> THEN Goto(t, [Top(t) EXCEPT !.pc = "fns"])
       ELSE LET rest == [Top(t) EXCEPT !.kids = Tail(@)]
                c == Head(Top(t).kids)
            IN IF Alive(c) THEN Call(t, Frame("take", c), rest) ELSE Goto(t, rest)
    /\ UNCHANGED <<status, held, tree, lists, paused, arena, current, ran, history>>

NextFn(t) ==
    /\ At(t, "fns")
    /\ IF Top(t).fns = <<>>
       THEN Goto(t, [Top(t) EXCEPT !.pc = "nodes"]) /\ UNCHANGED ran
       ELSE /\ ran' = [ran EXCEPT ![Head(Top(t).fns)] = @ + 1]
            /\ Goto(t, [Top(t) EXCEPT !.pc = "function", !.fns = Tail(@)])
    /\ UNCHANGED <<status, held, tree, lists, paused, arena, current, history>>

EndFn(t) ==
    /\ At(t, "function")
    /\ Goto(t, [Top(t) EXCEPT !.pc = "fns"])
    /\ UNCHANGED <<status, held, tree, lists, paused, arena, current, ran, history>>

(* The items leave the arena under its lock, and are dropped after it.      *)
RemoveNodes(t) ==
    /\ At(t, "nodes")
    /\ \E taken \in Retain(Top(t).nodes, DOMAIN arena) :
          /\ arena' = Without(Range(taken))
          /\ Goto(t, [Top(t) EXCEPT !.pc = "items", !.nodes = <<>>,
                        !.items = [i \in DOMAIN taken |-> arena[taken[i]]]])
    /\ UNCHANGED <<status, held, tree, lists, paused, current, ran, history>>

DropItem(t) ==
    /\ At(t, "items")
    /\ IF Top(t).items # <<>>
       THEN Call(t, Frame("release", Head(Top(t).items)), [Top(t) EXCEPT !.items = Tail(@)])
       ELSE IF Top(t).drop THEN Return(t) ELSE Goto(t, Frame("release", Top(t).owner))
    /\ UNCHANGED <<status, held, tree, lists, paused, arena, current, ran, history>>

-----------------------------------------------------------------------------
(* Owner::pause and Owner::resume walk the tree, one lock at a time.        *)

Walk(t, o, pc) ==
    /\ UserCode(t)
    /\ o \in held \cap Pausable
    /\ Enter(t, [Frame(pc, o) EXCEPT !.kids = <<o>>])
    /\ UNCHANGED <<status, held, tree, lists, paused, arena, current, ran, history>>

WalkStep(t) ==
    /\ At(t, "pause") \/ At(t, "resume")
    /\ LET todo == Top(t).kids
           o == todo[Len(todo)]
           rest == SubSeq(todo, 1, Len(todo) - 1)
       IN \/ /\ todo = <<>>
             /\ Goto(t, Frame("release", Top(t).owner))
             /\ UNCHANGED paused
          \/ /\ todo # <<>> /\ ~Alive(o)
             /\ Goto(t, [Top(t) EXCEPT !.kids = rest])
             /\ UNCHANGED paused
          \/ /\ todo # <<>> /\ Alive(o)
             /\ paused' = [paused EXCEPT ![o] = At(t, "pause")]
             /\ Goto(t, [Top(t) EXCEPT !.kids = rest \o children[o]])
    /\ UNCHANGED <<status, held, tree, lists, arena, current, ran, history>>

-----------------------------------------------------------------------------
Step(t) ==
    \/ PushChild(t) \/ Register(t) \/ Release(t) \/ Take(t) \/ NextChild(t)
    \/ NextFn(t) \/ EndFn(t) \/ RemoveNodes(t) \/ DropItem(t) \/ WalkStep(t)

Next ==
    \E t \in Threads :
        \/ \E o \in Owners :
              \/ New(t, o) \/ With(t, o) \/ DropHandle(t, o) \/ Cleanup(t, o)
              \/ \E p \in Owners : Child(t, p, o)
              \/ \E pc \in {"pause", "resume"} : Walk(t, o, pc)
        \/ \E f \in Fns : OnCleanup(t, f)
        \/ \E n \in Items : Dispose(t, n) \/ \E o \in Owners \cup {None} : NewItem(t, n, o)
        \/ EndWith(t)
        \/ Step(t)

Spec == Init /\ [][Next]_vars

-----------------------------------------------------------------------------
Quiet == \A t \in Threads : Idle(t)

(* Nothing is left behind: a function runs at most once, and when an owner  *)
(* is gone and no call is in progress, every function registered with it    *)
(* has run and every item registered with it has left the arena.            *)
NothingLeft ==
    /\ \A f \in Fns : ran[f] <= 1
    /\ Quiet => \A o \in Owners : status[o] = "gone" =>
          /\ \A f \in Fns : owned[f] = o => ran[f] = 1
          /\ \A n \in Items : owned[n] = o => n \notin DOMAIN arena

(* "Cleans up this owner in the following order": when an owner's own       *)
(* functions begin to run, every function registered below it has run, and  *)
(* the owner's items are still there for both, unless disposed of by hand.  *)
CleanupOrder ==
    \A f \in Frames : f.pc \in {"fns", "function"} =>
        /\ \A g \in f.due : ran[g] = 1
        /\ \A n \in Range(f.nodes) : n \in DOMAIN arena \/ n \in disposed

(* No item is orphaned: what was created under an owner is in that owner's  *)
(* list or in a cleanup that is about to drop it, for as long as it exists. *)
ItemsOwned ==
    \A n \in DOMAIN arena : owned[n] # None =>
        \/ n \in Range(nodes[owned[n]])
        \/ \E f \in Frames : f.owner = owned[n] /\ n \in Range(f.nodes)

Walking == \E f \in Frames : f.pc \in {"pause", "resume"}

(* An owner in its parent's list is paused exactly if the parent is, when   *)
(* no walk of the tree is in progress.                                      *)
DescendantsFollowPause ==
    ~Walking => \A c \in Owners :
        LET p == parent[c]
        IN Alive(c) /\ Alive(p) /\ c \in Range(children[p]) => paused[c] = paused[p]

=============================================================================
