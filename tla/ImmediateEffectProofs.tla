----------------------- MODULE ImmediateEffectProofs ------------------------
(***************************************************************************)
(* Theorems about ImmediateEffect, for any signals and threads and any     *)
(* bounds: the sources kept are those of the latest run, and an effect     *)
(* whose calls do not overlap is up to date whenever it is at rest.        *)
(***************************************************************************)
EXTENDS ImmediateEffect, FiniteSetTheorems, TLAPS

-----------------------------------------------------------------------------
(* The ids of the runs in progress, and the counters                        *)

InRun == {"run", "subscribe", "read"}
Live == {n \in 1 .. started :
            \E t \in Threads : \E i \in 1 .. Len(stack[t]) : stack[t][i].id = n}

(* A run has an id, the ids of inner runs are the later ones, and no two    *)
(* threads have the same.                                                   *)
Numbered ==
    \A t \in Threads : \A i \in 1 .. Len(stack[t]) :
        /\ stack[t][i].id <= started
        /\ stack[t][i].id # 0 <=> stack[t][i].pc \in InRun
Ordered ==
    \A t \in Threads : \A i, j \in 1 .. Len(stack[t]) :
        i < j /\ stack[t][i].id # 0 => stack[t][i].id > stack[t][j].id
Apart ==
    \A t, u \in Threads : \A i \in 1 .. Len(stack[t]), j \in 1 .. Len(stack[u]) :
        t # u /\ stack[t][i].id # 0 => stack[t][i].id # stack[u][j].id

(* The latest run is in progress where it started, unless it is done.       *)
LatestInv ==
    /\ doneMax <= started
    /\ doneMax < started => \E i \in 1 .. Len(stack[lastThread]) : stack[lastThread][i].id = started

(* As many runs are in progress as have started and are not done, so that   *)
(* nothing is in progress when the counters start again.                    *)
CountInv == Cardinality(Live) + doneCount = started

IdInv == Numbered /\ Ordered /\ Apart /\ LatestInv /\ CountInv

-----------------------------------------------------------------------------
(* The sequence r is q with c put in front, with c in place of the first    *)
(* element, or without the first element.                                   *)
Pushed(q, c, r) ==
    Len(r) = Len(q) + 1 /\ r[1] = c /\ \A i \in 2 .. Len(r) : r[i] = q[i - 1]
Replaced(q, c, r) ==
    Len(r) = Len(q) /\ Len(q) > 0 /\ r[1] = c /\ \A i \in 2 .. Len(q) : r[i] = q[i]
Popped(q, r) ==
    Len(q) > 0 /\ Len(r) = Len(q) - 1 /\ \A i \in 1 .. Len(r) : r[i] = q[i + 1]

(* What Enter, Goto and Return do to the calls of a thread                  *)
LEMMA Moves ==
    ASSUME TypeOK, NEW t \in Threads
    PROVE  /\ \A c \in CallSet : Enter(t, c) =>
                 /\ stack' \in [Threads -> Seq(CallSet)]
                 /\ \A u \in Threads : u # t => stack'[u] = stack[u]
                 /\ Pushed(stack[t], c, stack'[t])
           /\ \A c \in CallSet : ~Idle(t) /\ Goto(t, c) =>
                 /\ stack' \in [Threads -> Seq(CallSet)]
                 /\ \A u \in Threads : u # t => stack'[u] = stack[u]
                 /\ Replaced(stack[t], c, stack'[t])
           /\ ~Idle(t) /\ Return(t) =>
                 /\ stack' \in [Threads -> Seq(CallSet)]
                 /\ \A u \in Threads : u # t => stack'[u] = stack[u]
                 /\ Popped(stack[t], stack'[t])
           /\ ~Idle(t) => Top(t) = stack[t][1] /\ Top(t) \in CallSet
           /\ stack \in [Threads -> Seq(CallSet)] /\ Len(stack[t]) \in Nat
           /\ Idle(t) <=> Len(stack[t]) = 0
<1> DEFINE q == stack[t]
<1>1. stack \in [Threads -> Seq(CallSet)] /\ q \in Seq(CallSet) /\ Len(q) \in Nat
  BY DEF TypeOK
<1>2. (Idle(t) <=> Len(q) = 0) /\ (~Idle(t) => Top(t) = q[1] /\ Top(t) \in CallSet)
  BY <1>1 DEF Idle, Top
<1>3. ASSUME NEW c \in CallSet
      PROVE  <<c>> \o q \in Seq(CallSet) /\ Pushed(q, c, <<c>> \o q)
  BY <1>1 DEF Pushed
<1>4. ASSUME ~Idle(t)
      PROVE  Tail(q) \in Seq(CallSet) /\ Popped(q, Tail(q))
  BY <1>1, <1>4 DEF Idle, Popped
<1>5. ASSUME ~Idle(t), NEW c \in CallSet
      PROVE  <<c>> \o Tail(q) \in Seq(CallSet) /\ Replaced(q, c, <<c>> \o Tail(q))
  <2> DEFINE p == Tail(q)
  <2>1. p \in Seq(CallSet) /\ Len(p) = Len(q) - 1 /\ Len(q) > 0
        /\ \A i \in 1 .. Len(p) : p[i] = q[i + 1]
    BY Zenon, <1>1, <1>4, <1>5 DEF Popped
  <2> HIDE DEF p, q
  <2>2. <<c>> \o p \in Seq(CallSet) /\ Len(<<c>> \o p) = Len(p) + 1
        /\ (<<c>> \o p)[1] = c /\ \A i \in 2 .. Len(p) + 1 : (<<c>> \o p)[i] = p[i - 1]
    BY <2>1
  <2>3. \A i \in 2 .. Len(q) : i - 1 \in 1 .. Len(p) /\ i \in 2 .. Len(p) + 1 /\ i - 1 + 1 = i
    BY <1>1, <2>1
  <2> QED
    BY <2>1, <2>2, <2>3 DEF Replaced, p
<1> QED
  BY Zenon, <1>1, <1>2, <1>3, <1>4, <1>5 DEF Enter, Goto, Return

(* The calls with an id have moved by d places, and no other has one.       *)
Shifted(q, r, d) ==
    /\ \A i \in 1 .. Len(r) : r[i].id # 0 => i + d \in 1 .. Len(q) /\ r[i].id = q[i + d].id
    /\ \A i \in 1 .. Len(q) : q[i].id # 0 => i - d \in 1 .. Len(r) /\ r[i - d].id = q[i].id
Fits(q) == \A i \in 1 .. Len(q) : q[i].id \in Nat /\ (q[i].id # 0 <=> q[i].pc \in InRun)

(* A step that starts and ends no run moves the calls with an id.           *)
SameIds(q, r) ==
    \/ \E c \in CallSet : c.id = 0 /\ c.pc \notin InRun /\ Pushed(q, c, r)
    \/ \E c \in CallSet : c.id = q[1].id /\ (c.id # 0 <=> c.pc \in InRun) /\ Replaced(q, c, r)
    \/ q[1].id = 0 /\ Popped(q, r)

(* Such a step moves them all by the same number of places, and still only  *)
(* the calls of a run have an id.                                           *)
LEMMA Shifts ==
    ASSUME NEW q, NEW r, Len(q) \in Nat, Len(r) \in Nat, Fits(q), SameIds(q, r)
    PROVE  Fits(r) /\ \E d \in Int : Shifted(q, r, d)
<1>1. ASSUME NEW c \in CallSet, c.id = 0, c.pc \notin InRun, Pushed(q, c, r)
      PROVE  Fits(r) /\ Shifted(q, r, -1)
  <2>1. Len(r) = Len(q) + 1 /\ r[1] = c
    BY Zenon, <1>1 DEF Pushed
  <2>2. \A i \in 1 .. Len(r) : i # 1 => i + (-1) \in 1 .. Len(q) /\ r[i] = q[i + (-1)]
    BY <1>1 DEF Pushed
  <2>3. \A i \in 1 .. Len(q) : i - (-1) \in 1 .. Len(r) /\ r[i - (-1)] = q[i]
    BY <1>1 DEF Pushed
  <2> QED
    BY <1>1, <2>1, <2>2, <2>3 DEF Shifted, Fits
<1>2. ASSUME NEW c \in CallSet, c.id = q[1].id, c.id # 0 <=> c.pc \in InRun, Replaced(q, c, r)
      PROVE  Fits(r) /\ Shifted(q, r, 0)
  <2>1. Len(r) = Len(q) /\ r[1] = c /\ 1 \in 1 .. Len(q)
    BY <1>2 DEF Replaced
  <2>2. \A i \in 1 .. Len(q) : i # 1 => r[i] = q[i]
    BY <1>2 DEF Replaced
  <2>3. \A i \in 1 .. Len(q) : i + 0 = i /\ i - 0 = i
    OBVIOUS
  <2> QED
    BY Zenon, <1>2, <2>1, <2>2, <2>3 DEF Shifted, Fits
<1>3. ASSUME q[1].id = 0, Popped(q, r)
      PROVE  Fits(r) /\ Shifted(q, r, 1)
  <2>1. Len(r) = Len(q) - 1
    BY Zenon, <1>3 DEF Popped
  <2>2. \A i \in 1 .. Len(r) : i + 1 \in 1 .. Len(q) /\ r[i] = q[i + 1]
    BY <1>3 DEF Popped
  <2>3. \A i \in 1 .. Len(q) : i # 1 => i - 1 \in 1 .. Len(r) /\ r[i - 1] = q[i]
    BY <1>3 DEF Popped
  <2> QED
    BY <1>3, <2>1, <2>2, <2>3 DEF Shifted, Fits
<1> QED
  BY <1>1, <1>2, <1>3 DEF SameIds

(* Then the ids and the counters are as they were.                          *)
LEMMA IdsKept ==
    ASSUME TypeOK, IdInv, NEW t \in Threads, UNCHANGED counters,
           stack' \in [Threads -> Seq(CallSet)],
           \A u \in Threads : u # t => stack'[u] = stack[u],
           SameIds(stack[t], stack'[t])
    PROVE  IdInv'
<1> DEFINE q == stack[t]
           r == stack'[t]
<1>1. \A u \in Threads : Len(stack[u]) \in Nat /\ Len(stack'[u]) \in Nat
  BY DEF TypeOK
<1>2. \A u \in Threads : Fits(stack[u])
  <2>1. \A u \in Threads : \A i \in 1 .. Len(stack[u]) : stack[u][i] \in CallSet
    BY DEF TypeOK
  <2>2. \A c \in CallSet : c.id \in Nat
    BY Zenon DEF CallSet
  <2> QED
    BY Zenon, <2>1, <2>2 DEF IdInv, Numbered, Fits
<1>3. Fits(r)
  BY Zenon, <1>1, <1>2, Shifts
<1>4. PICK d \in Int : Shifted(q, r, d)
  BY Zenon, <1>1, <1>2, Shifts
<1>5. /\ UNCHANGED <<started, doneCount, doneMax, lastThread>>
      /\ started \in Nat /\ doneMax \in Nat /\ lastThread \in Threads
  BY Zenon DEF counters, TypeOK
<1>6. \A i \in 1 .. Len(r) : r[i].id # 0 => i + d \in 1 .. Len(q) /\ r[i].id = q[i + d].id
  BY Zenon, <1>4 DEF Shifted
<1>7. \A i \in 1 .. Len(q) : q[i].id # 0 => i - d \in 1 .. Len(r) /\ r[i - d].id = q[i].id
  BY Zenon, <1>4 DEF Shifted
<1>8. Numbered'
  <2>1. \A i \in 1 .. Len(r) : r[i].id <= started
    <3> SUFFICES ASSUME NEW i \in 1 .. Len(r) PROVE r[i].id <= started
      OBVIOUS
    <3>1. CASE r[i].id = 0
      BY <1>5, <3>1
    <3>2. CASE r[i].id # 0
      BY Zenon, <1>6, <3>2 DEF IdInv, Numbered
    <3> QED
      BY Zenon, <3>1, <3>2
  <2> QED
    BY Zenon, <1>3, <1>5, <2>1 DEF IdInv, Numbered, Fits
<1>9. Ordered'
  <2>1. ASSUME NEW i \in 1 .. Len(r), NEW j \in 1 .. Len(r), i < j, r[i].id # 0
        PROVE  r[i].id > r[j].id
    <3>1. i + d \in 1 .. Len(q) /\ r[i].id = q[i + d].id
      BY Zenon, <1>6, <2>1
    <3>2. CASE r[j].id = 0
      BY <1>3, <2>1, <3>2 DEF Fits
    <3>3. CASE r[j].id # 0
      <4>1. j + d \in 1 .. Len(q) /\ r[j].id = q[j + d].id
        BY Zenon, <1>6, <3>3
      <4>2. i + d < j + d /\ q[i + d].id # 0
        BY <2>1, <3>1
      <4> QED
        BY Zenon, <3>1, <4>1, <4>2 DEF IdInv, Ordered
    <3> QED
      BY Zenon, <3>2, <3>3
  <2> QED
    BY Zenon, <2>1 DEF IdInv, Ordered
<1>10. Apart'
  <2>1. \A u \in Threads : \A i \in 1 .. Len(r), j \in 1 .. Len(stack[u]) :
           u # t /\ r[i].id # 0 => r[i].id # stack[u][j].id
    <3>1. \A u \in Threads : \A k \in 1 .. Len(q), j \in 1 .. Len(stack[u]) :
             u # t /\ q[k].id # 0 => q[k].id # stack[u][j].id
      BY Zenon DEF IdInv, Apart
    <3> HIDE DEF q, r
    <3> SUFFICES ASSUME NEW u \in Threads, u # t, NEW j \in 1 .. Len(stack[u]),
                        NEW i \in 1 .. Len(r), r[i].id # 0
                 PROVE  r[i].id # stack[u][j].id
      OBVIOUS
    <3>2. i + d \in 1 .. Len(q) /\ r[i].id = q[i + d].id
      BY Zenon, <1>6
    <3> QED
      BY Zenon, <3>1, <3>2
  <2>2. \A u \in Threads : \A i \in 1 .. Len(stack[u]), j \in 1 .. Len(r) :
           u # t /\ stack[u][i].id # 0 => stack[u][i].id # r[j].id
    <3>1. \A u \in Threads : \A i \in 1 .. Len(stack[u]), k \in 1 .. Len(q) :
             u # t /\ stack[u][i].id # 0 => stack[u][i].id # q[k].id
      BY Zenon DEF IdInv, Apart
    <3> HIDE DEF q, r
    <3> SUFFICES ASSUME NEW u \in Threads, u # t, NEW i \in 1 .. Len(stack[u]),
                        stack[u][i].id # 0, NEW j \in 1 .. Len(r), r[j].id # 0
                 PROVE  stack[u][i].id # r[j].id
      OBVIOUS
    <3>2. j + d \in 1 .. Len(q) /\ r[j].id = q[j + d].id
      BY Zenon, <1>6
    <3> QED
      BY Zenon, <3>1, <3>2
  <2> HIDE DEF r
  <2> QED
    BY <2>1, <2>2 DEF IdInv, Apart, r
<1>11. LatestInv'
  <2>1. CASE lastThread = t
    <3>1. ASSUME doneMax < started
          PROVE  \E i \in 1 .. Len(r) : r[i].id = started
      <4>1. PICK i \in 1 .. Len(q) : q[i].id = started
        BY Zenon, <2>1, <3>1 DEF IdInv, LatestInv
      <4>2. q[i].id # 0
        BY <1>5, <3>1, <4>1
      <4> QED
        BY Zenon, <1>7, <4>1, <4>2
    <3> QED
      BY Zenon, <1>5, <2>1, <3>1 DEF IdInv, LatestInv
  <2>2. CASE lastThread # t
    BY Zenon, <1>5, <2>2 DEF IdInv, LatestInv
  <2> QED
    BY Zenon, <2>1, <2>2
<1>12. Live' = Live
  <2>1. \A n \in 1 .. started : (\E i \in 1 .. Len(q) : q[i].id = n)
                                 <=> (\E i \in 1 .. Len(r) : r[i].id = n)
    <3> SUFFICES ASSUME NEW n \in 1 .. started
                 PROVE  (\E i \in 1 .. Len(q) : q[i].id = n)
                           <=> (\E i \in 1 .. Len(r) : r[i].id = n)
      OBVIOUS
    <3>1. n # 0
      BY <1>5
    <3> HIDE DEF q, r
    <3>2. ASSUME NEW i \in 1 .. Len(q), q[i].id = n PROVE \E k \in 1 .. Len(r) : r[k].id = n
      BY Zenon, <1>7, <3>1, <3>2
    <3>3. ASSUME NEW i \in 1 .. Len(r), r[i].id = n PROVE \E k \in 1 .. Len(q) : q[k].id = n
      BY Zenon, <1>6, <3>1, <3>3
    <3> QED
      BY Zenon, <3>2, <3>3
  <2>2. \A n \in 1 .. started, u \in Threads :
           (\E i \in 1 .. Len(stack[u]) : stack[u][i].id = n)
              <=> (\E i \in 1 .. Len(stack'[u]) : stack'[u][i].id = n)
    BY <2>1
  <2> QED
    BY Zenon, <1>5, <2>2 DEF Live
<1> QED
  BY Zenon, <1>5, <1>8, <1>9, <1>10, <1>11, <1>12 DEF IdInv, CountInv

(* A run starts, with the next id.                                          *)
LEMMA StartIds ==
    ASSUME TypeOK, IdInv, NEW t \in Threads, Start(t)
    PROVE  stack' \in [Threads -> Seq(CallSet)] /\ IdInv'
<1> DEFINE q == stack[t]
           r == stack'[t]
           m == started + 1
           c == [Top(t) EXCEPT !.pc = "run", !.id = m]
<1>1. /\ ~Idle(t) /\ q[1].pc = "start" /\ Top(t) = q[1] /\ Top(t) \in CallSet
      /\ \A u \in Threads : Len(stack[u]) \in Nat
  BY Zenon, Moves DEF Start, At
<1>2. /\ Goto(t, c) /\ started' = m /\ lastThread' = t
      /\ doneCount' = doneCount /\ doneMax' = doneMax
  BY Zenon DEF Start
<1>3. started \in Nat /\ m \in Nat /\ m # 0 /\ doneMax \in Nat /\ doneCount \in Nat
  BY DEF TypeOK
<1>4. c \in CallSet /\ c.id = m /\ c.pc = "run"
  BY Zenon, <1>1, <1>3 DEF CallSet
<1> HIDE DEF c
<1>5. /\ stack' \in [Threads -> Seq(CallSet)]
      /\ \A u \in Threads : u # t => stack'[u] = stack[u]
      /\ Replaced(q, c, r)
  BY Zenon, <1>1, <1>2, <1>4, Moves
<1>6. /\ Len(r) = Len(q) /\ 1 \in 1 .. Len(r) /\ r[1].id = m /\ r[1].pc = "run"
      /\ \A i \in 1 .. Len(q) : i # 1 => r[i] = q[i]
  BY <1>1, <1>4, <1>5 DEF Replaced
<1>7. \A u \in Threads : \A i \in 1 .. Len(stack[u]) :
         /\ stack[u][i].id \in 0 .. started
         /\ stack[u][i].id # 0 <=> stack[u][i].pc \in InRun
  <2>1. \A u \in Threads : \A i \in 1 .. Len(stack[u]) : stack[u][i] \in CallSet
    BY DEF TypeOK
  <2>2. \A e \in CallSet : e.id \in Nat
    BY Zenon DEF CallSet
  <2> QED
    BY <1>3, <2>1, <2>2 DEF IdInv, Numbered
<1>8. q[1].id = 0 /\ 1 \in 1 .. Len(q)
  BY Zenon, <1>1, <1>6, <1>7 DEF InRun
<1>9. \A u \in Threads : \A i \in 1 .. Len(stack'[u]) :
         \/ u = t /\ i = 1 /\ stack'[u][i].id = m /\ stack'[u][i].pc \in InRun
         \/ /\ ~(u = t /\ i = 1) /\ i \in 1 .. Len(stack[u]) /\ stack'[u][i] = stack[u][i]
            /\ stack[u][i].id \in 0 .. started
  BY <1>5, <1>6, <1>7 DEF InRun
<1>10. Numbered'
  BY <1>2, <1>3, <1>7, <1>9 DEF Numbered
<1>11. Ordered'
  <2> SUFFICES ASSUME NEW u \in Threads, NEW i \in 1 .. Len(stack'[u]),
                      NEW j \in 1 .. Len(stack'[u]), i < j, stack'[u][i].id # 0
               PROVE  stack'[u][i].id > stack'[u][j].id
    BY Zenon DEF Ordered
  <2>1. /\ ~(u = t /\ j = 1) /\ j \in 1 .. Len(stack[u]) /\ stack'[u][j] = stack[u][j]
        /\ stack[u][j].id \in 0 .. started
    BY <1>9
  <2>2. CASE u = t /\ i = 1
    BY <1>3, <1>6, <2>1, <2>2
  <2>3. CASE ~(u = t /\ i = 1)
    <3>1. i \in 1 .. Len(stack[u]) /\ stack'[u][i] = stack[u][i]
      BY Zenon, <1>9, <2>3
    <3> QED
      BY Zenon, <2>1, <3>1 DEF IdInv, Ordered
  <2> QED
    BY Zenon, <2>2, <2>3
<1>12. Apart'
  <2> SUFFICES ASSUME NEW u \in Threads, NEW v \in Threads, u # v,
                      NEW i \in 1 .. Len(stack'[u]), NEW j \in 1 .. Len(stack'[v]),
                      stack'[u][i].id # 0
               PROVE  stack'[u][i].id # stack'[v][j].id
    BY Zenon DEF Apart
  <2> DEFINE x == stack'[u][i].id
             y == stack'[v][j].id
  <2>1. \/ u = t /\ x = m
        \/ i \in 1 .. Len(stack[u]) /\ x = stack[u][i].id /\ x \in 0 .. started
    BY Zenon, <1>9
  <2>2. \/ v = t /\ y = m
        \/ j \in 1 .. Len(stack[v]) /\ y = stack[v][j].id /\ y \in 0 .. started
    BY Zenon, <1>9
  <2>3. \A e \in 1 .. Len(stack[u]), f \in 1 .. Len(stack[v]) :
           stack[u][e].id # 0 => stack[u][e].id # stack[v][f].id
    BY Zenon DEF IdInv, Apart
  <2> HIDE DEF x, y
  <2>4. x # 0 => x # y
    BY SMTT(20), <1>3, <2>1, <2>2, <2>3
  <2> QED
    BY Zenon, <2>4 DEF x, y
<1>13. LatestInv'
  BY <1>2, <1>3, <1>6 DEF IdInv, LatestInv
<1>14. Live' = Live \cup {m} /\ m \notin Live
  <2>1. \A n \in 1 .. m : n # m => n \in 1 .. started
    BY <1>3
  <2>2. \A n \in 1 .. started, u \in Threads :
           (\E i \in 1 .. Len(stack[u]) : stack[u][i].id = n)
              <=> (\E i \in 1 .. Len(stack'[u]) : stack'[u][i].id = n)
    <3> SUFFICES ASSUME NEW n \in 1 .. started, NEW u \in Threads
                 PROVE  (\E i \in 1 .. Len(stack[u]) : stack[u][i].id = n)
                           <=> (\E i \in 1 .. Len(stack'[u]) : stack'[u][i].id = n)
      OBVIOUS
    <3>1. n # 0 /\ n # m
      BY <1>3
    <3>2. CASE u = t
      BY Zenon, <1>6, <1>8, <3>1, <3>2
    <3>3. CASE u # t
      BY Zenon, <1>5, <3>3
    <3> QED
      BY Zenon, <3>2, <3>3
  <2>3. m \in Live' /\ m \notin Live
    BY <1>2, <1>3, <1>6 DEF Live
  <2>4. \A n \in 1 .. started : n \in Live' <=> n \in Live
    <3>1. \A n \in 1 .. started :
             n \in Live <=> \E u \in Threads : \E i \in 1 .. Len(stack[u]) : stack[u][i].id = n
      BY Zenon DEF Live
    <3>2. \A n \in 1 .. started :
             n \in Live' <=> \E u \in Threads : \E i \in 1 .. Len(stack'[u]) : stack'[u][i].id = n
      BY <1>2, <1>3 DEF Live
    <3> QED
      BY <2>2, <3>1, <3>2
  <2>5. Live' \subseteq 1 .. m /\ Live \subseteq 1 .. started
    BY Zenon, <1>2 DEF Live
  <2> QED
    BY Zenon, <2>1, <2>3, <2>4, <2>5
<1>15. CountInv'
  <2>1. IsFiniteSet(Live)
    <3>1. IsFiniteSet(1 .. started)
      BY <1>3, FS_Interval
    <3> QED
      BY Zenon, <3>1, FS_Subset DEF Live
  <2>2. Cardinality(Live \cup {m}) = Cardinality(Live) + 1 /\ Cardinality(Live) \in Nat
    BY Zenon, <1>14, <2>1, FS_AddElement, FS_CardinalityType
  <2> QED
    BY <1>2, <1>3, <1>14, <2>2 DEF IdInv, CountInv
<1> QED
  BY Zenon, <1>5, <1>10, <1>11, <1>12, <1>13, <1>15 DEF IdInv

(* A run is done. When it is the last one the counters start again.         *)
LEMMA FinishIds ==
    ASSUME TypeOK, IdInv, NEW t \in Threads, Finish(t)
    PROVE  stack' \in [Threads -> Seq(CallSet)] /\ IdInv'
<1> DEFINE q == stack[t]
           r == stack'[t]
           k == q[1].id
<1>1. /\ ~Idle(t) /\ q[1].pc = "run" /\ Top(t) = q[1] /\ Return(t)
      /\ \A u \in Threads : Len(stack[u]) \in Nat
  BY Zenon, Moves DEF Finish, At
<1>2. started \in Nat /\ doneMax \in Nat /\ doneCount \in Nat /\ lastThread \in Threads
  BY Zenon DEF TypeOK
<1>3. /\ stack' \in [Threads -> Seq(CallSet)]
      /\ \A u \in Threads : u # t => stack'[u] = stack[u]
      /\ Popped(q, r)
  BY Zenon, <1>1, Moves
<1>4. \A u \in Threads : \A i \in 1 .. Len(stack[u]) :
         /\ stack[u][i].id \in 0 .. started
         /\ stack[u][i].id # 0 <=> stack[u][i].pc \in InRun
  <2>1. \A u \in Threads : \A i \in 1 .. Len(stack[u]) : stack[u][i] \in CallSet
    BY DEF TypeOK
  <2>2. \A e \in CallSet : e.id \in Nat
    BY Zenon DEF CallSet
  <2> QED
    BY <1>2, <2>1, <2>2 DEF IdInv, Numbered
<1>5. /\ 1 \in 1 .. Len(q) /\ k \in 1 .. started
      /\ Len(r) = Len(q) - 1
      /\ \A i \in 1 .. Len(r) : i + 1 \in 1 .. Len(q) /\ r[i] = q[i + 1]
      /\ \A i \in 1 .. Len(q) : i # 1 => i - 1 \in 1 .. Len(r) /\ r[i - 1] = q[i]
  BY <1>1, <1>2, <1>3, <1>4 DEF Popped, InRun
(* Each call that is left has an id other than k.                           *)
<1>6. \A u \in Threads : \A i \in 1 .. Len(stack'[u]) :
         \E j \in 1 .. Len(stack[u]) : stack'[u][i] = stack[u][j] /\ stack[u][j].id # k
  <2> SUFFICES ASSUME NEW u \in Threads, NEW i \in 1 .. Len(stack'[u])
               PROVE  \E j \in 1 .. Len(stack[u]) : stack'[u][i] = stack[u][j] /\ stack[u][j].id # k
    OBVIOUS
  <2>1. CASE u = t
    <3>1. i + 1 \in 1 .. Len(q) /\ r[i] = q[i + 1] /\ 1 < i + 1
      BY <1>5, <2>1
    <3>2. k > q[i + 1].id
      <4>1. q[1].id # 0
        BY <1>2, <1>5
      <4> QED
        BY Zenon, <1>5, <3>1, <4>1 DEF IdInv, Ordered
    <3>3. q[i + 1].id \in Nat /\ k \in Nat
      BY <1>2, <1>4, <1>5, <3>1
    <3> QED
      BY <2>1, <3>1, <3>2, <3>3
  <2>2. CASE u # t
    <3>1. i \in 1 .. Len(stack[u]) /\ stack'[u][i] = stack[u][i]
      BY Zenon, <1>3, <2>2
    <3>2. \A e \in 1 .. Len(q), f \in 1 .. Len(stack[u]) : q[e].id # 0 => q[e].id # stack[u][f].id
      BY Zenon, <2>2 DEF IdInv, Apart
    <3>3. k # 0
      BY <1>2, <1>5
    <3>4. k # stack[u][i].id
      BY Zenon, <1>5, <3>1, <3>2, <3>3
    <3> QED
      BY Zenon, <3>1, <3>4
  <2> QED
    BY Zenon, <2>1, <2>2
(* The other ids are still there.                                           *)
<1>7. \A n \in 1 .. started : n # k =>
         ((\E u \in Threads : \E i \in 1 .. Len(stack[u]) : stack[u][i].id = n)
             <=> (\E u \in Threads : \E i \in 1 .. Len(stack'[u]) : stack'[u][i].id = n))
  <2> SUFFICES ASSUME NEW n \in 1 .. started, n # k
               PROVE  (\E u \in Threads : \E i \in 1 .. Len(stack[u]) : stack[u][i].id = n)
                         <=> (\E u \in Threads : \E i \in 1 .. Len(stack'[u]) : stack'[u][i].id = n)
    OBVIOUS
  <2>1. ASSUME NEW u \in Threads, NEW i \in 1 .. Len(stack[u]), stack[u][i].id = n
        PROVE  \E j \in 1 .. Len(stack'[u]) : stack'[u][j].id = n
    <3>1. CASE u = t
      <4>1. i # 1
        BY Zenon, <2>1, <3>1
      <4> QED
        BY Zenon, <1>5, <2>1, <3>1, <4>1
    <3>2. CASE u # t
      BY Zenon, <1>3, <2>1, <3>2
    <3> QED
      BY Zenon, <3>1, <3>2
  <2>2. ASSUME NEW u \in Threads, NEW i \in 1 .. Len(stack'[u]), stack'[u][i].id = n
        PROVE  \E j \in 1 .. Len(stack[u]) : stack[u][j].id = n
    BY Zenon, <1>6, <2>2
  <2> QED
    BY Zenon, <2>1, <2>2
<1>8. IsFiniteSet(Live) /\ Cardinality(Live) \in Nat /\ k \in Live
  <2>1. IsFiniteSet(1 .. started)
    BY <1>2, FS_Interval
  <2>2. IsFiniteSet(Live)
    BY Zenon, <2>1, FS_Subset DEF Live
  <2> QED
    BY Zenon, <1>5, <2>2, FS_CardinalityType DEF Live
<1>9. IsFiniteSet(Live \ {k}) /\ Cardinality(Live \ {k}) = Cardinality(Live) - 1
  BY <1>8, FS_RemoveElement
<1>10. Ordered'
  <2>1. \A i, j \in 1 .. Len(r) : i < j /\ r[i].id # 0 => r[i].id > r[j].id
    <3>1. \A e, f \in 1 .. Len(q) : e < f /\ q[e].id # 0 => q[e].id > q[f].id
      BY Zenon DEF IdInv, Ordered
    <3> HIDE DEF q, r
    <3> SUFFICES ASSUME NEW i \in 1 .. Len(r), NEW j \in 1 .. Len(r), i < j, r[i].id # 0
                 PROVE  r[i].id > r[j].id
      OBVIOUS
    <3>2. /\ i + 1 \in 1 .. Len(q) /\ r[i] = q[i + 1]
          /\ j + 1 \in 1 .. Len(q) /\ r[j] = q[j + 1]
      BY Zenon, <1>5
    <3>3. i + 1 < j + 1
      OBVIOUS
    <3> QED
      BY Zenon, <3>1, <3>2, <3>3
  <2> HIDE DEF r
  <2> QED
    BY Zenon, <1>3, <2>1 DEF IdInv, Ordered, r
<1>11. Apart'
  <2> SUFFICES ASSUME NEW u \in Threads, NEW v \in Threads, u # v,
                      NEW i \in 1 .. Len(stack'[u]), NEW j \in 1 .. Len(stack'[v]),
                      stack'[u][i].id # 0
               PROVE  stack'[u][i].id # stack'[v][j].id
    BY Zenon DEF Apart
  <2>1. PICK e \in 1 .. Len(stack[u]) : stack'[u][i] = stack[u][e]
    BY Zenon, <1>6
  <2>2. PICK f \in 1 .. Len(stack[v]) : stack'[v][j] = stack[v][f]
    BY Zenon, <1>6
  <2>3. stack[u][e].id # 0 => stack[u][e].id # stack[v][f].id
    BY Zenon DEF IdInv, Apart
  <2> QED
    BY Zenon, <2>1, <2>2, <2>3
<1>12. CASE started # DoneNow
  <2>1. /\ started' = started /\ doneCount' = doneCount + 1 /\ lastThread' = lastThread
        /\ doneMax' = IF k > doneMax THEN k ELSE doneMax
    <3>1. /\ started' = started /\ doneCount' = doneCount + 1 /\ lastThread' = lastThread
          /\ doneMax' = Max({k, doneMax})
      BY Zenon, <1>1, <1>12 DEF Finish, DoneNow
    <3>2. Max({k, doneMax}) = IF k > doneMax THEN k ELSE doneMax
      <4> HIDE DEF k
      <4>1. k \in Nat
        BY <1>2, <1>5
      <4> QED
        BY <1>2, <4>1 DEF Max
    <3> QED
      BY Zenon, <3>1, <3>2
  <2>2. Numbered'
    BY <1>4, <1>6, <2>1 DEF IdInv, Numbered
  <2>3. LatestInv'
    <3>1. doneMax' <= started' /\ doneMax' \in Nat /\ (doneMax' < started => doneMax < started /\ k # started)
      BY <1>2, <1>5, <2>1 DEF IdInv, LatestInv
    <3>2. ASSUME doneMax' < started
          PROVE  \E i \in 1 .. Len(stack'[lastThread]) : stack'[lastThread][i].id = started
      <4>1. PICK e \in 1 .. Len(stack[lastThread]) : stack[lastThread][e].id = started
        BY Zenon, <3>1, <3>2 DEF IdInv, LatestInv
      <4>2. CASE lastThread = t
        <5>1. e # 1
          BY Zenon, <3>1, <3>2, <4>1, <4>2
        <5> QED
          BY Zenon, <1>5, <4>1, <4>2, <5>1
      <4>3. CASE lastThread # t
        BY Zenon, <1>2, <1>3, <4>1, <4>3
      <4> QED
        BY Zenon, <4>2, <4>3
    <3> QED
      BY Zenon, <2>1, <3>1, <3>2 DEF LatestInv
  <2>4. Live' = Live \ {k}
    <3>1. \A n \in 1 .. started :
             n \in Live <=> \E u \in Threads : \E i \in 1 .. Len(stack[u]) : stack[u][i].id = n
      BY Zenon DEF Live
    <3>2. \A n \in 1 .. started :
             n \in Live' <=> \E u \in Threads : \E i \in 1 .. Len(stack'[u]) : stack'[u][i].id = n
      BY Zenon, <2>1 DEF Live
    <3>3. Live \subseteq 1 .. started /\ Live' \subseteq 1 .. started
      BY Zenon, <2>1 DEF Live
    <3>4. k \notin Live'
      <4> HIDE DEF k
      <4>1. \A u \in Threads : \A i \in 1 .. Len(stack'[u]) : stack'[u][i].id # k
        BY Zenon, <1>6
      <4> QED
        BY Zenon, <3>2, <3>3, <4>1
    <3> QED
      BY Zenon, <1>7, <3>1, <3>2, <3>3, <3>4
  <2> QED
    BY <1>2, <1>3, <1>8, <1>9, <1>10, <1>11, <2>1, <2>2, <2>3, <2>4 DEF IdInv, CountInv
<1>13. CASE started = DoneNow
  <2>1. started' = 0 /\ doneCount' = 0 /\ doneMax' = 0
    BY Zenon, <1>13 DEF Finish
  <2>2. Live \ {k} = {}
    <3>1. Cardinality(Live) = 1
      BY <1>2, <1>8, <1>13 DEF IdInv, CountInv, DoneNow
    <3> QED
      BY <1>8, <1>9, <3>1, FS_EmptySet
  <2>3. \A u \in Threads : \A i \in 1 .. Len(stack'[u]) : stack'[u][i].id = 0
    <3> SUFFICES ASSUME NEW u \in Threads, NEW i \in 1 .. Len(stack'[u])
                 PROVE  stack'[u][i].id = 0
      OBVIOUS
    <3>1. PICK j \in 1 .. Len(stack[u]) : stack'[u][i] = stack[u][j] /\ stack[u][j].id # k
      BY Zenon, <1>6
    <3>2. stack[u][j].id \notin Live
      BY Zenon, <2>2, <3>1
    <3>3. stack[u][j].id \in 0 .. started
      BY Zenon, <1>4
    <3>4. stack[u][j].id \in 1 .. started => stack[u][j].id \in Live
      BY Zenon DEF Live
    <3> QED
      BY <1>2, <3>1, <3>2, <3>3, <3>4
  <2>4. Numbered'
    BY SMTT(20), <1>4, <1>6, <2>1, <2>3 DEF Numbered
  <2>5. LatestInv'
    BY <2>1 DEF LatestInv
  <2>6. Live' = {}
    BY <2>1 DEF Live
  <2>7. CountInv'
    BY <2>1, <2>6, FS_EmptySet DEF CountInv
  <2> QED
    BY Zenon, <1>3, <1>10, <1>11, <2>4, <2>5, <2>7 DEF IdInv
<1> QED
  BY Zenon, <1>12, <1>13

(* Every step keeps the types, the ids, and the sources to those of the     *)
(* latest run.                                                              *)
LEMMA StepInv ==
    ASSUME TypeOK, IdInv, KeptByLatest, NEW t \in Threads, Step(t), overlapped' \in BOOLEAN
    PROVE  TypeOK' /\ IdInv' /\ KeptByLatest'
<1> DEFINE q == stack[t]
           Known == Sources \cup {None}
           Moved == /\ stack' \in [Threads -> Seq(CallSet)]
                    /\ \A u \in Threads : u # t => stack'[u] = stack[u]
                    /\ SameIds(stack[t], stack'[t])
           Goal == TypeOK' /\ IdInv' /\ KeptByLatest'
<1> USE DEF owner, history
<1>1. /\ \A s \in Sources : Call("notify", s) \in CallSet
      /\ \A pc \in {"mark", "update", "start", "batch"} : Call(pc, None) \in CallSet
      /\ \A pc, s : Call(pc, s).id = 0 /\ Call(pc, s).pc = pc
  BY Zenon DEF Call, CallSet
<1>2. ~Idle(t) => /\ Top(t) = q[1] /\ Top(t) \in CallSet
                  /\ Top(t).id \in Nat /\ (Top(t).id # 0 <=> Top(t).pc \in InRun)
  <2>1. ~Idle(t) => Top(t) = q[1] /\ Top(t) \in CallSet /\ 1 \in 1 .. Len(q)
    BY Moves
  <2> QED
    BY Zenon, <2>1 DEF IdInv, Numbered, CallSet
<1>3. \A c \in CallSet : c.id = 0 /\ c.pc \notin InRun /\ Enter(t, c) => Moved
  BY Zenon, Moves DEF SameIds
<1>4. ~Idle(t) => \A c \in CallSet :
         c.id = Top(t).id /\ (c.id # 0 <=> c.pc \in InRun) /\ Goto(t, c) => Moved
  BY Zenon, <1>2, Moves DEF SameIds
<1>5. ~Idle(t) /\ Top(t).pc \notin InRun /\ Return(t) => Moved
  BY Zenon, <1>2, Moves DEF SameIds
<1>6. Moved /\ UNCHANGED counters => IdInv'
  BY Zenon, IdsKept
<1>7. UNCHANGED <<started, sources, addedBy>> => KeptByLatest'
  BY Zenon DEF KeptByLatest
<1> HIDE DEF Moved
<1>8. Moved => stack' \in [Threads -> Seq(CallSet)]
  BY Zenon DEF Moved
<1>9. ASSUME NEW s \in Sources, Write(t, s) PROVE Goal
  <2>1. Moved
    BY <1>1, <1>3, <1>9 DEF Write, InRun
  <2>2. version' \in [Sources -> 0 .. MaxVersion]
    BY <1>9, ImmediateAssumption DEF Write, TypeOK
  <2>3. TypeOK'
    BY <1>8, <1>9, <2>1, <2>2, ZenonT(30) DEF Write, TypeOK, counters
  <2> QED
    BY Zenon, <1>6, <1>7, <1>9, <2>1, <2>3 DEF Write, counters
<1>10. ASSUME Notify(t) PROVE Goal
  <2>1. Moved
    BY <1>1, <1>2, <1>4, <1>5, <1>10 DEF Notify, At, InRun
  <2>2. TypeOK'
    BY <1>8, <1>10, <2>1, ZenonT(30) DEF Notify, TypeOK, counters
  <2> QED
    BY Zenon, <1>6, <1>7, <1>10, <2>1, <2>2 DEF Notify, counters
<1>11. ASSUME MarkDirty(t) PROVE Goal
  <2>1. Moved
    BY <1>1, <1>2, <1>4, <1>11 DEF MarkDirty, At, InRun
  <2>2. TypeOK'
    BY <1>8, <1>11, <2>1, ZenonT(30) DEF MarkDirty, TypeOK, counters
  <2> QED
    BY Zenon, <1>6, <1>7, <1>11, <2>1, <2>2 DEF MarkDirty, counters
<1>12. ASSUME ReadState(t) PROVE Goal
  <2> DEFINE c == [Top(t) EXCEPT !.pc = "decide", !.flag = (state = "Dirty")]
  <2>1. Moved
    <3>1. ~Idle(t) /\ Top(t).pc = "update"
      BY Zenon, <1>12 DEF ReadState, At
    <3>2. c \in CallSet /\ c.id = Top(t).id /\ c.pc = "decide"
      BY Zenon, <1>2, <3>1 DEF CallSet
    <3> QED
      BY Zenon, <1>2, <1>4, <1>5, <1>12, <3>1, <3>2 DEF ReadState, InRun
  <2>2. missed' \in BOOLEAN
    BY Zenon, <1>12 DEF ReadState, TypeOK
  <2>3. TypeOK'
    BY <1>8, <1>12, <2>1, <2>2, ZenonT(30) DEF ReadState, TypeOK, counters
  <2> QED
    BY Zenon, <1>6, <1>7, <1>12, <2>1, <2>3 DEF ReadState, counters
<1>13. ASSUME Decide(t) PROVE Goal
  <2>1. Moved
    BY <1>1, <1>2, <1>4, <1>5, <1>13 DEF Decide, At, InRun
  <2>2. batch' \in [open : BOOLEAN, pending : BOOLEAN]
    BY Zenon, <1>13 DEF Decide, TypeOK
  <2>3. TypeOK'
    BY <1>8, <1>13, <2>1, <2>2, ZenonT(30) DEF Decide, TypeOK, counters
  <2> QED
    BY Zenon, <1>6, <1>7, <1>13, <2>1, <2>3 DEF Decide, counters
<1>14. ASSUME Start(t) PROVE Goal
  <2>1. stack' \in [Threads -> Seq(CallSet)] /\ IdInv'
    BY Zenon, <1>14, StartIds
  <2>2. started' \in Nat /\ subs' \in SUBSET Sources /\ sources' = {}
    BY <1>14 DEF Start, TypeOK
  <2>3. TypeOK'
    BY <1>14, <2>1, <2>2, ZenonT(30) DEF Start, TypeOK
  <2> QED
    BY Zenon, <2>1, <2>2, <2>3 DEF KeptByLatest
<1>15. ASSUME NEW s \in Sources, Track(t, s) PROVE Goal
  <2> DEFINE c == [Top(t) EXCEPT !.pc = "subscribe", !.source = s]
  <2>1. ~Idle(t) /\ Top(t).pc = "run"
    BY Zenon, <1>15 DEF Track, At
  <2>2. Moved
    <3>1. c \in CallSet /\ c.id = Top(t).id /\ c.pc = "subscribe"
      BY Zenon, <1>2, <2>1 DEF CallSet
    <3> QED
      BY Zenon, <1>2, <1>4, <1>15, <2>1, <3>1 DEF Track, InRun
  <2>3. addedBy' \in [Sources -> Nat] /\ sources' \in SUBSET Sources
    BY Zenon, <1>2, <1>15, <2>1 DEF Track, TypeOK
  <2>4. TypeOK'
    BY <1>8, <1>15, <2>2, <2>3, ZenonT(30) DEF Track, TypeOK, counters
(* The latest run is the innermost where it started.                        *)
  <2>5. Adds(t) => Top(t).id = started
    <3> SUFFICES ASSUME Adds(t) PROVE Top(t).id = started
      OBVIOUS
    <3>1. PICK i \in 1 .. Len(q) : q[i].id = started
      BY Zenon DEF Adds, IdInv, LatestInv
    <3>2. 1 \in 1 .. Len(q) /\ q[1].id # 0 /\ q[1].id <= started /\ q[1].id \in Nat /\ started \in Nat
      <4>0. Len(q) \in Nat /\ started \in Nat
        BY DEF TypeOK
      <4>1. 1 \in 1 .. Len(q) /\ started \in Nat
        BY <4>0
      <4>2. q[1].id # 0 /\ q[1].id \in Nat
        BY Zenon, <1>2, <2>1 DEF InRun
      <4> QED
        BY Zenon, <4>1, <4>2 DEF IdInv, Numbered
    <3>3. i > 1 => q[1].id > q[i].id
      BY Zenon, <3>1, <3>2 DEF IdInv, Ordered
    <3> QED
      BY <1>2, <2>1, <3>1, <3>2, <3>3
  <2>6. KeptByLatest'
    <3>1. started' = started
      BY Zenon, <1>15 DEF Track, counters
    <3>2. CASE Adds(t) /\ s \notin sources
      BY Zenon, <1>15, <2>5, <3>1, <3>2 DEF Track, KeptByLatest, TypeOK
    <3>3. CASE ~(Adds(t) /\ s \notin sources)
      <4>1. sources' = sources /\ addedBy' = addedBy
        BY Zenon, <1>15, <3>3 DEF Track
      <4> QED
        BY Zenon, <3>1, <4>1 DEF KeptByLatest
    <3> QED
      BY Zenon, <3>2, <3>3
  <2> QED
    BY Zenon, <1>6, <1>15, <2>2, <2>4, <2>6 DEF Track
<1>16. ASSUME Subscribe(t) PROVE Goal
  <2> DEFINE c == [Top(t) EXCEPT !.pc = "read"]
  <2>1. ~Idle(t) /\ Top(t).pc = "subscribe"
    BY Zenon, <1>16 DEF Subscribe, At
  <2>2. Moved
    <3>1. c \in CallSet /\ c.id = Top(t).id /\ c.pc = "read"
      BY Zenon, <1>2, <2>1 DEF CallSet
    <3> QED
      BY Zenon, <1>2, <1>4, <1>16, <2>1, <3>1 DEF Subscribe, InRun
  <2>3. subs' \in SUBSET Sources
    BY Zenon, <1>2, <1>16, <2>1 DEF Subscribe, TypeOK, CallSet
  <2>4. TypeOK'
    BY <1>8, <1>16, <2>2, <2>3, ZenonT(30) DEF Subscribe, TypeOK, counters
  <2> QED
    BY Zenon, <1>6, <1>7, <1>16, <2>2, <2>4 DEF Subscribe, counters
<1>17. ASSUME Read(t) PROVE Goal
  <2> DEFINE c == [Top(t) EXCEPT !.pc = "run", !.source = None]
  <2>1. ~Idle(t) /\ Top(t).pc = "read"
    BY Zenon, <1>17 DEF Read, At
  <2>2. Moved
    <3>1. c \in CallSet /\ c.id = Top(t).id /\ c.pc = "run"
      BY Zenon, <1>2, <2>1 DEF CallSet
    <3> QED
      BY Zenon, <1>2, <1>4, <1>17, <2>1, <3>1 DEF Read, InRun
  <2>3. seen' \in [Sources -> Nat]
    BY <1>2, <1>17, <2>1 DEF Read, TypeOK, CallSet
  <2>4. TypeOK'
    BY <1>8, <1>17, <2>2, <2>3, ZenonT(30) DEF Read, TypeOK, counters
  <2> QED
    BY Zenon, <1>6, <1>7, <1>17, <2>2, <2>4 DEF Read, counters
<1>18. ASSUME Finish(t) PROVE Goal
  <2>1. stack' \in [Threads -> Seq(CallSet)] /\ IdInv'
    BY Zenon, <1>18, FinishIds
  <2>2. started' \in {0, started} /\ UNCHANGED <<sources, addedBy>>
    BY Zenon, <1>18 DEF Finish
  <2>3. started' \in Nat /\ doneCount' \in Nat /\ doneMax' \in Nat
    <3>1. Top(t).id \in Nat /\ doneMax \in Nat /\ doneCount \in Nat /\ started \in Nat
      BY Zenon, <1>2, <1>18 DEF Finish, At, TypeOK
    <3>2. Max({Top(t).id, doneMax}) \in Nat
      BY <3>1 DEF Max
    <3> QED
      BY <1>18, <3>1, <3>2 DEF Finish, DoneNow
  <2>4. TypeOK'
    BY <1>18, <2>1, <2>3, ZenonT(30) DEF Finish, TypeOK
  <2> QED
    BY <2>1, <2>2, <2>4 DEF KeptByLatest
<1>19. ASSUME BatchBegin(t) PROVE Goal
  <2> DEFINE c == [Call("batch", None) EXCEPT !.flag = ~batch.open]
  <2>1. Moved
    <3>1. c \in CallSet /\ c.id = 0 /\ c.pc = "batch"
      BY Zenon DEF Call, CallSet, TypeOK
    <3> QED
      BY Zenon, <1>3, <1>19, <3>1 DEF BatchBegin, InRun
  <2>2. batch' \in [open : BOOLEAN, pending : BOOLEAN]
    BY Zenon, <1>19 DEF BatchBegin, TypeOK
  <2>3. TypeOK'
    BY <1>8, <1>19, <2>1, <2>2, ZenonT(30) DEF BatchBegin, TypeOK, counters
  <2> QED
    BY Zenon, <1>6, <1>7, <1>19, <2>1, <2>3 DEF BatchBegin, counters
<1>20. ASSUME BatchEnd(t) PROVE Goal
  <2>1. Moved
    BY <1>1, <1>2, <1>4, <1>5, <1>20 DEF BatchEnd, At, InRun
  <2>2. batch' \in [open : BOOLEAN, pending : BOOLEAN]
    <3>1. batch' = [open |-> FALSE, pending |-> FALSE] \/ batch' = batch
      BY Zenon, <1>20 DEF BatchEnd
    <3>2. batch \in [open : BOOLEAN, pending : BOOLEAN]
      BY Zenon DEF TypeOK
    <3>3. [open |-> FALSE, pending |-> FALSE] \in [open : BOOLEAN, pending : BOOLEAN]
      OBVIOUS
    <3> QED
      BY Zenon, <3>1, <3>2, <3>3
  <2>3. TypeOK'
    BY <1>8, <1>20, <2>1, <2>2, ZenonT(30) DEF BatchEnd, TypeOK, counters
  <2> QED
    BY Zenon, <1>6, <1>7, <1>20, <2>1, <2>3 DEF BatchEnd, counters
<1>21. ASSUME Pause(t) \/ Resume(t) PROVE Goal
  <2>1. UNCHANGED <<version, subs, sources, state, counters, batch, stack, history>>
    BY Zenon, <1>21 DEF Pause, Resume
  <2>2. pauses' \in 0 .. MaxPauses /\ paused' \in BOOLEAN
    <3>1. \/ paused' = TRUE /\ pauses < MaxPauses /\ pauses' = pauses + 1
          \/ paused' = FALSE /\ pauses' = pauses
      BY Zenon, <1>21 DEF Pause, Resume
    <3>2. pauses \in 0 .. MaxPauses
      BY Zenon DEF TypeOK
    <3>3. pauses' \in 0 .. MaxPauses
      BY <3>1, <3>2, ImmediateAssumption
    <3> QED
      BY Zenon, <3>1, <3>3
  <2>3. TypeOK'
    BY <2>1, <2>2, ZenonT(30) DEF TypeOK, counters
  <2>4. IdInv'
    BY <2>1 DEF IdInv, Numbered, Ordered, Apart, LatestInv, CountInv, Live, counters
  <2> QED
    BY Zenon, <1>7, <2>1, <2>3, <2>4 DEF counters
<1> QED
  BY Zenon, <1>9, <1>10, <1>11, <1>12, <1>13, <1>14, <1>15, <1>16, <1>17, <1>18, <1>19, <1>20, <1>21
     DEF Step

-----------------------------------------------------------------------------
(* The calls q of a thread that is alone                                    *)

AtTop(q, pc) == Len(q) > 0 /\ q[1].pc = pc

(* Only user code calls. The batch is open while a call of batch() is in    *)
(* progress, the outermost of which ends it, and nothing runs inside it.    *)
Outermost(q, b) ==
    /\ b \in 1 .. Len(q) /\ q[b].pc = "batch" /\ q[b].flag
    /\ \A i \in 1 .. Len(q) :
          /\ i > b => q[i].pc # "batch"
          /\ i < b => q[i].pc \notin InRun \cup {"start"} /\ (q[i].pc = "batch" => ~q[i].flag)
Shape(q, open) ==
    /\ \A i \in 1 .. Len(q) : i > 1 => q[i].pc \in {"run", "batch"}
    /\ ~open => \A i \in 1 .. Len(q) : q[i].pc # "batch"
    /\ open => \E b \in 1 .. Len(q) : Outermost(q, b)

(* The effect is subscribed to its sources, or about to be.                 *)
Subscribed(q) == \A s \in sources : s \in subs \/ (AtTop(q, "subscribe") /\ q[1].source = s)

(* A source that was written and not read since is going to be read, or the *)
(* effect is going to run again, now or at the end of the batch.            *)
Carried(q, s) ==
    \/ AtTop(q, "notify") /\ q[1].source = s
    \/ AtTop(q, "mark")
    \/ AtTop(q, "update") /\ state = "Dirty"
    \/ AtTop(q, "decide") /\ q[1].flag /\ state = "Dirty"
    \/ AtTop(q, "start")
    \/ AtTop(q, "subscribe") /\ q[1].source = s
    \/ AtTop(q, "read") /\ q[1].source = s
    \/ batch.open /\ batch.pending /\ state = "Dirty"

Fresh(q) == ~missed => \A s \in sources : seen[s] # version[s] => Carried(q, s)

Alone(t) == \A u \in Threads : u # t => stack[u] = <<>>

Lone(q) == Shape(q, batch.open) /\ Subscribed(q) /\ Fresh(q)

LoneInv ==
    ~overlapped => \E t \in Threads :
        Alone(t) /\ Lone(stack[t])

IInv == TypeOK /\ IdInv /\ KeptByLatest /\ LoneInv

-----------------------------------------------------------------------------
(* What the steps do to the calls of a thread keeps their shape.            *)
LEMMA Shapes ==
    ASSUME NEW q, NEW r, NEW c, NEW open \in BOOLEAN, Len(q) \in Nat, Len(r) \in Nat, Shape(q, open)
    PROVE  /\ Pushed(q, c, r) /\ c.pc = "notify" /\ (Len(q) > 0 => q[1].pc \in {"run", "batch"})
              => Shape(r, open)
           /\ Pushed(q, c, r) /\ c.pc = "batch" /\ (c.flag <=> ~open)
              /\ (Len(q) > 0 => q[1].pc \in {"run", "batch"}) => Shape(r, TRUE)
           /\ Replaced(q, c, r) /\ q[1].pc # "batch" /\ c.pc # "batch"
              /\ (c.pc \in InRun \cup {"start"} => q[1].pc \in InRun \cup {"start"} \/ ~open)
              => Shape(r, open)
           /\ Popped(q, r) /\ (q[1].pc = "batch" => ~q[1].flag) => Shape(r, open)
           /\ Popped(q, r) /\ q[1].pc = "batch" /\ q[1].flag => Shape(r, FALSE)
           /\ Replaced(q, c, r) /\ q[1].pc = "batch" /\ q[1].flag /\ c.pc = "update"
              => Shape(r, FALSE)
<1>1. ASSUME Pushed(q, c, r), Len(q) > 0 => q[1].pc \in {"run", "batch"}
      PROVE  /\ c.pc = "notify" => Shape(r, open)
             /\ c.pc = "batch" /\ (c.flag <=> ~open) => Shape(r, TRUE)
  <2>1. Len(r) = Len(q) + 1 /\ r[1] = c /\ 1 \in 1 .. Len(r)
    BY <1>1 DEF Pushed
  <2>2. \A i \in 1 .. Len(r) : i # 1 => i - 1 \in 1 .. Len(q) /\ r[i] = q[i - 1]
    BY <1>1 DEF Pushed
  <2>3. \A i \in 1 .. Len(r) : i > 1 => r[i].pc \in {"run", "batch"}
    BY <1>1, <2>1, <2>2 DEF Shape
  <2>4. CASE ~open
    <3>1. \A i \in 1 .. Len(r) : i # 1 => r[i].pc # "batch"
      BY Zenon, <2>2, <2>4 DEF Shape
    <3>2. c.pc = "batch" /\ c.flag => Outermost(r, 1)
      BY <2>1, <3>1 DEF Outermost
    <3> QED
      BY Zenon, <2>1, <2>3, <2>4, <3>1, <3>2 DEF Shape
  <2>5. CASE open
    <3>1. PICK b \in 1 .. Len(q) : Outermost(q, b)
      BY Zenon, <2>5 DEF Shape
    <3>2. b + 1 \in 1 .. Len(r) /\ r[b + 1] = q[b]
      BY <1>1, <2>1 DEF Pushed
    <3>3. \A i \in 1 .. Len(r) : i # 1 => (i > b + 1 => i - 1 > b) /\ (i < b + 1 => i - 1 < b)
      BY <2>1
    <3>4. c.pc \notin InRun \cup {"start"} /\ (c.pc = "batch" => ~c.flag) => Outermost(r, b + 1)
      <4>1. \A i \in 1 .. Len(r) : i # 1 =>
               /\ i > b + 1 => r[i].pc # "batch"
               /\ i < b + 1 => r[i].pc \notin InRun \cup {"start"} /\ (r[i].pc = "batch" => ~r[i].flag)
        BY Zenon, <2>2, <3>1, <3>3 DEF Outermost
      <4>2. ~(1 > b + 1)
        OBVIOUS
      <4> QED
        BY Zenon, <2>1, <3>1, <3>2, <4>1, <4>2 DEF Outermost
    <3> QED
      BY Zenon, <2>3, <2>5, <3>2, <3>4 DEF Shape, InRun
  <2> QED
    BY Zenon, <2>4, <2>5
<1>2. ASSUME Replaced(q, c, r)
      PROVE  /\ q[1].pc # "batch" /\ c.pc # "batch"
                /\ (c.pc \in InRun \cup {"start"} => q[1].pc \in InRun \cup {"start"} \/ ~open)
                => Shape(r, open)
             /\ q[1].pc = "batch" /\ q[1].flag /\ c.pc = "update" => Shape(r, FALSE)
  <2>1. Len(r) = Len(q) /\ r[1] = c /\ 1 \in 1 .. Len(q)
        /\ \A i \in 1 .. Len(q) : i # 1 => r[i] = q[i]
    BY <1>2 DEF Replaced
  <2>2. \A i \in 1 .. Len(r) : i > 1 => r[i].pc \in {"run", "batch"}
    BY <2>1 DEF Shape
  <2>3. CASE ~open
    BY Zenon, <2>1, <2>2, <2>3 DEF Shape
  <2>4. CASE open
    <3>1. PICK b \in 1 .. Len(q) : Outermost(q, b)
      BY Zenon, <2>4 DEF Shape
    <3>2. CASE b = 1
      BY <2>1, <2>2, <3>1, <3>2 DEF Outermost, Shape
    <3>3. CASE b # 1
      <4>1. 1 < b
        BY <3>3
      <4>2. q[1].pc \notin InRun \cup {"start"} /\ (q[1].pc = "batch" => ~q[1].flag)
        BY Zenon, <2>1, <3>1, <4>1 DEF Outermost
      <4>3. c.pc \notin InRun \cup {"start"} /\ c.pc # "batch" => Outermost(r, b)
        BY Zenon, <2>1, <3>1, <3>3 DEF Outermost
      <4> QED
        BY Zenon, <2>1, <2>2, <2>4, <4>2, <4>3 DEF Shape
    <3> QED
      BY Zenon, <3>2, <3>3
  <2> QED
    BY Zenon, <2>3, <2>4
<1>3. ASSUME Popped(q, r)
      PROVE  /\ (q[1].pc = "batch" => ~q[1].flag) => Shape(r, open)
             /\ q[1].pc = "batch" /\ q[1].flag => Shape(r, FALSE)
  <2>1. Len(r) = Len(q) - 1 /\ 1 \in 1 .. Len(q)
    BY <1>3 DEF Popped
  <2>2. \A i \in 1 .. Len(r) : i + 1 \in 1 .. Len(q) /\ i + 1 > 1 /\ r[i] = q[i + 1]
    BY <1>3 DEF Popped
  <2>3. \A i \in 1 .. Len(r) : r[i].pc \in {"run", "batch"}
    BY Zenon, <2>2 DEF Shape
  <2>4. CASE ~open
    BY Zenon, <2>1, <2>2, <2>3, <2>4 DEF Shape
  <2>5. CASE open
    <3>1. PICK b \in 1 .. Len(q) : Outermost(q, b)
      BY Zenon, <2>5 DEF Shape
    <3>2. CASE b = 1
      <4>1. \A i \in 1 .. Len(r) : r[i].pc # "batch"
        BY Zenon, <2>2, <3>1, <3>2 DEF Outermost
      <4> QED
        BY Zenon, <2>3, <3>1, <3>2, <4>1 DEF Outermost, Shape
    <3>3. CASE b # 1
      <4>1. b - 1 \in 1 .. Len(r) /\ r[b - 1] = q[b] /\ 1 < b
        BY <2>1, <2>2, <3>3
      <4>2. \A i \in 1 .. Len(r) : (i > b - 1 => i + 1 > b) /\ (i < b - 1 => i + 1 < b)
        OBVIOUS
      <4>3. Outermost(r, b - 1)
        BY Zenon, <2>2, <3>1, <4>1, <4>2 DEF Outermost
      <4>4. q[1].pc = "batch" => ~q[1].flag
        BY Zenon, <2>1, <3>1, <4>1 DEF Outermost
      <4> QED
        BY Zenon, <2>3, <2>5, <4>1, <4>3, <4>4 DEF Shape
    <3> QED
      BY Zenon, <3>2, <3>3
  <2> QED
    BY Zenon, <2>4, <2>5
<1> QED
  BY Zenon, <1>1, <1>2, <1>3

(* As long as the calls of threads do not overlap, a thread that takes a    *)
(* step is alone, and what was written is on its way to be read.            *)
LEMMA LoneSteps ==
    ASSUME IInv, NEW t \in Threads, Step(t), TypeOK', ~overlapped,
           \A u, v \in Threads : u # v => stack'[u] = <<>> \/ stack'[v] = <<>>
    PROVE  (\E u \in Threads : Alone(u) /\ Lone(stack[u]))'
<1> DEFINE q == stack[t]
           r == stack'[t]
<1> USE DEF IInv, owner, history
<1>1. CASE Pause(t) \/ Resume(t)
  <2>1. UNCHANGED <<version, subs, sources, state, batch, stack, seen, missed>>
    BY Zenon, <1>1 DEF Pause, Resume
  <2>2. PICK u \in Threads : Alone(u) /\ Lone(stack[u])
    BY Zenon DEF LoneInv
  <2>3. Alone(u)' /\ Lone(stack[u])'
    BY Zenon, <2>1, <2>2 DEF Alone, Lone, Subscribed, Fresh, Carried
  <2> QED
    BY Zenon, <2>3
<1>2. CASE ~(Pause(t) \/ Resume(t))
(* How the calls change, and at which call                                  *)
  <2> DEFINE Others == \A u \in Threads : u # t => stack'[u] = stack[u]
  <2>1. /\ Len(q) \in Nat /\ Len(r) \in Nat /\ batch.open \in BOOLEAN
        /\ q \in Seq(CallSet) /\ r \in Seq(CallSet)
    BY DEF TypeOK
  <2>2. ~Idle(t) => Top(t) = q[1] /\ Len(q) > 0 /\ Top(t) \in CallSet
    BY <2>1, Moves
  <2>3. /\ \A c \in CallSet : Enter(t, c) => Others /\ Pushed(q, c, r)
        /\ \A c \in CallSet : ~Idle(t) /\ Goto(t, c) => Others /\ Replaced(q, c, r)
        /\ ~Idle(t) /\ Return(t) => Others /\ Popped(q, r)
    BY Zenon, Moves
  <2>4. /\ \A s \in Sources : Call("notify", s) \in CallSet
        /\ \A pc \in {"mark", "update", "start", "batch"} : Call(pc, None) \in CallSet
        /\ \A pc, s : Call(pc, s).pc = pc /\ Call(pc, s).source = s
    BY Zenon DEF Call, CallSet
  <2> DEFINE Here == Others /\ (Len(q) > 0 \/ Len(r) > 0)
  <2>5. Here => Alone(t) /\ Lone(q) /\ Alone(t)'
    <3> SUFFICES ASSUME Here PROVE Alone(t) /\ Lone(q) /\ Alone(t)'
      OBVIOUS
    <3>1. PICK v \in Threads : Alone(v) /\ Lone(stack[v])
      BY Zenon DEF LoneInv
    <3>2. v # t => stack[t] = <<>> /\ stack[v] = <<>>
      BY <2>1, <3>1 DEF Alone
    <3>3. Alone(t) /\ Lone(q)
      BY Zenon, <3>1, <3>2 DEF Alone
    <3> QED
      BY Zenon, <3>3 DEF Alone
  <2> DEFINE Clear == Len(r) > 0 => r[1].pc \in {"run", "batch"}
             Done == Alone(t)' /\ Lone(stack[t])'
  <2>6. Here /\ Popped(q, r) => Clear
    <3>1. Shape(q, batch.open) /\ Popped(q, r) /\ Len(r) > 0 => r[1].pc \in {"run", "batch"}
      BY <2>1 DEF Shape, Popped
    <3> QED
      BY Zenon, <2>5, <3>1 DEF Lone
  <2>7. \A c \in CallSet : Pushed(q, c, r) \/ Replaced(q, c, r) => Len(r) > 0 /\ r[1] = c
    BY <2>1 DEF Pushed, Replaced
  <2>8. InUserCode(t) => (Len(q) > 0 => q[1].pc \in {"run", "batch"})
    BY <2>1, <2>2 DEF InUserCode, At, Idle
  <2> HIDE DEF Here, Clear
  <2>9. ASSUME NEW s \in Sources, Write(t, s) PROVE Done
    <3> DEFINE c == Call("notify", s)
    <3>1. Here /\ Pushed(q, c, r) /\ Len(r) > 0 /\ r[1] = c
      BY Zenon, <2>1, <2>3, <2>4, <2>7, <2>9 DEF Write, Here
    <3>2. Alone(t)' /\ Lone(q)
      BY Zenon, <2>5, <3>1
    <3>3. /\ UNCHANGED <<subs, sources, state, batch, missed, seen>> /\ InUserCode(t)
          /\ \A x \in Sources : x # s => version'[x] = version[x]
      BY Zenon, <2>9 DEF Write, TypeOK
    <3>4. c.pc = "notify" /\ c.source = s
      BY Zenon, <2>4
    <3> HIDE DEF c
    <3>5. Shape(r, batch.open)
      BY Zenon, <2>1, <2>8, <3>1, <3>2, <3>3, <3>4, Shapes DEF Lone
    <3>6. Subscribed(stack[t])'
      BY Zenon, <2>8, <3>2, <3>3 DEF Lone, Subscribed, AtTop
    <3>7. Fresh(stack[t])'
      BY Zenon, <2>8, <3>1, <3>2, <3>3, <3>4 DEF Lone, Fresh, Carried, AtTop, TypeOK
    <3> QED
      BY Zenon, <3>2, <3>3, <3>5, <3>6, <3>7 DEF Lone
  <2>10. ASSUME Notify(t) PROVE Done
    <3>1. ~Idle(t) /\ q[1].pc = "notify" /\ Top(t) = q[1] /\ Len(q) > 0
      BY Zenon, <2>2, <2>10 DEF Notify, At
    <3>2. UNCHANGED <<version, subs, sources, state, batch, seen, missed>>
      BY Zenon, <2>10 DEF Notify
    <3>3. CASE q[1].source \in subs
      <4> DEFINE c == Call("mark", None)
      <4>1. Here /\ Replaced(q, c, r) /\ Len(r) > 0 /\ r[1] = c /\ c.pc = "mark"
        BY Zenon, <2>3, <2>4, <2>7, <2>10, <3>1, <3>3 DEF Notify, Here
      <4> HIDE DEF c
      <4>2. Alone(t)' /\ Lone(q)
        BY Zenon, <2>5, <4>1
      <4>3. Shape(r, batch.open)
        BY Zenon, <2>1, <3>1, <4>1, <4>2, Shapes DEF Lone, InRun
      <4>4. Subscribed(stack[t])' /\ Fresh(stack[t])'
        BY Zenon, <3>1, <3>2, <4>1, <4>2 DEF Lone, Subscribed, Fresh, Carried, AtTop
      <4> QED
        BY Zenon, <3>2, <4>2, <4>3, <4>4 DEF Lone
    <3>4. CASE q[1].source \notin subs
      <4>1. Here /\ Popped(q, r) /\ Clear
        BY Zenon, <2>3, <2>6, <2>10, <3>1, <3>4 DEF Notify, Here
      <4>2. Alone(t)' /\ Lone(q)
        BY Zenon, <2>5, <4>1
      <4>3. Shape(r, batch.open)
        BY Zenon, <2>1, <3>1, <4>1, <4>2, Shapes DEF Lone
      <4>4. Subscribed(stack[t])' /\ Fresh(stack[t])'
        BY Zenon, <3>1, <3>2, <3>4, <4>2 DEF Lone, Subscribed, Fresh, Carried, AtTop
      <4> QED
        BY Zenon, <3>2, <4>2, <4>3, <4>4 DEF Lone
    <3> QED
      BY Zenon, <3>3, <3>4
  <2>11. ASSUME MarkDirty(t) PROVE Done
    <3> DEFINE c == Call("update", None)
    <3>1. ~Idle(t) /\ q[1].pc = "mark" /\ Len(q) > 0
      BY Zenon, <2>2, <2>11 DEF MarkDirty, At
    <3>2. UNCHANGED <<version, subs, sources, batch, seen, missed>> /\ state' = "Dirty"
      BY Zenon, <2>11 DEF MarkDirty
    <3>3. Here /\ Replaced(q, c, r) /\ Len(r) > 0 /\ r[1] = c /\ c.pc = "update"
      BY Zenon, <2>3, <2>4, <2>7, <2>11, <3>1 DEF MarkDirty, Here
    <3> HIDE DEF c
    <3>4. Alone(t)' /\ Lone(q)
      BY Zenon, <2>5, <3>3
    <3>5. Shape(r, batch.open)
      BY Zenon, <2>1, <3>1, <3>3, <3>4, Shapes DEF Lone, InRun
    <3>6. Subscribed(stack[t])' /\ Fresh(stack[t])'
      BY Zenon, <3>1, <3>2, <3>3, <3>4 DEF Lone, Subscribed, Fresh, Carried, AtTop
    <3> QED
      BY Zenon, <3>2, <3>4, <3>5, <3>6 DEF Lone
  <2>12. ASSUME ReadState(t) PROVE Done
    <3> DEFINE c == [Top(t) EXCEPT !.pc = "decide", !.flag = (state = "Dirty")]
    <3>1. ~Idle(t) /\ q[1].pc = "update" /\ Len(q) > 0 /\ Top(t) = q[1] /\ Top(t) \in CallSet
      BY Zenon, <2>2, <2>12 DEF ReadState, At
    <3>2. UNCHANGED <<version, subs, sources, state, batch, seen>> /\ (missed' <=> missed \/ paused)
      BY Zenon, <2>12 DEF ReadState
    <3>3. CASE paused
      <4>1. Here /\ Popped(q, r) /\ Clear
        BY Zenon, <2>3, <2>6, <2>12, <3>1, <3>3 DEF ReadState, Here
      <4>2. Alone(t)' /\ Lone(q)
        BY Zenon, <2>5, <4>1
      <4>3. Shape(r, batch.open)
        BY Zenon, <2>1, <3>1, <4>1, <4>2, Shapes DEF Lone
      <4>4. Subscribed(stack[t])' /\ Fresh(stack[t])'
        BY Zenon, <3>1, <3>2, <3>3, <4>2 DEF Lone, Subscribed, Fresh, AtTop
      <4> QED
        BY Zenon, <3>2, <4>2, <4>3, <4>4 DEF Lone
    <3>4. CASE ~paused
      <4>1. c \in CallSet /\ c.pc = "decide" /\ (c.flag <=> state = "Dirty")
        BY Zenon, <3>1 DEF CallSet
      <4>2. Goto(t, c)
        BY Zenon, <2>12, <3>4 DEF ReadState
      <4> HIDE DEF c
      <4>3. Here /\ Replaced(q, c, r) /\ Len(r) > 0 /\ r[1] = c
        BY Zenon, <2>3, <2>7, <3>1, <4>1, <4>2 DEF Here
      <4>4. Alone(t)' /\ Lone(q)
        BY Zenon, <2>5, <4>3
      <4>5. Shape(r, batch.open)
        BY Zenon, <2>1, <3>1, <4>1, <4>3, <4>4, Shapes DEF Lone, InRun
      <4>6. Subscribed(stack[t])' /\ Fresh(stack[t])'
        BY Zenon, <3>1, <3>2, <3>4, <4>1, <4>3, <4>4 DEF Lone, Subscribed, Fresh, Carried, AtTop
      <4> QED
        BY Zenon, <3>2, <4>4, <4>5, <4>6 DEF Lone
    <3> QED
      BY Zenon, <3>3, <3>4
  <2>13. ASSUME Decide(t) PROVE Done
    <3> DEFINE c == Call("start", None)
    <3>1. ~Idle(t) /\ q[1].pc = "decide" /\ Len(q) > 0 /\ Top(t) = q[1]
      BY Zenon, <2>2, <2>13 DEF Decide, At
    <3>2. /\ UNCHANGED <<version, subs, sources, state, seen, missed>>
          /\ batch'.open = batch.open /\ (batch'.pending <=> batch.pending \/ batch.open)
      BY Zenon, <2>13 DEF Decide, TypeOK
    <3>3. CASE ~batch.open /\ q[1].flag
      <4>1. Here /\ Replaced(q, c, r) /\ Len(r) > 0 /\ r[1] = c /\ c.pc = "start"
        BY Zenon, <2>3, <2>4, <2>7, <2>13, <3>1, <3>3 DEF Decide, Here
      <4> HIDE DEF c
      <4>2. Alone(t)' /\ Lone(q)
        BY Zenon, <2>5, <4>1
      <4>3. Shape(r, batch.open)
        BY Zenon, <2>1, <3>1, <3>3, <4>1, <4>2, Shapes DEF Lone
      <4>4. Subscribed(stack[t])' /\ Fresh(stack[t])'
        BY Zenon, <3>1, <3>2, <4>1, <4>2 DEF Lone, Subscribed, Fresh, Carried, AtTop
      <4> QED
        BY Zenon, <3>2, <4>2, <4>3, <4>4 DEF Lone
    <3>4. CASE ~(~batch.open /\ q[1].flag)
      <4>1. Here /\ Popped(q, r) /\ Clear
        BY Zenon, <2>3, <2>6, <2>13, <3>1, <3>4 DEF Decide, Here
      <4>2. Alone(t)' /\ Lone(q)
        BY Zenon, <2>5, <4>1
      <4>3. Shape(r, batch.open)
        BY Zenon, <2>1, <3>1, <4>1, <4>2, Shapes DEF Lone
      <4>4. Subscribed(stack[t])' /\ Fresh(stack[t])'
        BY Zenon, <3>1, <3>2, <3>4, <4>2 DEF Lone, Subscribed, Fresh, Carried, AtTop
      <4> QED
        BY Zenon, <3>2, <4>2, <4>3, <4>4 DEF Lone
    <3> QED
      BY Zenon, <3>3, <3>4
  <2>14. ASSUME Start(t) PROVE Done
    <3> DEFINE c == [Top(t) EXCEPT !.pc = "run", !.id = started + 1]
    <3>1. ~Idle(t) /\ q[1].pc = "start" /\ Len(q) > 0 /\ Top(t) = q[1] /\ Top(t) \in CallSet
      BY Zenon, <2>2, <2>14 DEF Start, At
    <3>2. UNCHANGED batch /\ sources' = {} /\ Goto(t, c)
      BY Zenon, <2>14 DEF Start
    <3>n. started + 1 \in Nat
      BY DEF TypeOK
    <3>3. c \in CallSet /\ c.pc = "run"
      BY Zenon, <3>1, <3>n DEF CallSet
    <3> HIDE DEF c
    <3>4. Here /\ Replaced(q, c, r)
      BY Zenon, <2>3, <3>1, <3>2, <3>3 DEF Here
    <3>5. Alone(t)' /\ Lone(q)
      BY Zenon, <2>5, <3>4
    <3>6. Shape(r, batch.open)
      BY Zenon, <2>1, <3>1, <3>3, <3>4, <3>5, Shapes DEF Lone
    <3>7. Subscribed(stack[t])' /\ Fresh(stack[t])'
      BY Zenon, <3>2 DEF Subscribed, Fresh
    <3> QED
      BY Zenon, <3>2, <3>5, <3>6, <3>7 DEF Lone
  <2>15. ASSUME NEW s \in Sources, Track(t, s) PROVE Done
    <3> DEFINE c == [Top(t) EXCEPT !.pc = "subscribe", !.source = s]
    <3>1. ~Idle(t) /\ q[1].pc = "run" /\ Len(q) > 0 /\ Top(t) = q[1] /\ Top(t) \in CallSet
      BY Zenon, <2>2, <2>15 DEF Track, At
    <3>2. /\ UNCHANGED <<version, subs, state, batch, seen, missed>> /\ Goto(t, c)
          /\ \A x \in sources' : x \in sources \/ x = s
      BY Zenon, <2>15 DEF Track
    <3>3. c \in CallSet /\ c.pc = "subscribe" /\ c.source = s
      BY Zenon, <3>1 DEF CallSet
    <3> HIDE DEF c
    <3>4. Here /\ Replaced(q, c, r) /\ Len(r) > 0 /\ r[1] = c
      BY Zenon, <2>3, <2>7, <3>1, <3>2, <3>3 DEF Here
    <3>5. Alone(t)' /\ Lone(q)
      BY Zenon, <2>5, <3>4
    <3>6. Shape(r, batch.open)
      BY Zenon, <2>1, <3>1, <3>3, <3>4, <3>5, Shapes DEF Lone, InRun
    <3>7. Subscribed(stack[t])' /\ Fresh(stack[t])'
      BY Zenon, <3>1, <3>2, <3>3, <3>4, <3>5 DEF Lone, Subscribed, Fresh, Carried, AtTop
    <3> QED
      BY Zenon, <3>2, <3>5, <3>6, <3>7 DEF Lone
  <2>16. ASSUME Subscribe(t) PROVE Done
    <3> DEFINE c == [Top(t) EXCEPT !.pc = "read"]
    <3>1. ~Idle(t) /\ q[1].pc = "subscribe" /\ Len(q) > 0 /\ Top(t) = q[1] /\ Top(t) \in CallSet
      BY Zenon, <2>2, <2>16 DEF Subscribe, At
    <3>2. /\ UNCHANGED <<version, sources, state, batch, seen, missed>> /\ Goto(t, c)
          /\ subs' = subs \cup {q[1].source}
      BY Zenon, <2>16, <3>1 DEF Subscribe
    <3>3. c \in CallSet /\ c.pc = "read" /\ c.source = q[1].source
      BY Zenon, <3>1 DEF CallSet
    <3> HIDE DEF c
    <3>4. Here /\ Replaced(q, c, r) /\ Len(r) > 0 /\ r[1] = c
      BY Zenon, <2>3, <2>7, <3>1, <3>2, <3>3 DEF Here
    <3>5. Alone(t)' /\ Lone(q)
      BY Zenon, <2>5, <3>4
    <3>6. Shape(r, batch.open)
      BY Zenon, <2>1, <3>1, <3>3, <3>4, <3>5, Shapes DEF Lone, InRun
    <3>7. Subscribed(stack[t])' /\ Fresh(stack[t])'
      BY Zenon, <3>1, <3>2, <3>3, <3>4, <3>5 DEF Lone, Subscribed, Fresh, Carried, AtTop
    <3> QED
      BY Zenon, <3>2, <3>5, <3>6, <3>7 DEF Lone
  <2>17. ASSUME Read(t) PROVE Done
    <3> DEFINE c == [Top(t) EXCEPT !.pc = "run", !.source = None]
    <3>1. ~Idle(t) /\ q[1].pc = "read" /\ Len(q) > 0 /\ Top(t) = q[1] /\ Top(t) \in CallSet
      BY Zenon, <2>2, <2>17 DEF Read, At
    <3>2. /\ UNCHANGED <<version, subs, sources, state, batch, missed>> /\ Goto(t, c)
          /\ seen' = [seen EXCEPT ![q[1].source] = version[q[1].source]]
      BY Zenon, <2>17, <3>1 DEF Read
    <3>3. c \in CallSet /\ c.pc = "run"
      BY Zenon, <3>1 DEF CallSet
    <3>n. /\ \A x \in Sources : x # q[1].source => seen'[x] = seen[x]
          /\ q[1].source \in Sources => seen'[q[1].source] = version[q[1].source]
      BY Zenon, <3>2 DEF TypeOK
    <3> HIDE DEF c
    <3>4. Here /\ Replaced(q, c, r) /\ Len(r) > 0 /\ r[1] = c
      BY Zenon, <2>3, <2>7, <3>1, <3>2, <3>3 DEF Here
    <3>5. Alone(t)' /\ Lone(q)
      BY Zenon, <2>5, <3>4
    <3>6. Shape(r, batch.open)
      BY Zenon, <2>1, <3>1, <3>3, <3>4, <3>5, Shapes DEF Lone, InRun
    <3>7. Subscribed(stack[t])'
      BY Zenon, <3>1, <3>2, <3>3, <3>4, <3>5 DEF Lone, Subscribed, AtTop
    <3>8. ASSUME ~missed', NEW x \in sources', seen'[x] # version'[x]
          PROVE  Carried(stack[t], x)'
      <4>1. x \in sources /\ x \in Sources /\ x # q[1].source /\ seen[x] # version[x] /\ ~missed
        BY Zenon, <3>2, <3>n, <3>8 DEF TypeOK
      <4>2. Carried(q, x)
        BY Zenon, <3>5, <4>1 DEF Lone, Fresh
      <4> QED
        BY Zenon, <3>1, <3>2, <4>1, <4>2 DEF Carried, AtTop
    <3>9. Fresh(stack[t])'
      BY Zenon, <3>8 DEF Fresh
    <3> QED
      BY Zenon, <3>2, <3>5, <3>6, <3>7, <3>9 DEF Lone
  <2>18. ASSUME Finish(t) PROVE Done
    <3>1. ~Idle(t) /\ q[1].pc = "run" /\ Len(q) > 0 /\ Return(t)
      BY Zenon, <2>2, <2>18 DEF Finish, At
    <3>2. UNCHANGED <<version, subs, sources, batch, seen, missed>>
      BY Zenon, <2>18 DEF Finish
    <3>3. Here /\ Popped(q, r)
      BY Zenon, <2>3, <3>1 DEF Here
    <3>4. Alone(t)' /\ Lone(q)
      BY Zenon, <2>5, <3>3
    <3>5. ~batch.open
      BY <2>1, <3>1, <3>4 DEF Lone, Shape, Outermost, InRun
    <3>6. Shape(r, batch.open)
      BY Zenon, <2>1, <3>1, <3>3, <3>4, Shapes DEF Lone
    <3>7. Subscribed(stack[t])' /\ Fresh(stack[t])'
      BY Zenon, <3>1, <3>2, <3>4, <3>5 DEF Lone, Subscribed, Fresh, Carried, AtTop
    <3> QED
      BY Zenon, <3>2, <3>4, <3>6, <3>7 DEF Lone
  <2>19. ASSUME BatchBegin(t) PROVE Done
    <3> DEFINE c == [Call("batch", None) EXCEPT !.flag = ~batch.open]
    <3>1. InUserCode(t) /\ Enter(t, c)
      BY Zenon, <2>19 DEF BatchBegin
    <3>2. /\ UNCHANGED <<version, subs, sources, state, seen, missed>>
          /\ batch'.open = TRUE /\ batch'.pending = batch.pending
      BY Zenon, <2>19 DEF BatchBegin, TypeOK
    <3>3. c \in CallSet /\ c.pc = "batch" /\ (c.flag <=> ~batch.open)
      BY Zenon, <2>1 DEF CallSet, Call
    <3> HIDE DEF c
    <3>4. Here /\ Pushed(q, c, r) /\ Len(r) > 0 /\ r[1] = c
      BY Zenon, <2>3, <2>7, <3>1, <3>3 DEF Here
    <3>5. Alone(t)' /\ Lone(q)
      BY Zenon, <2>5, <3>4
    <3>6. Shape(r, TRUE)
      BY Zenon, <2>1, <2>8, <3>1, <3>3, <3>4, <3>5, Shapes DEF Lone
    <3>7. Subscribed(stack[t])' /\ Fresh(stack[t])'
      BY Zenon, <2>8, <3>1, <3>2, <3>5 DEF Lone, Subscribed, Fresh, Carried, AtTop
    <3> QED
      BY Zenon, <3>2, <3>5, <3>6, <3>7 DEF Lone
  <2>20. ASSUME BatchEnd(t) PROVE Done
    <3> DEFINE c == Call("update", None)
    <3>1. ~Idle(t) /\ q[1].pc = "batch" /\ Len(q) > 0 /\ Top(t) = q[1]
      BY Zenon, <2>2, <2>20 DEF BatchEnd, At
    <3>2. UNCHANGED <<version, subs, sources, state, seen, missed>>
      BY Zenon, <2>20 DEF BatchEnd
    <3> HIDE DEF c
    <3>a. q[1].flag => batch' = [open |-> FALSE, pending |-> FALSE]
      BY Zenon, <2>20, <3>1 DEF BatchEnd
    <3>b. q[1].flag => IF batch.pending THEN Goto(t, c) ELSE Return(t)
      BY Zenon, <2>20, <3>1 DEF BatchEnd, c
    <3>c. ~q[1].flag => Return(t) /\ UNCHANGED batch
      BY Zenon, <2>20, <3>1 DEF BatchEnd
    <3>3. CASE q[1].flag /\ batch.pending
      <4>1. Goto(t, c) /\ batch'.open = FALSE
        BY <3>a, <3>b, <3>3
      <4>2. Here /\ Replaced(q, c, r) /\ Len(r) > 0 /\ r[1] = c /\ c.pc = "update"
        BY Zenon, <2>3, <2>4, <2>7, <3>1, <4>1 DEF Here, c
      <4>3. Alone(t)' /\ Lone(q)
        BY Zenon, <2>5, <4>2
      <4>4. Shape(r, FALSE)
        BY Zenon, <2>1, <3>1, <3>3, <4>2, <4>3, Shapes DEF Lone
      <4>5. Subscribed(stack[t])' /\ Fresh(stack[t])'
        BY Zenon, <3>1, <3>2, <4>2, <4>3 DEF Lone, Subscribed, Fresh, Carried, AtTop
      <4> QED
        BY Zenon, <4>1, <4>3, <4>4, <4>5 DEF Lone
    <3>4. CASE q[1].flag /\ ~batch.pending
      <4>1. Return(t) /\ batch'.open = FALSE
        BY <3>a, <3>b, <3>4
      <4>2. Here /\ Popped(q, r)
        BY Zenon, <2>3, <3>1, <4>1 DEF Here
      <4>3. Alone(t)' /\ Lone(q)
        BY Zenon, <2>5, <4>2
      <4>4. Shape(r, FALSE)
        BY Zenon, <2>1, <3>1, <3>4, <4>2, <4>3, Shapes DEF Lone
      <4>5. Subscribed(stack[t])' /\ Fresh(stack[t])'
        BY Zenon, <3>1, <3>2, <3>4, <4>3 DEF Lone, Subscribed, Fresh, Carried, AtTop
      <4> QED
        BY Zenon, <4>1, <4>3, <4>4, <4>5 DEF Lone
    <3>5. CASE ~q[1].flag
      <4>1. Return(t) /\ UNCHANGED batch
        BY Zenon, <3>c, <3>5
      <4>2. Here /\ Popped(q, r)
        BY Zenon, <2>3, <3>1, <4>1 DEF Here
      <4>3. Alone(t)' /\ Lone(q)
        BY Zenon, <2>5, <4>2
      <4>4. Shape(r, batch.open)
        BY Zenon, <2>1, <3>1, <3>5, <4>2, <4>3, Shapes DEF Lone
      <4>5. Subscribed(stack[t])' /\ Fresh(stack[t])'
        BY Zenon, <3>1, <3>2, <4>1, <4>3 DEF Lone, Subscribed, Fresh, Carried, AtTop
      <4> QED
        BY Zenon, <4>1, <4>3, <4>4, <4>5 DEF Lone
    <3> QED
      BY Zenon, <3>3, <3>4, <3>5
  <2>21. Done
    BY Zenon, <1>2, <2>9, <2>10, <2>11, <2>12, <2>13, <2>14, <2>15, <2>16, <2>17, <2>18, <2>19, <2>20
       DEF Step
  <2> QED
    BY Zenon, <2>21
<1> QED
  BY Zenon, <1>1, <1>2

(* The inductive invariant holds in every state that the code reaches.      *)
THEOREM Invariance == Spec => []IInv
<1>1. ASSUME Init PROVE IInv
  <2>1. PICK t \in Threads : stack = [u \in Threads |-> IF u = t THEN <<Call("update", None)>>
                                                                 ELSE <<>>]
    BY Zenon, <1>1 DEF Init
  <2> DEFINE c == Call("update", None)
  <2>2. c \in CallSet /\ c.pc = "update" /\ c.id = 0
    BY Zenon DEF Call, CallSet
  <2> HIDE DEF c
  <2>3. stack[t] = <<c>> /\ \A u \in Threads : u # t => stack[u] = <<>>
    BY Zenon, <2>1 DEF c
  <2>4. Len(stack[t]) = 1 /\ stack[t][1] = c /\ \A u \in Threads : u # t => Len(stack[u]) = 0
    BY <2>3
  <2>5. stack \in [Threads -> Seq(CallSet)]
    BY <2>1, <2>2 DEF c
  <2>6. TypeOK
    <3>1. 0 \in 0 .. MaxVersion /\ 0 \in 0 .. MaxPauses /\ 0 \in Nat
      BY ImmediateAssumption
    <3>2. version \in [Sources -> 0 .. MaxVersion] /\ seen \in [Sources -> Nat]
      BY Zenon, <1>1, <3>1 DEF Init
    <3> QED
      BY <1>1, <2>5, <3>1, <3>2, ZenonT(30) DEF Init, TypeOK
  <2>7. Cardinality(Live) = 0
    <3>1. Live = {}
      BY <1>1 DEF Live, Init
    <3> QED
      BY Zenon, <3>1, FS_EmptySet
  <2>8. \A u \in Threads : \A i \in 1 .. Len(stack[u]) : u = t /\ i = 1 /\ stack[u][i] = c
    <3> SUFFICES ASSUME NEW u \in Threads, NEW i \in 1 .. Len(stack[u])
                 PROVE  u = t /\ i = 1 /\ stack[u][i] = c
      OBVIOUS
    <3>1. u = t
      BY <2>4
    <3>2. i \in 1 .. 1
      BY Zenon, <2>4, <3>1
    <3> QED
      BY <2>4, <3>1, <3>2
  <2>9. started = 0 /\ doneMax = 0 /\ doneCount = 0 /\ sources = {} /\ batch.open = FALSE
    BY Zenon, <1>1 DEF Init
  <2>10. IdInv
    <3>1. Numbered /\ Ordered /\ Apart
      BY <2>2, <2>8, <2>9 DEF Numbered, Ordered, Apart, InRun
    <3> QED
      BY <2>7, <2>9, <3>1 DEF IdInv, LatestInv, CountInv
  <2>11. Lone(stack[t]) /\ Alone(t)
    BY <2>2, <2>3, <2>4, <2>9 DEF Lone, Alone, Shape, Subscribed, Fresh
  <2>12. KeptByLatest /\ LoneInv
    BY Zenon, <2>9, <2>11 DEF KeptByLatest, LoneInv
  <2> QED
    BY Zenon, <2>6, <2>10, <2>12 DEF IInv
<1>2. ASSUME IInv, [Next]_vars PROVE IInv'
  <2>1. CASE UNCHANGED vars
    <3> USE <1>2, <2>1 DEF IInv, vars
    <3>1. TypeOK'
      BY Zenon DEF TypeOK
    <3>2. IdInv' /\ KeptByLatest'
      BY DEF IdInv, Numbered, Ordered, Apart, LatestInv, CountInv, Live, KeptByLatest
    <3>3. LoneInv'
      BY DEF LoneInv, Alone, Lone, Subscribed, Fresh, Carried
    <3> QED
      BY Zenon, <3>1, <3>2, <3>3
  <2>2. CASE Next
    <3>1. PICK t \in Threads : Step(t)
      BY Zenon, <2>2 DEF Next
    <3>2. /\ overlapped' = (overlapped \/ \E u, v \in Threads :
                              u # v /\ stack'[u] # <<>> /\ stack'[v] # <<>>)
          /\ overlapped' \in BOOLEAN
      BY Zenon, <2>2 DEF Next
    <3>3. TypeOK' /\ IdInv' /\ KeptByLatest'
      BY Zenon, <1>2, <3>1, <3>2, StepInv DEF IInv
    <3>4. ASSUME ~overlapped' PROVE (\E u \in Threads : Alone(u) /\ Lone(stack[u]))'
      <4>1. ~overlapped /\ \A u, v \in Threads : u # v => stack'[u] = <<>> \/ stack'[v] = <<>>
        BY Zenon, <3>2, <3>4
      <4> QED
        BY Zenon, <1>2, <3>1, <3>3, <4>1, LoneSteps
    <3> QED
      BY Zenon, <3>3, <3>4 DEF IInv, LoneInv
  <2> QED
    BY Zenon, <1>2, <2>1, <2>2
<1> QED
  BY <1>1, <1>2, PTL DEF Spec

(* While runs are in progress, the sources that add_source keeps are those  *)
(* of the latest run, however many runs on however many threads overlap.    *)
THEOREM SourcesOfLatest == Spec => []KeptByLatest
<1>1. IInv => KeptByLatest
  BY Zenon DEF IInv
<1> QED
  BY <1>1, Invariance, PTL

(* As long as the calls of two threads do not overlap, the effect at rest   *)
(* has read the last value of each of its sources, through any nesting of   *)
(* writes, runs and batches.                                                *)
THEOREM EffectUpToDate == Spec => []UpToDate
<1>1. ASSUME IInv PROVE UpToDate
  <2> SUFFICES ASSUME ~overlapped, Quiet, ~missed, NEW s \in sources
               PROVE  seen[s] = version[s]
    BY Zenon DEF UpToDate, UpToDateAtRest
  <2>1. PICK t \in Threads : Alone(t) /\ Lone(stack[t])
    BY Zenon, <1>1 DEF IInv, LoneInv
  <2>2. stack[t] = <<>> /\ Len(stack[t]) = 0
    BY DEF Quiet, Idle
  <2>3. ~Carried(stack[t], s)
    BY <1>1, <2>1, <2>2 DEF Carried, AtTop, Lone, Shape, IInv, TypeOK
  <2> QED
    BY Zenon, <2>1, <2>3 DEF Lone, Fresh
<1> QED
  BY <1>1, Invariance, PTL

=============================================================================
