------------------------ MODULE AsyncDerivedProofs --------------------------
(***************************************************************************)
(* Theorems about AsyncDerived, for any writers, users, awaiters, readers  *)
(* and handles and any bounds.                                             *)
(***************************************************************************)
EXTENDS AsyncDerived, TLAPS

Actors == Writers \cup Users \cup Readers
States == {"Clean", "Dirty", "Notifying"}
TaskPcs == {"begin", "next", "asleep", "update", "sources", "generate", "load", "stamp", "await",
            "finish", "store", "locked", "clear", "swap", "subs", "wake", "restore", "gone"}
ActorPcs == {"idle", "mark", "lock", "held", "clear", "swap", "subs", "wake", "restore",
             "check", "park", "enlist"}

TaskRecords ==
    [pc : TaskPcs, initial : BOOLEAN, first : BOOLEAN, read : 1 .. MaxVersion, this : Nat,
     since : Nat, taken : Nat, early : BOOLEAN, shown : BOOLEAN]

(* Every variable has its type.                                             *)
Types ==
    /\ TypeOK
    /\ \A b \in {suspended, set, loading, paused, timely, disposed} : b \in BOOLEAN
    /\ task \in TaskRecords
    /\ pc \in [Actors -> ActorPcs]
    /\ prev \in [Notifiers -> States]
    /\ took \in [Notifiers -> SUBSET (Awaiters \cup Handles)]
    /\ wrote \in Nat /\ pauses \in Nat
    /\ sub \in [dirty : BOOLEAN, saw : [by : Notifiers, of : 0 .. MaxVersion]]

(* Where a caller of notify_subs is                                         *)
Where(n) == IF n = "task" THEN task.pc ELSE pc[n]

(* All actors share one thread, and nobody awaits anything while it has the *)
(* guard of a write.                                                        *)
Serial == ~Parallel /\ ~Guarded

(* On one thread at most one actor is in the middle of its code.            *)
Solo == Serial => \A a \in Actors : pc[a] # "idle" =>
            Yielded /\ \A b \in Actors : b # a => pc[b] = "idle"

(* The handle that a reader holds is its own, and nobody waits for it.      *)
HoldInv ==
    /\ \A r \in Readers : hold[r] # None <=> pc[r] \in {"check", "park"}
    /\ \A r \in Readers : hold[r] # None => waiter[hold[r]] = "none"
    /\ \A r, q \in Readers : r # q /\ hold[r] # None => hold[r] # hold[q]

(* A waker is registered while the value loads, or in the hands of one      *)
(* caller of notify_subs, and whoever registered it sleeps.                 *)
WakeInv ==
    /\ wakers # {} => loading
    /\ \A n \in Notifiers : took[n] # {} => Where(n) \in {"swap", "subs", "wake"}
    /\ \A h \in Handles : h \in wakers => waiter[h] = "asleep" /\ \A n \in Notifiers : h \notin took[n]
    /\ \A h \in Handles, n \in Notifiers : h \in took[n] =>
          waiter[h] = "asleep" /\ \A m \in Notifiers : m # n => h \notin took[m]
    /\ \A h \in Handles : waiter[h] = "asleep" => h \in wakers \/ \E n \in Notifiers : h \in took[n]
    /\ (Serial \/ Users = {}) => \A a \in Awaiters : await[a] = "asleep" =>
          a \in wakers \/ \E n \in Notifiers : a \in took[n]

(* No user holds the value's lock where there is none, or between calls.    *)
LockInv ==
    \A u \in Users : vlock = u <=> pc[u] = "held"

(* A handle is kept by a reader, by the task that waits for it, or by the   *)
(* load that it was made for.                                               *)
KeptInv ==
    /\ \A h \in tasks : \/ \E r \in Readers : hold[r] = h
                        \/ waiter[h] # "none"
                        \/ h \in pending /\ task.pc \in {"await", "finish"}
                        \/ disposed
    /\ task.pc = "gone" => disposed

Current == version = task.this

(* The handle that a load was given stays until it ends.                    *)
ShownInv ==
    /\ task.this <= version
    /\ task.pc = "await" /\ task.shown /\ Current =>
          \E h \in tasks : waiter[h] = "none" /\ \A r \in Readers : hold[r] # h

(* Loading will be ended: by the task, or by a user.                        *)
Notified == ~Untracked \/ Users = {}
LoadInv ==
    Notified /\ loading =>
        \/ task.pc \in {"load", "stamp", "store", "locked", "clear"}
        \/ task.pc \in {"await", "finish"} /\ Current
        \/ /\ task.first
           /\ task.pc \in {"begin", "next", "update", "sources", "generate"}
           /\ task.pc \in {"begin", "next"} => set
        \/ \E u \in Users : pc[u] \in {"lock", "held", "clear"}
        \/ disposed

(* On one thread nobody has written since a future whose result will count  *)
(* was made, or taken up if it is the first one, and nobody has the value's *)
(* lock when the task wants it.                                             *)
Unwritten == task.since = wrote \/ (task.early /\ task.taken = wrote)
SinceInv ==
    Serial =>
        /\ task.pc \in {"load", "stamp", "store"} => Unwritten
        /\ task.pc \in {"await", "finish"} /\ Current => Unwritten
        /\ task.pc # "locked"

(* The subscriber has seen the value, or will be told.                      *)
SeenInv ==
    Notified => sub.dirty \/ sub.saw = value
                \/ \E n \in Notifiers : Where(n) \in {"clear", "swap", "subs"}

-----------------------------------------------------------------------------
(* On one thread                                                            *)

Notifying(n) == Where(n) \in {"subs", "wake", "restore"}

(* The state is Notifying during a notification, and put back.              *)
NotifyInv ==
    Serial =>
        /\ state = "Notifying" => \E n \in Notifiers : Notifying(n)
        /\ \A n \in Notifiers : Notifying(n) => state = "Notifying" /\ prev[n] # "Notifying"

Orderly == Serial /\ ~Feedback /\ "memo" \notin Starts

Marking == \E w \in Writers : pc[w] = "mark"
Dirtied == state = "Dirty" \/ \E n \in Notifiers : Notifying(n) /\ prev[n] = "Dirty"

(* A memo that is not dirty is computed from the source as it is.           *)
MemoInv ==
    Serial =>
        /\ memo.at <= src
        /\ Marking \/ memo.dirty => memo.at < src
        /\ memo.on /\ ~Marking /\ ~memo.dirty => memo.at = src

(* The first run is still to come, and the flag makes it come. If it is to  *)
(* take the future made at creation, that is up to date, or will be thrown  *)
(* out.                                                                     *)
FirstInv ==
    /\ task.first => task.pc \in {"begin", "next", "update", "sources", "generate", "gone"}
    /\ task.first /\ task.pc \in {"begin", "next"} => set
    /\ task.initial => task.first
    /\ "memo" \notin Starts => (memo.on => ~task.first)
    /\ Orderly /\ task.initial /\ ~memo.on =>
          \/ task.read = src
          \/ task.pc = "begin" /\ (Marking \/ Dirtied)
          \/ task.pc = "gone"

(* A new version of the source has been announced to the task,              *)
Pulled == memo.on /\ memo.dirty
Told == Marking \/ (set /\ (Dirtied \/ Pulled))

(* a new future is going to be made for it,                                 *)
Coming ==
    \/ task.first
    \/ task.pc = "update" /\ (state = "Dirty" \/ Pulled)
    \/ task.pc = "sources" /\ Pulled
    \/ task.pc = "generate"

(* or a future is under way whose result will be stored.                    *)
UnderWay ==
    task.pc \in {"load", "stamp", "store"} \/ (task.pc \in {"await", "finish"} /\ Current)

FreshInv ==
    /\ paused => ~timely
    /\ Orderly /\ timely /\ ~disposed =>
          /\ \/ value.of = src \/ Told \/ Coming \/ UnderWay
             \/ \E u \in Users : pc[u] \in {"lock", "held"}
          /\ UnderWay => task.read = src \/ Told

IInv ==
    /\ Types /\ Solo /\ HoldInv /\ WakeInv /\ LockInv /\ KeptInv /\ ShownInv /\ LoadInv /\ SinceInv
    /\ SeenInv /\ NotifyInv /\ MemoInv /\ FirstInv /\ FreshInv

-----------------------------------------------------------------------------
(* The step leaves the history of the future alone.                         *)
SameFuture ==
    task'.since = task.since /\ task'.taken = task.taken /\ task'.early = task.early

(* These abbreviations are expanded throughout.                             *)
USE DEF TaskRecords, Unwritten, SameFuture

Announcing == {"swap", "subs", "wake"}
Writing == {"lock", "held", "clear"}

(* Each part of the invariant is about some of the variables, and a step    *)
(* that leaves those alone preserves it.                                    *)
LEMMA Frame ==
    /\ HoldInv /\ UNCHANGED <<hold, waiter>>
         /\ (\A r \in Readers : pc'[r] \in {"check", "park"} <=> pc[r] \in {"check", "park"})
       => HoldInv'
    /\ WakeInv /\ UNCHANGED <<wakers, took, waiter, await>> /\ (wakers # {} => loading')
         /\ (\A n \in Notifiers : Where(n) \in Announcing => Where(n)' \in Announcing)
       => WakeInv'
    /\ LockInv /\ UNCHANGED vlock /\ (\A u \in Users : pc'[u] = "held" <=> pc[u] = "held") => LockInv'
    /\ KeptInv /\ UNCHANGED <<tasks, hold, waiter, pending, disposed>>
         /\ (task.pc \in {"await", "finish"} => task'.pc \in {"await", "finish"})
         /\ (task'.pc = "gone" => task.pc = "gone")
       => KeptInv'
    /\ ShownInv /\ UNCHANGED <<version, tasks, waiter, hold>>
         /\ task'.this = task.this /\ task'.shown = task.shown
         /\ (task'.pc = "await" => task.pc = "await")
       => ShownInv'
    /\ LoadInv /\ UNCHANGED <<task, version, disposed>> /\ (loading' => loading) /\ (set => set')
         /\ (\A u \in Users : pc[u] \in Writing => pc'[u] \in Writing)
       => LoadInv'
    /\ SinceInv /\ UNCHANGED <<wrote, version>> /\ SameFuture /\ task'.this = task.this
         /\ (task'.pc \in {"load", "stamp", "store", "locked", "await", "finish"} => task'.pc = task.pc)
       => SinceInv'
    /\ SeenInv /\ UNCHANGED <<sub, value>>
         /\ (\A n \in Notifiers : Where(n) \in {"clear", "swap", "subs"} =>
                                  Where(n)' \in {"clear", "swap", "subs"})
       => SeenInv'
    /\ NotifyInv /\ UNCHANGED <<state, prev>> /\ (\A n \in Notifiers : Notifying(n)' <=> Notifying(n))
       => NotifyInv'
    /\ MemoInv /\ UNCHANGED <<memo, src>> /\ (Marking' <=> Marking) => MemoInv'
    /\ FirstInv /\ UNCHANGED <<task, set, memo, src, state, prev>> /\ (Marking' <=> Marking)
         /\ (\A n \in Notifiers : Notifying(n)' <=> Notifying(n))
       => FirstInv'
    /\ FreshInv /\ UNCHANGED <<src, memo, state, prev, set, task, value, version, paused, timely, disposed>>
         /\ (Marking' <=> Marking) /\ (\A n \in Notifiers : Notifying(n)' <=> Notifying(n))
         /\ (\A u \in Users : pc[u] \in {"lock", "held"} => pc'[u] \in {"lock", "held"})
       => FreshInv'
<1>1. HoldInv /\ UNCHANGED <<hold, waiter>>
        /\ (\A r \in Readers : pc'[r] \in {"check", "park"} <=> pc[r] \in {"check", "park"})
      => HoldInv'
  BY Zenon DEF HoldInv
<1>2. WakeInv /\ UNCHANGED <<wakers, took, waiter, await>> /\ (wakers # {} => loading')
        /\ (\A n \in Notifiers : Where(n) \in Announcing => Where(n)' \in Announcing)
      => WakeInv'
  BY Zenon DEF WakeInv, Announcing
<1>3. LockInv /\ UNCHANGED vlock /\ (\A u \in Users : pc'[u] = "held" <=> pc[u] = "held") => LockInv'
  BY Zenon DEF LockInv
<1>4. KeptInv /\ UNCHANGED <<tasks, hold, waiter, pending, disposed>>
        /\ (task.pc \in {"await", "finish"} => task'.pc \in {"await", "finish"})
        /\ (task'.pc = "gone" => task.pc = "gone")
      => KeptInv'
  BY DEF KeptInv
<1>5. ShownInv /\ UNCHANGED <<version, tasks, waiter, hold>>
        /\ task'.this = task.this /\ task'.shown = task.shown
        /\ (task'.pc = "await" => task.pc = "await")
      => ShownInv'
  BY Zenon DEF ShownInv, Current
<1>6. LoadInv /\ UNCHANGED <<task, version, disposed>> /\ (loading' => loading) /\ (set => set')
        /\ (\A u \in Users : pc[u] \in Writing => pc'[u] \in Writing)
      => LoadInv'
  BY DEF LoadInv, Current, Writing, Notified
<1>7. SinceInv /\ UNCHANGED <<wrote, version>> /\ SameFuture /\ task'.this = task.this
        /\ (task'.pc \in {"load", "stamp", "store", "locked", "await", "finish"} => task'.pc = task.pc)
      => SinceInv'
  BY Zenon DEF SinceInv, Current
<1>8. SeenInv /\ UNCHANGED <<sub, value>>
        /\ (\A n \in Notifiers : Where(n) \in {"clear", "swap", "subs"} =>
                                 Where(n)' \in {"clear", "swap", "subs"})
      => SeenInv'
  BY Zenon DEF SeenInv, Notified
<1>9. NotifyInv /\ UNCHANGED <<state, prev>> /\ (\A n \in Notifiers : Notifying(n)' <=> Notifying(n))
      => NotifyInv'
  BY Zenon DEF NotifyInv
<1>10. MemoInv /\ UNCHANGED <<memo, src>> /\ (Marking' <=> Marking) => MemoInv'
  BY Zenon DEF MemoInv
<1>11. FirstInv /\ UNCHANGED <<task, set, memo, src, state, prev>> /\ (Marking' <=> Marking)
        /\ (\A n \in Notifiers : Notifying(n)' <=> Notifying(n))
      => FirstInv'
  BY DEF FirstInv, Orderly, Dirtied
<1>12. FreshInv /\ UNCHANGED <<src, memo, state, prev, set, task, value, version, paused, timely, disposed>>
        /\ (Marking' <=> Marking) /\ (\A n \in Notifiers : Notifying(n)' <=> Notifying(n))
        /\ (\A u \in Users : pc[u] \in {"lock", "held"} => pc'[u] \in {"lock", "held"})
      => FreshInv'
  BY DEF FreshInv, Orderly, Told, Dirtied, Pulled, Coming, UnderWay, Current
<1> QED
  BY Zenon, <1>1, <1>2, <1>3, <1>4, <1>5, <1>6, <1>7, <1>8, <1>9, <1>10, <1>11, <1>12

(* Where everyone is after one actor, or one caller of notify_subs, moves   *)
LEMMA Moves ==
    ASSUME Types
    PROVE  /\ \A a \in Actors, x \in ActorPcs : To(a, x) =>
                 /\ pc'[a] = x /\ \A b \in Actors : b # a => pc'[b] = pc[b]
                 /\ pc' \in [Actors -> ActorPcs]
           /\ \A n \in Notifiers : \A x : NotifierTo(n, x) /\ x \in (IF n = "task" THEN TaskPcs ELSE ActorPcs) =>
                 /\ Where(n)' = x /\ \A m \in Notifiers : m # n => Where(m)' = Where(m)
                 /\ \A b \in Actors : b # n => pc'[b] = pc[b]
                 /\ pc' \in [Actors -> ActorPcs]
<1>1. ASSUME NEW a \in Actors, NEW x \in ActorPcs, To(a, x)
      PROVE  /\ pc'[a] = x /\ \A b \in Actors : b # a => pc'[b] = pc[b]
             /\ pc' \in [Actors -> ActorPcs]
  BY Zenon, <1>1 DEF Types, To
<1>2. ASSUME NEW n \in Notifiers, NEW x, NotifierTo(n, x),
             x \in (IF n = "task" THEN TaskPcs ELSE ActorPcs)
      PROVE  /\ Where(n)' = x /\ \A m \in Notifiers : m # n => Where(m)' = Where(m)
             /\ \A b \in Actors : b # n => pc'[b] = pc[b]
             /\ pc' \in [Actors -> ActorPcs]
  <2>1. CASE n = "task"
    <3>1. pc' = pc /\ task'.pc = x
      BY Zenon, <1>2, <2>1 DEF Types, NotifierTo, TaskTo
    <3> QED
      BY Zenon, <2>1, <3>1 DEF Types, Where
  <2>2. CASE n # "task"
    <3>1. n \in Actors /\ task' = task
      BY Zenon, <1>2, <2>2 DEF Notifiers, Actors, NotifierTo
    <3>2. To(n, x)
      BY Zenon, <1>2, <2>2 DEF NotifierTo
    <3>3. pc'[n] = x /\ (\A b \in Actors : b # n => pc'[b] = pc[b]) /\ pc' \in [Actors -> ActorPcs]
      BY Zenon, <1>1, <1>2, <2>2, <3>1, <3>2
    <3> QED
      BY Zenon, <2>2, <3>1, <3>3 DEF Where, Notifiers, Actors
  <2> QED
    BY Zenon, <2>1, <2>2
<1> QED
  BY Zenon, <1>1, <1>2

(* On one thread nobody else is in the middle of its code when an actor     *)
(* takes a step, and that stays so.                                         *)
LEMMA Alone ==
    ASSUME Types, Solo
    PROVE  /\ \A a : Turn(a) /\ Serial => \A b \in Actors : b # a => pc[b] = "idle"
           /\ \A a \in Actors : /\ Turn(a) /\ UNCHANGED task
                                /\ \A b \in Actors : b # a => pc'[b] = pc[b]
                                => Solo'
           /\ Turn("task") /\ UNCHANGED pc => Solo'
<1>1. DOMAIN pc = Actors
  BY Zenon DEF Types
<1>2. "task" \notin Actors
  BY Zenon, AsyncAssumption DEF Actors
<1>3. ASSUME NEW a \in Actors, Turn(a), UNCHANGED task, \A b \in Actors : b # a => pc'[b] = pc[b]
      PROVE  Solo'
  BY <1>1, <1>2, <1>3 DEF Serial, Turn, Solo, Yielded
<1>4. Turn("task") /\ UNCHANGED pc => Solo'
  BY Zenon, <1>1, <1>2 DEF Serial, Turn, Solo
<1> QED
  BY Zenon, <1>1, <1>3, <1>4 DEF Serial, Turn

(* What the writers of the source do preserves the invariant.               *)
LEMMA WriterSteps ==
    ASSUME IInv, NEW w \in Writers, WriteSource(w) \/ MarkSource(w) \/ ReadMemo(w)
    PROVE  IInv'
<1> USE DEF IInv
<1>1. /\ UNCHANGED <<version, suspended, pending, inner, value, vlock, loading, wakers, task, prev,
                     took, hold, await, tasks, waiter, sub, paused, wrote, pauses, disposed>>
      /\ set => set'
  <2>1. (MarkDirty \/ MarkCheck \/ UNCHANGED <<state, set>>) => (set => set')
    BY Zenon DEF MarkDirty, MarkCheck
  <2> QED
    BY Zenon, <2>1 DEF WriteSource, MarkSource, ReadMemo, suspense, history
<1>2. /\ w \in Actors /\ Turn(w) /\ pc' \in [Actors -> ActorPcs]
      /\ pc[w] \in {"idle", "mark"} /\ pc'[w] \in {"idle", "mark"}
      /\ \A b \in Actors : b # w => pc'[b] = pc[b]
  <2>1. w \in Actors
    BY Zenon DEF Actors
  <2>2. CASE ReadMemo(w)
    BY Zenon, <2>1, <2>2 DEF ReadMemo, At, Types
  <2>3. CASE WriteSource(w) \/ MarkSource(w)
    <3>1. (At(w, "idle") /\ To(w, "mark")) \/ (At(w, "mark") /\ To(w, "idle"))
      BY Zenon, <2>3 DEF WriteSource, MarkSource
    <3> QED
      BY Zenon, <2>1, <3>1, Moves DEF At, ActorPcs
  <2> QED
    BY Zenon, <2>2, <2>3
<1>3. Solo'
  BY Zenon, <1>1, <1>2, Alone
<1>4. \A n \in Notifiers : \/ Where(n)' = Where(n)
                           \/ Where(n) \in {"idle", "mark"} /\ Where(n)' \in {"idle", "mark"}
  BY Zenon, <1>1, <1>2 DEF Where, Notifiers, Actors
<1>5. \A a \in Actors : \/ pc'[a] = pc[a]
                        \/ pc[a] \in {"idle", "mark"} /\ pc'[a] \in {"idle", "mark"}
  BY Zenon, <1>2
<1>6. (HoldInv /\ LockInv)'
  BY Zenon, <1>1, <1>5, Frame DEF Actors
<1>7. (WakeInv /\ SeenInv)'
  BY Zenon, <1>1, <1>4, Frame DEF Announcing, WakeInv
<1>8. (KeptInv /\ ShownInv /\ SinceInv)'
  BY Zenon, <1>1, Frame
<1>9. LoadInv'
  BY Zenon, <1>1, <1>5, Frame DEF Writing, Actors
<1>10. Serial => \A n \in Notifiers : ~Notifying(n) /\ ~Notifying(n)'
  <2> SUFFICES ASSUME Serial, NEW n \in Notifiers PROVE ~Notifying(n) /\ ~Notifying(n)'
    OBVIOUS
  <2>1. Yielded /\ \A b \in Actors : b # w => pc[b] = "idle"
    BY Zenon, <1>2, Alone, AsyncAssumption DEF Serial, Turn, Actors
  <2>2. Where(n) \in {"begin", "asleep", "await", "locked", "gone", "idle", "mark"}
    BY Zenon, <1>2, <2>1 DEF Where, Yielded, Notifiers, Actors
  <2> QED
    BY Zenon, <1>4, <2>2 DEF Notifying
<1>11. Serial => Yielded
  BY Zenon, <1>2, AsyncAssumption DEF Serial, Turn, Actors
<1>12. src \in 1 .. MaxVersion /\ memo \in [on : BOOLEAN, at : 1 .. MaxVersion, dirty : BOOLEAN]
       /\ set \in BOOLEAN /\ timely \in BOOLEAN /\ paused \in BOOLEAN /\ state \in States
  BY Zenon DEF Types, TypeOK, States
<1>13. ASSUME src' \in 1 .. MaxVersion,
              memo' \in [on : BOOLEAN, at : 1 .. MaxVersion, dirty : BOOLEAN],
              set' \in BOOLEAN, timely' \in BOOLEAN, state' \in States
       PROVE  Types'
  BY Zenon, <1>1, <1>2, <1>13 DEF Types, TypeOK, States
(* The new version is about to be announced.                                *)
<1>14. CASE WriteSource(w)
  <2>1. src' = src + 1 /\ src < MaxVersion /\ UNCHANGED <<memo, set, state, timely>> /\ Marking'
    BY Zenon, <1>2, <1>14, Moves DEF WriteSource, Marking, history, ActorPcs
  <2>2. Types'
    <3>1. src' \in 1 .. MaxVersion
      <4>1. MaxVersion \in Nat /\ src \in 1 .. MaxVersion
        BY Zenon, <1>12, AsyncAssumption
      <4> QED
        BY <2>1, <4>1
    <3> QED
      BY Zenon, <1>12, <1>13, <2>1, <3>1
  <2>3. MemoInv'
    BY <1>12, <2>1 DEF MemoInv
  <2>4. NotifyInv'
    BY Zenon, <1>1, <1>10, <2>1 DEF NotifyInv
  <2>5. FirstInv'
    BY Zenon, <1>1, <1>11, <2>1 DEF FirstInv, Orderly, Yielded
  <2>6. FreshInv'
    BY Zenon, <1>1, <2>1 DEF FreshInv, Told
  <2> QED
    BY Zenon, <1>3, <1>6, <1>7, <1>8, <1>9, <2>2, <2>3, <2>4, <2>5, <2>6
(* It is announced, or the memo will be asked.                              *)
<1>15. CASE MarkSource(w)
  <2>1. /\ src' = src /\ timely' = (timely \/ ~paused) /\ memo'.on = memo.on /\ memo'.at = memo.at
        /\ memo.on => memo'.dirty /\ state' = state /\ set' = (set \/ state # "Notifying")
        /\ ~memo.on => memo' = memo /\ (state # "Notifying" => state' = "Dirty" /\ set')
        /\ state' \in States /\ set' \in BOOLEAN
        /\ memo' \in [on : BOOLEAN, at : 1 .. MaxVersion, dirty : BOOLEAN]
    BY Zenon, <1>12, <1>15 DEF MarkSource, MarkDirty, MarkCheck, States
  <2>2. Marking
    BY Zenon, <1>15 DEF MarkSource, Marking, At
  <2>3. Serial => state # "Notifying"
    BY Zenon, <1>10 DEF NotifyInv
  <2>4. Serial => Told'
    BY Zenon, <2>1, <2>3 DEF Told, Dirtied, Pulled
  <2>5. Types'
    BY Zenon, <1>12, <1>13, <2>1
  <2>6. MemoInv'
    BY Zenon, <1>12, <2>1, <2>2 DEF MemoInv
  <2>7. NotifyInv'
    BY Zenon, <1>1, <1>10, <2>1, <2>3 DEF NotifyInv
  <2>8. FirstInv'
    BY Zenon, <1>1, <1>11, <2>1, <2>3 DEF FirstInv, Orderly, Yielded, Dirtied
  <2>9. FreshInv'
    BY Zenon, <1>1, <1>12, <2>1, <2>4 DEF FreshInv, Orderly
  <2> QED
    BY Zenon, <1>3, <1>6, <1>7, <1>8, <1>9, <2>5, <2>6, <2>7, <2>8, <2>9
(* The memo has a new value, so it announces it.                            *)
<1>16. CASE ReadMemo(w)
  <2>1. /\ memo.on /\ memo.dirty /\ src' = src /\ timely' = timely /\ pc' = pc
        /\ memo'.on /\ memo'.at = src /\ ~memo'.dirty
        /\ memo' \in [on : BOOLEAN, at : 1 .. MaxVersion, dirty : BOOLEAN]
    BY Zenon, <1>12, <1>16 DEF ReadMemo, Recomputed, history
  <2>2. Serial => memo.at < src /\ ~Marking /\ ~Marking'
    BY Zenon, <1>2, <1>16, <2>1, Alone DEF MemoInv, Marking, Actors, ReadMemo, At
  <2>3. state' \in States /\ set' \in BOOLEAN
    BY Zenon, <1>12, <1>16 DEF ReadMemo, MarkDirty, States
  <2>4. Serial => state # "Notifying"
    BY Zenon, <1>10 DEF NotifyInv
  <2>5. Serial => state' = "Dirty" /\ set'
    BY <1>12, <1>16, <2>1, <2>2, <2>4 DEF ReadMemo, Recomputed, MarkDirty
  <2>6. Types'
    BY Zenon, <1>12, <1>13, <2>1, <2>3
  <2>7. MemoInv'
    BY <1>12, <2>1, <2>2 DEF MemoInv
  <2>8. NotifyInv'
    BY Zenon, <1>1, <1>10, <2>5 DEF NotifyInv
  <2>9. FirstInv'
    BY Zenon, <1>1, <2>1 DEF FirstInv, Orderly
  <2>10. FreshInv'
    BY Zenon, <1>1, <2>1, <2>5 DEF FreshInv, Orderly, Told, Dirtied
  <2> QED
    BY Zenon, <1>3, <1>6, <1>7, <1>8, <1>9, <2>6, <2>7, <2>8, <2>9, <2>10
<1> QED
  BY Zenon, <1>14, <1>15, <1>16

(* What the spawned task does, up to its notification, preserves the        *)
(* invariant.                                                               *)
LEMMA TaskSteps ==
    ASSUME IInv, TaskStep \/ Resolve
    PROVE  IInv'
<1> USE DEF IInv
<1>1. /\ UNCHANGED <<src, inner, vlock, wakers, pc, prev, took, hold, await, waiter, sub, paused,
                     wrote, pauses, timely, disposed>>
      /\ Turn("task") /\ task.pc \notin {"clear", "swap", "subs", "wake", "restore", "gone"}
  BY Zenon DEF TaskStep, Begin, Receive, Sleep, Update, UpdateSources, Generate, Load, Stamp, Finish, Store,
         Resolve, TaskAt, shared, suspense, history
<1>2. /\ task \in TaskRecords
      /\ wrote \in Nat /\ version \in Nat /\ src \in 1 .. MaxVersion /\ state \in States
      /\ memo \in [on : BOOLEAN, at : 1 .. MaxVersion, dirty : BOOLEAN]
      /\ set \in BOOLEAN /\ suspended \in BOOLEAN /\ loading \in BOOLEAN
  BY Zenon DEF Types, TypeOK, States
<1>3. Serial => \A a \in Actors : pc[a] = "idle"
  BY Zenon, <1>1, Alone, AsyncAssumption DEF Actors
<1>4. ASSUME Serial
      PROVE  /\ ~Marking /\ ~Marking' /\ \A n \in Notifiers : ~Notifying(n)
             /\ state # "Notifying" /\ (Dirtied <=> state = "Dirty")
  <2>1. \A n \in Notifiers : ~Notifying(n)
    BY Zenon, <1>1, <1>3, <1>4 DEF Notifying, Where, Notifiers, Actors
  <2> QED
    BY Zenon, <1>1, <1>3, <1>4, <2>1 DEF Marking, Actors, NotifyInv, Dirtied
<1>5. ASSUME task'.pc \notin {"swap", "subs", "wake", "restore"}
      PROVE  /\ Solo' /\ HoldInv' /\ LockInv'
             /\ \A n \in Notifiers : Where(n)' = Where(n) \/ n = "task"
             /\ Serial => \A n \in Notifiers : ~Notifying(n)'
  <2>1. \A n \in Notifiers : Where(n)' = Where(n) \/ n = "task"
    BY Zenon, <1>1 DEF Where
  <2>2. Serial => \A n \in Notifiers : ~Notifying(n)'
    BY Zenon, <1>1, <1>3, <1>5 DEF Notifying, Where, Notifiers, Actors
  <2> QED
    BY Zenon, <1>1, <2>1, <2>2, Alone, Frame
<1>6. ASSUME task'.pc \notin {"swap", "subs", "wake", "restore"}, loading => loading'
      PROVE  WakeInv'
  <2>1. \A n \in Notifiers : Where(n) \in Announcing => Where(n)' \in Announcing
    BY Zenon, <1>1, <1>5, <1>6 DEF Where, Announcing
  <2> QED
    BY Zenon, <1>1, <1>6, <2>1, Frame DEF WakeInv
<1>7. ASSUME task'.pc \notin {"swap", "subs", "wake", "restore"}, UNCHANGED value
      PROVE  SeenInv'
  <2>1. \A n \in Notifiers : Where(n) \in {"clear", "swap", "subs"} =>
                             Where(n)' \in {"clear", "swap", "subs"}
    BY Zenon, <1>1, <1>5, <1>7 DEF Where
  <2> QED
    BY Zenon, <1>1, <1>7, <2>1, Frame
<1>8. ASSUME task'.pc \notin {"swap", "subs", "wake", "restore"}, state' \in {"Clean", state}
      PROVE  NotifyInv'
  BY Zenon, <1>4, <1>5, <1>8 DEF NotifyInv
<1>9. ASSUME task' \in TaskRecords,
             version' \in Nat, state' \in States, set' \in BOOLEAN, suspended' \in BOOLEAN,
             memo' \in [on : BOOLEAN, at : 1 .. MaxVersion, dirty : BOOLEAN],
             loading' \in BOOLEAN, pending' \cup tasks' \subseteq Handles,
             value' \in [by : Notifiers, of : 0 .. MaxVersion]
      PROVE  Types'
  BY Zenon, <1>1, <1>9 DEF Types, TypeOK, States
<1>10. (Pulled /\ Serial => memo.at < src) /\ (memo.on /\ Serial /\ ~Pulled => memo.at = src)
  BY Zenon, <1>4 DEF MemoInv, Pulled
<1>11. UNCHANGED memo => MemoInv'
  BY Zenon, <1>1, <1>4 DEF MemoInv
<1>12. pending \cup tasks \subseteq Handles /\ value \in [by : Notifiers, of : 0 .. MaxVersion]
  BY Zenon DEF Types, TypeOK
(* The future made at creation is thrown out if it may be stale.            *)
<1>13. CASE Begin
  <2>1. /\ UNCHANGED <<memo, state, version, suspended, pending, set, value, loading, tasks>>
        /\ task.pc = "begin"
        /\ task' = [task EXCEPT !.pc = "next", !.initial = @ /\ state # "Dirty"]
    BY Zenon, <1>13 DEF Begin, TaskAt, shared, suspense
  <2>2. /\ task'.pc = "next" /\ task'.initial = (task.initial /\ state # "Dirty")
        /\ task'.first = task.first /\ task'.read = task.read /\ task'.this = task.this
        /\ SameFuture /\ task'.shown = task.shown
    BY Zenon, <1>2, <2>1
  <2>3. Types'
    BY Zenon, <1>2, <1>9, <1>12, <2>1 DEF TaskPcs
  <2>4. (Solo /\ HoldInv /\ LockInv /\ WakeInv /\ SeenInv /\ NotifyInv /\ MemoInv)'
    BY Zenon, <1>5, <1>6, <1>7, <1>8, <1>11, <2>1, <2>2
  <2>5. (KeptInv /\ ShownInv /\ SinceInv)'
    BY Zenon, <1>1, <2>1, <2>2, Frame
  <2>6. LoadInv'
    BY Zenon, <1>1, <2>1, <2>2 DEF LoadInv
  <2>7. FirstInv'
    BY Zenon, <1>1, <1>4, <2>1, <2>2 DEF FirstInv, Orderly
  <2>8. FreshInv'
    BY Zenon, <1>1, <1>4, <1>5, <2>1, <2>2 DEF FreshInv, Orderly, Told, Dirtied, Pulled, Coming, UnderWay
  <2> QED
    BY Zenon, <2>3, <2>4, <2>5, <2>6, <2>7, <2>8
(* A mark is received: the flag goes down.                                  *)
<1>14. CASE Receive
  <2>1. /\ UNCHANGED <<memo, state, version, suspended, pending, value, loading, tasks>>
        /\ task.pc \in {"next", "asleep"} /\ set /\ ~set' /\ set' \in BOOLEAN
        /\ task' = [task EXCEPT !.pc = "update"]
    BY Zenon, <1>14 DEF Receive, TaskAt, TaskTo, suspense
  <2>2. /\ task'.pc = "update" /\ task'.initial = task.initial
        /\ task'.first = task.first /\ task'.read = task.read /\ task'.this = task.this
        /\ SameFuture /\ task'.shown = task.shown
    BY Zenon, <1>2, <2>1
  <2>3. Types'
    BY Zenon, <1>2, <1>9, <1>12, <2>1 DEF TaskPcs
  <2>4. (Solo /\ HoldInv /\ LockInv /\ WakeInv /\ SeenInv /\ NotifyInv /\ MemoInv)'
    BY Zenon, <1>5, <1>6, <1>7, <1>8, <1>11, <2>1, <2>2
  <2>5. (KeptInv /\ ShownInv /\ SinceInv)'
    BY Zenon, <1>1, <2>1, <2>2, Frame
  <2>6. LoadInv'
    BY Zenon, <1>1, <2>1, <2>2 DEF LoadInv
  <2>7. FirstInv'
    BY Zenon, <1>1, <2>1, <2>2 DEF FirstInv, Orderly
  <2>8. FreshInv'
    BY Zenon, <1>1, <1>4, <1>5, <2>1, <2>2 DEF FreshInv, Orderly, Told, Pulled, Coming, UnderWay
  <2> QED
    BY Zenon, <2>3, <2>4, <2>5, <2>6, <2>7, <2>8
(* Nothing has come, so there is no first run to wait for.                  *)
<1>15. CASE Sleep
  <2>1. /\ UNCHANGED <<memo, state, version, suspended, pending, set, value, loading, tasks>>
        /\ task.pc = "next" /\ ~set /\ task' = [task EXCEPT !.pc = "asleep"]
    BY Zenon, <1>15 DEF Sleep, TaskAt, TaskTo, shared, suspense
  <2>2. /\ task'.pc = "asleep" /\ task'.initial = task.initial
        /\ task'.first = task.first /\ task'.read = task.read /\ task'.this = task.this
        /\ SameFuture /\ task'.shown = task.shown
    BY Zenon, <1>2, <2>1
  <2>3. Types'
    BY Zenon, <1>2, <1>9, <1>12, <2>1 DEF TaskPcs
  <2>4. (Solo /\ HoldInv /\ LockInv /\ WakeInv /\ SeenInv /\ NotifyInv /\ MemoInv)'
    BY Zenon, <1>5, <1>6, <1>7, <1>8, <1>11, <2>1, <2>2
  <2>5. (KeptInv /\ ShownInv /\ SinceInv)'
    BY Zenon, <1>1, <2>1, <2>2, Frame
  <2>6. LoadInv'
    BY Zenon, <1>1, <2>1, <2>2 DEF LoadInv
  <2>7. FirstInv'
    BY Zenon, <1>1, <2>1, <2>2 DEF FirstInv, Orderly
  <2>8. FreshInv'
    BY Zenon, <1>1, <1>4, <1>5, <2>1, <2>2 DEF FreshInv, Orderly, Told, Pulled, Coming, UnderWay
  <2> QED
    BY Zenon, <2>3, <2>4, <2>5, <2>6, <2>7, <2>8
(* A mark is turned into a decision to make a future.                       *)
<1>16. CASE Update
  <2>1. /\ UNCHANGED <<memo, version, suspended, pending, set, value, loading, tasks>>
        /\ task.pc = "update"
        /\ state' = IF ~paused /\ state = "Dirty" THEN "Clean" ELSE state
        /\ state' \in {"Clean", state} /\ state' \in States
    BY Zenon, <1>2, <1>16 DEF Update, TaskAt, suspense, States
  <2>2. PICK to \in {"generate", "next", "sources"} :
           /\ task' = [task EXCEPT !.pc = to] /\ (task.first => to # "next")
           /\ ~paused /\ state = "Dirty" => to = "generate"
           /\ ~paused /\ state = "Clean" => to = "sources"
    BY <1>2, <1>16 DEF Update, Otherwise, TaskTo, States
  <2>3. /\ task'.pc = to /\ task'.initial = task.initial
        /\ task'.first = task.first /\ task'.read = task.read /\ task'.this = task.this
        /\ SameFuture /\ task'.shown = task.shown
    BY Zenon, <1>2, <2>2
  <2>4. Types'
    BY Zenon, <1>2, <1>9, <1>12, <2>1, <2>2 DEF TaskPcs
  <2>5. (Solo /\ HoldInv /\ LockInv /\ WakeInv /\ SeenInv /\ NotifyInv /\ MemoInv)'
    BY Zenon, <1>5, <1>6, <1>7, <1>8, <1>11, <2>1, <2>3
  <2>6. (KeptInv /\ ShownInv /\ SinceInv)'
    BY Zenon, <1>1, <2>1, <2>3, Frame
  <2>7. LoadInv'
    BY Zenon, <1>1, <2>1, <2>2, <2>3 DEF LoadInv
  <2>8. FirstInv'
    BY Zenon, <1>1, <2>1, <2>2, <2>3 DEF FirstInv, Orderly
  <2>9. FreshInv'
    BY Zenon, <1>1, <1>2, <1>4, <1>5, <2>1, <2>2, <2>3
       DEF FreshInv, Orderly, Told, Pulled, Coming, UnderWay, States
  <2> QED
    BY Zenon, <2>4, <2>5, <2>6, <2>7, <2>8, <2>9
(* A memo that is out of date has a new value.                              *)
<1>17. CASE UpdateSources
  <2>1. /\ UNCHANGED <<state, version, suspended, pending, set, value, loading, tasks>>
        /\ task.pc = "sources" /\ memo'.on = memo.on /\ (~Pulled => memo' = memo)
        /\ Pulled => memo'.at = src /\ ~memo'.dirty
        /\ memo' \in [on : BOOLEAN, at : 1 .. MaxVersion, dirty : BOOLEAN]
    BY Zenon, <1>2, <1>17 DEF UpdateSources, TaskAt, Recomputed, Pulled, suspense
  <2>2. PICK to \in {"generate", "next"} :
           /\ task' = [task EXCEPT !.pc = to] /\ (task.first => to # "next")
           /\ memo'.at # memo.at => to = "generate"
    BY Zenon, <1>2, <1>17 DEF UpdateSources, Otherwise, TaskTo
  <2>3. /\ task'.pc = to /\ task'.initial = task.initial
        /\ task'.first = task.first /\ task'.read = task.read /\ task'.this = task.this
        /\ SameFuture /\ task'.shown = task.shown
    BY Zenon, <1>2, <2>2
  <2>4. Types'
    BY Zenon, <1>2, <1>9, <1>12, <2>1, <2>2 DEF TaskPcs
  <2>5. (Solo /\ HoldInv /\ LockInv /\ WakeInv /\ SeenInv /\ NotifyInv)'
    BY Zenon, <1>5, <1>6, <1>7, <1>8, <2>1, <2>3
  <2>6. MemoInv'
    BY <1>1, <1>2, <1>4, <1>10, <2>1 DEF MemoInv, Pulled
  <2>7. (KeptInv /\ ShownInv /\ SinceInv)'
    BY Zenon, <1>1, <2>1, <2>3, Frame
  <2>8. LoadInv'
    BY Zenon, <1>1, <2>1, <2>2, <2>3 DEF LoadInv
  <2>9. FirstInv'
    BY Zenon, <1>1, <2>1, <2>2, <2>3 DEF FirstInv, Orderly
  <2>10. Serial /\ Pulled => to = "generate"
    BY <1>2, <1>10, <2>1, <2>2
  <2>11. FreshInv'
    BY Zenon, <1>1, <1>4, <1>5, <2>1, <2>2, <2>3, <2>10
       DEF FreshInv, Orderly, Told, Dirtied, Pulled, Coming, UnderWay
  <2> QED
    BY Zenon, <2>4, <2>5, <2>6, <2>7, <2>8, <2>9, <2>11
(* A future reads the source, or the one made at creation is taken.         *)
<1>18. CASE Generate
  <2>1. /\ UNCHANGED <<state, version, suspended, pending, set, value, loading, tasks>>
        /\ task.pc = "generate" /\ memo'.on = memo.on
        /\ task.initial \/ ~Pulled => memo' = memo
        /\ Pulled /\ ~task.initial => memo'.at = src /\ ~memo'.dirty
        /\ memo' \in [on : BOOLEAN, at : 1 .. MaxVersion, dirty : BOOLEAN]
    BY Zenon, <1>2, <1>18 DEF Generate, TaskAt, Recomputed, Pulled, suspense
  <2>2. task' = [task EXCEPT !.pc = "load", !.initial = FALSE, !.first = FALSE, !.taken = wrote,
                    !.early = task.initial, !.since = IF task.initial THEN @ ELSE wrote,
                    !.read = IF task.initial THEN @ ELSE IF memo.on THEN memo'.at ELSE src]
    BY Zenon, <1>18 DEF Generate
  <2>3. /\ task'.pc = "load" /\ task'.initial = FALSE /\ task'.first = FALSE
        /\ task'.read = (IF task.initial THEN task.read ELSE IF memo.on THEN memo'.at ELSE src)
        /\ task'.this = task.this /\ task'.shown = task.shown /\ task'.taken = wrote
        /\ task'.early = task.initial /\ (~task.initial => task'.since = wrote)
    BY Zenon, <1>2, <2>2
  <2>4. Types'
    BY Zenon, <1>2, <1>9, <1>12, <2>1, <2>2 DEF TaskPcs
  <2>5. (Solo /\ HoldInv /\ LockInv /\ WakeInv /\ SeenInv /\ NotifyInv)'
    BY Zenon, <1>5, <1>6, <1>7, <1>8, <2>1, <2>3
  <2>6. MemoInv'
    BY <1>1, <1>2, <1>4, <1>10, <2>1 DEF MemoInv, Pulled
  <2>7. (KeptInv /\ ShownInv)'
    BY Zenon, <1>1, <2>1, <2>3, Frame
  <2>8. (LoadInv /\ SinceInv /\ FirstInv)'
    BY Zenon, <1>1, <2>1, <2>3 DEF LoadInv, SinceInv, FirstInv, Orderly
  <2>9. Orderly => task'.read = src
    BY Zenon, <1>2, <1>4, <1>10, <2>1, <2>3 DEF Orderly, FirstInv, Pulled
  <2>10. FreshInv'
    BY Zenon, <1>1, <2>3, <2>9 DEF FreshInv, Orderly, UnderWay
  <2> QED
    BY Zenon, <2>4, <2>5, <2>6, <2>7, <2>8, <2>10
(* The value loads again.                                                   *)
<1>19. CASE Load
  <2>1. /\ UNCHANGED <<memo, state, version, suspended, pending, set, value, tasks>>
        /\ task.pc = "load" /\ loading' = TRUE /\ task' = [task EXCEPT !.pc = "stamp"]
    BY Zenon, <1>19 DEF Load, TaskAt, TaskTo, suspense
  <2>2. /\ task'.pc = "stamp" /\ task'.initial = task.initial
        /\ task'.first = task.first /\ task'.read = task.read /\ task'.this = task.this
        /\ SameFuture /\ task'.shown = task.shown
    BY Zenon, <1>2, <2>1
  <2>3. Types'
    BY Zenon, <1>2, <1>9, <1>12, <2>1 DEF TaskPcs
  <2>4. (Solo /\ HoldInv /\ LockInv /\ WakeInv /\ SeenInv /\ NotifyInv /\ MemoInv)'
    BY Zenon, <1>5, <1>6, <1>7, <1>8, <1>11, <2>1, <2>2
  <2>5. (KeptInv /\ ShownInv)'
    BY Zenon, <1>1, <2>1, <2>2, Frame
  <2>6. (LoadInv /\ SinceInv /\ FirstInv)'
    BY Zenon, <1>1, <2>1, <2>2 DEF LoadInv, SinceInv, FirstInv, Orderly
  <2>7. FreshInv'
    BY Zenon, <1>1, <1>4, <1>5, <2>1, <2>2 DEF FreshInv, Orderly, Told, Dirtied, Pulled, Coming, UnderWay
  <2> QED
    BY Zenon, <2>3, <2>4, <2>5, <2>6, <2>7
(* The load has a version, and a handle if a context has read the value.    *)
<1>20. CASE Stamp
  <2>1. /\ UNCHANGED <<memo, state, set, value, loading>> /\ suspended' = FALSE
        /\ task.pc = "stamp" /\ version' = version + 1
        /\ task' = [task EXCEPT !.pc = "await", !.this = version', !.shown = suspended]
    BY Zenon, <1>20 DEF Stamp, TaskAt
  <2>2. \/ ~suspended /\ UNCHANGED <<tasks, pending>>
        \/ \E h \in Handles : Free(h) /\ tasks' = tasks \cup {h} /\ pending' = pending \cup {h}
    BY Zenon, <1>20 DEF Stamp
  <2>3. version' \in Nat
    BY <1>2, <2>1
  <2>4. /\ task'.pc = "await" /\ task'.initial = task.initial
        /\ task'.first = task.first /\ task'.read = task.read /\ task'.this = version'
        /\ SameFuture /\ task'.shown = suspended
    BY Zenon, <1>2, <2>1
  <2>5. Types'
    BY Zenon, <1>2, <1>9, <1>12, <2>1, <2>2, <2>3 DEF TaskPcs
  <2>6. (Solo /\ HoldInv /\ LockInv /\ WakeInv /\ SeenInv /\ NotifyInv /\ MemoInv)'
    BY Zenon, <1>5, <1>6, <1>7, <1>8, <1>11, <2>1, <2>4
  <2>7. KeptInv'
    BY Zenon, <1>1, <2>1, <2>2, <2>4 DEF KeptInv
  <2>8. ShownInv'
    BY <1>1, <2>1, <2>2, <2>3, <2>4 DEF ShownInv, Free
  <2>9. (LoadInv /\ SinceInv /\ FirstInv)'
    BY Zenon, <1>1, <2>1, <2>4 DEF LoadInv, SinceInv, FirstInv, Current
  <2>10. FreshInv'
    BY Zenon, <1>1, <1>4, <1>5, <2>1, <2>4
       DEF FreshInv, Orderly, Told, Dirtied, Pulled, Coming, UnderWay, Current
  <2> QED
    BY Zenon, <2>5, <2>6, <2>7, <2>8, <2>9, <2>10
(* The future is ready.                                                     *)
<1>21. CASE Resolve
  <2>1. /\ UNCHANGED <<memo, state, version, suspended, pending, set, value, loading, tasks>>
        /\ task.pc = "await" /\ task' = [task EXCEPT !.pc = "finish"]
    BY Zenon, <1>21 DEF Resolve, TaskAt, TaskTo, shared, suspense
  <2>2. /\ task'.pc = "finish" /\ task'.initial = task.initial
        /\ task'.first = task.first /\ task'.read = task.read /\ task'.this = task.this
        /\ SameFuture /\ task'.shown = task.shown
    BY Zenon, <1>2, <2>1
  <2>3. Types'
    BY Zenon, <1>2, <1>9, <1>12, <2>1 DEF TaskPcs
  <2>4. (Solo /\ HoldInv /\ LockInv /\ WakeInv /\ SeenInv /\ NotifyInv /\ MemoInv)'
    BY Zenon, <1>5, <1>6, <1>7, <1>8, <1>11, <2>1, <2>2
  <2>5. (KeptInv /\ ShownInv)'
    BY Zenon, <1>1, <2>1, <2>2, Frame
  <2>6. (LoadInv /\ SinceInv /\ FirstInv)'
    BY Zenon, <1>1, <2>1, <2>2 DEF LoadInv, SinceInv, FirstInv, Current
  <2>7. FreshInv'
    BY Zenon, <1>1, <1>4, <1>5, <2>1, <2>2
       DEF FreshInv, Orderly, Told, Dirtied, Pulled, Coming, UnderWay, Current
  <2> QED
    BY Zenon, <2>3, <2>4, <2>5, <2>6, <2>7
(* The handles of the load are dropped; its result counts if nothing has    *)
(* been written meanwhile.                                                  *)
<1>22. CASE Finish
  <2>0. Serial => vlock = None
    BY Zenon, <1>3 DEF LockInv, Types, TypeOK, Actors
  <2>1. /\ UNCHANGED <<memo, state, version, suspended, set, value, loading>>
        /\ tasks' = tasks \ pending /\ pending' = {}
        /\ task.pc = "finish"
        /\ task' = [task EXCEPT !.pc = Kept]
    BY Zenon, <1>22 DEF Finish, TaskAt, TaskTo
  <2>2. /\ task'.pc = (IF Current THEN IF vlock = None THEN "store" ELSE "locked" ELSE "next")
        /\ task'.initial = task.initial /\ task'.first = task.first /\ task'.read = task.read /\ task'.this = task.this
        /\ SameFuture /\ task'.shown = task.shown
    BY <1>2, <2>1 DEF Kept, Current
  <2>3. Types'
    BY <1>2, <1>9, <1>12, <2>1 DEF TaskPcs, Kept
  <2>4. (Solo /\ HoldInv /\ LockInv /\ WakeInv /\ SeenInv /\ NotifyInv /\ MemoInv)'
    BY <1>5, <1>6, <1>7, <1>8, <1>11, <2>1, <2>2
  <2>5. (KeptInv /\ ShownInv)'
    BY <1>1, <2>1, <2>2 DEF KeptInv, ShownInv
  <2>6. (LoadInv /\ SinceInv /\ FirstInv)'
    BY <1>1, <2>0, <2>1, <2>2 DEF LoadInv, SinceInv, FirstInv, Orderly
  <2>7. FreshInv'
    BY <1>1, <1>4, <2>0, <1>5, <2>1, <2>2 DEF FreshInv, Orderly, Told, Dirtied, Pulled, Coming, UnderWay
  <2> QED
    BY Zenon, <2>3, <2>4, <2>5, <2>6, <2>7
(* The result is stored, and will be announced.                             *)
<1>23. CASE Store
  <2>1. /\ UNCHANGED <<memo, state, version, suspended, pending, set, loading, tasks>>
        /\ task.pc \in {"store", "locked"} /\ value' = Result("task", task.read)
        /\ task' = [task EXCEPT !.pc = "clear"]
    BY Zenon, <1>23 DEF Store, TaskAt, TaskTo, suspense
  <2>2. /\ task'.pc = "clear" /\ task'.initial = task.initial
        /\ task'.first = task.first /\ task'.read = task.read /\ task'.this = task.this
        /\ SameFuture /\ task'.shown = task.shown
    BY Zenon, <1>2, <2>1
  <2>3. value'.of = task.read /\ value' \in [by : Notifiers, of : 0 .. MaxVersion]
    BY <1>2, <2>1 DEF Result, Notifiers
  <2>4. Types'
    BY Zenon, <1>2, <1>9, <1>12, <2>1, <2>3 DEF TaskPcs
  <2>5. (Solo /\ HoldInv /\ LockInv /\ WakeInv /\ NotifyInv /\ MemoInv)'
    BY Zenon, <1>5, <1>6, <1>8, <1>11, <2>1, <2>2
  <2>6. SeenInv'
    BY Zenon, <2>2 DEF SeenInv, Where, Notifiers
  <2>7. (KeptInv /\ ShownInv /\ SinceInv)'
    BY Zenon, <1>1, <2>1, <2>2, Frame
  <2>8. (LoadInv /\ FirstInv)'
    BY Zenon, <1>1, <2>1, <2>2 DEF LoadInv, FirstInv
  <2>9. Orderly => task.pc = "store"
    BY Zenon, <2>1 DEF SinceInv, Orderly
  <2>10. FreshInv'
    BY Zenon, <1>1, <1>4, <1>5, <2>1, <2>2, <2>3, <2>9
       DEF FreshInv, Orderly, Told, Dirtied, Pulled, Coming, UnderWay
  <2> QED
    BY Zenon, <2>4, <2>5, <2>6, <2>7, <2>8, <2>10
<1> QED
  BY Zenon, <1>13, <1>14, <1>15, <1>16, <1>17, <1>18, <1>19, <1>20, <1>21, <1>22, <1>23 DEF TaskStep

(* notify_subs, by the task or by a user, preserves the invariant.          *)
LEMMA NotifySteps ==
    ASSUME IInv, NEW n \in Notifiers, NotifyStep(n)
    PROVE  IInv'
<1> USE DEF IInv
<1>1. UNCHANGED <<version, suspended, pending, inner, value, vlock, hold, tasks, paused, wrote, pauses,
                  timely, disposed>>
  BY Zenon DEF NotifyStep, Clear, Swap, NotifySub, Wake, Restore, shared, suspense, history
<1>2. PICK y : /\ NotifierTo(n, y) /\ Turn(n)
               /\ \/ Clear(n) /\ Where(n) = "clear" /\ y = "swap"
                  \/ Swap(n) /\ Where(n) = "swap" /\ y = "subs"
                  \/ NotifySub(n) /\ Where(n) = "subs" /\ y = "wake"
                  \/ Wake(n) /\ Where(n) = "wake" /\ y = "restore"
                  \/ Restore(n) /\ Where(n) = "restore" /\ y = IF n = "task" THEN "next" ELSE "idle"
  BY Zenon DEF NotifyStep, Clear, Swap, NotifySub, Wake, Restore, NotifierAt, TaskAt, At, Where
<1>3. Turn(n) /\ Where(n) \in {"clear", "swap", "subs", "wake", "restore"}
  BY Zenon, <1>2
<1>4. /\ Where(n)' = y /\ \A m \in Notifiers : m # n => Where(m)' = Where(m)
      /\ \A b \in Actors : b # n => pc'[b] = pc[b]
      /\ pc' \in [Actors -> ActorPcs]
  BY Zenon, <1>2, Moves DEF TaskPcs, ActorPcs
<1>5. task \in TaskRecords
  BY Zenon DEF Types
<1>6. /\ task'.initial = task.initial /\ task'.first = task.first /\ task'.read = task.read
      /\ task'.this = task.this /\ SameFuture /\ task'.shown = task.shown
      /\ task'.pc = IF n = "task" THEN y ELSE task.pc
      /\ task' \in TaskRecords
  BY <1>2, <1>5 DEF NotifierTo, TaskTo, TaskPcs
<1>7. (n = "task" => task.pc = Where(n)) /\ (n # "task" => n \in Actors /\ pc[n] = Where(n) /\ pc'[n] = y)
  BY Zenon, <1>4 DEF Where, Notifiers, Actors
<1>y. y \in {"swap", "subs", "wake", "restore", "next", "idle"}
  BY Zenon, <1>2
<1>z. \A b \in Actors : IF b = n THEN pc[b] = Where(n) /\ pc'[b] = y ELSE pc'[b] = pc[b]
  BY Zenon, <1>4, <1>7, AsyncAssumption DEF Actors
<1>8. Solo'
  BY Zenon, <1>2, <1>3, <1>4, <1>7, Alone DEF NotifierTo
<1>9. LockInv' /\ SinceInv'
  BY Zenon, <1>1, <1>3, <1>6, <1>7, <1>y, <1>z, Frame DEF Actors
<1>10. ASSUME loading' => loading, set => set', Where(n) = "clear" => ~loading'
       PROVE  LoadInv'
  <2>1. \A u \in Users : pc[u] \in {"lock", "held", "clear"} /\ loading' => pc'[u] = pc[u]
    BY Zenon, <1>3, <1>10, <1>z DEF Actors
  <2>2. n = "task" => ~task.first
    BY Zenon, <1>3, <1>7 DEF FirstInv
  <2> QED
    BY Zenon, <1>1, <1>2, <1>3, <1>6, <1>7, <1>10, <2>1, <2>2 DEF LoadInv, Current
<1>11. ASSUME Serial
       PROVE  /\ ~Marking /\ ~Marking'
              /\ \A m \in Notifiers : m # n => ~Notifying(m) /\ ~Notifying(m)'
              /\ n # "task" => Yielded
  <2>1. \A b \in Actors : b # n => pc[b] = "idle"
    BY Zenon, <1>3, <1>11, Alone
  <2>2. n # "task" => Yielded
    BY Zenon, <1>3, <1>11 DEF Serial, Turn
  <2>3. ~Marking /\ ~Marking'
    BY Zenon, <1>3, <1>y, <1>z, <2>1 DEF Marking, Actors
  <2>4. ASSUME NEW m \in Notifiers, m # n PROVE ~Notifying(m) /\ ~Notifying(m)'
    BY Zenon, <1>4, <2>1, <2>2, <2>4 DEF Notifying, Where, Yielded, Notifiers, Actors
  <2> QED
    BY Zenon, <2>2, <2>3, <2>4
<1>12. /\ src \in 1 .. MaxVersion /\ memo \in [on : BOOLEAN, at : 1 .. MaxVersion, dirty : BOOLEAN]
       /\ state \in States /\ set \in BOOLEAN /\ prev \in [Notifiers -> States]
       /\ took \in [Notifiers -> SUBSET (Awaiters \cup Handles)] /\ wakers \subseteq Awaiters \cup Handles
       /\ sub \in [dirty : BOOLEAN, saw : [by : Notifiers, of : 0 .. MaxVersion]]
       /\ await \in [Awaiters -> {"runnable", "asleep", "done"}]
       /\ waiter \in [Handles -> {"none", "runnable", "asleep"}] /\ loading \in BOOLEAN
  BY Zenon DEF Types, TypeOK, States
<1>13. ASSUME src' \in 1 .. MaxVersion,
              memo' \in [on : BOOLEAN, at : 1 .. MaxVersion, dirty : BOOLEAN],
              state' \in States, set' \in BOOLEAN, prev' \in [Notifiers -> States],
              took' \in [Notifiers -> SUBSET (Awaiters \cup Handles)],
              wakers' \subseteq Awaiters \cup Handles, loading' \in BOOLEAN,
              sub' \in [dirty : BOOLEAN, saw : [by : Notifiers, of : 0 .. MaxVersion]],
              await' \in [Awaiters -> {"runnable", "asleep", "done"}],
              waiter' \in [Handles -> {"none", "runnable", "asleep"}]
       PROVE  Types'
  BY Zenon, <1>1, <1>4, <1>6, <1>13 DEF Types, TypeOK, States
<1>14. ASSUME UNCHANGED waiter PROVE HoldInv' /\ KeptInv' /\ ShownInv'
  <2>1. \A r \in Readers : pc'[r] \in {"check", "park"} <=> pc[r] \in {"check", "park"}
    BY Zenon, <1>3, <1>y, <1>z DEF Actors
  <2>2. /\ task.pc \in {"await", "finish"} => task'.pc \in {"await", "finish"}
        /\ task'.pc = "gone" => task.pc = "gone"
        /\ task'.pc = "await" => task.pc = "await"
    BY Zenon, <1>2, <1>3, <1>6, <1>7
  <2> QED
    BY Zenon, <1>1, <1>6, <1>14, <2>1, <2>2, Frame
(* On one thread the source has not changed, and a mark is not lost.        *)
<1>15. ASSUME set => set', memo' = memo, Orderly => (src' = src /\ (Dirtied => Dirtied'))
       PROVE  FirstInv' /\ FreshInv'
  <2>1. (n = "task" => ~task.first) /\ (task'.pc # task.pc => n = "task")
    BY Zenon, <1>3, <1>6, <1>7 DEF FirstInv
  <2>2. FirstInv'
    BY Zenon, <1>2, <1>6, <1>11, <1>15, <2>1 DEF FirstInv, Orderly
  <2>3. ASSUME Orderly
        PROVE  /\ (Told => Told') /\ (Coming => Coming') /\ (UnderWay' <=> UnderWay)
               /\ \A u \in Users : pc[u] \in {"lock", "held"} => pc'[u] = pc[u]
    <3>1. (Told => Told') /\ \A u \in Users : pc[u] \in {"lock", "held"} => pc'[u] = pc[u]
      BY Zenon, <1>3, <1>11, <1>15, <1>z, <2>3 DEF Orderly, Told, Pulled, Actors
    <3>2. (Coming => Coming') /\ (UnderWay' <=> UnderWay)
      BY Zenon, <1>1, <1>2, <1>3, <1>6, <1>7, <1>11, <2>1, <2>3 DEF Orderly, Coming, UnderWay, Current, Yielded
    <3> QED
      BY Zenon, <3>1, <3>2
  <2>4. FreshInv'
    BY Zenon, <1>1, <1>6, <1>15, <2>3 DEF FreshInv
  <2> QED
    BY Zenon, <2>2, <2>4
(* The wakers change hands.                                                 *)
<1>16. CASE Clear(n) /\ Where(n) = "clear" /\ y = "swap"
  <2>1. /\ UNCHANGED <<src, memo, state, set, prev, await, waiter, sub>> /\ loading' = FALSE
        /\ took' = [took EXCEPT ![n] = wakers] /\ wakers' = {}
    BY Zenon, <1>16 DEF Clear, suspense
  <2>2. Types'
    BY Zenon, <1>12, <1>13, <2>1
  <2>3. WakeInv'
    <3>1. took[n] = {} /\ took'[n] = wakers /\ \A m \in Notifiers : m # n => took'[m] = took[m]
      BY Zenon, <1>12, <1>16, <2>1 DEF WakeInv
    <3> QED
      BY <1>4, <1>16, <2>1, <3>1 DEF WakeInv
  <2>4. (SeenInv /\ NotifyInv)'
    BY Zenon, <1>1, <1>4, <1>16, <2>1, Frame DEF Notifying
  <2>5. MemoInv'
    BY Zenon, <1>11, <2>1 DEF MemoInv
  <2>6. Orderly => (Dirtied => Dirtied')
    BY Zenon, <1>4, <1>11, <1>16, <2>1 DEF Orderly, Dirtied, Notifying
  <2> QED
    BY Zenon, <1>8, <1>9, <1>10, <1>14, <1>15, <2>1, <2>2, <2>3, <2>4, <2>5, <2>6
(* The state is put aside.                                                  *)
<1>17. CASE Swap(n) /\ Where(n) = "swap" /\ y = "subs"
  <2>1. /\ UNCHANGED <<src, memo, set, loading, wakers, took, await, waiter, sub>>
        /\ prev' = [prev EXCEPT ![n] = state] /\ state' = "Notifying"
    BY Zenon, <1>17 DEF Swap, suspense
  <2>2. Types'
    BY Zenon, <1>12, <1>13, <2>1 DEF States
  <2>3. (WakeInv /\ SeenInv)'
    BY Zenon, <1>1, <1>4, <1>17, <2>1, Frame DEF Announcing, WakeInv
  <2>4. prev'[n] = state /\ \A m \in Notifiers : m # n => prev'[m] = prev[m]
    BY Zenon, <1>12, <2>1
  <2>5. NotifyInv'
    BY Zenon, <1>4, <1>11, <1>17, <2>1, <2>4 DEF NotifyInv, Notifying
  <2>6. MemoInv'
    BY Zenon, <1>11, <2>1 DEF MemoInv
  <2>7. Orderly => (Dirtied => Dirtied')
    BY Zenon, <1>4, <1>11, <1>17, <2>1, <2>4 DEF Orderly, Dirtied, Notifying
  <2> QED
    BY Zenon, <1>8, <1>9, <1>10, <1>14, <1>15, <1>17, <2>1, <2>2, <2>3, <2>5, <2>6, <2>7
(* The subscriber is told. What it writes to the source is not announced.   *)
<1>18. CASE NotifySub(n) /\ Where(n) = "subs" /\ y = "wake"
  <2>1. /\ UNCHANGED <<loading, wakers, prev, took, await, waiter>>
        /\ sub' = [sub EXCEPT !.dirty = TRUE]
    BY Zenon, <1>18 DEF NotifySub, suspense
  <2>2. \/ UNCHANGED <<src, memo, state, set>>
        \/ /\ Feedback /\ src < MaxVersion /\ src' = src + 1
           /\ IF memo.on THEN memo' = [memo EXCEPT !.dirty = TRUE] /\ MarkCheck
              ELSE MarkDirty /\ UNCHANGED memo
    BY Zenon, <1>18 DEF NotifySub
  <2>3. /\ (set => set') /\ set' \in BOOLEAN /\ state' \in States
        /\ memo'.on = memo.on /\ memo'.at = memo.at
        /\ memo' \in [on : BOOLEAN, at : 1 .. MaxVersion, dirty : BOOLEAN]
        /\ state = "Notifying" => state' = state
        /\ Feedback \/ (memo' = memo /\ src' = src)
    BY Zenon, <1>12, <2>2 DEF MarkCheck, MarkDirty, States
  <2>4. src' \in 1 .. MaxVersion /\ src <= src'
    <3>1. MaxVersion \in Nat /\ src \in 1 .. MaxVersion
      BY Zenon, <1>12, AsyncAssumption
    <3> QED
      BY <2>2, <3>1
  <2>5. sub'.dirty /\ sub' \in [dirty : BOOLEAN, saw : [by : Notifiers, of : 0 .. MaxVersion]]
    BY Zenon, <1>12, <2>1
  <2>6. Types'
    <3>1. /\ prev' \in [Notifiers -> States] /\ took' \in [Notifiers -> SUBSET (Awaiters \cup Handles)]
          /\ wakers' \subseteq Awaiters \cup Handles /\ loading' \in BOOLEAN
          /\ await' \in [Awaiters -> {"runnable", "asleep", "done"}]
          /\ waiter' \in [Handles -> {"none", "runnable", "asleep"}]
      BY Zenon, <1>12, <2>1
    <3> QED
      BY Zenon, <1>13, <2>3, <2>4, <2>5, <3>1
  <2>7. (WakeInv /\ SeenInv)'
    BY Zenon, <1>1, <1>4, <1>18, <2>1, <2>5, Frame DEF Announcing, WakeInv, SeenInv
  <2>8. NotifyInv'
    BY Zenon, <1>4, <1>11, <1>18, <2>1, <2>3 DEF NotifyInv, Notifying
  <2>9. MemoInv'
    BY <1>11, <1>12, <2>2, <2>3, <2>4 DEF MemoInv
  <2>10. FirstInv' /\ FreshInv'
    <3>1. CASE Feedback
      <4>1. (n = "task" => ~task.first) /\ (task'.pc # task.pc => n = "task")
        BY Zenon, <1>3, <1>6, <1>7 DEF FirstInv
      <4> QED
        BY Zenon, <1>1, <1>6, <1>18, <2>3, <3>1, <4>1 DEF FirstInv, FreshInv, Orderly
    <3>2. CASE ~Feedback
      <4>1. Orderly => (Dirtied => Dirtied')
        BY Zenon, <1>4, <1>11, <1>18, <2>1, <2>3, <2>8 DEF Orderly, Dirtied, Notifying, NotifyInv
      <4> QED
        BY Zenon, <1>15, <2>3, <3>2, <4>1
    <3> QED
      BY Zenon, <3>1, <3>2
  <2> QED
    BY Zenon, <1>8, <1>9, <1>10, <1>14, <1>18, <2>1, <2>3, <2>6, <2>7, <2>8, <2>9, <2>10
(* Those whose wakers were taken are woken.                                 *)
<1>19. CASE Wake(n) /\ Where(n) = "wake" /\ y = "restore"
  <2>1. /\ UNCHANGED <<src, memo, state, set, loading, wakers, prev, sub>>
        /\ await' = [a \in Awaiters |-> IF a \in took[n] THEN "runnable" ELSE await[a]]
        /\ waiter' = [h \in Handles |-> IF h \in took[n] THEN "runnable" ELSE waiter[h]]
        /\ took' = [took EXCEPT ![n] = {}]
    BY Zenon, <1>19 DEF Wake, shared
  <2>2. Types'
    <3>1. await' \in [Awaiters -> {"runnable", "asleep", "done"}]
      BY Zenon, <1>12, <2>1
    <3>2. waiter' \in [Handles -> {"none", "runnable", "asleep"}]
      BY Zenon, <1>12, <2>1
    <3> QED
      BY Zenon, <1>12, <1>13, <2>1, <3>1, <3>2
  <2>3. took'[n] = {} /\ \A m \in Notifiers : m # n => took'[m] = took[m]
    BY Zenon, <1>12, <2>1
  <2>4. /\ \A h \in Handles : h \in took[n] => waiter[h] = "asleep" /\ waiter'[h] = "runnable"
        /\ \A h \in Handles : h \notin took[n] => waiter'[h] = waiter[h]
        /\ \A a \in Awaiters : a \in took[n] => await'[a] = "runnable"
        /\ \A a \in Awaiters : a \notin took[n] => await'[a] = await[a]
    BY Zenon, <2>1 DEF WakeInv
  <2>5. WakeInv'
    BY <1>4, <1>19, <2>1, <2>3, <2>4 DEF WakeInv
  <2>6. HoldInv'
    <3>1. \A r \in Readers : pc'[r] \in {"check", "park"} <=> pc[r] \in {"check", "park"}
      BY Zenon, <1>3, <1>y, <1>z DEF Actors
    <3>2. \A r \in Readers : hold[r] # None => hold[r] \in Handles
      BY Zenon DEF Types, TypeOK
    <3> QED
      BY <1>1, <2>4, <3>1, <3>2 DEF HoldInv
  <2>7. KeptInv' /\ ShownInv'
    <3>1. /\ task.pc \in {"await", "finish"} => task'.pc \in {"await", "finish"}
          /\ task'.pc = "gone" => task.pc = "gone"
          /\ task'.pc = "await" => task.pc = "await"
      BY Zenon, <1>2, <1>3, <1>6, <1>7
    <3>2. tasks \subseteq Handles
      BY Zenon DEF Types, TypeOK
    <3>3. \A h \in tasks : waiter'[h] # "none" <=> waiter[h] # "none"
      BY Zenon, <2>4, <3>2
    <3> QED
      BY <1>1, <1>6, <3>1, <3>3 DEF KeptInv, ShownInv, Current
  <2>8. (SeenInv /\ NotifyInv)'
    BY Zenon, <1>1, <1>4, <1>19, <2>1, Frame DEF Notifying
  <2>9. MemoInv'
    BY Zenon, <1>11, <2>1 DEF MemoInv
  <2>10. Orderly => (Dirtied => Dirtied')
    BY Zenon, <1>4, <1>11, <1>19, <2>1 DEF Orderly, Dirtied, Notifying
  <2> QED
    BY Zenon, <1>8, <1>9, <1>10, <1>15, <1>19, <2>1, <2>2, <2>5, <2>6, <2>7, <2>8, <2>9, <2>10
(* The state is put back.                                                   *)
<1>20. CASE Restore(n) /\ Where(n) = "restore" /\ y = IF n = "task" THEN "next" ELSE "idle"
  <2>1. /\ UNCHANGED <<src, memo, set, loading, wakers, prev, took, await, waiter, sub>>
        /\ state' = prev[n]
    BY Zenon, <1>20 DEF Restore, suspense
  <2>2. Types'
    BY Zenon, <1>12, <1>13, <2>1
  <2>3. (WakeInv /\ SeenInv)'
    BY Zenon, <1>1, <1>4, <1>20, <2>1, Frame DEF Announcing, WakeInv
  <2>4. NotifyInv'
    BY Zenon, <1>4, <1>11, <1>20, <2>1 DEF NotifyInv, Notifying
  <2>5. MemoInv'
    BY Zenon, <1>11, <2>1 DEF MemoInv
  <2>6. Orderly => (Dirtied => Dirtied')
    BY Zenon, <1>4, <1>11, <1>20, <2>1 DEF Orderly, Dirtied, Notifying, NotifyInv
  <2> QED
    BY Zenon, <1>8, <1>9, <1>10, <1>14, <1>15, <1>20, <2>1, <2>2, <2>3, <2>4, <2>5, <2>6
<1> QED
  BY Zenon, <1>2, <1>16, <1>17, <1>18, <1>19, <1>20

(* What the users do to the value preserves the invariant.                  *)
LEMMA UserSteps ==
    ASSUME IInv, NEW u \in Users, Write(u) \/ LockValue(u) \/ DropGuard(u)
    PROVE  IInv'
<1> USE DEF IInv
<1>1. UNCHANGED <<src, memo, state, suspended, set, loading, wakers, task, prev, took, hold, await, waiter,
                  sub, paused, pauses, timely, disposed>>
  BY Zenon DEF Write, LockValue, DropGuard, suspense, history
<1>2. PICK y \in {"lock", "held", "clear", "idle"} :
         /\ To(u, y) /\ Turn(u)
         /\ \/ Write(u) /\ pc[u] = "idle" /\ y = "lock"
            \/ LockValue(u) /\ pc[u] = "lock" /\ y = "held"
            \/ DropGuard(u) /\ pc[u] = "held" /\ y = IF Untracked THEN "idle" ELSE "clear"
  BY Zenon DEF Write, LockValue, DropGuard, At
<1>3. /\ u \in Actors /\ pc'[u] = y /\ \A b \in Actors : b # u => pc'[b] = pc[b]
      /\ pc' \in [Actors -> ActorPcs]
  BY Zenon, <1>2, Moves DEF Actors, ActorPcs
<1>4. Solo'
  BY Zenon, <1>1, <1>2, <1>3, Alone
<1>5. pc[u] \in {"idle", "lock", "held"}
  BY Zenon, <1>2
<1>6. \A n \in Notifiers : Where(n)' = IF n = u THEN y ELSE Where(n)
  BY Zenon, <1>1, <1>3, AsyncAssumption DEF Where, Notifiers, Actors
<1>7. Where(u) = pc[u] /\ u \in Notifiers
  BY Zenon, AsyncAssumption DEF Where, Notifiers
<1>8. HoldInv'
  BY Zenon, <1>1, <1>3, <1>5, Frame DEF Actors
<1>9. WakeInv'
  BY Zenon, <1>1, <1>5, <1>6, <1>7, Frame DEF Announcing, WakeInv
<1>10. \A n \in Notifiers : Notifying(n)' <=> Notifying(n)
  BY Zenon, <1>5, <1>6, <1>7 DEF Notifying
<1>11. Marking' <=> Marking
  BY Zenon, <1>3, <1>5 DEF Marking, Actors
<1>12. (NotifyInv /\ MemoInv /\ FirstInv)'
  BY Zenon, <1>1, <1>10, <1>11, Frame
<1>13. ASSUME version' \in Nat, wrote' \in Nat, pending' \cup tasks' \subseteq Handles,
              inner' \in Users \cup {None}, vlock' \in Users \cup {None},
              value' \in [by : Notifiers, of : 0 .. MaxVersion]
       PROVE  Types'
  BY Zenon, <1>1, <1>3, <1>13 DEF Types, TypeOK
<1>14. /\ version \in Nat /\ wrote \in Nat /\ pending \cup tasks \subseteq Handles
       /\ inner \in Users \cup {None} /\ vlock \in Users \cup {None} /\ src \in 1 .. MaxVersion
       /\ value \in [by : Notifiers, of : 0 .. MaxVersion] /\ task.this \in Nat
  BY Zenon DEF Types, TypeOK
(* What is loading is now out of date, and its handles are dropped.         *)
<1>15. CASE Write(u) /\ pc[u] = "idle" /\ y = "lock"
  <2>1. /\ version' = version + 1 /\ wrote' = wrote + 1 /\ tasks' = tasks \ pending /\ pending' = {}
        /\ inner' = u /\ UNCHANGED <<value, vlock>>
    BY Zenon, <1>15 DEF Write
  <2>2. version' \in Nat /\ wrote' \in Nat
    BY <1>14, <2>1
  <2>3. Types'
    BY Zenon, <1>13, <1>14, <2>1, <2>2
  <2>4. ~Current' /\ task'.this <= version'
    <3>1. task' = task /\ task.this <= version
      BY Zenon, <1>1, <1>3 DEF ShownInv
    <3> QED
      BY <1>14, <2>1, <3>1 DEF Current
  <2>5. Serial => Yielded
    BY Zenon, <1>2, AsyncAssumption DEF Serial, Turn
  <2>6. (LockInv /\ SeenInv)'
    BY Zenon, <1>1, <1>3, <1>6, <1>7, <1>15, <2>1, Frame DEF Actors
  <2>7. (KeptInv /\ ShownInv)'
    BY Zenon, <1>1, <2>1, <2>4 DEF KeptInv, ShownInv
  <2>8. LoadInv'
    BY Zenon, <1>3, <1>15 DEF LoadInv
  <2>9. (SinceInv /\ FreshInv)'
    BY Zenon, <1>1, <1>3, <1>15, <2>4, <2>5 DEF SinceInv, FreshInv, Orderly, UnderWay, Yielded
  <2> QED
    BY Zenon, <1>4, <1>8, <1>9, <1>12, <2>3, <2>6, <2>7, <2>8, <2>9
(* The guard is made.                                                       *)
<1>16. CASE LockValue(u) /\ pc[u] = "lock" /\ y = "held"
  <2>1. vlock = None /\ vlock' = u /\ inner' = None /\ UNCHANGED <<version, wrote, tasks, pending, value>>
    BY Zenon, <1>16 DEF LockValue, suspense, history
  <2>2. Types'
    BY Zenon, <1>13, <1>14, <2>1
  <2>3. LockInv'
    BY Zenon, <1>3, <1>16, <2>1, AsyncAssumption DEF LockInv, Actors
  <2>4. (SeenInv /\ KeptInv /\ ShownInv /\ SinceInv)'
    BY Zenon, <1>1, <1>6, <1>7, <1>16, <2>1, Frame
  <2>5. LoadInv'
    BY Zenon, <1>1, <1>3, <1>16, <2>1, Frame DEF Writing, Actors
  <2>6. FreshInv'
    BY Zenon, <1>1, <1>3, <1>10, <1>11, <1>16, <2>1, Frame DEF Actors
  <2> QED
    BY Zenon, <1>4, <1>8, <1>9, <1>12, <2>2, <2>3, <2>4, <2>5, <2>6
(* The value is assigned, and will be announced.                            *)
<1>17. CASE DropGuard(u) /\ pc[u] = "held" /\ y = IF Untracked THEN "idle" ELSE "clear"
  <2>1. value' = Result(u, src) /\ vlock' = None /\ UNCHANGED <<version, wrote, tasks, pending, inner>>
    BY Zenon, <1>17 DEF DropGuard, suspense, history
  <2>2. value'.of = src /\ value' \in [by : Notifiers, of : 0 .. MaxVersion]
    BY <1>7, <1>14, <2>1 DEF Result
  <2>3. Types'
    BY Zenon, <1>13, <1>14, <2>1, <2>2
  <2>4. LockInv'
    BY Zenon, <1>3, <1>17, <2>1, AsyncAssumption DEF LockInv, Actors
  <2>5. SeenInv'
    BY Zenon, <1>6, <1>7, <1>17 DEF SeenInv, Notified
  <2>6. (KeptInv /\ ShownInv /\ SinceInv)'
    BY Zenon, <1>1, <2>1, Frame
  <2>7. LoadInv'
    BY Zenon, <1>3, <1>17 DEF LoadInv, Notified
  <2>8. FreshInv'
    BY Zenon, <1>1, <1>10, <1>11, <2>1, <2>2
       DEF FreshInv, Orderly, Told, Dirtied, Pulled, UnderWay, Current
  <2> QED
    BY Zenon, <1>4, <1>8, <1>9, <1>12, <2>3, <2>4, <2>5, <2>6, <2>7, <2>8
<1> QED
  BY Zenon, <1>2, <1>15, <1>16, <1>17

(* Reading the value and waiting for it preserve the invariant.             *)
LEMMA ReaderSteps ==
    ASSUME IInv, \/ \E r \in Readers : ReadBegin(r) \/ ReadStep(r)
                 \/ \E h \in Handles : PollReady(h)
                 \/ \E a \in Awaiters : PollAwait(a)
    PROVE  IInv'
<1> USE DEF IInv
<1>1. UNCHANGED <<src, memo, state, version, inner, set, value, vlock, loading, task, prev, took, sub,
                  paused, wrote, pauses, timely, disposed>>
  BY Zenon DEF ReadBegin, ReadStep, ReadCheck, ReadPark, ReadEnlist, PollReady, PollAwait, shared, suspense, history
<1>2. ASSUME Solo', pc' \in [Actors -> ActorPcs],
             \A b \in Actors : \/ pc'[b] = pc[b]
                               \/ {pc[b], pc'[b]} \subseteq {"idle", "check", "park", "enlist"}
      PROVE  /\ LockInv' /\ LoadInv' /\ SinceInv' /\ SeenInv' /\ NotifyInv' /\ MemoInv' /\ FirstInv' /\ FreshInv'
             /\ \A n \in Notifiers : Where(n) \in Announcing => Where(n)' \in Announcing
             /\ (hold' \in [Readers -> Handles \cup {None}] /\ pending' \cup tasks' \subseteq Handles
                 /\ wakers' \subseteq Awaiters \cup Handles
                 /\ await' \in [Awaiters -> {"runnable", "asleep", "done"}]
                 /\ waiter' \in [Handles -> {"none", "runnable", "asleep"}] /\ suspended' \in BOOLEAN) => Types'
  <2>1. \A n \in Notifiers : \/ Where(n)' = Where(n)
                             \/ {Where(n), Where(n)'} \subseteq {"idle", "check", "park", "enlist"}
    BY Zenon, <1>1, <1>2 DEF Where, Notifiers, Actors
  <2>2. (Marking' <=> Marking) /\ \A n \in Notifiers : Notifying(n)' <=> Notifying(n)
    BY Zenon, <1>2, <2>1 DEF Marking, Notifying, Actors
  <2>3. \A v \in Users : /\ pc'[v] = "held" <=> pc[v] = "held"
                         /\ pc[v] \in Writing => pc'[v] \in Writing
                         /\ pc[v] \in {"lock", "held"} => pc'[v] \in {"lock", "held"}
    BY Zenon, <1>2 DEF Writing, Actors
  <2>4. LockInv' /\ LoadInv' /\ SinceInv' /\ NotifyInv' /\ MemoInv' /\ FirstInv' /\ FreshInv'
    BY Zenon, <1>1, <2>2, <2>3, Frame
  <2>5. SeenInv' /\ \A n \in Notifiers : Where(n) \in Announcing => Where(n)' \in Announcing
    BY Zenon, <1>1, <2>1, Frame DEF Announcing
  <2>6. (hold' \in [Readers -> Handles \cup {None}] /\ pending' \cup tasks' \subseteq Handles
                 /\ wakers' \subseteq Awaiters \cup Handles
                 /\ await' \in [Awaiters -> {"runnable", "asleep", "done"}]
                 /\ waiter' \in [Handles -> {"none", "runnable", "asleep"}] /\ suspended' \in BOOLEAN) => Types'
    BY Zenon, <1>1, <1>2 DEF Types, TypeOK
  <2> QED
    BY Zenon, <2>4, <2>5, <2>6
<1>3. /\ hold \in [Readers -> Handles \cup {None}] /\ pending \cup tasks \subseteq Handles
      /\ wakers \subseteq Awaiters \cup Handles /\ await \in [Awaiters -> {"runnable", "asleep", "done"}]
      /\ waiter \in [Handles -> {"none", "runnable", "asleep"}] /\ suspended \in BOOLEAN
      /\ pc \in [Actors -> ActorPcs] /\ task.this \in Nat
  BY Zenon DEF Types, TypeOK
<1>n. None \notin tasks
  BY Zenon, <1>3, AsyncAssumption
<1>4. UNCHANGED pc => Solo'
  BY Zenon, <1>1 DEF Solo, Yielded
<1>5. ASSUME NEW r \in Readers, NEW x \in {"check", "park", "enlist", "idle"}, Turn(r), To(r, x),
             pc[r] \in {"check", "park", "enlist", "idle"}
      PROVE  /\ Solo' /\ pc' \in [Actors -> ActorPcs]
             /\ r \in Actors /\ pc'[r] = x /\ \A b \in Actors : b # r => pc'[b] = pc[b]
             /\ \A b \in Actors : \/ pc'[b] = pc[b]
                                  \/ {pc[b], pc'[b]} \subseteq {"idle", "check", "park", "enlist"}
  <2>1. /\ r \in Actors /\ pc'[r] = x /\ \A b \in Actors : b # r => pc'[b] = pc[b]
        /\ pc' \in [Actors -> ActorPcs]
    BY Zenon, <1>5, Moves DEF Actors, ActorPcs
  <2> QED
    BY Zenon, <1>1, <1>5, <2>1, Alone
(* A new handle, held by the reader alone                                   *)
<1>6. ASSUME NEW r \in Readers, ReadBegin(r) PROVE IInv'
  <2>1. /\ To(r, "check") /\ Turn(r) /\ pc[r] = "idle" /\ UNCHANGED <<await, waiter, pending, wakers, suspended>>
    BY Zenon, <1>6 DEF ReadBegin, At, shared
  <2>2. PICK h \in Handles : Free(h) /\ tasks' = tasks \cup {h} /\ hold' = [hold EXCEPT ![r] = h]
    BY Zenon, <1>6 DEF ReadBegin
  <2>3. hold'[r] = h /\ \A q \in Readers : q # r => hold'[q] = hold[q]
    BY Zenon, <1>3, <2>2
  <2>4. hold[r] = None /\ h # None /\ h \notin tasks /\ waiter[h] = "none" /\ \A q \in Readers : hold[q] # h
    BY Zenon, <2>1, <2>2, AsyncAssumption DEF HoldInv, Free
  <2>5. Types'
    BY Zenon, <1>2, <1>3, <1>5, <2>1, <2>2
  <2>6. HoldInv'
    <3>1. pc'[r] = "check" /\ \A q \in Readers : q # r => pc'[q] = pc[q]
      BY Zenon, <1>5, <2>1 DEF Actors
    <3>2. \A q \in Readers : hold'[q] # None <=> pc'[q] \in {"check", "park"}
      BY <2>3, <2>4, <3>1 DEF HoldInv
    <3>3. \A q \in Readers : hold'[q] # None => waiter'[hold'[q]] = "none"
      BY Zenon, <2>1, <2>3, <2>4 DEF HoldInv
    <3>4. \A q, p \in Readers : q # p /\ hold'[q] # None => hold'[q] # hold'[p]
      BY <2>3, <2>4 DEF HoldInv
    <3> QED
      BY Zenon, <3>2, <3>3, <3>4 DEF HoldInv
  <2>7. (KeptInv /\ ShownInv)'
    <3>1. \A q \in Readers : hold[q] # None => hold'[q] = hold[q]
      BY Zenon, <2>3, <2>4
    <3>2. ASSUME NEW g \in tasks, \E q \in Readers : hold[q] = g
          PROVE  \E q \in Readers : hold'[q] = g
      <4>1. PICK q \in Readers : hold[q] = g
        BY Zenon, <3>2
      <4>2. hold'[q] = g
        BY Zenon, <1>n, <3>1, <4>1
      <4> QED
        BY Zenon, <4>2
    <3>3. KeptInv'
      BY Zenon, <1>1, <2>1, <2>2, <2>3, <3>2 DEF KeptInv
    <3>4. ShownInv'
      <4>1. ASSUME NEW g \in tasks, waiter[g] = "none", \A q \in Readers : hold[q] # g
            PROVE  g \in tasks' /\ waiter'[g] = "none" /\ \A q \in Readers : hold'[q] # g
        BY Zenon, <2>1, <2>2, <2>3, <2>4, <4>1
      <4> QED
        BY Zenon, <1>1, <2>1, <4>1 DEF ShownInv, Current
    <3> QED
      BY Zenon, <3>3, <3>4
  <2>8. WakeInv'
    BY Zenon, <1>1, <1>2, <1>5, <2>1, Frame DEF WakeInv
  <2> QED
    BY Zenon, <1>2, <1>5, <2>1, <2>5, <2>6, <2>7, <2>8
(* It is kept if the value loads, and dropped if not.                       *)
<1>7. ASSUME NEW r \in Readers, ReadCheck(r) PROVE IInv'
  <2>1. PICK x \in {"park", "enlist"} :
           /\ To(r, x) /\ Turn(r) /\ pc[r] = "check" /\ UNCHANGED <<await, waiter, pending, wakers, suspended>>
           /\ \/ x = "park" /\ UNCHANGED <<tasks, hold>>
              \/ x = "enlist" /\ tasks' = tasks \ {hold[r]} /\ hold' = [hold EXCEPT ![r] = None]
    BY Zenon, <1>7 DEF ReadCheck, At, shared
  <2>2. /\ hold'[r] = (IF x = "park" THEN hold[r] ELSE None)
        /\ \A q \in Readers : q # r => hold'[q] = hold[q]
    BY Zenon, <1>3, <2>1
  <2>3. Types'
    BY Zenon, <1>2, <1>3, <1>5, <2>1
  <2>4. HoldInv'
    BY <1>5, <2>1, <2>2 DEF HoldInv, Actors
  <2>5. KeptInv'
    <3>1. ASSUME NEW g \in tasks', \E q \in Readers : hold[q] = g
          PROVE  \E q \in Readers : hold'[q] = g
      <4>1. PICK q \in Readers : hold[q] = g
        BY Zenon, <3>1
      <4>2. hold'[q] = g
        BY Zenon, <2>1, <2>2, <4>1
      <4> QED
        BY Zenon, <4>2
    <3>2. tasks' \subseteq tasks
      BY Zenon, <2>1
    <3> QED
      BY Zenon, <1>1, <2>1, <3>1, <3>2 DEF KeptInv
  <2>6. ShownInv'
    <3>1. \A h \in tasks : (\A q \in Readers : hold[q] # h) =>
             h \in tasks' /\ \A q \in Readers : hold'[q] # h
      BY Zenon, <1>n, <2>1, <2>2
    <3> QED
      BY Zenon, <1>1, <2>1, <3>1 DEF ShownInv, Current
  <2>7. WakeInv'
    <3>1. UNCHANGED <<wakers, waiter, await>>
      BY Zenon, <2>1
    <3>2. \A n \in Notifiers : Where(n) \in Announcing => Where(n)' \in Announcing
      BY Zenon, <1>2, <1>5, <2>1
    <3> QED
      BY Zenon, <1>1, <3>1, <3>2, Frame DEF WakeInv
  <2> QED
    BY Zenon, <1>2, <1>5, <2>1, <2>3, <2>4, <2>5, <2>6, <2>7
(* It passes to the task that waits for the value.                          *)
<1>8. ASSUME NEW r \in Readers, ReadPark(r) PROVE IInv'
  <2>1. /\ To(r, "enlist") /\ Turn(r) /\ pc[r] = "park" /\ UNCHANGED <<await, tasks, wakers, suspended>>
        /\ pending' = pending \cup {hold[r]} /\ waiter' = [waiter EXCEPT ![hold[r]] = "runnable"]
        /\ hold' = [hold EXCEPT ![r] = None]
    BY Zenon, <1>8 DEF ReadPark, At
  <2>2. hold'[r] = None /\ \A q \in Readers : q # r => hold'[q] = hold[q]
    BY Zenon, <1>3, <2>1
  <2>3. hold[r] \in Handles /\ waiter[hold[r]] = "none"
    BY Zenon, <1>3, <2>1 DEF HoldInv
  <2>4. waiter'[hold[r]] = "runnable" /\ \A h \in Handles : h # hold[r] => waiter'[h] = waiter[h]
    BY Zenon, <1>3, <2>1, <2>3
  <2>5. Types'
    BY Zenon, <1>2, <1>3, <1>5, <2>1, <2>3
  <2>6. HoldInv'
    BY <1>3, <1>5, <2>1, <2>2, <2>3, <2>4 DEF HoldInv, Actors
  <2>7. KeptInv'
    BY <1>1, <1>3, <2>1, <2>2, <2>4 DEF KeptInv
  <2>8. ShownInv'
    <3>1. \A h \in tasks : (\A q \in Readers : hold[q] # h) =>
             waiter'[h] = waiter[h] /\ \A q \in Readers : hold'[q] # h
      BY Zenon, <1>3, <1>n, <2>2, <2>4
    <3> QED
      BY <1>1, <2>1, <3>1 DEF ShownInv, Current
  <2>9. WakeInv'
    <3>1. \A n \in Notifiers : Where(n) \in Announcing => Where(n)' \in Announcing
      BY Zenon, <1>2, <1>5, <2>1
    <3> QED
      BY <1>1, <2>1, <2>3, <2>4, <3>1 DEF WakeInv, Announcing
  <2> QED
    BY Zenon, <1>2, <1>5, <2>1, <2>5, <2>6, <2>7, <2>8, <2>9
(* The context is remembered for the next load.                             *)
<1>9. ASSUME NEW r \in Readers, ReadEnlist(r) PROVE IInv'
  <2>1. /\ To(r, "idle") /\ Turn(r) /\ pc[r] = "enlist" /\ suspended' = TRUE
        /\ UNCHANGED <<await, tasks, waiter, pending, wakers, hold>>
    BY Zenon, <1>9 DEF ReadEnlist, At, suspense
  <2>2. Types'
    BY Zenon, <1>2, <1>3, <1>5, <2>1
  <2>3. HoldInv'
    BY Zenon, <1>5, <2>1, Frame DEF Actors
  <2>4. (KeptInv /\ ShownInv)'
    BY Zenon, <1>1, <2>1, Frame
  <2>5. WakeInv'
    BY Zenon, <1>1, <1>2, <1>5, <2>1, Frame DEF WakeInv
  <2> QED
    BY Zenon, <1>2, <1>5, <2>1, <2>2, <2>3, <2>4, <2>5
(* The task that waits registers its waker while the value loads, and drops *)
(* the handle if it does not.                                               *)
<1>10. ASSUME NEW h \in Handles, PollReady(h) PROVE IInv'
  <2>1. waiter[h] = "runnable" /\ UNCHANGED <<pc, hold, await, suspended>>
    BY Zenon, <1>10 DEF PollReady
  <2>2. \/ /\ loading /\ wakers' = wakers \cup {h} /\ waiter' = [waiter EXCEPT ![h] = "asleep"]
           /\ UNCHANGED <<tasks, pending>>
        \/ /\ waiter' = [waiter EXCEPT ![h] = "none"] /\ tasks' = tasks \ {h} /\ pending' = pending \ {h}
           /\ UNCHANGED wakers
    BY Zenon, <1>10 DEF PollReady
  <2>3. \A g \in Handles : g # h => waiter'[g] = waiter[g]
    BY Zenon, <1>3, <2>2
  <2>4. Types'
    BY Zenon, <1>2, <1>3, <1>4, <2>1, <2>2
  <2>5. HoldInv'
    BY <1>3, <2>1, <2>3 DEF HoldInv
  <2>6. KeptInv'
    BY Zenon, <1>1, <1>3, <2>1, <2>2, <2>3 DEF KeptInv
  <2>7. ShownInv'
    BY <1>1, <1>3, <2>1, <2>2, <2>3 DEF ShownInv, Current
  <2>8. WakeInv'
    <3>1. h \notin wakers /\ \A n \in Notifiers : h \notin took[n] /\ Where(n)' = Where(n)
      BY Zenon, <1>1, <2>1 DEF WakeInv, Where
    <3>2. CASE loading /\ wakers' = wakers \cup {h} /\ waiter' = [waiter EXCEPT ![h] = "asleep"]
      BY <1>1, <1>3, <2>1, <2>3, <3>1, <3>2 DEF WakeInv
    <3>3. CASE waiter' = [waiter EXCEPT ![h] = "none"] /\ UNCHANGED wakers
      BY <1>1, <1>3, <2>1, <2>3, <3>1, <3>3 DEF WakeInv
    <3> QED
      BY Zenon, <2>2, <3>2, <3>3
  <2> QED
    BY Zenon, <1>2, <1>3, <1>4, <2>1, <2>4, <2>5, <2>6, <2>7, <2>8
(* An awaiter registers its waker while the value loads. It does not, and   *)
(* sleeps all the same, if the value is being written.                      *)
<1>11. ASSUME NEW a \in Awaiters, PollAwait(a) PROVE IInv'
  <2>1. /\ Turn(None) /\ UNCHANGED <<pc, hold, tasks, waiter, pending>> /\ suspended' \in {suspended, TRUE}
        /\ await' = [await EXCEPT ![a] = IF ~loading /\ vlock = None THEN "done" ELSE "asleep"]
        /\ wakers' = IF loading THEN wakers \cup {a} ELSE wakers
    BY Zenon, <1>11 DEF PollAwait, suspense
  <2>2. Types'
    BY Zenon, <1>2, <1>3, <1>4, <2>1
  <2>3. (HoldInv /\ KeptInv /\ ShownInv)'
    BY Zenon, <1>1, <2>1, Frame
  <2>4. Serial \/ Users = {} => vlock = None
    <3>1. vlock \in Users \cup {None}
      BY Zenon DEF Types, TypeOK
    <3>2. Serial => \A b \in Actors : pc[b] = "idle"
      BY Zenon, <2>1, Alone, AsyncAssumption DEF Actors
    <3> QED
      BY Zenon, <3>1, <3>2 DEF LockInv, Actors
  <2>5. WakeInv'
    <3>1. \A n \in Notifiers : Where(n)' = Where(n)
      BY Zenon, <1>1, <2>1 DEF Where
    <3>2. a \notin Handles
      BY Zenon, AsyncAssumption
    <3>3. \A b \in Awaiters : await'[b] = "asleep" =>
             (b # a /\ await[b] = "asleep") \/ (b = a /\ (loading \/ vlock # None))
      BY Zenon, <1>3, <2>1
    <3> QED
      BY Zenon, <1>1, <2>1, <2>4, <3>1, <3>2, <3>3 DEF WakeInv
  <2> QED
    BY Zenon, <1>2, <1>3, <1>4, <2>1, <2>2, <2>3, <2>5
<1> QED
  BY Zenon, <1>6, <1>7, <1>8, <1>9, <1>10, <1>11 DEF ReadStep

(* The invariant holds throughout, for every value of the constants.        *)
THEOREM Invariance == Spec => []IInv
(* The task has been spawned, and nothing else has happened.                *)
<1>1. ASSUME Init PROVE IInv
  <2>1. PICK start \in Starts :
           LET ready == start \in {"signal, ready", "memo, ready"} IN
              /\ memo = [on |-> start \in {"memo", "memo, ready"}, at |-> 1, dirty |-> FALSE]
              /\ loading = ~ready /\ set = ~ready
              /\ value = IF ready THEN Result("task", 1) ELSE Result("task", 0)
              /\ task = [pc |-> "begin", initial |-> ~ready, first |-> ~ready, read |-> 1,
                         this |-> 0, since |-> 0, taken |-> 0, early |-> ~ready, shown |-> FALSE]
    BY Zenon, <1>1 DEF Init
  <2>2. 1 \in 1 .. MaxVersion /\ 0 \in 0 .. MaxVersion /\ 1 \in 0 .. MaxVersion
    <3>1. MaxVersion \in Nat /\ MaxVersion # 0
      BY Zenon, AsyncAssumption
    <3> QED
      BY <3>1
  <2>3. value \in [by : Notifiers, of : 0 .. MaxVersion]
    BY Zenon, <2>1, <2>2 DEF Result, Notifiers
  <2>4. /\ task.pc = "begin" /\ task.this = 0 /\ memo.at = 1 /\ ~memo.dirty
        /\ loading => task.first /\ set
    BY Zenon, <2>1
  <2>5. TypeOK
    <3>1. memo \in [on : BOOLEAN, at : 1 .. MaxVersion, dirty : BOOLEAN]
      <4> DEFINE isMemo == start \in {"memo", "memo, ready"}
      <4>1. isMemo \in BOOLEAN
        BY SMT
      <4>2. memo = [on |-> isMemo, at |-> 1, dirty |-> FALSE]
        BY Zenon, <2>1
      <4> HIDE DEF isMemo
      <4> QED
        BY Zenon, <2>2, <4>1, <4>2
    <3>2. /\ await \in [Awaiters -> {"runnable", "asleep", "done"}]
          /\ waiter \in [Handles -> {"none", "runnable", "asleep"}]
          /\ hold \in [Readers -> Handles \cup {None}]
      BY Zenon, <1>1 DEF Init
    <3> QED
      BY Zenon, <1>1, <2>2, <2>3, <3>1, <3>2 DEF Init, TypeOK
  <2>6. Types
    BY Zenon, <1>1, <2>1, <2>2, <2>3, <2>5 DEF Init, Types, TaskPcs, ActorPcs, States, Actors
  <2>7. \A n \in Notifiers : Where(n) \in {"begin", "idle"}
    BY Zenon, <1>1, <2>4 DEF Init, Where, Notifiers
  <2>8. (\A a \in Actors : pc[a] = "idle") /\ \A n \in Notifiers : ~Notifying(n)
    BY Zenon, <1>1, <2>7 DEF Init, Actors, Notifying
  <2>9. Solo /\ HoldInv /\ WakeInv /\ NotifyInv
    BY Zenon, <1>1, <2>7, <2>8 DEF Init, Solo, HoldInv, WakeInv, NotifyInv, Actors
  <2>10. LockInv
    BY Zenon, <1>1, <2>8, AsyncAssumption DEF Init, LockInv, Actors
  <2>11. version = 0 /\ src = 1 /\ tasks = {} /\ sub.saw = value
    BY Zenon, <1>1 DEF Init
  <2>12. KeptInv /\ ShownInv /\ SinceInv /\ SeenInv /\ LoadInv
    BY <2>4, <2>11 DEF KeptInv, ShownInv, SinceInv, SeenInv, LoadInv
  <2>13. MemoInv
    BY <2>4, <2>8, <2>11 DEF MemoInv, Marking, Actors
  <2>14. FirstInv
    BY Zenon, <1>1, <2>1, AsyncAssumption DEF Init, FirstInv
  <2>15. FreshInv
    BY Zenon, <1>1, <2>1 DEF Init, FreshInv, Result, Coming, UnderWay
  <2> QED
    BY Zenon, <2>6, <2>9, <2>10, <2>12, <2>13, <2>14, <2>15 DEF IInv
(* Steps that concern few variables; the others have lemmas of their own.   *)
<1>2. ASSUME IInv, [Next]_vars PROVE IInv'
  <2> USE DEF IInv
  <2>1. UNCHANGED <<pc, task>> =>
           /\ \A a \in Actors : pc'[a] = pc[a]
           /\ \A n \in Notifiers : Where(n)' = Where(n)
           /\ (Marking' <=> Marking) /\ \A n \in Notifiers : Notifying(n)' <=> Notifying(n)
           /\ Solo'
    BY Zenon, <1>2 DEF Where, Marking, Notifying, Solo, Yielded
  <2>2. CASE ReadSub
    <3>1. /\ sub' = [dirty |-> FALSE, saw |-> value]
          /\ UNCHANGED <<src, memo, state, version, suspended, pending, inner, set, value, vlock, loading,
                         wakers, task, pc, prev, took, hold, await, tasks, waiter, paused, wrote, pauses,
                         timely, disposed>>
      BY Zenon, <2>2 DEF ReadSub, shared, suspense, history
    <3>2. Types'
      BY Zenon, <1>2, <3>1 DEF Types, TypeOK
    <3>3. SeenInv'
      BY Zenon, <3>1 DEF SeenInv
    <3> QED
      BY Zenon, <1>2, <2>1, <3>1, <3>2, <3>3, Frame DEF WakeInv, Actors
  <2>3. CASE Pause
    <3>1. /\ paused' = ~paused /\ timely' = (timely /\ paused)
          /\ pauses' = IF paused THEN pauses ELSE pauses + 1
          /\ UNCHANGED <<src, memo, state, version, suspended, pending, inner, set, value, vlock, loading,
                         wakers, task, pc, prev, took, hold, await, tasks, waiter, sub, wrote, disposed>>
      BY Zenon, <2>3 DEF Pause, shared, suspense
    <3>2. Types'
      BY <1>2, <3>1 DEF Types, TypeOK
    <3>3. FreshInv'
      BY Zenon, <1>2, <3>1 DEF FreshInv, Types
    <3> QED
      BY Zenon, <1>2, <2>1, <3>1, <3>2, <3>3, Frame DEF WakeInv, Actors
  <2>4. CASE Dispose
    <3>1. /\ Yielded /\ disposed' = TRUE /\ task' = [task EXCEPT !.pc = "gone"]
          /\ tasks' \subseteq tasks /\ pending' \subseteq pending
          /\ UNCHANGED <<src, memo, state, version, suspended, inner, set, value, vlock, loading, wakers, pc,
                         prev, took, hold, await, waiter, sub, paused, wrote, pauses, timely>>
      BY Zenon, <2>4 DEF Dispose, TaskTo
    <3>2. /\ task'.pc = "gone" /\ task'.initial = task.initial /\ task'.first = task.first
          /\ task'.read = task.read /\ task'.this = task.this
          /\ SameFuture /\ task'.shown = task.shown
      BY Zenon, <1>2, <3>1 DEF Types
    <3>3. Types'
      BY Zenon, <1>2, <3>1 DEF Types, TypeOK, TaskPcs
    <3>4. \A n \in Notifiers : \/ Where(n)' = Where(n)
                               \/ Where(n) \in {"begin", "asleep", "await", "locked", "gone"} /\ Where(n)' = "gone"
      BY Zenon, <3>1, <3>2 DEF Where, Yielded
    <3>5. (HoldInv /\ LockInv /\ WakeInv /\ SeenInv /\ NotifyInv)'
      BY Zenon, <1>2, <3>1, <3>4, Frame DEF Announcing, Notifying, WakeInv
    <3>6. MemoInv' /\ Solo'
      BY Zenon, <1>2, <3>1, <3>2 DEF MemoInv, Marking, Solo, Yielded
    <3>7. (KeptInv /\ ShownInv /\ LoadInv /\ SinceInv /\ FirstInv /\ FreshInv)'
      BY Zenon, <1>2, <3>1, <3>2 DEF KeptInv, ShownInv, LoadInv, SinceInv, FirstInv, FreshInv
    <3> QED
      BY Zenon, <3>3, <3>5, <3>6, <3>7
  <2>5. CASE UNCHANGED vars
    <3>1. UNCHANGED <<src, memo, state, version, suspended, pending, inner, set, value, vlock, loading,
                      wakers, task, pc, prev, took, hold, await, tasks, waiter, sub, paused, wrote, pauses,
                      timely, disposed>>
      BY Zenon, <2>5 DEF vars, shared, suspense, history
    <3>2. Types'
      BY <1>2, <3>1 DEF Types, TypeOK
    <3> QED
      BY Zenon, <1>2, <2>1, <3>1, <3>2, Frame DEF WakeInv, Actors
  <2> QED
    BY Zenon, <1>2, <2>2, <2>3, <2>4, <2>5, WriterSteps, TaskSteps, NotifySteps, UserSteps, ReaderSteps DEF Next
<1> QED
  BY <1>1, <1>2, PTL DEF Spec

(* While a load is under way, a context that has read the value shows its   *)
(* fallback, on any number of threads.                                      *)
THEOREM FallbacksShown == Spec => []FallbackShown
<1>1. IInv => FallbackShown
  BY Zenon DEF IInv, ShownInv, FallbackShown, Current
<1> QED
  BY <1>1, Invariance, PTL

(* The handles of the suspense context are all dropped in the end, on any   *)
(* number of threads, if users announce what they write.                    *)
THEOREM HandlesDropped == Notified => (Spec => []SuspenseEmpties)
<1> SUFFICES ASSUME Notified PROVE Spec => []SuspenseEmpties
  OBVIOUS
<1>1. ASSUME IInv, Quiet, ~disposed PROVE tasks = {}
  <2> USE <1>1 DEF IInv
  <2>1. (\A a \in Actors : pc[a] = "idle") /\ task.pc = "asleep"
    BY Zenon DEF Quiet, Types, KeptInv
  <2>2. \A n \in Notifiers : Where(n) \in {"idle", "asleep"}
    BY Zenon, <2>1 DEF Where, Notifiers, Actors
  <2>3. ~loading
    BY Zenon, <2>1 DEF LoadInv, Actors
  <2>4. \A h \in Handles : waiter[h] = "none"
    <3>1. wakers = {} /\ \A n \in Notifiers : took[n] = {}
      BY Zenon, <2>2, <2>3 DEF WakeInv
    <3>2. \A h \in Handles : waiter[h] # "asleep"
      BY Zenon, <3>1 DEF WakeInv
    <3>3. \A h \in Handles : waiter[h] \in {"none", "runnable", "asleep"} /\ waiter[h] # "runnable"
      BY Zenon DEF Quiet, Types, TypeOK
    <3> QED
      BY Zenon, <3>2, <3>3
  <2>5. \A r \in Readers : hold[r] = None
    BY Zenon, <2>1 DEF HoldInv, Actors
  <2> QED
    <3>1. tasks \subseteq Handles /\ None \notin Handles
      BY Zenon, AsyncAssumption DEF Types, TypeOK
    <3> QED
      BY Zenon, <2>1, <2>4, <2>5, <3>1 DEF KeptInv
<1>2. IInv => SuspenseEmpties
  BY Zenon, <1>1 DEF SuspenseEmpties
<1> QED
  BY <1>2, Invariance, PTL

(* Everyone who awaits the value is woken, if users announce what they      *)
(* write, on one thread or where nobody but the task writes the value.      *)
THEOREM EveryoneWoken ==
    Notified /\ (Serial \/ Users = {}) => (Spec => []NobodyLeftAsleep)
<1> SUFFICES ASSUME Notified, Serial \/ Users = {} PROVE Spec => []NobodyLeftAsleep
  OBVIOUS
<1>1. ASSUME IInv, Quiet, ~disposed PROVE ~loading /\ \A a \in Awaiters : await[a] = "done"
  <2> USE <1>1 DEF IInv
  <2>1. (\A a \in Actors : pc[a] = "idle") /\ task.pc = "asleep"
    BY Zenon DEF Quiet, Types, KeptInv
  <2>2. \A n \in Notifiers : Where(n) \in {"idle", "asleep"}
    BY Zenon, <2>1 DEF Where, Notifiers, Actors
  <2>3. ~loading
    BY Zenon, <2>1 DEF LoadInv, Actors
  <2>4. \A a \in Awaiters : await[a] # "asleep"
    BY Zenon, <2>2, <2>3 DEF WakeInv
  <2> QED
    BY Zenon, <2>3, <2>4 DEF Quiet, Types, TypeOK
<1>2. IInv => NobodyLeftAsleep
  BY Zenon, <1>1 DEF NobodyLeftAsleep
<1> QED
  BY <1>2, Invariance, PTL

(* On one thread notify_subs puts the state back that it saved.             *)
THEOREM StatePutBack == Serial => (Spec => []NotifyingEnds)
<1> SUFFICES ASSUME Serial PROVE Spec => []NotifyingEnds
  OBVIOUS
<1>1. ASSUME IInv, Quiet PROVE state # "Notifying"
  <2>1. \A n \in Notifiers : Where(n) \in {"idle", "asleep", "gone"}
    BY Zenon, <1>1 DEF IInv, Quiet, Where, Notifiers, Types, Actors
  <2> QED
    BY Zenon, <1>1, <2>1 DEF IInv, NotifyInv, Notifying
<1>2. IInv => NotifyingEnds
  BY Zenon, <1>1 DEF NotifyingEnds
<1> QED
  BY <1>2, Invariance, PTL

(* On one thread, where no guard is kept across an await, no future's       *)
(* result replaces what a user has written since the task made the future   *)
(* or, for the future made at creation, since the task's first poll.        *)
THEOREM WritesKept == Serial => (Spec => WritesStand)
<1> SUFFICES ASSUME Serial PROVE Spec => WritesStand
  OBVIOUS
<1>1. IInv /\ Store => task.since = wrote \/ (task.early /\ task.taken = wrote)
  BY Zenon DEF IInv, SinceInv, Store, TaskAt
<1> QED
  BY <1>1, Invariance, PTL DEF Spec, WritesStand

(* On one thread the value goes with the latest source and the subscriber   *)
(* has seen it, if users announce what they write, no subscriber writes the *)
(* source, and the source is no memo with a first future that has to wait.  *)
THEOREM LatestShown == Orderly /\ Notified => (Spec => []UpToDate)
<1> SUFFICES ASSUME Orderly, Notified PROVE Spec => []UpToDate
  OBVIOUS
<1>1. ASSUME IInv, Quiet, ~disposed
      PROVE  (timely => value.of = src) /\ (~sub.dirty => sub.saw = value)
  <2> USE <1>1 DEF IInv
  <2>1. (\A a \in Actors : pc[a] = "idle") /\ task.pc = "asleep" /\ ~set
    BY Zenon DEF Quiet, Types, KeptInv
  <2>2. \A n \in Notifiers : Where(n) \in {"idle", "asleep"}
    BY Zenon, <2>1 DEF Where, Notifiers, Actors
  <2>3. ~Told /\ ~Coming /\ ~UnderWay
    BY Zenon, <2>1 DEF Told, Marking, Coming, UnderWay, FirstInv, Actors
  <2> QED
    BY Zenon, <2>1, <2>2, <2>3 DEF FreshInv, SeenInv, Actors
<1>2. IInv => UpToDate
  BY Zenon, <1>1 DEF UpToDate
<1> QED
  BY <1>2, Invariance, PTL

=============================================================================
