-------------------------- MODULE EffectTaskProofs --------------------------
(***************************************************************************)
(* Proofs about EffectTask, for any sets of sources, triggers and writer   *)
(* threads: the notification channel and the effect's task lose no update. *)
(*                                                                         *)
(* IInv is inductive.  For each action the conjuncts of IInv it can        *)
(* disturb have a step of their own; those whose variables it leaves alone *)
(* are taken together in the last step before QED.                         *)
(***************************************************************************)
EXTENDS EffectTask, TLAPS

(* effect_base: the effect is created dirty and notified, and its task is   *)
(* spawned, so that all that is owed to it is on its way.                   *)
LEMMA InitInv == Init => IInv
<1> SUFFICES ASSUME Init PROVE IInv
  OBVIOUS
<1> USE DEF Init
<1>1. TypeOK
  BY Zenon DEF TypeOK
<1>2. LockInv
  BY Zenon, EffectTaskAssumption DEF LockInv, Locking
<1>3. WakeInv /\  NeverAsleepOnFlag /\ DirtyInv /\ FirstInv /\ RunInv
  BY Zenon DEF WakeInv, NeverAsleepOnFlag, DirtyInv, FirstInv, RunInv,
         Alive, Marking, Locking
<1>4. SubsInv /\ SeenInv
  BY Zenon DEF SubsInv, SeenInv, Alive
<1> QED
  BY Zenon, <1>1, <1>2, <1>3, <1>4 DEF IInv

(* Every step of a writer thread, of the task and of the effect's owner     *)
(* preserves the invariant.                                                 *)
LEMMA NextInv == IInv /\ [Next]_vars => IInv'
<1> SUFFICES ASSUME IInv, [Next]_vars PROVE IInv'
  OBVIOUS
<1>1. ASSUME NEW w \in Writers, NEW s \in Sources, Write(w, s)
     PROVE  IInv'
  <2> USE <1>1 DEF Write, channel, run, owning
  <2>1. TypeOK'
    BY DEF IInv, TypeOK
  <2>2. LockInv'
    BY DEF IInv, LockInv, Locking
  <2>3. NeverAsleepOnFlag'
    BY DEF IInv, NeverAsleepOnFlag
  <2>4. DirtyInv'
    BY DEF IInv, DirtyInv, Alive, Marking, Locking
  <2>5. SubsInv'
    BY DEF IInv, OnItsWay, SubsInv, Alive, Marking, Locking
  <2>6. FirstInv'
    BY DEF IInv, FirstInv, Alive, Marking, Locking
  <2>7. RunInv'
    BY DEF IInv, RunInv, Alive, Marking, Locking
  <2>8. SeenInv'
    BY DEF IInv, TypeOK, SeenInv, Alive, Marking, Locking
  <2>9. WakeInv'
    BY Zenon DEF IInv, WakeInv
  <2> QED
    BY Zenon, <2>1, <2>2, <2>3, <2>4, <2>5, <2>6, <2>7, <2>8, <2>9 DEF IInv
<1>2. ASSUME NEW w \in Writers, CloneSubscribers(w)
     PROVE  IInv'
  <2> USE <1>2 DEF CloneSubscribers, TakeFrom, channel, owning
  <2>1. TypeOK'
    BY DEF IInv, TypeOK
  <2>2. LockInv'
    BY DEF IInv, LockInv, Locking
  <2>3. NeverAsleepOnFlag'
    BY DEF IInv, NeverAsleepOnFlag
  <2>4. DirtyInv'
    BY DEF IInv, DirtyInv, Alive, Marking, Locking
  <2>5. SubsInv'
    BY DEF IInv, OnItsWay, TypeOK, SubsInv, Alive, Marking, Locking
  <2>6. FirstInv'
    BY DEF IInv, FirstInv, Alive, Marking, Locking
  <2>7. RunInv'
    BY DEF IInv, RunInv, Alive, Marking, Locking
  <2>8. SeenInv'
    BY DEF IInv, SeenInv, SubsInv, FirstInv, Alive, Marking, Locking, OnItsWay
  <2>9. WakeInv'
    BY Zenon DEF IInv, WakeInv
  <2> QED
    BY Zenon, <2>1, <2>2, <2>3, <2>4, <2>5, <2>6, <2>7, <2>8, <2>9 DEF IInv
<1>3. ASSUME NEW w \in Writers, UpgradeSubscriber(w)
     PROVE  IInv'
  <2> USE <1>3 DEF UpgradeSubscriber, channel, run, owning
  <2>1. TypeOK'
    BY DEF IInv, TypeOK
  <2>2. LockInv'
    BY DEF IInv, LockInv, Locking
  <2>3. NeverAsleepOnFlag'
    BY DEF IInv, NeverAsleepOnFlag
  <2>4. DirtyInv'
    BY DEF IInv, DirtyInv, Alive, Marking, Locking
  <2>5. SubsInv'
    BY DEF IInv, OnItsWay, SubsInv, Alive, Marking, Locking
  <2>6. FirstInv'
    BY DEF IInv, FirstInv, Alive, Marking, Locking
  <2>7. RunInv'
    BY DEF IInv, RunInv, Alive, Marking, Locking
  <2>8. SeenInv'
    BY DEF IInv, SeenInv, Alive, Marking, Locking
  <2>9. WakeInv'
    BY Zenon DEF IInv, WakeInv
  <2> QED
    BY Zenon, <2>1, <2>2, <2>3, <2>4, <2>5, <2>6, <2>7, <2>8, <2>9 DEF IInv
<1>4. ASSUME NEW w \in Writers, MarkDirty(w)
     PROVE  IInv'
  <2> USE <1>4 DEF MarkDirty, channel, run, owning
  <2>1. TypeOK'
    BY DEF IInv, TypeOK
  <2>2. LockInv'
    BY Zenon, EffectTaskAssumption DEF IInv, TypeOK, LockInv, Locking
  <2>3. NeverAsleepOnFlag'
    BY DEF IInv, NeverAsleepOnFlag
  <2>4. DirtyInv'
    BY Zenon DEF IInv, TypeOK, DirtyInv
  <2>5. SubsInv'
    BY Zenon DEF IInv, SubsInv, Alive, Marking
  <2>6. FirstInv'
    BY Zenon DEF IInv, FirstInv
  <2>7. RunInv'
    BY Zenon DEF IInv, RunInv, Alive, Marking
  <2>8. SeenInv'
    BY Zenon DEF IInv, SeenInv
  <2>9. WakeInv'
    BY Zenon DEF IInv, WakeInv
  <2> QED
    BY Zenon, <2>1, <2>2, <2>3, <2>4, <2>5, <2>6, <2>7, <2>8, <2>9 DEF IInv
<1>5. ASSUME NEW w \in Writers, NotifyStore(w)
     PROVE  IInv'
  <2> USE <1>5 DEF NotifyStore, run, owning
  <2>1. TypeOK'
    BY DEF IInv, TypeOK
  <2>2. LockInv'
    BY DEF IInv, LockInv, Locking
  <2>3. NeverAsleepOnFlag'
    BY Zenon DEF IInv, TypeOK, NeverAsleepOnFlag
  <2>4. DirtyInv'
    BY Zenon DEF IInv, DirtyInv
  <2>5. SubsInv'
    BY DEF IInv, OnItsWay, SubsInv, Alive, Marking, Locking
  <2>6. FirstInv'
    BY Zenon DEF IInv, FirstInv, Alive, Marking, Locking
  <2>7. RunInv'
    BY Zenon DEF IInv, RunInv, Alive, Marking, Locking
  <2>8. SeenInv'
    BY DEF IInv, SeenInv, Alive, Marking, Locking
  <2>9. WakeInv'
    BY Zenon DEF IInv, WakeInv
  <2> QED
    BY Zenon, <2>1, <2>2, <2>3, <2>4, <2>5, <2>6, <2>7, <2>8, <2>9 DEF IInv
<1>6. ASSUME NEW w \in Writers, NotifyWake(w)
     PROVE  IInv'
  <2> USE <1>6 DEF NotifyWake, Wake, run, owning
  <2>1. TypeOK'
    <3>1. queued' \in BOOLEAN /\ waker' \in BOOLEAN
      BY Zenon DEF IInv, TypeOK
    <3>2. writer' \in [Writers -> [pc: {"idle", "written", "cloned", "upgraded",
                                      "locked", "stored", "notified"},
                                 source: Sources \cup {Nobody}]]
      BY Zenon DEF IInv, TypeOK
    <3> QED
      BY <3>1, <3>2, ZenonT(60) DEF IInv, TypeOK
  <2>2. LockInv'
    BY DEF IInv, LockInv, Locking
  <2>3. WakeInv'
    BY Zenon DEF IInv, WakeInv
  <2>4. NeverAsleepOnFlag'
    BY Zenon DEF IInv, NeverAsleepOnFlag, WakeInv
  <2>5. DirtyInv'
    BY DEF IInv, DirtyInv, Alive, Marking, Locking
  <2>6. SubsInv'
    BY DEF IInv, OnItsWay, SubsInv, Alive, Marking, Locking
  <2>7. FirstInv'
    BY Zenon DEF IInv, FirstInv, Alive, Marking, Locking
  <2>8. RunInv'
    BY Zenon DEF IInv, RunInv, Alive, Marking, Locking
  <2>9. SeenInv'
    BY DEF IInv, SeenInv, Alive, Marking, Locking
  <2> QED
    BY Zenon, <2>1, <2>2, <2>3, <2>4, <2>5, <2>6, <2>7, <2>8, <2>9 DEF IInv
<1>7. ASSUME NEW w \in Writers, Release(w)
     PROVE  IInv'
  <2> USE <1>7 DEF Release, Polling, DropInner, Wake, run, owning
  <2>1. TypeOK'
    <3>1. queued' \in BOOLEAN /\ waker' \in BOOLEAN /\ gone' \in BOOLEAN
      BY Zenon DEF IInv, TypeOK
    <3>2. writer' \in [Writers -> [pc: {"idle", "written", "cloned", "upgraded",
                                      "locked", "stored", "notified"},
                                 source: Sources \cup {Nobody}]]
      BY Zenon DEF IInv, TypeOK
    <3> QED
      BY <3>1, <3>2, ZenonT(60) DEF IInv, TypeOK
  <2>2. LockInv'
    BY EffectTaskAssumption DEF IInv, TypeOK, LockInv, Locking
  <2>3. WakeInv'
    BY Zenon DEF IInv, WakeInv
  <2>4. NeverAsleepOnFlag'
    BY Zenon DEF IInv, TypeOK, NeverAsleepOnFlag
  <2>5. DirtyInv'
    BY DEF IInv, DirtyInv, Alive, Marking, Locking
  <2>6. SubsInv'
    BY DEF IInv, OnItsWay, SubsInv, Alive, Marking, Locking
  <2>7. FirstInv'
    BY Zenon DEF IInv, FirstInv, Alive, Marking, Locking
  <2>8. RunInv'
    BY Zenon DEF IInv, TypeOK, RunInv, Alive, Marking, Locking
  <2>9. SeenInv'
    BY DEF IInv, SeenInv, Alive, Marking, Locking
  <2> QED
    BY Zenon, <2>1, <2>2, <2>3, <2>4, <2>5, <2>6, <2>7, <2>8, <2>9 DEF IInv
<1>8. ASSUME Poll
     PROVE  IInv'
  <2> USE <1>8 DEF Poll, writing, run, owning
  <2>1. TypeOK'
    BY Zenon DEF IInv, TypeOK
  <2>2. WakeInv'
    BY Zenon DEF IInv, WakeInv
  <2>3. NeverAsleepOnFlag'
    BY Zenon DEF IInv, NeverAsleepOnFlag
  <2>4. DirtyInv'
    BY Zenon DEF IInv, DirtyInv, Alive, Marking, Locking
  <2>5. SubsInv'
    BY Zenon DEF IInv, OnItsWay, SubsInv, Alive, Marking, Locking
  <2>6. FirstInv'
    BY Zenon DEF IInv, FirstInv, Alive, Marking, Locking
  <2>7. RunInv'
    BY Zenon DEF IInv, RunInv, Alive, Marking, Locking
  <2>8. SeenInv'
    BY Zenon DEF IInv, SeenInv, Alive, Marking, Locking
  <2>9. LockInv'
    BY Zenon DEF IInv, LockInv, Locking
  <2> QED
    BY Zenon, <2>1, <2>2, <2>3, <2>4, <2>5, <2>6, <2>7, <2>8, <2>9 DEF IInv
<1>9. ASSUME Upgrade
     PROVE  IInv'
  <2> USE <1>9 DEF Upgrade, writing, channel, run, owning
  <2>1. TypeOK'
    BY Zenon DEF IInv, TypeOK
  <2>2. WakeInv'
    BY Zenon DEF IInv, WakeInv
  <2>3. NeverAsleepOnFlag'
    BY Zenon DEF IInv, NeverAsleepOnFlag
  <2>4. DirtyInv'
    BY Zenon DEF IInv, DirtyInv, Alive, Marking, Locking
  <2>5. SubsInv'
    BY Zenon DEF IInv, OnItsWay, SubsInv, Alive, Marking, Locking
  <2>6. FirstInv'
    BY Zenon DEF IInv, FirstInv, Alive, Marking, Locking
  <2>7. RunInv'
    BY Zenon DEF IInv, RunInv, Alive, Marking, Locking
  <2>8. SeenInv'
    BY Zenon DEF IInv, SeenInv, Alive, Marking, Locking
  <2>9. LockInv'
    BY Zenon DEF IInv, LockInv, Locking
  <2> QED
    BY Zenon, <2>1, <2>2, <2>3, <2>4, <2>5, <2>6, <2>7, <2>8, <2>9 DEF IInv
<1>10. ASSUME Register
     PROVE  IInv'
  <2> USE <1>10 DEF Register, writing, run, owning
  <2>1. TypeOK'
    BY Zenon DEF IInv, TypeOK
  <2>2. WakeInv'
    BY Zenon DEF IInv, WakeInv
  <2>3. NeverAsleepOnFlag'
    BY Zenon DEF IInv, NeverAsleepOnFlag
  <2>4. DirtyInv'
    BY Zenon DEF IInv, DirtyInv, Alive, Marking, Locking
  <2>5. SubsInv'
    BY Zenon DEF IInv, OnItsWay, SubsInv, Alive, Marking, Locking
  <2>6. FirstInv'
    BY Zenon DEF IInv, FirstInv, Alive, Marking, Locking
  <2>7. RunInv'
    BY Zenon DEF IInv, RunInv, Alive, Marking, Locking
  <2>8. SeenInv'
    BY Zenon DEF IInv, SeenInv, Alive, Marking, Locking
  <2>9. LockInv'
    BY Zenon DEF IInv, LockInv, Locking
  <2> QED
    BY Zenon, <2>1, <2>2, <2>3, <2>4, <2>5, <2>6, <2>7, <2>8, <2>9 DEF IInv
<1>11. ASSUME Swap
     PROVE  IInv'
  <2> USE <1>11 DEF Swap, DropInner, Wake, writing, run, owning
  <2>1. TypeOK'
    <3>1. /\ set' \in BOOLEAN /\ queued' \in BOOLEAN /\ waker' \in BOOLEAN
          /\ gone' \in BOOLEAN
      BY Zenon DEF IInv, TypeOK
    <3>2. task' \in {"idle", "next", "upgraded", "registered", "decide", "update",
                     "clear", "run", "ended"}
      BY Zenon DEF IInv, TypeOK
    <3> QED
      BY <3>1, <3>2, ZenonT(60) DEF IInv, TypeOK
  <2>2. WakeInv'
    BY Zenon DEF IInv, WakeInv
  <2>3. NeverAsleepOnFlag'
    BY Zenon DEF IInv, NeverAsleepOnFlag
  <2>4. DirtyInv'
    BY Zenon DEF IInv, DirtyInv, Alive, Marking, Locking
  <2>5. SubsInv'
    BY Zenon DEF IInv, OnItsWay, SubsInv, Alive, Marking, Locking
  <2>6. FirstInv'
    BY Zenon DEF IInv, FirstInv, Alive, Marking, Locking
  <2>7. RunInv'
    BY Zenon DEF IInv, RunInv, Alive, Marking, Locking
  <2>8. SeenInv'
    BY Zenon DEF IInv, SeenInv, Alive, Marking, Locking
  <2>9. LockInv'
    BY Zenon DEF IInv, LockInv, Locking
  <2> QED
    BY Zenon, <2>1, <2>2, <2>3, <2>4, <2>5, <2>6, <2>7, <2>8, <2>9 DEF IInv
<1>12. ASSUME CheckPaused
     PROVE  IInv'
  <2> USE <1>12 DEF CheckPaused, writing, channel, run, owning
  <2>1. TypeOK'
    BY Zenon DEF IInv, TypeOK
  <2>2. WakeInv'
    BY Zenon DEF IInv, WakeInv
  <2>3. NeverAsleepOnFlag'
    BY Zenon DEF IInv, NeverAsleepOnFlag
  <2>4. DirtyInv'
    BY Zenon DEF IInv, DirtyInv
  <2>5. SubsInv'
    BY Zenon DEF IInv, OnItsWay, SubsInv, Alive, Marking, Locking
  <2>6. FirstInv'
    BY Zenon DEF IInv, FirstInv, Alive, Marking, Locking
  <2>7. RunInv'
    BY Zenon DEF IInv, RunInv, Alive, Marking, Locking
  <2>8. SeenInv'
    BY Zenon DEF IInv, SeenInv, Alive, Marking, Locking
  <2>9. LockInv'
    BY Zenon DEF IInv, LockInv, Locking
  <2> QED
    BY Zenon, <2>1, <2>2, <2>3, <2>4, <2>5, <2>6, <2>7, <2>8, <2>9 DEF IInv
<1>13. ASSUME UpdateIfNecessary
     PROVE  IInv'
  <2> USE <1>13 DEF UpdateIfNecessary, writing, channel, run, owning
  <2>1. TypeOK'
    BY Zenon DEF IInv, TypeOK
  <2>2. WakeInv'
    BY Zenon DEF IInv, WakeInv
  <2>3. NeverAsleepOnFlag'
    BY Zenon DEF IInv, NeverAsleepOnFlag
  <2>4. DirtyInv'
    BY Zenon DEF IInv, DirtyInv, Alive, Marking, Locking
  <2>5. SubsInv'
    BY Zenon DEF IInv, OnItsWay, SubsInv, Alive, Marking, Locking
  <2>6. FirstInv'
    BY Zenon DEF IInv, FirstInv
  <2>7. RunInv'
    BY Zenon DEF IInv, RunInv, Alive, Marking, Locking
  <2>8. SeenInv'
    BY Zenon DEF IInv, SeenInv, Alive, Marking, Locking
  <2>9. LockInv'
    BY Zenon DEF IInv, LockInv, Locking
  <2> QED
    BY Zenon, <2>1, <2>2, <2>3, <2>4, <2>5, <2>6, <2>7, <2>8, <2>9 DEF IInv
<1>14. ASSUME ClearSources
     PROVE  IInv'
  <2> USE <1>14 DEF ClearSources, writing, channel, run, owning
  <2>1. TypeOK'
    BY Zenon DEF IInv, TypeOK
  <2>2. WakeInv'
    BY Zenon DEF IInv, WakeInv
  <2>3. NeverAsleepOnFlag'
    BY Zenon DEF IInv, NeverAsleepOnFlag
  <2>4. DirtyInv'
    BY Zenon DEF IInv, DirtyInv, Alive, Marking, Locking
  <2>5. SubsInv'
    BY Zenon DEF IInv, SubsInv, RunInv
  <2>6. FirstInv'
    BY Zenon DEF IInv, FirstInv
  <2>7. RunInv'
    BY Zenon DEF IInv, RunInv, Alive, Marking, Locking
  <2>8. SeenInv'
    BY Zenon DEF IInv, SeenInv
  <2>9. LockInv'
    BY Zenon DEF IInv, LockInv, Locking
  <2> QED
    BY Zenon, <2>1, <2>2, <2>3, <2>4, <2>5, <2>6, <2>7, <2>8, <2>9 DEF IInv
<1>15. ASSUME NEW s \in Sources, Track(s)
     PROVE  IInv'
  <2> USE <1>15 DEF Track, writing, channel, run, owning
  <2>1. TypeOK'
    BY Zenon DEF IInv, TypeOK
  <2>2. SubsInv'
    BY Zenon DEF IInv, OnItsWay, SubsInv, Alive, Marking, Locking
  <2>3. RunInv'
    BY Zenon DEF IInv, RunInv, Alive, Marking, Locking
  <2>4. LockInv' /\ WakeInv' /\ NeverAsleepOnFlag' /\ DirtyInv' /\
        FirstInv' /\ SeenInv'
    BY Zenon DEF IInv, LockInv, WakeInv, NeverAsleepOnFlag, DirtyInv, FirstInv,
         SeenInv, Locking, Alive, Marking
  <2> QED
    BY Zenon, <2>1, <2>2, <2>3, <2>4 DEF IInv
<1>16. ASSUME NEW s \in Sources, Read(s)
     PROVE  IInv'
  <2> USE <1>16 DEF Read, writing, channel, run, owning
  <2>1. TypeOK'
    BY DEF IInv, TypeOK
  <2>2. SubsInv'
    BY Zenon DEF IInv, OnItsWay, SubsInv, Alive, Marking, Locking
  <2>3. RunInv'
    BY Zenon DEF IInv, RunInv, Alive, Marking, Locking
  <2>4. SeenInv'
    BY Zenon DEF IInv, TypeOK, SeenInv, Alive, Marking, Locking
  <2>5. LockInv' /\ WakeInv' /\ NeverAsleepOnFlag' /\ DirtyInv' /\
        FirstInv'
    BY Zenon DEF IInv, LockInv, WakeInv, NeverAsleepOnFlag, DirtyInv, FirstInv,
         Locking, Alive, Marking
  <2> QED
    BY Zenon, <2>1, <2>2, <2>3, <2>4, <2>5 DEF IInv
<1>17. ASSUME FinishRun
     PROVE  IInv'
  <2> USE <1>17 DEF FinishRun, writing, channel, run, owning
  <2>1. TypeOK'
    BY DEF IInv, TypeOK
  <2>2. WakeInv'
    BY Zenon DEF IInv, WakeInv
  <2>3. NeverAsleepOnFlag'
    BY Zenon DEF IInv, NeverAsleepOnFlag
  <2>4. DirtyInv'
    BY Zenon DEF IInv, DirtyInv, Alive, Marking, Locking
  <2>5. SubsInv'
    BY Zenon DEF IInv, OnItsWay, SubsInv, Alive, Marking, Locking
  <2>6. FirstInv'
    BY Zenon DEF IInv, FirstInv, Alive, Marking, Locking
  <2>7. RunInv'
    BY Zenon DEF IInv, RunInv, Alive, Marking, Locking
  <2>8. SeenInv'
    BY Zenon DEF IInv, SeenInv, Alive, Marking, Locking
  <2>9. LockInv'
    BY Zenon DEF IInv, LockInv, Locking
  <2> QED
    BY Zenon, <2>1, <2>2, <2>3, <2>4, <2>5, <2>6, <2>7, <2>8, <2>9 DEF IInv
<1>18. ASSUME Pause
     PROVE  IInv'
  <2> USE <1>18 DEF Pause, writing, channel, run
  <2>1. TypeOK'
    BY DEF IInv, TypeOK
  <2>2. LockInv' /\ WakeInv' /\ NeverAsleepOnFlag'
    BY Zenon DEF IInv, LockInv, WakeInv, NeverAsleepOnFlag, Locking
  <2>3. DirtyInv' /\ FirstInv'
    BY Zenon DEF IInv, DirtyInv, FirstInv, Alive, Marking, Locking
  <2>4. SubsInv'
    BY Zenon DEF IInv, SubsInv, OnItsWay, Alive, Marking, Locking
  <2>5. RunInv'
    BY Zenon DEF IInv, RunInv, Alive, Marking, Locking
  <2>6. SeenInv'
    BY Zenon DEF IInv, SeenInv, Alive, Marking, Locking
  <2> QED
    BY Zenon, <2>1, <2>2, <2>3, <2>4, <2>5, <2>6 DEF IInv
<1>19. ASSUME Resume
     PROVE  IInv'
  <2> USE <1>19 DEF Resume, writing, channel, run
  <2>1. TypeOK'
    <3>1. paused' \in BOOLEAN
      OBVIOUS
    <3> QED
      BY <3>1, ZenonT(60) DEF IInv, TypeOK
  <2>2. LockInv' /\ WakeInv' /\ NeverAsleepOnFlag'
    BY Zenon DEF IInv, LockInv, WakeInv, NeverAsleepOnFlag, Locking
  <2>3. DirtyInv' /\ FirstInv'
    BY Zenon DEF IInv, DirtyInv, FirstInv, Alive, Marking, Locking
  <2>4. SubsInv'
    BY Zenon DEF IInv, SubsInv, OnItsWay, Alive, Marking, Locking
  <2>5. RunInv'
    BY Zenon DEF IInv, RunInv, Alive, Marking, Locking
  <2>6. SeenInv'
    BY Zenon DEF IInv, SeenInv, Alive, Marking, Locking
  <2> QED
    BY Zenon, <2>1, <2>2, <2>3, <2>4, <2>5, <2>6 DEF IInv
<1>20. ASSUME Dispose
     PROVE  IInv'
  <2> USE <1>20 DEF Dispose, Polling, DropInner, Wake, writing, run
  <2>1. TypeOK'
    <3>1. queued' \in BOOLEAN /\ waker' \in BOOLEAN /\ gone' \in BOOLEAN
      BY Zenon DEF IInv, TypeOK
    <3> QED
      BY <3>1, ZenonT(60) DEF IInv, TypeOK
  <2>2. WakeInv'
    BY Zenon DEF IInv, WakeInv
  <2>3. NeverAsleepOnFlag'
    BY Zenon DEF IInv, NeverAsleepOnFlag
  <2>4. DirtyInv'
    BY Zenon DEF IInv, DirtyInv, Alive
  <2>5. SubsInv'
    BY Zenon DEF IInv, OnItsWay, SubsInv, Alive
  <2>6. FirstInv'
    BY Zenon DEF IInv, FirstInv, Alive
  <2>7. RunInv'
    BY Zenon DEF IInv, RunInv, Alive, Marking, Locking
  <2>8. SeenInv'
    BY Zenon DEF IInv, SeenInv, Alive
  <2>9. LockInv'
    BY Zenon DEF IInv, LockInv, Locking
  <2> QED
    BY Zenon, <2>1, <2>2, <2>3, <2>4, <2>5, <2>6, <2>7, <2>8, <2>9 DEF IInv
<1>21. ASSUME UNCHANGED vars
     PROVE  IInv'
  <2> USE <1>21 DEF vars
  <2>1. TypeOK'
    BY DEF IInv, TypeOK
  <2>2. LockInv' /\ WakeInv' /\ NeverAsleepOnFlag'
    BY Zenon DEF IInv, LockInv, WakeInv, NeverAsleepOnFlag, Locking
  <2>3. DirtyInv' /\ FirstInv'
    BY Zenon DEF IInv, DirtyInv, FirstInv, Alive, Marking, Locking
  <2>4. SubsInv'
    BY Zenon DEF IInv, SubsInv, OnItsWay, Alive, Marking, Locking
  <2>5. RunInv'
    BY Zenon DEF IInv, RunInv, Alive, Marking, Locking
  <2>6. SeenInv'
    BY Zenon DEF IInv, SeenInv, Alive, Marking, Locking
  <2> QED
    BY Zenon, <2>1, <2>2, <2>3, <2>4, <2>5, <2>6 DEF IInv
<1> QED
  BY Zenon, <1>1, <1>2, <1>3, <1>4, <1>5, <1>6, <1>7, <1>8, <1>9, <1>10,
     <1>11, <1>12, <1>13, <1>14, <1>15, <1>16, <1>17, <1>18, <1>19, <1>20,
     <1>21
     DEF Next, WriterStep, TaskStep

(* The inductive invariant, and with it the type invariant, holds in every  *)
(* reachable state of an effect's task and the threads that notify it.      *)
THEOREM Invariance == Spec => []IInv
<1>1. Init => IInv
  BY Zenon, InitInv
<1>2. IInv /\ [Next]_vars => IInv'
  BY Zenon, NextInv
<1> QED
  BY <1>1, <1>2, PTL DEF Spec

(* Effect::new loses no update: when all writes have finished and the task  *)
(* waits in rx.next(), the last run has read the last version of every      *)
(* source.  DirtyInv rules out that a mark is left over without a           *)
(* notification, SeenInv that a version is left unread without a mark.      *)
THEOREM NoLostUpdate == Spec => []AtRestUpToDate
<1>1. IInv => AtRestUpToDate
  <2> SUFFICES ASSUME IInv,
                      \A w \in Writers : writer[w].pc = "idle",
                      task = "idle", ~queued, ~missed, handle
               PROVE  seen = version
    BY Zenon DEF AtRestUpToDate
  <2>1. Alive /\ ~dirty
    BY Zenon DEF IInv, NeverAsleepOnFlag, DirtyInv, Alive
  <2>2. ASSUME NEW s \in Sources PROVE seen[s] = version[s]
    BY Zenon, <2>1 DEF IInv, SeenInv
  <2> QED
    BY <2>2 DEF IInv, TypeOK
<1> QED
  BY <1>1, Invariance, PTL

(* Receiver::poll_next never goes to sleep on a flag that Sender::notify    *)
(* has set and woken for: registering the waker before the swap suffices.   *)
THEOREM FlagIsNoticed == Spec => []NeverAsleepOnFlag
<1>1. IInv => NeverAsleepOnFlag
  BY Zenon DEF IInv
<1> QED
  BY <1>1, Invariance, PTL

=============================================================================
