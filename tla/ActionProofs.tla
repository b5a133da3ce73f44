----------------------------- MODULE ActionProofs -----------------------------
(***************************************************************************)
(* Proofs about Action, for any finite set of calls: what holds on any     *)
(* number of threads, and what holds on one.                               *)
(***************************************************************************)
EXTENDS Action, FiniteSetTheorems, TLAPS

(* Adding a call to a set of calls, as the increment of in_flight does.     *)
LEMMA CountAdd ==
    ASSUME NEW S \in SUBSET Calls, NEW c \in Calls \ S
    PROVE  Cardinality(S \cup {c}) = Cardinality(S) + 1
<1>1. IsFiniteSet(S)
  BY Zenon, ActionAssumption, FS_Subset
<1> QED
  BY Zenon, <1>1, FS_AddElement

(* Taking a call out of a set of calls: saturating_sub does not saturate.   *)
LEMMA CountRemove ==
    ASSUME NEW S \in SUBSET Calls, NEW c \in S
    PROVE  /\ Cardinality(S) \in Nat \ {0}
           /\ Cardinality(S \ {c}) = Cardinality(S) - 1
<1>1. IsFiniteSet(S)
  BY Zenon, ActionAssumption, FS_Subset
<1>2. Cardinality(S) \in Nat /\ Cardinality(S) # 0
  BY Zenon, <1>1, FS_CardinalityType, FS_EmptySet
<1> QED
  BY Zenon, <1>1, <1>2, FS_RemoveElement

(* A count of zero means that there is no such call: the test of in_flight. *)
LEMMA CountZero ==
    ASSUME NEW S \in SUBSET Calls, Cardinality(S) = 0 \/ Cardinality(S) < 1
    PROVE  S = {}
<1>1. IsFiniteSet(S) /\ Cardinality(S) \in Nat
  BY Zenon, ActionAssumption, FS_Subset, FS_CardinalityType
<1> QED
  BY <1>1, FS_EmptySet

(* ArcAction::new_with_value: nothing has been dispatched.                  *)
LEMMA InitInv == Init => IInv
<1> SUFFICES ASSUME Init PROVE IInv
  OBVIOUS
<1>1. TypeOK
  BY Zenon DEF Init, TypeOK
<1>2. Flying = {} /\ Busy = {}
  BY Zenon DEF Init, Flying, Busy
<1>3. InFlightCounts
  BY Zenon, <1>2, FS_EmptySet DEF Init, InFlightCounts
<1>4. InputClearedAtRest /\ OrderInv
  BY DEF Init, InputClearedAtRest, OrderInv
<1>5. OneThreadInv /\ InputInv
  BY Zenon, <1>2 DEF Init, OneThreadInv, InputInv
<1> QED
  BY Zenon, <1>1, <1>3, <1>4, <1>5 DEF IInv

(* Every step of dispatch, of a task, of a handle and of clear preserves    *)
(* the invariant.                                                           *)
LEMMA NextInv == IInv /\ [Next]_vars => IInv'
<1> SUFFICES ASSUME IInv, [Next]_vars PROVE IInv'
  OBVIOUS
<1>0. Flying \in SUBSET Calls /\ Busy \in SUBSET Calls
  BY Zenon DEF Flying, Busy
<1>1. ASSUME NEW c \in Calls, DispatchSuppressed(c)
     PROVE  IInv'
  <2> USE <1>1 DEF DispatchSuppressed, Goto, shown, history
  <2>1. TypeOK'
    BY Zenon DEF IInv, TypeOK
  <2>2. Flying' = Flying
    BY DEF Flying
  <2>3. InFlightCounts'
    BY Zenon, <2>2 DEF IInv, InFlightCounts
  <2>4. InputClearedAtRest' /\ OrderInv'
    BY DEF IInv, InputClearedAtRest, OrderInv
  <2>5. Threads = 1 => OneThreadInv'
    BY <2>2 DEF IInv, OneThreadInv, Busy
  <2>6. Threads = 1 => InputInv'
    BY <2>2 DEF IInv, InputInv
  <2> QED
    BY Zenon, <2>1, <2>3, <2>4, <2>5, <2>6 DEF IInv
<1>2. ASSUME NEW c \in Calls, Dispatch(c)
     PROVE  IInv'
  <2> USE <1>2 DEF Dispatch, Goto, shown, history
  <2>1. TypeOK'
    BY DEF IInv, TypeOK
  <2>2. Flying' = Flying \cup {c} /\ c \notin Flying
    BY Zenon DEF IInv, TypeOK, Flying
  <2>3. InFlightCounts'
    BY Zenon, <1>0, <2>2, CountAdd DEF IInv, InFlightCounts
  <2>4. InputClearedAtRest' /\ OrderInv'
    BY DEF IInv, InputClearedAtRest, OrderInv
  <2>5. Threads = 1 => Busy = {}
    BY Zenon, <1>0, CountZero DEF FreeThread
  <2>6. Threads = 1 => OneThreadInv'
    BY <2>5, <2>2 DEF IInv, OneThreadInv, Busy
  <2>7. Threads = 1 => InputInv'
    BY <2>5, <2>2 DEF InputInv, Flying
  <2> QED
    BY Zenon, <2>1, <2>3, <2>4, <2>6, <2>7 DEF IInv
<1>3. ASSUME NEW c \in Calls, Bump(c)
     PROVE  IInv'
  <2> USE <1>3 DEF Bump, Goto, shown, history
  <2>1. TypeOK'
    BY DEF IInv, TypeOK
  <2>2. Flying' = Flying
    BY DEF Flying
  <2>3. InFlightCounts'
    BY Zenon, <2>2 DEF IInv, InFlightCounts
  <2>4. InputClearedAtRest' /\ OrderInv'
    BY DEF IInv, TypeOK, InputClearedAtRest, OrderInv
  <2>5. Threads = 1 => OneThreadInv'
    BY <2>2 DEF IInv, TypeOK, OneThreadInv, Busy
  <2>6. Threads = 1 => InputInv'
    BY <2>2 DEF InputInv
  <2> QED
    BY Zenon, <2>1, <2>3, <2>4, <2>5, <2>6 DEF IInv
<1>4. ASSUME NEW c \in Calls, Snapshot(c)
     PROVE  IInv'
  <2> USE <1>4 DEF Snapshot, Goto, shown, history
  <2>1. TypeOK'
    BY Zenon DEF IInv, TypeOK
  <2>2. Flying' = Flying
    BY DEF Flying
  <2>3. InFlightCounts'
    BY Zenon, <2>2 DEF IInv, InFlightCounts
  <2>4. InputClearedAtRest' /\ OrderInv'
    BY DEF IInv, InputClearedAtRest, OrderInv
  <2>5. Threads = 1 => OneThreadInv'
    BY <2>2 DEF IInv, TypeOK, OneThreadInv, Busy
  <2>6. Threads = 1 => InputInv'
    BY <2>2 DEF InputInv
  <2> QED
    BY Zenon, <2>1, <2>3, <2>4, <2>5, <2>6 DEF IInv
<1>5. ASSUME NEW c \in Calls, SetInput(c)
     PROVE  IInv'
  <2> USE <1>5 DEF SetInput, Goto, shown, history
  <2>1. TypeOK'
    BY Zenon DEF IInv, TypeOK
  <2>2. Flying' = Flying
    BY DEF Flying
  <2>3. InFlightCounts'
    BY Zenon, <2>2 DEF IInv, InFlightCounts
  <2>4. InputClearedAtRest' /\ OrderInv'
    BY DEF IInv, InputClearedAtRest, OrderInv
  <2>5. Threads = 1 => OneThreadInv'
    BY <2>2 DEF IInv, OneThreadInv, Busy
  <2>6. Threads = 1 => InputInv'
    BY Zenon, ActionAssumption, <2>2 DEF IInv, InputInv, OneThreadInv
  <2> QED
    BY Zenon, <2>1, <2>3, <2>4, <2>5, <2>6 DEF IInv
<1>6. ASSUME NEW c \in Calls, Abort(c)
     PROVE  IInv'
  <2> USE <1>6 DEF Abort, Goto, shown, history
  <2>1. TypeOK'
    BY Zenon DEF IInv, TypeOK
  <2>2. Flying' = Flying
    BY Zenon DEF Flying
  <2>3. InFlightCounts'
    BY Zenon, <2>2 DEF IInv, InFlightCounts
  <2>4. InputClearedAtRest' /\ OrderInv'
    BY Zenon DEF IInv, InputClearedAtRest, OrderInv
  <2>5. Threads = 1 => OneThreadInv'
    BY Zenon, <2>2 DEF IInv, OneThreadInv, Busy
  <2>6. Threads = 1 => InputInv'
    BY Zenon, <2>2 DEF IInv, InputInv
  <2> QED
    BY Zenon, <2>1, <2>3, <2>4, <2>5, <2>6 DEF IInv
<1>7. ASSUME NEW c \in Calls, DropHandle(c)
     PROVE  IInv'
  <2> USE <1>7 DEF DropHandle, Goto, shown, history
  <2>1. TypeOK'
    BY Zenon DEF IInv, TypeOK
  <2>2. Flying' = Flying
    BY Zenon DEF Flying
  <2>3. InFlightCounts'
    BY Zenon, <2>2 DEF IInv, InFlightCounts
  <2>4. InputClearedAtRest' /\ OrderInv'
    BY Zenon DEF IInv, InputClearedAtRest, OrderInv
  <2>5. Threads = 1 => OneThreadInv'
    BY Zenon, <2>2 DEF IInv, OneThreadInv, Busy
  <2>6. Threads = 1 => InputInv'
    BY Zenon, <2>2 DEF IInv, InputInv
  <2> QED
    BY Zenon, <2>1, <2>3, <2>4, <2>5, <2>6 DEF IInv
<1>8. ASSUME NEW c \in Calls, Aborted(c)
     PROVE  IInv'
  <2> USE <1>8 DEF Aborted, Goto, shown, history, Decrement
  <2>1. TypeOK'
    BY DEF IInv, TypeOK
  <2>2. Flying' = Flying \ {c} /\ c \in Flying
    BY Zenon DEF IInv, TypeOK, Flying
  <2>3. InFlightCounts'
    BY Zenon, <1>0, <2>2, CountRemove DEF IInv, InFlightCounts
  <2>4. InputClearedAtRest' /\ OrderInv'
    BY DEF IInv, InputClearedAtRest, OrderInv
  <2>5. Threads = 1 => Busy = {}
    BY Zenon, <1>0, CountZero DEF FreeThread
  <2>6. Threads = 1 => OneThreadInv'
    BY <2>5, <2>2 DEF IInv, OneThreadInv, Busy
  <2>7. Threads = 1 => InputInv'
    BY <2>5, <2>2 DEF IInv, InputInv
  <2> QED
    BY Zenon, <2>1, <2>3, <2>4, <2>6, <2>7 DEF IInv
<1>9. ASSUME NEW c \in Calls, Resolved(c)
     PROVE  IInv'
  <2> USE <1>9 DEF Resolved, Goto, shown, history, Decrement
  <2>1. TypeOK'
    BY DEF IInv, TypeOK
  <2>2. Flying' = Flying \ {c} /\ c \in Flying
    BY Zenon DEF IInv, TypeOK, Flying
  <2>3. InFlightCounts'
    BY Zenon, <1>0, <2>2, CountRemove DEF IInv, InFlightCounts
  <2>4. InputClearedAtRest' /\ OrderInv'
    BY DEF IInv, InputClearedAtRest, OrderInv
  <2>5. Threads = 1 => Busy = {}
    BY Zenon, <1>0, CountZero DEF FreeThread
  <2>6. Threads = 1 => OneThreadInv'
    BY <2>5, <2>2 DEF IInv, OneThreadInv, Busy
  <2>7. Threads = 1 => InputInv'
    BY <2>5, <2>2 DEF IInv, InputInv
  <2> QED
    BY Zenon, <2>1, <2>3, <2>4, <2>6, <2>7 DEF IInv
<1>10. ASSUME NEW c \in Calls, CheckLatest(c)
     PROVE  IInv'
  <2> USE <1>10 DEF CheckLatest, Goto, shown, history, IsLatest
  <2>1. TypeOK'
    BY Zenon DEF IInv, TypeOK
  <2>2. Flying' = Flying
    BY DEF Flying
  <2>3. InFlightCounts'
    BY Zenon, <2>2 DEF IInv, InFlightCounts
  <2>4. InputClearedAtRest' /\ OrderInv'
    BY DEF IInv, InputClearedAtRest, OrderInv
  <2>5. Threads = 1 => OneThreadInv'
    BY <2>2 DEF IInv, OneThreadInv, Busy
  <2>6. Threads = 1 => InputInv'
    BY <2>2 DEF IInv, InputInv
  <2> QED
    BY Zenon, <2>1, <2>3, <2>4, <2>5, <2>6 DEF IInv
<1>11. ASSUME NEW c \in Calls, SetVersion(c)
     PROVE  IInv'
  <2> USE <1>11 DEF SetVersion, Goto, shown, history
  <2>1. TypeOK'
    BY DEF IInv, TypeOK
  <2>2. Flying' = Flying
    BY DEF Flying
  <2>3. InFlightCounts'
    BY Zenon, <2>2 DEF IInv, InFlightCounts
  <2>4. InputClearedAtRest' /\ OrderInv'
    BY DEF IInv, InputClearedAtRest, OrderInv
  <2>5. Threads = 1 => OneThreadInv'
    BY <2>2 DEF IInv, OneThreadInv, Busy
  <2>6. Threads = 1 => InputInv'
    BY <2>2 DEF IInv, InputInv
  <2> QED
    BY Zenon, <2>1, <2>3, <2>4, <2>5, <2>6 DEF IInv
<1>12. ASSUME NEW c \in Calls, SetValue(c)
     PROVE  IInv'
  <2> USE <1>12 DEF SetValue, Goto, shown, history
  <2>1. TypeOK'
    BY Zenon DEF IInv, TypeOK
  <2>2. Flying' = Flying
    BY DEF Flying
  <2>3. InFlightCounts'
    BY Zenon, <2>2 DEF IInv, InFlightCounts
  <2>4. InputClearedAtRest' /\ OrderInv'
    BY DEF IInv, InputClearedAtRest, OrderInv
  <2>5. Threads = 1 => OneThreadInv'
    BY <2>2 DEF IInv, OneThreadInv, Busy
  <2>6. Threads = 1 => InputInv'
    BY <2>2 DEF IInv, InputInv
  <2> QED
    BY Zenon, <2>1, <2>3, <2>4, <2>5, <2>6 DEF IInv
<1>13. ASSUME NEW c \in Calls, CheckInFlight(c)
     PROVE  IInv'
  <2> USE <1>13 DEF CheckInFlight, Goto, shown, history, NoneInFlight
  <2>1. TypeOK'
    BY Zenon DEF IInv, TypeOK
  <2>2. Flying' = Flying
    BY DEF Flying
  <2>3. InFlightCounts'
    BY Zenon, <2>2 DEF IInv, InFlightCounts
  <2>4. inFlight = 0 <=> Flying = {}
    BY Zenon, <1>0, CountZero, FS_EmptySet DEF IInv, InFlightCounts
  <2>5. InputClearedAtRest' /\ OrderInv'
    BY <2>4 DEF IInv, InputClearedAtRest, OrderInv, Flying
  <2>6. Threads = 1 => OneThreadInv'
    BY <2>4, <2>2 DEF IInv, OneThreadInv, Busy
  <2>7. Threads = 1 => InputInv'
    BY <2>4, <2>2 DEF IInv, InputInv
  <2> QED
    BY Zenon, <2>1, <2>3, <2>5, <2>6, <2>7 DEF IInv
<1>14. ASSUME NEW c \in Calls, ClearInput(c)
     PROVE  IInv'
  <2> USE <1>14 DEF ClearInput, Goto, shown, history
  <2>1. TypeOK'
    BY Zenon DEF IInv, TypeOK
  <2>2. Flying' = Flying
    BY DEF Flying
  <2>3. InFlightCounts'
    BY Zenon, <2>2 DEF IInv, InFlightCounts
  <2>4. InputClearedAtRest' /\ OrderInv'
    BY Zenon DEF IInv, InputClearedAtRest, OrderInv
  <2>5. Threads = 1 => OneThreadInv'
    BY <2>2 DEF IInv, OneThreadInv, Busy
  <2>6. Threads = 1 => InputInv'
    BY Zenon, <2>2 DEF IInv, InputInv, OneThreadInv
  <2> QED
    BY Zenon, <2>1, <2>3, <2>4, <2>5, <2>6 DEF IInv
<1>15. ASSUME Clear
     PROVE  IInv'
  BY Zenon, <1>15 DEF IInv, TypeOK, InFlightCounts, InputClearedAtRest, OrderInv,
         OneThreadInv, InputInv, Flying, Busy, Clear, history
<1>16. ASSUME NEW suppress \in BOOLEAN, SuppressResourceLoad(suppress)
     PROVE  IInv'
  BY Zenon, <1>16 DEF IInv, TypeOK, InFlightCounts, InputClearedAtRest, OrderInv,
         OneThreadInv, InputInv, Flying, Busy, SuppressResourceLoad, shown,
         history
<1>17. ASSUME UNCHANGED vars
     PROVE  IInv'
  BY Zenon, <1>17 DEF IInv, TypeOK, InFlightCounts, InputClearedAtRest, OrderInv,
         OneThreadInv, InputInv, Flying, Busy, vars
<1> QED
  BY Zenon, <1>1, <1>2, <1>3, <1>4, <1>5, <1>6, <1>7, <1>8, <1>9, <1>10, <1>11,
     <1>12, <1>13, <1>14, <1>15, <1>16, <1>17 DEF Next, DispatchStep, TaskStep

(* The inductive invariant, and with it the type invariant, holds in every  *)
(* reachable state of an action.                                            *)
THEOREM Invariance == Spec => []IInv
  BY InitInv, NextInv, PTL DEF Spec

(* in_flight counts the pending calls: dispatch and the task's two exits    *)
(* increment and decrement it once per call, on any number of threads.      *)
THEOREM InFlightExact == Spec => []InFlightCounts
<1>1. IInv => InFlightCounts
  BY Zenon DEF IInv
<1> QED
  BY <1>1, Invariance, PTL

(* The task that is the last to look finds in_flight at zero and resets the *)
(* input, on any number of threads.                                         *)
THEOREM InputReset == Spec => []InputClearedAtRest
<1>1. IInv => InputClearedAtRest
  BY Zenon DEF IInv
<1> QED
  BY <1>1, Invariance, PTL

(* On one thread input() is the newest call's input while any call is       *)
(* pending, and None otherwise.                                             *)
THEOREM OneThreadInput == Threads = 1 => (Spec => []InputShowsPending)
<1> SUFFICES ASSUME Threads = 1 PROVE Spec => []InputShowsPending
  OBVIOUS
<1>1. IInv => InputShowsPending
  <2> SUFFICES ASSUME IInv, Busy = {} PROVE
         IF Flying = {} THEN input = None
         ELSE input # None /\ \A c \in Calls : order[c] <= order[input]
    BY Zenon DEF InputShowsPending
  <2>1. CASE Flying = {}
    BY Zenon, <2>1 DEF IInv, InputClearedAtRest, Busy, Flying
  <2>2. CASE Flying # {}
    BY Zenon, <2>2 DEF IInv, InputInv, OrderInv, Busy
  <2> QED
    BY Zenon, <2>1, <2>2
<1> QED
  BY <1>1, Invariance, PTL

(* On one thread the dispatch counter does what it is for: a result stored  *)
(* by a task is never older than one stored before.                         *)
THEOREM OneThreadNewestWins == Threads = 1 => (Spec => NewestWins)
<1> SUFFICES ASSUME Threads = 1 PROVE Spec => NewestWins
  OBVIOUS
<1> DEFINE NoStaleResult == \A c \in Calls : value' = c /\ value # c =>
                               \A d \in committed : order[d] <= order[c]
<1>1. IInv /\ [Next]_vars => [NoStaleResult]_vars
  <2> SUFFICES ASSUME IInv, Next, NEW c \in Calls, value' = c, value # c,
                      NEW d \in committed
               PROVE  order[d] <= order[c]
    OBVIOUS
  <2>1. SetValue(c)
    BY Zenon, ActionAssumption DEF Next, DispatchStep, TaskStep, DispatchSuppressed,
           Dispatch, Bump, Snapshot, SetInput, Abort, DropHandle, Aborted,
           Resolved, CheckLatest, SetVersion, SetValue, CheckInFlight,
           ClearInput, Clear, SuppressResourceLoad, shown
  <2>2. order[c] = dispatched
    BY Zenon, <2>1 DEF SetValue, IInv, OneThreadInv
  <2> QED
    BY Zenon, <2>2 DEF IInv, TypeOK, OrderInv
<1> QED
  BY <1>1, Invariance, PTL DEF Spec, NewestWins

=============================================================================
