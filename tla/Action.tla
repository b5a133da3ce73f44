-------------------------------- MODULE Action --------------------------------
(***************************************************************************)
(* An ArcAction: dispatched calls run concurrently as tasks, and share the *)
(* counters in_flight and dispatched and the signals input, value and      *)
(* version.  A step is one access to one of them.  The synchronous code of *)
(* dispatch, and of a task between two awaits, occupies a thread; with one *)
(* thread (a browser) it is atomic, with more the steps interleave.        *)
(***************************************************************************)
EXTENDS Naturals, FiniteSets

CONSTANTS
    Calls,      \* the calls of dispatch, each with its own input and result
    None,       \* Option::None
    Threads     \* how many threads dispatch and run tasks

ASSUME ActionAssumption ==
    /\ IsFiniteSet(Calls)
    /\ None \notin Calls
    /\ Threads \in Nat \ {0}

VARIABLES
    pc,             \* how far each call has come
    handle,         \* the abort handle of each call: held, sent or dropped
    snapshot,       \* current_version of each call
    inFlight,       \* in_flight
    dispatched,     \* the dispatch counter
    input,          \* the call whose input the action shows, or None
    value,          \* the call whose result the action shows, or None
    version,        \* version
    suppressed,     \* is_suppressing_resource_load()
    order,          \* history: when each call bumped the dispatch counter, or 0
    completed,      \* history: the calls that have come to a result
    committed       \* history: the calls whose result has been stored

vars == <<pc, handle, snapshot, inFlight, dispatched, input, value, version,
          suppressed, order, completed, committed>>
shown == <<input, value, version>>
history == <<order, completed, committed>>

(* A call counts as in flight from the increment to the decrement.          *)
Flying == {c \in Calls : pc[c] \in {"counted", "bumped", "snapped", "pending"}}

(* A call that occupies a thread.                                           *)
Busy == {c \in Calls : pc[c] \notin {"new", "pending", "finished"}}
FreeThread == Cardinality(Busy) < Threads

Goto(c, to) == pc' = [pc EXCEPT ![c] = to]

Init ==
    /\ pc = [c \in Calls |-> "new"]
    /\ handle = [c \in Calls |-> "held"]
    /\ snapshot = [c \in Calls |-> 0]
    /\ inFlight = 0
    /\ dispatched = 0
    /\ input = None
    /\ value = None
    /\ version = 0
    /\ suppressed \in BOOLEAN
    /\ order = [c \in Calls |-> 0]
    /\ completed = {}
    /\ committed = {}

-----------------------------------------------------------------------------
(* dispatch and dispatch_local *)

(* While resource loading is suppressed, only a handle is returned.         *)
DispatchSuppressed(c) ==
    /\ pc[c] = "new"
    /\ suppressed
    /\ Goto(c, "finished")
    /\ UNCHANGED <<handle, snapshot, inFlight, dispatched, shown, suppressed, history>>

Dispatch(c) ==
    /\ pc[c] = "new"
    /\ ~suppressed
    /\ FreeThread
    /\ inFlight' = inFlight + 1
    /\ Goto(c, "counted")
    /\ UNCHANGED <<handle, snapshot, dispatched, shown, suppressed, history>>

BumpNever(c) ==
    /\ pc[c] = "counted"
    /\ order' = [order EXCEPT ![c] = Cardinality({d \in Calls : order[d] > 0}) + 1]
    /\ Goto(c, "bumped")
    /\ UNCHANGED <<handle, snapshot, inFlight, dispatched, shown, suppressed, completed, committed>>

Bump(c) ==
    /\ pc[c] = "counted"
    /\ dispatched' = dispatched + 1
    /\ order' = [order EXCEPT ![c] = dispatched + 1]
    /\ Goto(c, "bumped")
    /\ UNCHANGED <<handle, snapshot, inFlight, shown, suppressed, completed, committed>>

Snapshot(c) ==
    /\ pc[c] = "bumped"
    /\ snapshot' = [snapshot EXCEPT ![c] = dispatched]
    /\ Goto(c, "snapped")
    /\ UNCHANGED <<handle, inFlight, dispatched, shown, suppressed, history>>

(* The input is shown, the task spawned, and dispatch returns.              *)
SetInput(c) ==
    /\ pc[c] = "snapped"
    /\ input' = c
    /\ Goto(c, "pending")
    /\ UNCHANGED <<handle, snapshot, inFlight, dispatched, value, version, suppressed, history>>

-----------------------------------------------------------------------------
(* The caller's handle: abort sends; merely dropping it must not abort.     *)

Abort(c) ==
    /\ pc[c] # "new"
    /\ handle[c] = "held"
    /\ handle' = [handle EXCEPT ![c] = "sent"]
    /\ UNCHANGED <<pc, snapshot, inFlight, dispatched, shown, suppressed, history>>

DropHandle(c) ==
    /\ pc[c] # "new"
    /\ handle[c] = "held"
    /\ handle' = [handle EXCEPT ![c] = "dropped"]
    /\ UNCHANGED <<pc, snapshot, inFlight, dispatched, shown, suppressed, history>>

(* The oneshot receiver is ready once sent; a dropped sender only makes it  *)
(* terminated, and select! passes over a terminated future.                 *)
AbortReadyOnDrop(c) == handle[c] # "held"

AbortReady(c) == handle[c] = "sent"

(* Dropped by another thread after select! has found the receiver not       *)
(* terminated and before it polls it, the sender makes it ready.            *)
DroppedInPoll(c) == Threads > 1 /\ handle[c] = "held"

-----------------------------------------------------------------------------
(* The task: select! between the abort message and the result, either of    *)
(* them when both are ready.                                                *)

Decrement == inFlight' = IF inFlight = 0 THEN 0 ELSE inFlight - 1

AbortedUncounted(c) ==
    /\ pc[c] = "pending"
    /\ AbortReady(c)
    /\ FreeThread
    /\ Goto(c, "settled")
    /\ UNCHANGED <<handle, snapshot, inFlight, dispatched, shown, suppressed, history>>

Aborted(c) ==
    /\ pc[c] = "pending"
    /\ AbortReady(c) \/ DroppedInPoll(c)
    /\ FreeThread
    /\ Decrement
    /\ handle' = [handle EXCEPT ![c] = IF DroppedInPoll(c) THEN "dropped" ELSE @]
    /\ Goto(c, "settled")
    /\ UNCHANGED <<snapshot, dispatched, shown, suppressed, history>>

ResolvedIfHeld(c) ==
    /\ pc[c] = "pending"
    /\ handle[c] = "held"
    /\ FreeThread
    /\ Decrement
    /\ completed' = completed \cup {c}
    /\ Goto(c, "resolved")
    /\ UNCHANGED <<handle, snapshot, dispatched, shown, suppressed, order, committed>>

Resolved(c) ==
    /\ pc[c] = "pending"
    /\ FreeThread
    /\ Decrement
    /\ completed' = completed \cup {c}
    /\ Goto(c, "resolved")
    /\ UNCHANGED <<handle, snapshot, dispatched, shown, suppressed, order, committed>>

IsLatest(c) == dispatched = snapshot[c]

CheckLatest(c) ==
    /\ pc[c] = "resolved"
    /\ Goto(c, IF IsLatest(c) THEN "latest" ELSE "settled")
    /\ UNCHANGED <<handle, snapshot, inFlight, dispatched, shown, suppressed, history>>

SetVersion(c) ==
    /\ pc[c] = "latest"
    /\ version' = version + 1
    /\ Goto(c, "versioned")
    /\ UNCHANGED <<handle, snapshot, inFlight, dispatched, input, value, suppressed, history>>

SetValue(c) ==
    /\ pc[c] = "versioned"
    /\ value' = c
    /\ committed' = committed \cup {c}
    /\ Goto(c, "settled")
    /\ UNCHANGED <<handle, snapshot, inFlight, dispatched, input, version, suppressed, order,
                   completed>>

(* The input is reset by a task that finds no call in flight.               *)
NoneInFlightAlways(c) == TRUE

NoneInFlight(c) == inFlight = 0

CheckInFlight(c) ==
    /\ pc[c] = "settled"
    /\ Goto(c, IF NoneInFlight(c) THEN "clearing" ELSE "finished")
    /\ UNCHANGED <<handle, snapshot, inFlight, dispatched, shown, suppressed, history>>

ClearInput(c) ==
    /\ pc[c] = "clearing"
    /\ input' = None
    /\ Goto(c, "finished")
    /\ UNCHANGED <<handle, snapshot, inFlight, dispatched, value, version, suppressed, history>>

-----------------------------------------------------------------------------
(* ArcAction::clear, and the diagnostics switch *)

Clear ==
    /\ value' = None
    /\ UNCHANGED <<pc, handle, snapshot, inFlight, dispatched, input, version,
                   suppressed, history>>

SuppressResourceLoad(suppress) ==
    /\ suppressed' = suppress
    /\ UNCHANGED <<pc, handle, snapshot, inFlight, dispatched, shown, history>>

-----------------------------------------------------------------------------
DispatchStep(c) == Bump(c) \/ Snapshot(c) \/ SetInput(c)

TaskStep(c) ==
    \/ Aborted(c) \/ Resolved(c) \/ CheckLatest(c) \/ SetVersion(c) \/ SetValue(c)
    \/ CheckInFlight(c) \/ ClearInput(c)

Next ==
    \/ \E c \in Calls :
          \/ DispatchSuppressed(c) \/ Dispatch(c) \/ DispatchStep(c)
          \/ Abort(c) \/ DropHandle(c) \/ TaskStep(c)
    \/ Clear
    \/ \E suppress \in BOOLEAN : SuppressResourceLoad(suppress)

(* A call of dispatch returns, and every future is polled and completes.    *)
Fairness == \A c \in Calls : WF_vars(DispatchStep(c)) /\ SF_vars(TaskStep(c))

Spec == Init /\ [][Next]_vars /\ Fairness

-----------------------------------------------------------------------------
(* Every variable has its type in every state that the code reaches.         *)
TypeOK ==
    /\ pc \in [Calls -> {"new", "counted", "bumped", "snapped", "pending", "resolved",
                         "latest", "versioned", "settled", "clearing", "finished"}]
    /\ handle \in [Calls -> {"held", "sent", "dropped"}]
    /\ snapshot \in [Calls -> Nat]
    /\ inFlight \in Nat
    /\ dispatched \in Nat
    /\ input \in Calls \cup {None}
    /\ value \in Calls \cup {None}
    /\ version \in Nat
    /\ suppressed \in BOOLEAN
    /\ order \in [Calls -> Nat]
    /\ completed \in SUBSET Calls
    /\ committed \in SUBSET Calls

(* in_flight counts the calls that have been dispatched and have neither    *)
(* resolved nor been aborted, so that pending() says what it promises: no   *)
(* increment or decrement is lost, and saturating_sub never saturates.      *)
InFlightCounts == inFlight = Cardinality(Flying)

(* A result never replaces the result of a later dispatch: what the         *)
(* dispatch counter is for, and what the regression test                    *)
(* older_dispatch_does_not_clobber_newer_result checks for one schedule.    *)
NewestWins ==
    [][\A c \in Calls : value' = c /\ value # c =>
          \A d \in committed : order[d] <= order[c]]_vars

(* Outside of the action's own code, input() shows the last dispatched      *)
(* input as long as any call is in flight, and nothing otherwise.           *)
InputShowsPending ==
    Busy = {} =>
        IF Flying = {} THEN input = None
        ELSE input # None /\ \A c \in Calls : order[c] <= order[input]

(* When every call has finished the input has been reset, whichever task    *)
(* found the counter at zero, and in whatever order they looked.            *)
InputClearedAtRest ==
    (\A c \in Calls : pc[c] \in {"new", "finished"}) => input = None

(* version() is "the number of times the action has successfully            *)
(* completed", as its doc comment says, whenever nothing is being stored.   *)
VersionCountsCompleted == Busy = {} => version = Cardinality(completed)

(* The newest call's result is stored, unless that call was aborted: a      *)
(* dropped abort handle, or an older call that is still running, does not   *)
(* get in its way.                                                          *)
NewestCommits ==
    \A c \in Calls :
        pc[c] = "pending" ~> \/ c \in committed
                             \/ handle[c] = "sent"
                             \/ \E d \in Calls : order[d] > order[c]

(* No call stays in flight: pending() becomes false when all is done.       *)
CallsSettle == \A c \in Calls : pc[c] = "pending" ~> pc[c] = "finished"

-----------------------------------------------------------------------------
(* The inductive invariant, in parts.                                       *)

(* The dispatch counter is the order of the newest call.                    *)
OrderInv == \A c \in Calls : order[c] <= dispatched

(* With one thread at most one call is in the middle of its code, a call    *)
(* that is being dispatched or has found itself to be the latest is the     *)
(* newest, and snapshots are exact.                                         *)
OneThreadInv ==
    /\ \A c, d \in Busy : c = d
    /\ \A c \in Calls :
          /\ pc[c] \in {"bumped", "snapped", "latest", "versioned"} => order[c] = dispatched
          /\ pc[c] \in {"snapped", "pending", "resolved"} => snapshot[c] = order[c]
          /\ pc[c] = "clearing" => Flying = {}

(* With one thread, and outside of dispatch, the newest input is shown.     *)
InputInv ==
    Flying # {} /\ (\A c \in Calls : pc[c] \notin {"counted", "bumped", "snapped"})
        => input # None /\ order[input] = dispatched

IInv ==
    /\ TypeOK
    /\ InFlightCounts
    /\ InputClearedAtRest
    /\ OrderInv
    /\ Threads = 1 => OneThreadInv /\ InputInv

=============================================================================
