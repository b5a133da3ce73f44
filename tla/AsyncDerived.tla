---------------------------- MODULE AsyncDerived ----------------------------
(***************************************************************************)
(* ArcAsyncDerived: a value computed by futures.  A spawned task waits for *)
(* marks from the source, makes a future, awaits it, stores its result and *)
(* notifies.  Others write the value directly, await it, or read it under  *)
(* a SuspenseContext, whose task handles keep a fallback on the page.      *)
(*                                                                         *)
(* A step is one critical section of a lock or one access to an atomic.    *)
(* With Parallel the actors run on threads of their own; without, they     *)
(* share one thread and change places only where the code awaits.          *)
(***************************************************************************)
EXTENDS Naturals, FiniteSets

CONSTANTS
    Writers,        \* threads or tasks that write the source
    Users,          \* threads or tasks that write the async value itself
    Awaiters,       \* tasks that await the value once
    Readers,        \* code that reads the value under the suspense context
    Handles,        \* task handles of the suspense context, reused when free; readers leave one
    None,
    Parallel,       \* TRUE: every actor has a thread of its own
    Guarded,        \* TRUE: users may keep the guard of a write across an await
    Untracked,      \* TRUE: users write with try_write_untracked
    Feedback,       \* TRUE: the subscriber writes the source when it is marked
    Starts,         \* is the source a memo, and the first future ready when first polled
    Disposing,      \* TRUE: the owner of the async value may be disposed
    MaxVersion,     \* bound on the source's versions
    MaxWrites,      \* bound on the writes of users
    MaxPauses       \* bound on the pauses of the owner

ASSUME AsyncAssumption ==
    /\ {None, "task"} \cap (Writers \cup Users \cup Readers) = {}
    /\ None \notin Handles /\ Awaiters \cap Handles = {}
    /\ \A b \in {Parallel, Guarded, Untracked, Feedback, Disposing} : b \in BOOLEAN
    /\ Starts \subseteq {"signal", "signal, ready", "memo", "memo, ready"}
    /\ MaxVersion \in Nat \ {0} /\ MaxWrites \in Nat /\ MaxPauses \in Nat

VARIABLES
    src,            \* the version of the source
    memo,           \* is the source a memo; the version it has computed, and is it dirty
    state,          \* ArcAsyncDerivedInner.state
    version,        \* ArcAsyncDerivedInner.version
    suspended,      \* whether ArcAsyncDerivedInner.suspenses is not empty
    pending,        \* ArcAsyncDerivedInner.pending_suspenses, those not released yet
    inner,          \* the user that holds the lock of ArcAsyncDerivedInner across a step
    set,            \* the channel's flag
    value,          \* the value: who made it, and the source version it goes with
    vlock,          \* the user that holds the value's lock
    loading,
    wakers,         \* the awaiters and handles with a registered waker
    task,           \* the spawned task; history: how many writes of users there had been when
                    \* its future was made, and when it took it up, and is it the first one
    pc,             \* where writers, users and readers are
    prev,           \* notify_subs: the state to restore, of each caller
    took,           \* notify_subs: the wakers taken, of each caller
    hold,           \* the handle a reader has just made
    await,          \* awaiters: "runnable", "asleep" or "done"
    tasks,          \* SuspenseContext.tasks
    waiter,         \* the task spawned to release a handle: "none", "runnable" or "asleep"
    sub,            \* a subscriber: whether it is dirty, and the value it has seen
    paused,
    wrote, pauses,  \* history: how many writes of users, and pauses
    timely,         \* history: a mark has come since the last pause, if any
    disposed

shared == <<src, memo, state, version, suspended, pending, inner, set, value, vlock,
            loading, wakers>>
suspense == <<tasks, waiter>>
history == <<wrote, pauses, timely, disposed>>
vars == <<shared, task, pc, prev, took, hold, await, suspense, sub, paused, history>>

Notifiers == Users \cup {"task"}

(* The value goes with the source's version at the time it was determined:  *)
(* read by the future, or written by the user.                              *)
Result(by, of) == [by |-> by, of |-> of]

(* spawn_derived!, up to the spawning: the function has run once and its    *)
(* future has been polled once, to the end or not.                          *)
Init ==
    /\ src = 1
    /\ state = "Clean" /\ version = 0 /\ suspended = FALSE /\ pending = {}
    /\ inner = None /\ vlock = None /\ wakers = {}
    /\ \E start \in Starts :
       LET ready == start \in {"signal, ready", "memo, ready"} IN
          /\ memo = [on |-> start \in {"memo", "memo, ready"}, at |-> 1, dirty |-> FALSE]
          /\ loading = ~ready
          /\ set = ~ready
          /\ value = IF ready THEN Result("task", 1) ELSE Result("task", 0)
          /\ task = [pc |-> "begin", initial |-> ~ready, first |-> ~ready, read |-> 1,
                     this |-> 0, since |-> 0, taken |-> 0, early |-> ~ready, shown |-> FALSE]
    /\ pc = [a \in Writers \cup Users \cup Readers |-> "idle"]
    /\ prev = [n \in Notifiers |-> "Clean"]
    /\ took = [n \in Notifiers |-> {}]
    /\ hold = [r \in Readers |-> None]
    /\ await = [a \in Awaiters |-> "runnable"]
    /\ tasks = {} /\ waiter = [h \in Handles |-> "none"]
    /\ sub = [dirty |-> FALSE, saw |-> value]
    /\ paused = FALSE /\ wrote = 0 /\ pauses = 0 /\ timely = TRUE /\ disposed = FALSE

(* An actor may take a step if, on a single thread, no other is in the      *)
(* middle of its code: the task awaits something, everyone else is through  *)
(* or awaits something with a guard in its hands.                           *)
Yielded == task.pc \in {"begin", "asleep", "await", "locked", "gone"}
Turn(a) ==
    \/ Parallel
    \/ /\ a # "task" => Yielded
       /\ \A b \in DOMAIN pc \ {a} : pc[b] = "idle" \/ (Guarded /\ pc[b] = "held")

Unlocked == inner = None

TaskAt(at) == task.pc = at /\ Turn("task")
TaskTo(at) == task' = [task EXCEPT !.pc = at]
At(a, at) == pc[a] = at /\ Turn(a)
To(a, at) == pc' = [pc EXCEPT ![a] = at]

-----------------------------------------------------------------------------
(* Marks from the source *)

MarkDirty ==
    IF state # "Notifying"
    THEN state' = "Dirty" /\ set' = TRUE
    ELSE UNCHANGED <<state, set>>

MarkCheck ==
    /\ set' = (set \/ state # "Notifying")
    /\ UNCHANGED state

WriteSource(w) ==
    /\ At(w, "idle")
    /\ src < MaxVersion
    /\ src' = src + 1
    /\ To(w, "mark")
    /\ UNCHANGED <<memo, state, version, suspended, pending, inner, set, value, vlock, loading,
                   wakers, task, prev, took, hold, await, suspense, sub, paused, history>>

(* A signal marks its subscribers dirty, a memo becomes dirty and has them  *)
(* check.                                                                   *)
MarkSource(w) ==
    /\ At(w, "mark") /\ Unlocked
    /\ IF memo.on
       THEN memo' = [memo EXCEPT !.dirty = TRUE] /\ MarkCheck
       ELSE MarkDirty /\ UNCHANGED memo
    /\ timely' = (timely \/ ~paused)
    /\ To(w, "idle")
    /\ UNCHANGED <<src, version, suspended, pending, inner, value, vlock, loading, wakers, task,
                   prev, took, hold, await, suspense, sub, paused, wrote, pauses, disposed>>

Recomputed == [memo EXCEPT !.at = IF memo.dirty THEN src ELSE @, !.dirty = FALSE]

(* Other code reads a memo that is dirty, which then marks its subscribers. *)
ReadMemo(w) ==
    /\ memo.on /\ memo.dirty
    /\ At(w, "idle") /\ Unlocked
    /\ memo' = Recomputed
    /\ IF Recomputed.at # memo.at THEN MarkDirty ELSE UNCHANGED <<state, set>>
    /\ UNCHANGED <<src, version, suspended, pending, inner, value, vlock, loading, wakers, task,
                   pc, prev, took, hold, await, suspense, sub, paused, history>>

Pause ==
    /\ Turn(None)
    /\ paused \/ pauses < MaxPauses
    /\ paused' = ~paused
    /\ pauses' = IF paused THEN pauses ELSE pauses + 1
    /\ timely' = (timely /\ paused)
    /\ UNCHANGED <<shared, task, pc, prev, took, hold, await, suspense, sub, wrote, disposed>>

-----------------------------------------------------------------------------
(* The spawned task *)

(* The future made at creation is thrown out if its value might be stale.   *)
Begin ==
    /\ TaskAt("begin") /\ Unlocked
    /\ task' = [task EXCEPT !.pc = "next", !.initial = @ /\ state # "Dirty"]
    /\ UNCHANGED <<shared, pc, prev, took, hold, await, suspense, sub, paused, history>>

Receive ==
    /\ TaskAt("next") \/ TaskAt("asleep")
    /\ set
    /\ set' = FALSE
    /\ TaskTo("update")
    /\ UNCHANGED <<src, memo, state, version, suspended, pending, inner, value, vlock, loading,
                   wakers, pc, prev, took, hold, await, suspense, sub, paused, history>>

Sleep ==
    /\ TaskAt("next") /\ ~set
    /\ TaskTo("asleep")
    /\ UNCHANGED <<shared, pc, prev, took, hold, await, suspense, sub, paused, history>>

(* update_if_necessary, unless paused; the first run happens anyway.        *)
Otherwise == IF task.first THEN "generate" ELSE "next"

Update ==
    /\ TaskAt("update") /\ Unlocked
    /\ state' = IF ~paused /\ state = "Dirty" THEN "Clean" ELSE state
    /\ TaskTo(CASE paused -> Otherwise
                [] state = "Dirty" -> "generate"
                [] state = "Notifying" -> Otherwise
                [] OTHER -> "sources")
    /\ UNCHANGED <<src, memo, version, suspended, pending, inner, set, value, vlock, loading,
                   wakers, pc, prev, took, hold, await, suspense, sub, paused, history>>

(* A memo is recomputed, with the async value as the Observer, which it     *)
(* therefore does not mark.                                                 *)
UpdateSourcesIgnored ==
    /\ TaskAt("sources")
    /\ IF memo.on THEN memo' = Recomputed ELSE UNCHANGED memo
    /\ TaskTo(Otherwise)
    /\ UNCHANGED <<src, state, version, suspended, pending, inner, set, value, vlock, loading,
                   wakers, pc, prev, took, hold, await, suspense, sub, paused, history>>

UpdateSources ==
    /\ TaskAt("sources")
    /\ IF memo.on THEN memo' = Recomputed ELSE UNCHANGED memo
    /\ TaskTo(IF memo'.at # memo.at THEN "generate" ELSE Otherwise)
    /\ UNCHANGED <<src, state, version, suspended, pending, inner, set, value, vlock, loading,
                   wakers, pc, prev, took, hold, await, suspense, sub, paused, history>>

(* The initial future, or a new one, which reads the source at once         *)
Generate ==
    /\ TaskAt("generate")
    /\ IF memo.on /\ ~task.initial THEN memo' = Recomputed ELSE UNCHANGED memo
    /\ task' = [task EXCEPT !.pc = "load", !.initial = FALSE, !.first = FALSE, !.taken = wrote,
                   !.early = task.initial, !.since = IF task.initial THEN @ ELSE wrote,
                   !.read = IF task.initial THEN @ ELSE IF memo.on THEN memo'.at ELSE src]
    /\ UNCHANGED <<src, state, version, suspended, pending, inner, set, value, vlock, loading,
                   wakers, pc, prev, took, hold, await, suspense, sub, paused, history>>

Load ==
    /\ TaskAt("load")
    /\ loading' = TRUE
    /\ TaskTo("stamp")
    /\ UNCHANGED <<src, memo, state, version, suspended, pending, inner, set, value, vlock,
                   wakers, pc, prev, took, hold, await, suspense, sub, paused, history>>

(* A handle that nothing refers to                                          *)
Free(h) == h \notin tasks /\ waiter[h] = "none" /\ \A r \in Readers : hold[r] # h

(* The suspense contexts that have been read under get a new task each.     *)
StampUnkept ==
    /\ TaskAt("stamp") /\ Unlocked
    /\ version' = version + 1
    /\ task' = [task EXCEPT !.pc = "await", !.this = version', !.shown = suspended]
    /\ suspended' = FALSE
    /\ UNCHANGED <<src, memo, state, inner, set, value, vlock, loading, wakers, pending, tasks,
                   pc, prev, took, hold, await, waiter, sub, paused, history>>

Stamp ==
    /\ TaskAt("stamp") /\ Unlocked
    /\ version' = version + 1
    /\ task' = [task EXCEPT !.pc = "await", !.this = version', !.shown = suspended]
    /\ suspended' = FALSE
    /\ IF suspended
       THEN \E h \in Handles : Free(h) /\ tasks' = tasks \cup {h} /\ pending' = pending \cup {h}
       ELSE UNCHANGED <<tasks, pending>>
    /\ UNCHANGED <<src, memo, state, inner, set, value, vlock, loading, wakers,
                   pc, prev, took, hold, await, waiter, sub, paused, history>>

(* The future is ready at some time.                                        *)
Resolve ==
    /\ TaskAt("await")
    /\ TaskTo("finish")
    /\ UNCHANGED <<shared, pc, prev, took, hold, await, suspense, sub, paused, history>>

(* Its result is dropped if the value has been written in the meantime.  If *)
(* not, the task takes the value's lock, and awaits it if a user has it.    *)
Kept == IF version # task.this THEN "next" ELSE IF vlock = None THEN "store" ELSE "locked"

FinishKept ==
    /\ TaskAt("finish") /\ Unlocked
    /\ TaskTo(Kept)
    /\ UNCHANGED <<shared, pc, prev, took, hold, await, suspense, sub, paused, history>>

Finish ==
    /\ TaskAt("finish") /\ Unlocked
    /\ tasks' = tasks \ pending
    /\ pending' = {}
    /\ TaskTo(Kept)
    /\ UNCHANGED <<src, memo, state, version, suspended, inner, set, value, vlock, loading, wakers,
                   pc, prev, took, hold, await, waiter, sub, paused, history>>

Store ==
    /\ TaskAt("store") \/ TaskAt("locked")
    /\ vlock = None
    /\ value' = Result("task", task.read)
    /\ TaskTo("clear")
    /\ UNCHANGED <<src, memo, state, version, suspended, pending, inner, set, vlock, loading,
                   wakers, pc, prev, took, hold, await, suspense, sub, paused, history>>

-----------------------------------------------------------------------------
(* notify_subs, called by the task and by a user whose guard is dropped     *)

NotifierAt(n, at) == IF n = "task" THEN TaskAt(at) ELSE At(n, at)
NotifierTo(n, at) ==
    IF n = "task" THEN TaskTo(at) /\ UNCHANGED pc ELSE To(n, at) /\ UNCHANGED task

(* loading is cleared and the wakers are taken under one lock.              *)
ClearKeepsWakers(n) ==
    /\ NotifierAt(n, "clear")
    /\ loading' = FALSE
    /\ NotifierTo(n, "swap")
    /\ UNCHANGED <<src, memo, state, version, suspended, pending, inner, set, value, vlock, wakers,
                   took, prev, hold, await, suspense, sub, paused, history>>

Clear(n) ==
    /\ NotifierAt(n, "clear")
    /\ loading' = FALSE
    /\ took' = [took EXCEPT ![n] = wakers]
    /\ wakers' = {}
    /\ NotifierTo(n, "swap")
    /\ UNCHANGED <<src, memo, state, version, suspended, pending, inner, set, value, vlock,
                   prev, hold, await, suspense, sub, paused, history>>

Swap(n) ==
    /\ NotifierAt(n, "swap") /\ Unlocked
    /\ prev' = [prev EXCEPT ![n] = state]
    /\ state' = "Notifying"
    /\ NotifierTo(n, "subs")
    /\ UNCHANGED <<src, memo, version, suspended, pending, inner, set, value, vlock, loading,
                   wakers, took, hold, await, suspense, sub, paused, history>>

(* A subscriber that runs at once may write the source: the mark that comes *)
(* back is ignored.                                                         *)
NotifySub(n) ==
    /\ NotifierAt(n, "subs") /\ Unlocked
    /\ sub' = [sub EXCEPT !.dirty = TRUE]
    /\ \/ UNCHANGED <<src, memo, state, set>>
       \/ /\ Feedback /\ src < MaxVersion
          /\ src' = src + 1
          /\ IF memo.on THEN memo' = [memo EXCEPT !.dirty = TRUE] /\ MarkCheck
             ELSE MarkDirty /\ UNCHANGED memo
    /\ NotifierTo(n, "wake")
    /\ UNCHANGED <<version, suspended, pending, inner, value, vlock, loading, wakers,
                   prev, took, hold, await, suspense, paused, history>>

Wake(n) ==
    /\ NotifierAt(n, "wake")
    /\ await' = [a \in Awaiters |-> IF a \in took[n] THEN "runnable" ELSE await[a]]
    /\ waiter' = [h \in Handles |-> IF h \in took[n] THEN "runnable" ELSE waiter[h]]
    /\ took' = [took EXCEPT ![n] = {}]
    /\ NotifierTo(n, "restore")
    /\ UNCHANGED <<shared, prev, hold, tasks, sub, paused, history>>

Restore(n) ==
    /\ NotifierAt(n, "restore") /\ Unlocked
    /\ state' = prev[n]
    /\ NotifierTo(n, IF n = "task" THEN "next" ELSE "idle")
    /\ UNCHANGED <<src, memo, version, suspended, pending, inner, set, value, vlock, loading,
                   wakers, prev, took, hold, await, suspense, sub, paused, history>>

-----------------------------------------------------------------------------
(* A user writes the value: try_write, which waits for the value's lock     *)
(* while it holds the other one, an assignment, and the drop of the guard.  *)

WriteUnversioned(u) ==
    /\ At(u, "idle") /\ Unlocked /\ ~disposed
    /\ wrote < MaxWrites
    /\ wrote' = wrote + 1
    /\ tasks' = tasks \ pending
    /\ pending' = {}
    /\ inner' = u
    /\ To(u, "lock")
    /\ UNCHANGED <<src, memo, state, version, suspended, set, value, vlock, loading, wakers, task,
                   prev, took, hold, await, waiter, sub, paused, pauses, timely, disposed>>

Write(u) ==
    /\ At(u, "idle") /\ Unlocked /\ ~disposed
    /\ wrote < MaxWrites
    /\ wrote' = wrote + 1
    /\ version' = version + 1
    /\ tasks' = tasks \ pending
    /\ pending' = {}
    /\ inner' = u
    /\ To(u, "lock")
    /\ UNCHANGED <<src, memo, state, suspended, set, value, vlock, loading, wakers, task,
                   prev, took, hold, await, waiter, sub, paused, pauses, timely, disposed>>

LockValue(u) ==
    /\ At(u, "lock") /\ vlock = None
    /\ vlock' = u
    /\ inner' = None
    /\ To(u, "held")
    /\ UNCHANGED <<src, memo, state, version, suspended, pending, set, value, loading, wakers, task,
                   prev, took, hold, await, suspense, sub, paused, history>>

DropGuard(u) ==
    /\ At(u, "held")
    /\ value' = Result(u, src)
    /\ vlock' = None
    /\ To(u, IF Untracked THEN "idle" ELSE "clear")
    /\ UNCHANGED <<src, memo, state, version, suspended, pending, inner, set, loading, wakers, task,
                   prev, took, hold, await, suspense, sub, paused, history>>

-----------------------------------------------------------------------------
(* Waiting for the value *)

(* AsyncDerivedFuture::poll, under the lock of the wakers, after it has put *)
(* the suspense context it may be under into the list.  The future that     *)
(* waits for the value's lock is dropped at the end of the poll.            *)
PollAwait(a) ==
    /\ await[a] = "runnable" /\ Turn(None)
    /\ await' = [await EXCEPT ![a] = IF ~loading /\ vlock = None THEN "done" ELSE "asleep"]
    /\ wakers' = IF loading THEN wakers \cup {a} ELSE wakers
    /\ UNCHANGED suspended \/ (Unlocked /\ suspended' = TRUE)
    /\ UNCHANGED <<src, memo, state, version, pending, inner, set, value, vlock, loading,
                   task, pc, prev, took, hold, suspense, sub, paused, history>>

(* A subscriber runs again and reads the value.                             *)
ReadSub ==
    /\ sub.dirty /\ vlock = None /\ Turn(None)
    /\ sub' = [dirty |-> FALSE, saw |-> value]
    /\ UNCHANGED <<shared, task, pc, prev, took, hold, await, suspense, paused, history>>

(* try_read_untracked under a suspense context: a new handle, which is kept *)
(* while the value loads, by the async value and by a task that awaits it.  *)
ReadBegin(r) ==
    /\ At(r, "idle") /\ ~disposed
    /\ Cardinality({h \in Handles : Free(h)}) > 1
    /\ \E h \in Handles :
          /\ Free(h)
          /\ tasks' = tasks \cup {h}
          /\ hold' = [hold EXCEPT ![r] = h]
    /\ To(r, "check")
    /\ UNCHANGED <<shared, task, prev, took, await, waiter, sub, paused, history>>

ReadCheck(r) ==
    /\ At(r, "check")
    /\ IF loading
       THEN To(r, "park") /\ UNCHANGED <<tasks, hold>>
       ELSE /\ To(r, "enlist")
            /\ tasks' = tasks \ {hold[r]}
            /\ hold' = [hold EXCEPT ![r] = None]
    /\ UNCHANGED <<shared, task, prev, took, await, waiter, sub, paused, history>>

ReadPark(r) ==
    /\ At(r, "park") /\ Unlocked
    /\ pending' = pending \cup {hold[r]}
    /\ waiter' = [waiter EXCEPT ![hold[r]] = "runnable"]
    /\ hold' = [hold EXCEPT ![r] = None]
    /\ To(r, "enlist")
    /\ UNCHANGED <<src, memo, state, version, suspended, inner, set, value, vlock, loading, wakers,
                   task, prev, took, await, tasks, sub, paused, history>>

ReadEnlist(r) ==
    /\ At(r, "enlist") /\ Unlocked
    /\ suspended' = TRUE
    /\ To(r, "idle")
    /\ UNCHANGED <<src, memo, state, version, pending, inner, set, value, vlock, loading, wakers,
                   task, prev, took, hold, await, suspense, sub, paused, history>>

(* The spawned task that awaits AsyncDerivedReadyFuture and then releases   *)
PollReady(h) ==
    /\ waiter[h] = "runnable" /\ Turn(None)
    /\ IF loading
       THEN /\ wakers' = wakers \cup {h}
            /\ waiter' = [waiter EXCEPT ![h] = "asleep"]
            /\ UNCHANGED <<tasks, pending>>
       ELSE /\ waiter' = [waiter EXCEPT ![h] = "none"]
            /\ tasks' = tasks \ {h}
            /\ pending' = pending \ {h}
            /\ UNCHANGED wakers
    /\ UNCHANGED <<src, memo, state, version, suspended, inner, set, value, vlock, loading,
                   task, pc, prev, took, hold, await, sub, paused, history>>

(* The owner is disposed: cancel_on_cleanup ends the task, not during a     *)
(* poll, and the async value is dropped unless a future still refers to it. *)
Dispose ==
    /\ Disposing /\ ~disposed
    /\ Yielded /\ Turn(None)
    /\ disposed' = TRUE
    /\ TaskTo("gone")
    /\ IF \A a \in Awaiters : await[a] = "done"
       THEN /\ tasks' = tasks \ {h \in pending : waiter[h] = "none"}
            /\ pending' = {}
       ELSE UNCHANGED <<tasks, pending>>
    /\ UNCHANGED <<src, memo, state, version, suspended, inner, set, value, vlock, loading, wakers,
                   pc, prev, took, hold, await, waiter, sub, paused, wrote, pauses, timely>>

-----------------------------------------------------------------------------
TaskStep ==
    \/ Begin \/ Receive \/ Sleep \/ Update \/ UpdateSources \/ Generate \/ Load \/ Stamp
    \/ Finish \/ Store

NotifyStep(n) == Clear(n) \/ Swap(n) \/ NotifySub(n) \/ Wake(n) \/ Restore(n)

ReadStep(r) == ReadCheck(r) \/ ReadPark(r) \/ ReadEnlist(r)

Next ==
    \/ \E w \in Writers : WriteSource(w) \/ MarkSource(w) \/ ReadMemo(w)
    \/ Pause
    \/ TaskStep \/ Resolve
    \/ \E n \in Notifiers : NotifyStep(n)
    \/ \E u \in Users : Write(u) \/ LockValue(u) \/ DropGuard(u)
    \/ \E a \in Awaiters : PollAwait(a)
    \/ ReadSub
    \/ \E r \in Readers : ReadBegin(r) \/ ReadStep(r)
    \/ \E h \in Handles : PollReady(h)
    \/ Dispose

(* Every thread runs, every task that has been woken is polled in its turn, *)
(* whatever else the executor has to do, and futures resolve.               *)
Fairness ==
    /\ SF_vars(TaskStep) /\ SF_vars(Resolve)
    /\ \A w \in Writers : WF_vars(MarkSource(w))
    /\ \A n \in Notifiers : WF_vars(NotifyStep(n))
    /\ \A u \in Users : WF_vars(LockValue(u) \/ DropGuard(u))
    /\ \A a \in Awaiters : SF_vars(PollAwait(a))
    /\ \A r \in Readers : WF_vars(ReadStep(r))
    /\ \A h \in Handles : SF_vars(PollReady(h))

Spec == Init /\ [][Next]_vars

FairSpec == Spec /\ Fairness

-----------------------------------------------------------------------------
(* Every variable has its type in every state that the code reaches.         *)
TypeOK ==
    /\ src \in 1..MaxVersion /\ memo \in [on : BOOLEAN, at : 1..MaxVersion, dirty : BOOLEAN]
    /\ state \in {"Clean", "Dirty", "Notifying"} /\ version \in Nat
    /\ inner \in Users \cup {None} /\ vlock \in Users \cup {None}
    /\ wakers \subseteq Awaiters \cup Handles
    /\ pending \cup tasks \subseteq Handles
    /\ await \in [Awaiters -> {"runnable", "asleep", "done"}]
    /\ waiter \in [Handles -> {"none", "runnable", "asleep"}]
    /\ hold \in [Readers -> Handles \cup {None}]
    /\ value \in [by : Notifiers, of : 0..MaxVersion]

(* Nothing is running, runnable or about to be.                             *)
Quiet ==
    /\ task.pc \in {"asleep", "gone"}
    /\ task.pc = "asleep" => ~set
    /\ \A a \in DOMAIN pc : pc[a] = "idle"
    /\ \A a \in Awaiters : await[a] # "runnable"
    /\ \A h \in Handles : waiter[h] # "runnable"

(* "when a source changes, notifying this will cause the async work to      *)
(* rerun": once everything is quiet, the value goes with the latest version *)
(* of the source, also when it changed while a future was loading, while    *)
(* the value was being written or announced, or under a memo, unless the    *)
(* owner has been paused and the source has not changed since; and a        *)
(* subscriber that has not been marked since it read has seen the value.    *)
UpToDate ==
    Quiet /\ ~disposed =>
        /\ timely => value.of = src
        /\ ~sub.dirty => sub.saw = value

(* No future's result is stored if a user has written the value since the   *)
(* future was made by the task or, if it is the one made at creation, since *)
(* the task took it up at its first poll: "increment the version, such that *)
(* a rerun triggered previously does not overwrite this new value".         *)
WritesStand ==
    [][Store => task.since = wrote \/ (task.early /\ task.taken = wrote)]_vars

(* No future's result, the first one's included, is stored if a user has    *)
(* written the value since the future was made.                             *)
AllWritesStand == [][Store => task.since = wrote]_vars

(* Loading ends, and everyone who awaits the value is woken, however the    *)
(* registration of a waker, the end of loading and a reload interleave:     *)
(* nobody sleeps when everything is quiet, unless the async value has been  *)
(* disposed.                                                                *)
NobodyLeftAsleep ==
    Quiet /\ ~disposed =>
        /\ ~loading
        /\ \A a \in Awaiters : await[a] = "done"

(* No handle is left in the suspense context when everything is quiet: each *)
(* one that a reader or a reload took out is dropped when its loading ends, *)
(* so the fallback goes away, unless the async value has been disposed.     *)
SuspenseEmpties == Quiet /\ ~disposed => tasks = {}

(* No notification is half done when everything is quiet: the state that    *)
(* notify_subs saves and puts back is never left at Notifying.              *)
NotifyingEnds == Quiet => state # "Notifying"

(* While a reload is under way, a context that read the value before it     *)
(* began has a task and shows its fallback, unless a user writes the value. *)
FallbackShown ==
    task.pc = "await" /\ task.shown /\ version = task.this => tasks # {}

(* Every task that awaits the value gets it, unless the value is disposed.  *)
AwaitersFinish == \A a \in Awaiters : <>(await[a] = "done" \/ disposed)

(* The future made at creation is used only if no mark has come since; or   *)
(* a mark is still waiting to be handled.                                   *)
InitialIsFresh ==
    task.pc = "generate" /\ task.initial /\ ~memo.on /\ (\A w \in Writers : pc[w] = "idle")
        => task.read = src \/ state = "Dirty"

=============================================================================
