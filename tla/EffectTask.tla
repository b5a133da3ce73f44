------------------------------ MODULE EffectTask ------------------------------
(***************************************************************************)
(* One effect and its task on a multi-threaded executor: the coalescing    *)
(* channel of channel.rs (a flag and a waker), the loop that Effect::new   *)
(* spawns, EffectInner, and any number of threads that write the signals   *)
(* the effect reads, pause or resume its owner, or dispose of it.          *)
(*                                                                         *)
(* Sources are versions, from 1 on: a write makes the version of a source  *)
(* one larger, and a run of the effect records the versions it has read.   *)
(* The version of a trigger is the version of what the trigger guards.     *)
(***************************************************************************)
EXTENDS Naturals, FiniteSets

CONSTANTS
    Sources,        \* the signals and triggers the effect reads
    Triggers,       \* those of them that are triggers
    Writers,        \* threads that write them
    Nobody,         \* no writer, and no source
    MaxVersion,     \* bound on the version of each source
    MaxPauses       \* bound on the calls of Owner::pause

ASSUME EffectTaskAssumption ==
    /\ Triggers \subseteq Sources
    /\ Nobody \notin Writers
    /\ MaxVersion \in Nat
    /\ MaxPauses \in Nat

VARIABLES
    version,    \* current version of each source
    subs,       \* the sources whose subscriber set holds the effect
    writer,     \* per thread: [pc, source]
    dirty,      \* EffectInner.dirty
    lock,       \* who holds the RwLock of EffectInner: a writer, or nobody
    set,        \* channel: the flag
    waker,      \* channel: the task's waker is registered
    queued,     \* executor: the task has been woken and not polled since
    task,       \* where the task's future is suspended, or is running
    first,      \* first_run
    unread,     \* during a run: the sources still to be read
    reading,    \* during a run: the sources tracked and not yet read
    seen,       \* the versions last read by a run, 0 for none yet
    paused,     \* owner.paused()
    pauses,     \* how often the owner has been paused
    handle,     \* the Effect has not been disposed of
    gone,       \* EffectInner, and with it the channel, has been dropped
    missed      \* history: a notification was ignored while paused, and no run since

vars == <<version, subs, writer, dirty, lock, set, waker, queued, task, first,
          unread, reading, seen, paused, pauses, handle, gone, missed>>
writing == <<version, writer, lock>>
channel == <<set, waker, queued>>
run == <<unread, reading, seen, subs>>
owning == <<paused, pauses, handle>>

Init ==
    /\ version = [s \in Sources |-> 1]
    /\ subs = {}
    /\ writer = [w \in Writers |-> [pc |-> "idle", source |-> Nobody]]
    /\ dirty = TRUE
    /\ lock = Nobody
    /\ set = TRUE
    /\ waker = FALSE
    /\ queued = TRUE
    /\ task = "idle"
    /\ first = TRUE
    /\ unread = {}
    /\ reading = {}
    /\ seen = [s \in Sources |-> 0]
    /\ paused = FALSE
    /\ pauses = 0
    /\ handle = TRUE
    /\ gone = FALSE
    /\ missed = FALSE

(* AtomicWaker::wake takes the waker, if one is registered, and wakes the   *)
(* task; a wake while the task is being polled makes it be polled again.    *)
Wake == queued' = (queued \/ waker) /\ waker' = FALSE

(* EffectInner lives as long as the Effect, or a thread that has upgraded   *)
(* its reference in order to mark it.  The channel lives as long as         *)
(* EffectInner, or the task between upgrade and the end of poll_next.       *)
Locking == {w \in Writers : writer[w].pc \in {"locked", "stored", "notified"}}
Marking == {w \in Writers : writer[w].pc = "upgraded"} \cup Locking
Alive == handle \/ Marking # {}
Polling == task \in {"upgraded", "registered"}

(* The last strong reference goes: Drop for Inner wakes the task.           *)
DropInnerSilently == gone' = TRUE /\ UNCHANGED <<waker, queued>>

DropInner == gone' = TRUE /\ Wake

(* A signal clones its subscribers in order to mark them; a trigger takes   *)
(* them, and the next run has to subscribe again.                           *)
TakeFrom(s) == IF s \in Triggers THEN subs \ {s} ELSE subs

-----------------------------------------------------------------------------
(* A thread writes a source: value first, then the subscribers are cloned,  *)
(* then EffectInner::mark_dirty runs under its lock: the flag dirty, the    *)
(* channel's flag, and the wake.                                            *)

Write(w, s) ==
    /\ writer[w].pc = "idle"
    /\ version[s] < MaxVersion
    /\ version' = [version EXCEPT ![s] = @ + 1]
    /\ writer' = [writer EXCEPT ![w] = [pc |-> "written", source |-> s]]
    /\ UNCHANGED <<dirty, lock, channel, task, first, run, owning, gone, missed>>

CloneSubscribers(w) ==
    /\ writer[w].pc = "written"
    /\ writer' = [writer EXCEPT ![w].pc = IF writer[w].source \in subs
                                          THEN "cloned" ELSE "idle"]
    /\ subs' = TakeFrom(writer[w].source)
    /\ UNCHANGED <<version, dirty, lock, channel, task, first, unread, reading, seen,
                   owning, gone, missed>>

(* AnySubscriber::mark_dirty does nothing once EffectInner is gone.         *)
UpgradeSubscriber(w) ==
    /\ writer[w].pc = "cloned"
    /\ writer' = [writer EXCEPT ![w].pc = IF Alive THEN "upgraded" ELSE "idle"]
    /\ UNCHANGED <<version, dirty, lock, channel, task, first, run, owning, gone, missed>>

MarkDirty(w) ==
    /\ writer[w].pc = "upgraded"
    /\ lock = Nobody
    /\ lock' = w
    /\ dirty' = TRUE
    /\ writer' = [writer EXCEPT ![w].pc = "locked"]
    /\ UNCHANGED <<version, channel, task, first, run, owning, gone, missed>>

NotifyStoreIfIdle(w) ==
    /\ writer[w].pc = "locked"
    /\ set' = (set \/ task = "idle")
    /\ writer' = [writer EXCEPT ![w].pc = "stored"]
    /\ UNCHANGED <<version, dirty, lock, waker, queued, task, first, run, owning,
                   gone, missed>>

NotifyStore(w) ==
    /\ writer[w].pc = "locked"
    /\ set' = TRUE
    /\ writer' = [writer EXCEPT ![w].pc = "stored"]
    /\ UNCHANGED <<version, dirty, lock, waker, queued, task, first, run, owning,
                   gone, missed>>

NotifyWake(w) ==
    /\ writer[w].pc = "stored"
    /\ Wake
    /\ writer' = [writer EXCEPT ![w].pc = "notified"]
    /\ UNCHANGED <<version, dirty, lock, set, task, first, run, owning, gone, missed>>

(* The unlock and the release of the thread's reference: if it is the last  *)
(* one, EffectInner and the channel are dropped, which wakes the task.      *)
Release(w) ==
    /\ writer[w].pc = "notified"
    /\ lock' = Nobody
    /\ writer' = [writer EXCEPT ![w].pc = "idle"]
    /\ IF ~handle /\ Marking = {w} /\ ~Polling THEN DropInner
                                               ELSE UNCHANGED <<gone, waker, queued>>
    /\ UNCHANGED <<version, dirty, set, task, first, run, owning, missed>>

-----------------------------------------------------------------------------
(* The task: while rx.next().await.is_some() { ... }                        *)

Poll ==
    /\ task = "idle"
    /\ queued
    /\ queued' = FALSE
    /\ task' = "next"
    /\ UNCHANGED <<writing, dirty, set, waker, first, run, owning, gone, missed>>

(* poll_next: upgrade the weak reference; when it fails the stream ends.    *)
Upgrade ==
    /\ task = "next"
    /\ task' = IF gone THEN "ended" ELSE "upgraded"
    /\ UNCHANGED <<writing, dirty, channel, first, run, owning, gone, missed>>

RegisterFirstTime ==
    /\ task = "upgraded"
    /\ waker' = (waker \/ first)
    /\ task' = "registered"
    /\ UNCHANGED <<writing, dirty, set, queued, first, run, owning, gone, missed>>

Register ==
    /\ task = "upgraded"
    /\ waker' = TRUE
    /\ task' = "registered"
    /\ UNCHANGED <<writing, dirty, set, queued, first, run, owning, gone, missed>>

(* The flag is swapped; the upgraded reference is released at the end, and  *)
(* if it was the last one the channel's Drop wakes the task a final time.   *)
Swap ==
    /\ task = "registered"
    /\ set' = FALSE
    /\ task' = IF set THEN "decide" ELSE "idle"
    /\ IF ~Alive THEN DropInner
                 ELSE UNCHANGED <<gone, waker, queued>>
    /\ UNCHANGED <<writing, dirty, first, run, owning, missed>>

(* A notification that comes while the owner is paused is ignored.          *)
CheckPausedAfterClearing ==
    /\ task = "decide"
    /\ task' = IF paused THEN "next" ELSE "update"
    /\ missed' = (missed \/ paused)
    /\ subs' = IF paused THEN {} ELSE subs
    /\ UNCHANGED <<writing, dirty, channel, first, unread, reading, seen, owning, gone>>

CheckPaused ==
    /\ task = "decide"
    /\ task' = IF paused THEN "next" ELSE "update"
    /\ missed' = (missed \/ paused)
    /\ UNCHANGED <<writing, dirty, channel, first, run, owning, gone>>

(* update_if_necessary, under the lock; none of the sources is a memo, so   *)
(* only dirty makes the effect run, or the first run.                       *)
UpdateIfNecessary ==
    /\ task = "update"
    /\ lock = Nobody
    /\ dirty' = (dirty /\ ~Alive)
    /\ task' = IF (dirty /\ Alive) \/ first THEN "clear" ELSE "next"
    /\ UNCHANGED <<writing, channel, first, run, owning, gone, missed>>

ClearSources ==
    /\ task = "clear"
    /\ lock = Nobody
    /\ first' = FALSE
    /\ missed' = FALSE
    /\ subs' = IF Alive THEN {} ELSE subs
    /\ unread' = Sources
    /\ task' = "run"
    /\ UNCHANGED <<writing, dirty, channel, reading, seen, owning, gone>>

(* The closure reads the sources, in any order: track, then read.           *)
Track(s) ==
    /\ task = "run"
    /\ reading = {}
    /\ s \in unread
    /\ lock = Nobody
    /\ subs' = subs \cup {s}
    /\ reading' = {s}
    /\ UNCHANGED <<writing, dirty, channel, task, first, unread, seen, owning,
                   gone, missed>>

Read(s) ==
    /\ task = "run"
    /\ s \in reading
    /\ seen' = [seen EXCEPT ![s] = version[s]]
    /\ reading' = {}
    /\ unread' = unread \ {s}
    /\ UNCHANGED <<writing, dirty, channel, task, first, subs, owning, gone, missed>>

FinishRunClean ==
    /\ task = "run"
    /\ unread = {}
    /\ task' = "next"
    /\ dirty' = FALSE
    /\ UNCHANGED <<writing, channel, first, run, owning, gone, missed>>

FinishRun ==
    /\ task = "run"
    /\ unread = {}
    /\ task' = "next"
    /\ UNCHANGED <<writing, dirty, channel, first, run, owning, gone, missed>>

-----------------------------------------------------------------------------
(* The owner is paused or resumed, the effect is disposed of.               *)

Pause ==
    /\ pauses < MaxPauses
    /\ pauses' = pauses + 1
    /\ paused' = TRUE
    /\ UNCHANGED <<writing, dirty, channel, task, first, run, handle, gone, missed>>

Resume ==
    /\ paused' = FALSE
    /\ UNCHANGED <<writing, dirty, channel, task, first, run, pauses, handle, gone, missed>>

Dispose ==
    /\ handle
    /\ handle' = FALSE
    /\ IF Marking = {} /\ ~Polling THEN DropInner
                                   ELSE UNCHANGED <<gone, waker, queued>>
    /\ UNCHANGED <<writing, dirty, set, task, first, run, paused, pauses, missed>>

-----------------------------------------------------------------------------
WriterStep(w) ==
    \/ CloneSubscribers(w) \/ UpgradeSubscriber(w) \/ MarkDirty(w)
    \/ NotifyStore(w) \/ NotifyWake(w) \/ Release(w)

TaskStep ==
    \/ Poll \/ Upgrade \/ Register \/ Swap \/ CheckPaused \/ UpdateIfNecessary
    \/ ClearSources \/ (\E s \in Sources : Track(s) \/ Read(s)) \/ FinishRun

Next ==
    \/ \E w \in Writers : (\E s \in Sources : Write(w, s)) \/ WriterStep(w)
    \/ TaskStep
    \/ Pause \/ Resume \/ Dispose

(* Every thread finishes the write it has begun, and the executor polls a   *)
(* woken task.  Nobody has to write, pause, resume or dispose.              *)
Fairness == (\A w \in Writers : WF_vars(WriterStep(w))) /\ WF_vars(TaskStep)

Spec == Init /\ [][Next]_vars /\ Fairness

-----------------------------------------------------------------------------
(* Every variable has its type in every state that the code reaches.         *)
TypeOK ==
    /\ version \in [Sources -> Nat]
    /\ subs \in SUBSET Sources
    /\ writer \in [Writers -> [pc: {"idle", "written", "cloned", "upgraded", "locked",
                                    "stored", "notified"},
                               source: Sources \cup {Nobody}]]
    /\ dirty \in BOOLEAN
    /\ lock \in Writers \cup {Nobody}
    /\ set \in BOOLEAN
    /\ waker \in BOOLEAN
    /\ queued \in BOOLEAN
    /\ task \in {"idle", "next", "upgraded", "registered", "decide", "update",
                "clear", "run", "ended"}
    /\ first \in BOOLEAN
    /\ unread \in SUBSET Sources
    /\ reading \in SUBSET Sources
    /\ seen \in [Sources -> Nat]
    /\ paused \in BOOLEAN
    /\ pauses \in Nat
    /\ handle \in BOOLEAN
    /\ gone \in BOOLEAN
    /\ missed \in BOOLEAN

(* No lost update: once every write has finished and the task is waiting    *)
(* without having been woken, the effect has read the last version of every *)
(* source, unless a notification was ignored because the owner was paused,  *)
(* or the effect has been disposed of.                                      *)
AtRestUpToDate ==
    (\A w \in Writers : writer[w].pc = "idle") /\ task = "idle" /\ ~queued
        => seen = version \/ missed \/ ~handle

(* The task never sleeps on a set flag: unless the thread that has set it   *)
(* is just about to wake the task, the task has been woken, whatever order  *)
(* the store, the wake, the registration and the swap come in.              *)
NeverAsleepOnFlag ==
    task = "idle" /\ set /\ ~queued => \E w \in Writers : writer[w].pc = "stored"

(* Every write is eventually seen by a run that read that version or a      *)
(* later one, unless it was missed while paused or the effect is disposed.  *)
WritesAreSeen ==
    \A s \in Sources, v \in 1..MaxVersion :
        version[s] = v ~> (seen[s] >= v \/ missed \/ ~handle)

(* Disposing of an effect ends its task, and so frees all it has captured:  *)
(* the final wake of the channel's Drop reaches it whichever of the handle, *)
(* a marking thread and poll_next releases the channel last.                *)
DisposeEndsTask == ~handle ~> task = "ended"

(* A source written after the owner has been resumed makes an effect that   *)
(* missed a notification run again: what Owner::resume promises.            *)
RunsWhenWritten(S) ==
    \A s \in S :
        (\E w \in Writers : writer[w] = [pc |-> "written", source |-> s])
            /\ ~first /\ ~paused
        ~> ~missed \/ paused \/ ~handle

(* ... for a signal, whose subscribers survive a notification, *)
SignalResumesEffect == RunsWhenWritten(Sources \ Triggers)

(* ... and for a trigger, whose subscribers do not.                         *)
TriggerResumesEffect == RunsWhenWritten(Triggers)

(* An effect runs once on the next tick: an effect that has not run yet and *)
(* is neither paused nor disposed of gets its first run.                    *)
FirstRunHappens == first /\ ~paused /\ handle ~> ~first \/ paused \/ ~handle

-----------------------------------------------------------------------------
(* The inductive invariant behind AtRestUpToDate, in parts.                 *)

(* The lock is held exactly by the thread that is inside mark_dirty.        *)
LockInv == \A w \in Writers : w \in Locking <=> lock = w

(* A task that waits, or is about to, can be woken or has been.             *)
WakeInv == task \in {"idle", "registered"} => waker \/ queued

(* A dirty effect has a notification on its way to the decision to run, or  *)
(* has missed one; an effect about to run owes nothing to earlier ones.     *)
DirtyInv == dirty /\ Alive =>
              \/ set
              \/ task \in {"decide", "update"}
              \/ \E w \in Writers : writer[w].pc = "locked"
              \/ missed /\ task # "clear"

(* A thread has written the source and has not marked the effect yet.       *)
OnItsWay(s) == \E w \in Writers : writer[w].pc \in {"cloned", "upgraded"}
                                   /\ writer[w].source = s

(* The effect is subscribed to everything it has read, but for a trigger    *)
(* that has given it up in order to mark it.                                *)
SubsInv == \A s \in Sources : s \notin subs /\ Alive =>
              \/ first
              \/ task = "run" /\ s \in unread \ reading
              \/ s \in Triggers /\ (dirty \/ task = "clear" \/ OnItsWay(s))

FirstInv == first => dirty \/ ~Alive \/ task = "clear"

RunInv == /\ reading \subseteq unread
          /\ reading # {} => task = "run"
          /\ gone => ~Alive

(* A version not seen yet is on its way: being marked, marked, or going to  *)
(* be read by the run in progress.                                          *)
SeenInv == \A s \in Sources : seen[s] # version[s] /\ Alive =>
              \/ dirty
              \/ task = "clear"
              \/ task = "run" /\ s \in unread
              \/ \E w \in Writers : writer[w].pc \in {"written", "cloned", "upgraded"}
                                    /\ writer[w].source = s

IInv == /\ TypeOK
        /\ LockInv
        /\ WakeInv
        /\ NeverAsleepOnFlag
        /\ DirtyInv
        /\ SubsInv
        /\ FirstInv
        /\ RunInv
        /\ SeenInv

=============================================================================
