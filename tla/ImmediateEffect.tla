--------------------------- MODULE ImmediateEffect ---------------------------
(***************************************************************************)
(* One ImmediateEffect on several threads.  A write of a signal the effect *)
(* follows runs the effect on the writing thread, inside the write; runs   *)
(* of several threads overlap, and a run whose closure writes is run again *)
(* from within itself.  batch() puts the runs off, through a global.       *)
(*                                                                         *)
(* The closure reads any sources in any order, and writes any of them.     *)
(* A step is one critical section of a lock.                               *)
(***************************************************************************)
EXTENDS Naturals, Sequences, FiniteSetsExt

CONSTANTS
    Sources,        \* the signals the effect may read
    Threads,
    None,
    MaxVersion,     \* bound on the writes of each signal
    MaxPauses,      \* bound on the calls of Owner::pause
    MaxDepth        \* bound on the calls nested on one thread

ASSUME ImmediateAssumption ==
    /\ None \notin Threads
    /\ MaxVersion \in Nat
    /\ MaxPauses \in Nat
    /\ MaxDepth \in Nat

VARIABLES
    version,        \* how often each signal has been written
    subs,           \* the signals whose subscriber set holds the effect
    sources,        \* EffectInner.sources
    state,          \* EffectInner.state
    started,        \* run_count_start
    doneCount,      \* run_done_count
    doneMax,        \* run_done_max
    lastThread,     \* last_run_thread_id
    paused,         \* the effect's owner is paused
    pauses,         \* how often it has been
    batch,          \* BATCH: is it Some, and does it hold the effect
    stack,          \* the calls in progress on each thread, innermost first
    seen,           \* history: the version of each signal last read by a run
    missed,         \* history: a notification found the owner paused
    addedBy,        \* history: the id of the run that added each source
    overlapped      \* history: calls have been in progress on two threads at once

vars == <<version, subs, sources, state, started, doneCount, doneMax, lastThread,
          paused, pauses, batch, stack, seen, missed, addedBy, overlapped>>
counters == <<started, doneCount, doneMax, lastThread>>
owner == <<paused, pauses>>
history == <<seen, missed, addedBy>>

(* A call: where it is, the signal it is about, the id of the run, and      *)
(* whether the effect needs to run, or the batch is this call's to end.     *)
Call(pc, s) == [pc |-> pc, source |-> s, id |-> 0, flag |-> FALSE]

Init ==
    /\ version = [s \in Sources |-> 0]
    /\ subs = {}
    /\ sources = {}
    /\ state = "Dirty"
    /\ started = 0
    /\ doneCount = 0
    /\ doneMax = 0
    /\ paused = FALSE
    /\ pauses = 0
    /\ missed = FALSE
    /\ batch = [open |-> FALSE, pending |-> FALSE]
    /\ seen = [s \in Sources |-> 0]
    /\ addedBy = [s \in Sources |-> 0]
    /\ overlapped = FALSE
    /\ \E t \in Threads :
          /\ lastThread = t
          /\ stack = [u \in Threads |-> IF u = t THEN <<Call("update", None)>> ELSE <<>>]

Idle(t) == stack[t] = <<>>
Top(t) == Head(stack[t])
At(t, pc) == ~Idle(t) /\ Top(t).pc = pc
Goto(t, call) == stack' = [stack EXCEPT ![t] = <<call>> \o Tail(@)]
Enter(t, call) == stack' = [stack EXCEPT ![t] = <<call>> \o @]
Return(t) == stack' = [stack EXCEPT ![t] = Tail(@)]

(* User code is in control of the thread: at the top, in batch(), or in the *)
(* effect's closure.                                                        *)
InUserCode(t) == Idle(t) \/ At(t, "batch") \/ At(t, "run")

-----------------------------------------------------------------------------
(* Writing a signal *)

Write(t, s) ==
    /\ InUserCode(t)
    /\ Len(stack[t]) < MaxDepth
    /\ version[s] < MaxVersion
    /\ version' = [version EXCEPT ![s] = @ + 1]
    /\ Enter(t, Call("notify", s))
    /\ UNCHANGED <<subs, sources, state, counters, owner, batch, history>>

(* The subscribers are cloned, then marked with no lock of the signal held. *)
Notify(t) ==
    /\ At(t, "notify")
    /\ IF Top(t).source \in subs THEN Goto(t, Call("mark", None)) ELSE Return(t)
    /\ UNCHANGED <<version, subs, sources, state, counters, owner, batch, history>>

MarkDirty(t) ==
    /\ At(t, "mark")
    /\ state' = "Dirty"
    /\ Goto(t, Call("update", None))
    /\ UNCHANGED <<version, subs, sources, counters, owner, batch, history>>

-----------------------------------------------------------------------------
(* update_if_necessary *)

ReadState(t) ==
    /\ At(t, "update")
    /\ IF paused THEN Return(t)
       ELSE Goto(t, [Top(t) EXCEPT !.pc = "decide", !.flag = (state = "Dirty")])
    /\ missed' = (missed \/ paused)
    /\ UNCHANGED <<version, subs, sources, state, counters, owner, batch, seen, addedBy>>

(* An open batch takes the effect in; otherwise it runs if it needs to.     *)
DecideForget(t) ==
    /\ At(t, "decide")
    /\ IF ~batch.open /\ Top(t).flag THEN Goto(t, Call("start", None)) ELSE Return(t)
    /\ UNCHANGED <<version, subs, sources, state, counters, owner, batch, history>>

Decide(t) ==
    /\ At(t, "decide")
    /\ batch' = [batch EXCEPT !.pending = @ \/ batch.open]
    /\ IF ~batch.open /\ Top(t).flag THEN Goto(t, Call("start", None)) ELSE Return(t)
    /\ UNCHANGED <<version, subs, sources, state, counters, owner, history>>

(* The sources kept so far are cleared, and unsubscribed from.              *)
Start(t) ==
    /\ At(t, "start")
    /\ started' = started + 1
    /\ subs' = subs \ sources
    /\ sources' = {}
    /\ lastThread' = t
    /\ missed' = FALSE
    /\ Goto(t, [Top(t) EXCEPT !.pc = "run", !.id = started + 1])
    /\ UNCHANGED <<version, state, doneCount, doneMax, owner, batch, seen, addedBy>>

(* add_source keeps what the latest run reads, until that run is done.      *)
AddsFromAnyThread(t) == doneMax < started

Adds(t) == doneMax < started /\ lastThread = t

Track(t, s) ==
    /\ At(t, "run")
    /\ sources' = IF Adds(t) THEN sources \cup {s} ELSE sources
    /\ addedBy' = IF Adds(t) /\ s \notin sources
                  THEN [addedBy EXCEPT ![s] = Top(t).id] ELSE addedBy
    /\ Goto(t, [Top(t) EXCEPT !.pc = "subscribe", !.source = s])
    /\ UNCHANGED <<version, subs, state, counters, owner, batch, seen, missed>>

Subscribe(t) ==
    /\ At(t, "subscribe")
    /\ subs' = subs \cup {Top(t).source}
    /\ Goto(t, [Top(t) EXCEPT !.pc = "read"])
    /\ UNCHANGED <<version, sources, state, counters, owner, batch, history>>

Read(t) ==
    /\ At(t, "read")
    /\ seen' = [seen EXCEPT ![Top(t).source] = version[Top(t).source]]
    /\ Goto(t, [Top(t) EXCEPT !.pc = "run", !.source = None])
    /\ UNCHANGED <<version, subs, sources, state, counters, owner, batch, missed, addedBy>>

(* How many runs are done with this one *)
DoneNow == doneCount + 1

(* With the last run the counters start again.                              *)
Finish(t) ==
    /\ At(t, "run")
    /\ started' = IF started = DoneNow THEN 0 ELSE started
    /\ doneCount' = IF started = DoneNow THEN 0 ELSE DoneNow
    /\ doneMax' = IF started = DoneNow THEN 0 ELSE Max({Top(t).id, doneMax})
    /\ state' = "Clean"
    /\ Return(t)
    /\ UNCHANGED <<version, subs, sources, lastThread, owner, batch, history>>

-----------------------------------------------------------------------------
(* batch(): the outermost call owns the batch, whichever thread it is on.   *)

BatchBegin(t) ==
    /\ InUserCode(t)
    /\ Len(stack[t]) < MaxDepth
    /\ batch' = [batch EXCEPT !.open = TRUE]
    /\ Enter(t, [Call("batch", None) EXCEPT !.flag = ~batch.open])
    /\ UNCHANGED <<version, subs, sources, state, counters, owner, history>>

BatchEnd(t) ==
    /\ At(t, "batch")
    /\ IF Top(t).flag
       THEN /\ batch' = [open |-> FALSE, pending |-> FALSE]
            /\ IF batch.pending THEN Goto(t, Call("update", None)) ELSE Return(t)
       ELSE Return(t) /\ UNCHANGED batch
    /\ UNCHANGED <<version, subs, sources, state, counters, owner, history>>

-----------------------------------------------------------------------------
(* Owner::pause and resume, called by user code; neither notifies.          *)

Pause(t) ==
    /\ InUserCode(t)
    /\ pauses < MaxPauses
    /\ pauses' = pauses + 1
    /\ paused' = TRUE
    /\ UNCHANGED <<version, subs, sources, state, counters, batch, stack, history>>

Resume(t) ==
    /\ InUserCode(t)
    /\ paused' = FALSE
    /\ UNCHANGED <<version, subs, sources, state, counters, pauses, batch, stack, history>>

-----------------------------------------------------------------------------
Step(t) ==
    \/ \E s \in Sources : Write(t, s) \/ Track(t, s)
    \/ Notify(t) \/ MarkDirty(t) \/ ReadState(t) \/ Decide(t)
    \/ Start(t) \/ Subscribe(t) \/ Read(t) \/ Finish(t)
    \/ BatchBegin(t) \/ BatchEnd(t) \/ Pause(t) \/ Resume(t)

Next ==
    /\ \E t \in Threads : Step(t)
    /\ overlapped' = (overlapped \/ \E t, u \in Threads :
                         t # u /\ stack'[t] # <<>> /\ stack'[u] # <<>>)

Spec == Init /\ [][Next]_vars

-----------------------------------------------------------------------------
Quiet == \A t \in Threads : Idle(t)

(* A call that is about a signal names it.                                  *)
CallSet ==
    {c \in [pc: {"notify", "mark", "update", "decide", "start", "run", "subscribe", "read",
                 "batch"}, source: Sources \cup {None}, id: Nat, flag: BOOLEAN] :
        c.pc \in {"notify", "subscribe", "read"} => c.source \in Sources}

(* Every variable has its type in every state that the code reaches.         *)
TypeOK ==
    /\ version \in [Sources -> 0..MaxVersion]
    /\ subs \in SUBSET Sources
    /\ sources \in SUBSET Sources
    /\ state \in {"Clean", "Dirty"}
    /\ started \in Nat /\ doneCount \in Nat /\ doneMax \in Nat
    /\ lastThread \in Threads
    /\ paused \in BOOLEAN /\ missed \in BOOLEAN
    /\ pauses \in 0..MaxPauses
    /\ batch \in [open: BOOLEAN, pending: BOOLEAN]
    /\ stack \in [Threads -> Seq(CallSet)]
    /\ seen \in [Sources -> Nat]
    /\ addedBy \in [Sources -> Nat]
    /\ overlapped \in BOOLEAN

(* When every write and batch has returned, the effect has seen the last    *)
(* value of every signal it still follows: "Effects run immediately, as     *)
(* soon as any tracked signal changes".  A notification that came while the *)
(* owner was paused is excepted, until the next run.                        *)
UpToDateAtRest == Quiet /\ ~missed => \A s \in sources : seen[s] = version[s]

(* So it is, whichever threads write, as long as their calls do not overlap. *)
UpToDate == ~overlapped => UpToDateAtRest

(* "We only keep the sources tracked by the run with the highest id": while *)
(* runs are in progress, every source kept was added by the latest of them, *)
(* although older runs, on this thread and on others, go on reading.        *)
KeptByLatest == started > 0 => \A s \in sources : addedBy[s] = started

(* batch() "Defers any [ImmediateEffect]s from running until the end of the *)
(* function": on a thread inside batch() the effect does not run.           *)
BatchDefersAlways ==
    \A t \in Threads : \A i, j \in DOMAIN stack[t] :
        i < j /\ stack[t][i].id # 0 => stack[t][j].pc # "batch"

=============================================================================
