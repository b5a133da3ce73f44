---------------------------- MODULE ReactiveGraph ----------------------------
(***************************************************************************)
(* The push-pull reactive graph of the crate reactive_graph: signals,      *)
(* memos and effects, and the synchronous call chains that run on each     *)
(* thread.  A write pushes Dirty/Check marks down the graph; a read or an  *)
(* effect's task pulls fresh values up through update_if_necessary.        *)
(*                                                                         *)
(* Every thread has an explicit call stack.  A step is one critical        *)
(* section of one of the locks the code takes, so that with several        *)
(* threads the interleavings of the model are the ones of the code; with   *)
(* one thread the machine is the sequential program.                       *)
(***************************************************************************)
EXTENDS Naturals, Sequences

CONSTANTS
    Signals, Memos, Effects,    \* the nodes
    Immediates,                 \* effects that run inside the write, on one thread
    Threads,                    \* threads that write, read and poll effects
    Values,                     \* the values signals and memos may hold
    None,                       \* Option::None, and "no observer"
    NextRead(_, _),             \* what a node's closure reads after these values
    Done,                       \* ... or that it reads nothing more
    Result(_, _),               \* what a memo's closure returns for these values
    Batching,                   \* whether the program calls batch()
    MaxSets                     \* bound on the number of signal writes

Sources == Signals \cup Memos
Subscribers == Memos \cup Effects \cup Immediates
Nodes == Signals \cup Subscribers

ASSUME GraphAssumption ==
    /\ Signals \cap Memos = {}
    /\ Sources \cap (Effects \cup Immediates) = {}
    /\ Effects \cap Immediates = {}
    /\ Immediates # {} => \E t \in Threads : Threads = {t}
    /\ None \notin Values
    /\ None \notin Nodes
    /\ Done \notin Nodes
    /\ Batching \in BOOLEAN
    /\ MaxSets \in Nat

VARIABLES
    value,          \* signal value; memo value, None while taken or never computed
    state,          \* ReactiveNodeState of each memo and immediate effect
    subscribers,    \* SubscriberSet of each source, in insertion order
    sources,        \* SourceSet of each subscriber, in insertion order
    dirty,          \* EffectInner.dirty
    notified,       \* the flag of the effect's channel
    firstRun,       \* the effect has not run yet
    batch,          \* BATCH: the immediate effects deferred by batch(), or None
    stack,          \* call stack of each thread, innermost frame first
    ret,            \* what the last update_if_necessary returned
    sets,           \* how many signal writes have happened
    changes,        \* history: how often each source has changed
    basis,          \* history: changes of each source when last read by a node
    excused         \* history: the immediate effects put off by a batch that read a memo
                    \* when they last ran

vars == <<value, state, subscribers, sources, dirty, notified, firstRun, batch,
          stack, ret, sets, changes, basis, excused>>
graph == <<subscribers, sources>>
effects == <<dirty, notified, firstRun, batch>>
history == <<changes, basis, excused>>

States == {"Clean", "Check", "Dirty"}

PCs == {"notify", "mark", "update", "check", "checked", "clean", "take", "clear",
        "run", "subscribe", "read", "value", "effect", "get", "immediate",
        "needed", "unneeded", "flush"}

(* A frame: its program counter, the node it works for, Observer at the     *)
(* time of the call, the sources left to check, the marks left to place,    *)
(* the values the closure has read so far, and the value taken by a memo.   *)
Frame == [pc: PCs, node: Nodes, obs: Subscribers \cup {None},
          todo: Seq(Nodes), marks: Seq({"Dirty", "Check"} \X Subscribers),
          vals: Seq(Values), old: Values \cup {None}]

Call(pc, node, obs) ==
    [pc |-> pc, node |-> node, obs |-> obs, todo |-> <<>>, marks |-> <<>>,
     vals |-> <<>>, old |-> None]

Members(seq) == {seq[i] : i \in DOMAIN seq}

(* IndexSet::insert and IndexSet::shift_remove                              *)
Insert(seq, x) == IF x \in Members(seq) THEN seq ELSE Append(seq, x)

ShiftRemove(seq, x) == SelectSeq(seq, LAMBDA y : y # x)

(* Marking a memo: Dirty always wins; mark_check never downgrades it.       *)
Marked(mark, st) == IF mark = "Dirty" \/ st = "Dirty" THEN "Dirty" ELSE "Check"

(* After a source has answered: a memo also looks at its own state again,    *)
(* because a source updated on the way may have marked it; an effect only    *)
(* goes by the answer.                                                       *)
NeedsUpdateByAnswer(n, answer, st) == answer

NeedsUpdate(n, answer, st) == answer \/ (n \in Memos /\ st = "Dirty")

(* Whom a changed memo marks dirty: every subscriber but the Observer.       *)
ToMarkEveryone(subs, obs) == subs

ToMarkNobody(subs, obs) == <<>>

ToMark(subs, obs) == ShiftRemove(subs, obs)

(* What clear_sources leaves of a source's subscribers.                     *)
Unsubscribed(subs, n) == ShiftRemove(subs, n)

Marks(mark, subs) == [i \in DOMAIN subs |-> <<mark, subs[i]>>]

Init ==
    /\ value \in [Sources -> Values \cup {None}]
    /\ \A x \in Sources : value[x] = None <=> x \in Memos
    /\ state = [n \in Memos \cup Immediates |-> "Dirty"]
    /\ subscribers = [x \in Sources |-> <<>>]
    /\ sources = [n \in Subscribers |-> <<>>]
    /\ dirty = [e \in Effects |-> TRUE]
    /\ notified = [e \in Effects |-> TRUE]
    /\ firstRun = [e \in Effects \cup Immediates |-> TRUE]
    /\ batch = None
    /\ stack = [t \in Threads |-> <<>>]
    /\ ret = [t \in Threads |-> FALSE]
    /\ sets = 0
    /\ changes = [x \in Sources |-> 0]
    /\ basis = [n \in Subscribers |-> [x \in Sources |-> None]]
    /\ excused = {}

Idle(t) == stack[t] = <<>>
Top(t) == Head(stack[t])
At(t, pc) == ~Idle(t) /\ Top(t).pc = pc
Goto(t, frame) == stack' = [stack EXCEPT ![t] = <<frame>> \o Tail(@)]
Enter(t, callee, frame) == stack' = [stack EXCEPT ![t] = <<callee, frame>> \o Tail(@)]
Return(t) == stack' = [stack EXCEPT ![t] = Tail(@)]

-----------------------------------------------------------------------------
(* Writing a signal, and placing marks *)

Set(t, s, v) ==
    /\ Idle(t)
    /\ sets < MaxSets
    /\ sets' = sets + 1
    /\ value' = [value EXCEPT ![s] = v]
    /\ changes' = [changes EXCEPT ![s] = @ + 1]
    /\ stack' = [stack EXCEPT ![t] = <<Call("notify", s, None)>>]
    /\ UNCHANGED <<state, graph, effects, ret, basis, excused>>

(* The write guard is dropped first; then the subscribers are cloned.       *)
NotifySubscribers(t) ==
    /\ At(t, "notify")
    /\ Goto(t, [Top(t) EXCEPT !.pc = "mark",
                              !.marks = Marks("Dirty", subscribers[Top(t).node])])
    /\ UNCHANGED <<value, state, graph, effects, ret, sets, history>>

(* MemoInner::mark_dirty and mark_check: the mark, and then the memo's own  *)
(* subscribers before the rest of the work.                                 *)
MarkMemo(t) ==
    /\ At(t, "mark")
    /\ Top(t).marks # <<>>
    /\ LET mark == Head(Top(t).marks)[1]
           m == Head(Top(t).marks)[2]
       IN /\ m \in Memos
          /\ state' = [state EXCEPT ![m] = Marked(mark, @)]
          /\ Goto(t, [Top(t) EXCEPT !.marks = Marks("Check", subscribers[m]) \o Tail(@)])
    /\ UNCHANGED <<value, graph, effects, ret, sets, history>>

(* A call on behalf of the effect is on some thread's stack.                *)
Running(e) == \E t \in Threads : \E i \in DOMAIN stack[t] :
                 stack[t][i].node = e

(* EffectInner::mark_dirty and mark_check                                   *)
MarkEffect(t) ==
    /\ At(t, "mark")
    /\ Top(t).marks # <<>>
    /\ LET mark == Head(Top(t).marks)[1]
           e == Head(Top(t).marks)[2]
       IN /\ e \in Effects
          /\ dirty' = [dirty EXCEPT ![e] = @ \/ mark = "Dirty"]
          /\ notified' = [notified EXCEPT ![e] = TRUE]
    /\ Goto(t, [Top(t) EXCEPT !.marks = Tail(@)])
    /\ UNCHANGED <<value, state, graph, firstRun, batch, ret, sets, history>>

(* What a mark makes of an immediate effect's state.                        *)
MarkedImmediate(mark, st) == mark

(* The immediate effect's mark_dirty and mark_check run it within the mark, *)
(* if it has to: under the caller's Observer, or under itself.              *)
MarkImmediate(t) ==
    /\ At(t, "mark")
    /\ Top(t).marks # <<>>
    /\ LET mark == Head(Top(t).marks)[1]
           i == Head(Top(t).marks)[2]
       IN /\ i \in Immediates
          /\ state' = [state EXCEPT ![i] = MarkedImmediate(mark, @)]
          /\ Enter(t, Call("immediate", i, IF mark = "Check" THEN i ELSE Top(t).obs),
                      [Top(t) EXCEPT !.marks = Tail(@)])
    /\ UNCHANGED <<value, graph, effects, ret, sets, history>>

MarkDone(t) ==
    /\ At(t, "mark")
    /\ Top(t).marks = <<>>
    /\ Return(t)
    /\ UNCHANGED <<value, state, graph, effects, ret, sets, history>>

-----------------------------------------------------------------------------
(* MemoInner::update_if_necessary *)

(* The state and the sources are read in one critical section.              *)
UpdateIfNecessary(t) ==
    /\ At(t, "update")
    /\ LET m == Top(t).node
       IN Goto(t, [Top(t) EXCEPT
                     !.pc = CASE state[m] = "Clean" -> "clean"
                              [] state[m] = "Dirty" -> "take"
                              [] state[m] = "Check" -> "check",
                     !.todo = sources[m]])
    /\ UNCHANGED <<value, state, graph, effects, ret, sets, history>>

(* any(): ask the next source; a signal always answers false.               *)
CheckSource(t) ==
    /\ At(t, "check")
    /\ Top(t).todo # <<>>
    /\ LET source == Head(Top(t).todo)
           caller == [Top(t) EXCEPT !.pc = "checked"]
       IN \/ /\ source \in Memos
             /\ Enter(t, Call("update", source, Top(t).obs), caller)
             /\ UNCHANGED ret
          \/ /\ source \in Signals
             /\ Goto(t, caller)
             /\ ret' = [ret EXCEPT ![t] = FALSE]
    /\ UNCHANGED <<value, state, graph, effects, sets, history>>

CheckedSource(t) ==
    /\ At(t, "checked")
    /\ LET n == Top(t).node
           st == IF n \in Effects THEN "Clean" ELSE state[n]
       IN Goto(t, IF NeedsUpdate(n, ret[t], st)
                  THEN [Top(t) EXCEPT !.pc = CASE n \in Memos -> "take"
                                               [] n \in Effects -> "clear"
                                               [] n \in Immediates -> "needed"]
                  ELSE [Top(t) EXCEPT !.pc = "check", !.todo = Tail(@)])
    /\ UNCHANGED <<value, state, graph, effects, ret, sets, history>>

(* No source changed: a memo becomes clean; an effect that has run before   *)
(* goes back to waiting.                                                    *)
CheckedAll(t) ==
    /\ At(t, "check")
    /\ Top(t).todo = <<>>
    /\ LET n == Top(t).node
       IN \/ n \in Memos /\ Goto(t, [Top(t) EXCEPT !.pc = "clean"])
          \/ n \in Effects /\ firstRun[n] /\ Goto(t, [Top(t) EXCEPT !.pc = "clear"])
          \/ n \in Effects /\ ~firstRun[n] /\ Return(t)
          \/ n \in Immediates /\ Goto(t, [Top(t) EXCEPT !.pc = "unneeded"])
    /\ UNCHANGED <<value, state, graph, effects, ret, sets, history>>

MarkClean(t) ==
    /\ At(t, "clean")
    /\ state' = [state EXCEPT ![Top(t).node] = "Clean"]
    /\ ret' = [ret EXCEPT ![t] = FALSE]
    /\ Return(t)
    /\ UNCHANGED <<value, graph, effects, sets, history>>

TakeValue(t) ==
    /\ At(t, "take")
    /\ LET m == Top(t).node
       IN /\ value' = [value EXCEPT ![m] = None]
          /\ Goto(t, [Top(t) EXCEPT !.pc = "clear", !.old = value[m]])
    /\ UNCHANGED <<state, graph, effects, ret, sets, history>>

(* Unsubscribing from every source; an effect's first run is over.          *)
ClearSources(t) ==
    /\ At(t, "clear")
    /\ LET n == Top(t).node
       IN /\ sources' = [sources EXCEPT ![n] = <<>>]
          /\ subscribers' = [x \in Sources |->
                                IF x \in Members(sources[n])
                                THEN Unsubscribed(subscribers[x], n)
                                ELSE subscribers[x]]
          /\ firstRun' = [e \in DOMAIN firstRun |-> firstRun[e] /\ e # n]
          /\ basis' = [basis EXCEPT ![n] = [x \in Sources |-> None]]
    /\ Goto(t, [Top(t) EXCEPT !.pc = "run", !.todo = <<>>])
    /\ UNCHANGED <<value, state, dirty, notified, batch, ret, sets, changes, excused>>

-----------------------------------------------------------------------------
(* Running a closure: each read first tracks (add_source, add_subscriber)   *)
(* and then reads; reading a memo brings it up to date under this Observer. *)

Track(t) ==
    /\ At(t, "run")
    /\ LET n == Top(t).node
           source == NextRead(n, Top(t).vals)
       IN /\ source # Done
          /\ sources' = [sources EXCEPT ![n] = Insert(@, source)]
    /\ Goto(t, [Top(t) EXCEPT !.pc = "subscribe"])
    /\ UNCHANGED <<value, state, subscribers, effects, ret, sets, history>>

Subscribe(t) ==
    /\ At(t, "subscribe")
    /\ LET n == Top(t).node
           source == NextRead(n, Top(t).vals)
       IN subscribers' = [subscribers EXCEPT ![source] = Insert(@, n)]
    /\ Goto(t, [Top(t) EXCEPT !.pc = "read"])
    /\ UNCHANGED <<value, state, sources, effects, ret, sets, history>>

ReadSignal(t) ==
    /\ At(t, "read")
    /\ LET n == Top(t).node
           source == NextRead(n, Top(t).vals)
       IN /\ source \in Signals
          /\ basis' = [basis EXCEPT ![n][source] = changes[source]]
          /\ Goto(t, [Top(t) EXCEPT !.pc = "run", !.vals = Append(@, value[source])])
    /\ UNCHANGED <<value, state, graph, effects, ret, sets, changes, excused>>

ReadMemo(t) ==
    /\ At(t, "read")
    /\ LET n == Top(t).node
           source == NextRead(n, Top(t).vals)
       IN /\ source \in Memos
          /\ Enter(t, Call("update", source, n), [Top(t) EXCEPT !.pc = "value"])
    /\ UNCHANGED <<value, state, graph, effects, ret, sets, history>>

(* The memo's value is unwrapped; on None the thread panics and unwinds.    *)
ReadMemoValue(t) ==
    /\ At(t, "value")
    /\ LET n == Top(t).node
           m == NextRead(n, Top(t).vals)
       IN IF value[m] = None
          THEN /\ stack' = [stack EXCEPT ![t] = <<>>]
               /\ UNCHANGED basis
          ELSE /\ basis' = [basis EXCEPT ![n][m] = changes[m]]
               /\ Goto(t, [Top(t) EXCEPT !.pc = "run", !.vals = Append(@, value[m])])
    /\ UNCHANGED <<value, state, graph, effects, ret, sets, changes, excused>>

(* The new value is stored and the memo marked clean under both locks; if   *)
(* the value changed, every subscriber but the Observer is marked dirty.    *)
(* The thread's ret is set at once: no mark reads or writes it.             *)
CommitMemo(t) ==
    /\ At(t, "run")
    /\ LET m == Top(t).node
           new == Result(m, Top(t).vals)
           changed == new # Top(t).old
           subs == ToMark(subscribers[m], Top(t).obs)
       IN /\ m \in Memos
          /\ NextRead(m, Top(t).vals) = Done
          /\ value' = [value EXCEPT ![m] = new]
          /\ state' = [state EXCEPT ![m] = "Clean"]
          /\ ret' = [ret EXCEPT ![t] = changed]
          /\ changes' = [changes EXCEPT ![m] = IF changed THEN @ + 1 ELSE @]
          /\ Goto(t, [Call("mark", m, Top(t).obs) EXCEPT
                        !.marks = IF changed THEN Marks("Dirty", subs) ELSE <<>>])
    /\ UNCHANGED <<graph, effects, sets, basis, excused>>

CommitEffect(t) ==
    /\ At(t, "run")
    /\ Top(t).node \in Effects
    /\ NextRead(Top(t).node, Top(t).vals) = Done
    /\ Return(t)
    /\ UNCHANGED <<value, state, graph, effects, ret, sets, history>>

-----------------------------------------------------------------------------
(* An effect's task: the channel yields, and the effect decides to run.     *)

PollEffect(t, e) ==
    /\ Idle(t)
    /\ batch = None
    /\ notified[e]
    /\ ~Running(e)
    /\ notified' = [notified EXCEPT ![e] = FALSE]
    /\ stack' = [stack EXCEPT ![t] = <<Call("effect", e, e)>>]
    /\ UNCHANGED <<value, state, graph, dirty, firstRun, batch, ret, sets, history>>

EffectUpdate(t) ==
    /\ At(t, "effect")
    /\ LET e == Top(t).node
       IN /\ dirty' = [dirty EXCEPT ![e] = FALSE]
          /\ Goto(t, IF dirty[e]
                     THEN [Top(t) EXCEPT !.pc = "clear"]
                     ELSE [Top(t) EXCEPT !.pc = "check", !.todo = sources[e]])
    /\ UNCHANGED <<value, state, graph, notified, firstRun, batch, ret, sets, history>>

-----------------------------------------------------------------------------
(* Immediate effects and batch().  The closures write no signal, so an      *)
(* effect is not run again from within its own run: ImmediateEffect has     *)
(* that case, and the one of several threads.                               *)

(* ImmediateEffect::new, outside of a batch *)
NewImmediate(t, i) ==
    /\ Idle(t)
    /\ batch = None
    /\ firstRun[i]
    /\ stack' = [stack EXCEPT ![t] = <<Call("immediate", i, None)>>]
    /\ UNCHANGED <<value, state, graph, effects, ret, sets, history>>

(* update_if_necessary *)
UpdateImmediate(t) ==
    /\ At(t, "immediate")
    /\ LET i == Top(t).node
       IN Goto(t, [Top(t) EXCEPT
                     !.pc = CASE state[i] = "Clean" -> "unneeded"
                              [] state[i] = "Dirty" -> "needed"
                              [] state[i] = "Check" -> "check",
                     !.todo = sources[i]])
    /\ UNCHANGED <<value, state, graph, effects, ret, sets, history>>

(* While a batch is open the effect is put off, needed or not.              *)
Excuse(i) ==
    /\ excused' = IF Members(sources[i]) \cap Memos = {} THEN excused ELSE excused \cup {i}
    /\ UNCHANGED <<changes, basis>>

DeferClean(t) ==
    /\ At(t, "needed") \/ At(t, "unneeded")
    /\ batch # None
    /\ batch' = Insert(batch, Top(t).node)
    /\ state' = [state EXCEPT ![Top(t).node] = "Clean"]
    /\ ret' = [ret EXCEPT ![t] = At(t, "needed")]
    /\ Return(t)
    /\ Excuse(Top(t).node)
    /\ UNCHANGED <<value, graph, dirty, notified, firstRun, sets>>

Defer(t) ==
    /\ At(t, "needed") \/ At(t, "unneeded")
    /\ batch # None
    /\ batch' = Insert(batch, Top(t).node)
    /\ ret' = [ret EXCEPT ![t] = At(t, "needed")]
    /\ Return(t)
    /\ Excuse(Top(t).node)
    /\ UNCHANGED <<value, state, graph, dirty, notified, firstRun, sets>>

RunImmediate(t) ==
    /\ At(t, "needed")
    /\ batch = None
    /\ Goto(t, [Top(t) EXCEPT !.pc = "clear", !.obs = Top(t).node])
    /\ excused' = excused \ {Top(t).node}
    /\ UNCHANGED <<value, state, graph, effects, ret, sets, changes, basis>>

SkipImmediate(t) ==
    /\ At(t, "unneeded")
    /\ batch = None
    /\ ret' = [ret EXCEPT ![t] = FALSE]
    /\ Return(t)
    /\ UNCHANGED <<value, state, graph, effects, sets, history>>

CommitImmediate(t) ==
    /\ At(t, "run")
    /\ Top(t).node \in Immediates
    /\ NextRead(Top(t).node, Top(t).vals) = Done
    /\ state' = [state EXCEPT ![Top(t).node] = "Clean"]
    /\ ret' = [ret EXCEPT ![t] = TRUE]
    /\ Return(t)
    /\ UNCHANGED <<value, graph, effects, sets, history>>

(* batch(f): the writes that f makes come between the two.                  *)
BatchBegin(t) ==
    /\ Idle(t)
    /\ Batching
    /\ batch = None
    /\ batch' = <<>>
    /\ UNCHANGED <<value, state, graph, dirty, notified, firstRun, stack, ret, sets, history>>

BatchEnd(t) ==
    /\ Idle(t)
    /\ batch # None
    /\ batch' = None
    /\ stack' = [stack EXCEPT ![t] =
                    IF batch = <<>> THEN <<>>
                    ELSE <<[Call("flush", Head(batch), None) EXCEPT !.todo = batch]>>]
    /\ UNCHANGED <<value, state, graph, dirty, notified, firstRun, ret, sets, history>>

Flush(t) ==
    /\ At(t, "flush")
    /\ IF Top(t).todo = <<>> THEN Return(t)
       ELSE Enter(t, Call("immediate", Head(Top(t).todo), None),
                     [Top(t) EXCEPT !.todo = Tail(@)])
    /\ UNCHANGED <<value, state, graph, effects, ret, sets, history>>

-----------------------------------------------------------------------------
(* An untracked read of a memo from outside the graph.                      *)
Get(t, m) ==
    /\ Idle(t)
    /\ stack' = [stack EXCEPT ![t] = <<Call("update", m, None), Call("get", m, None)>>]
    /\ UNCHANGED <<value, state, graph, effects, ret, sets, history>>

GetValue(t) ==
    /\ At(t, "get")
    /\ Return(t)
    /\ UNCHANGED <<value, state, graph, effects, ret, sets, history>>

-----------------------------------------------------------------------------
Step(t) ==
    \/ NotifySubscribers(t) \/ MarkMemo(t) \/ MarkEffect(t) \/ MarkDone(t)
    \/ UpdateIfNecessary(t) \/ CheckSource(t) \/ CheckedSource(t) \/ CheckedAll(t)
    \/ MarkClean(t) \/ TakeValue(t) \/ ClearSources(t)
    \/ Track(t) \/ Subscribe(t) \/ ReadSignal(t) \/ ReadMemo(t) \/ ReadMemoValue(t)
    \/ CommitMemo(t) \/ CommitEffect(t) \/ EffectUpdate(t) \/ GetValue(t)
    \/ MarkImmediate(t) \/ UpdateImmediate(t) \/ Defer(t) \/ RunImmediate(t)
    \/ SkipImmediate(t) \/ CommitImmediate(t) \/ Flush(t)

Next ==
    \E t \in Threads :
        \/ \E s \in Signals, v \in Values : Set(t, s, v)
        \/ \E m \in Memos : Get(t, m)
        \/ \E e \in Effects : PollEffect(t, e)
        \/ \E i \in Immediates : NewImmediate(t, i)
        \/ BatchBegin(t) \/ BatchEnd(t)
        \/ Step(t)

(* A call chain runs to its end, the closure given to batch() returns, and  *)
(* the executor polls a woken task again and again, whatever else it runs   *)
(* in between.                                                              *)
Fairness ==
    /\ \A t \in Threads : WF_vars(Step(t)) /\ SF_vars(BatchEnd(t))
    /\ \A e \in Effects : SF_vars(\E t \in Threads : PollEffect(t, e))

Spec == Init /\ [][Next]_vars /\ Fairness

-----------------------------------------------------------------------------
(* What the closures would compute from the current signal values, with no  *)
(* caching at all: the reference the incremental graph is compared with.    *)

Eval[n \in Nodes, vals \in Seq(Values)] ==
    IF n \in Signals THEN value[n]
    ELSE IF NextRead(n, vals) = Done THEN Result(n, vals)
    ELSE Eval[n, Append(vals, Eval[NextRead(n, vals), <<>>])]

Fresh(m) == value[m] = Eval[m, <<>>]

Marking == \E t \in Threads : \E i \in DOMAIN stack[t] :
              stack[t][i].pc \in {"notify", "mark"}
Quiet == \A t \in Threads : Idle(t)

NoDuplicates(seq) == \A i, j \in DOMAIN seq : seq[i] = seq[j] => i = j

(* Every variable has its type, and the index sets hold no node twice.      *)
TypeOK ==
    /\ value \in [Sources -> Values \cup {None}]
    /\ \A s \in Signals : value[s] \in Values
    /\ state \in [Memos \cup Immediates -> States]
    /\ subscribers \in [Sources -> Seq(Subscribers)]
    /\ sources \in [Subscribers -> Seq(Sources)]
    /\ \A x \in Sources : NoDuplicates(subscribers[x])
    /\ \A n \in Subscribers : NoDuplicates(sources[n])
    /\ dirty \in [Effects -> BOOLEAN]
    /\ notified \in [Effects -> BOOLEAN]
    /\ firstRun \in [Effects \cup Immediates -> BOOLEAN]
    /\ batch = None \/ batch \in Seq(Immediates)
    /\ stack \in [Threads -> Seq(Frame)]
    /\ ret \in [Threads -> BOOLEAN]
    /\ sets \in 0..MaxSets
    /\ changes \in [Sources -> Nat]
    /\ basis \in [Subscribers -> [Sources -> Nat \cup {None}]]
    /\ excused \subseteq Immediates

(* Glitch freedom: whoever is handed a memo's value (another memo, an       *)
(* effect, or an outside reader, through ArcMemo::try_read_untracked) gets  *)
(* what a full recomputation from the current signals would give, however   *)
(* many levels of Check and Dirty memos the read had to bring up to date.   *)
(* (An immediate effect may run in the middle of a propagation of marks; it *)
(* then runs once more.)                                                    *)
ReadsAreFresh ==
    ~Marking => \A t \in Threads :
        /\ At(t, "value") => Fresh(NextRead(Top(t).node, Top(t).vals))
        /\ At(t, "get") => Fresh(Top(t).node)

(* With no call in progress a Clean memo is fresh, as the doc comment of    *)
(* ReactiveNodeState::Clean puts it: its sources have not changed, or have  *)
(* changed without changing its value.                                      *)
CleanIsFreshAtRest ==
    Quiet => \A m \in Memos : state[m] = "Clean" => Fresh(m)

(* The unwrap in ArcMemo::try_read_untracked is safe: when                  *)
(* update_if_necessary has returned, the value is Some.                     *)
UnwrapIsSafe ==
    \A t \in Threads :
        /\ At(t, "value") => value[NextRead(Top(t).node, Top(t).vals)] # None
        /\ At(t, "get") => value[Top(t).node] # None

SeenLast(n) ==
    \A x \in Members(sources[n]) :
        basis[n][x] = changes[x] /\ (x \in Memos => Fresh(x))

(* No lost update: an effect whose channel is not set has seen the last     *)
(* change of everything it read, and none of the memos it read would come   *)
(* out different now.                                                       *)
EffectsUpToDate ==
    Quiet => \A e \in Effects : ~notified[e] => SeenLast(e)

(* An immediate effect has run again by the time the write, or the batch of *)
(* writes, returns: it has seen the last change of everything it read,      *)
(* signals and memos, but for a memo it read when a batch put it off.       *)
ImmediatesUpToDate ==
    Quiet /\ batch = None => \A i \in Immediates \ excused : SeenLast(i)

(* batch() puts immediate effects off and loses none of them, whatever they *)
(* read.                                                                    *)
BatchesLoseNothing ==
    Quiet /\ batch = None => \A i \in Immediates : SeenLast(i)

(* No needless run: a memo or effect that has run before runs again only    *)
(* if something it read last time has changed since (a signal was written,  *)
(* or a memo came out different), not because a mark merely passed through. *)
(* (Immediate effects may run twice for one write.)                         *)
NoNeedlessRun ==
    \A t \in Threads : At(t, "clear") /\ Top(t).node \notin Immediates =>
        LET seen == basis[Top(t).node]
        IN \/ \A x \in Sources : seen[x] = None
           \/ \E x \in Sources : seen[x] # None /\ seen[x] # changes[x]

(* Once the writes stop, the effects come to rest: tasks do not go on       *)
(* waking each other through the memos they share.                          *)
EffectsSettle == <>[](\A e \in Effects : ~notified[e] /\ ~Running(e))

=============================================================================
