# A TLA+ verification of Leptos

Leptos is a Rust web framework. Two things make it hard to get right. One is its
reactive core, the crate `reactive_graph`: signals, memos, effects, actions, async
values and owners that run each other through callbacks, on one thread in a
browser and on many on a server. The other is what a server does with it: views
streamed in pieces while their data load, data streamed after them, pages cached
in files that are regenerated while they are served. This directory models both
in TLA+, with the keyed list that keeps a document in step with its items, checks
them with TLC and proves part of them with TLAPS.

## The system and its parts

| part | source (under `src/reactive_graph/src` unless said) | module |
| --- | --- | --- |
| signals, memos, marking and pulling | `graph/`, `computed/inner.rs`, `computed/arc_memo.rs`, `effect/inner.rs`, `signal/` | `ReactiveGraph` |
| effect tasks and their channel | `channel.rs`, `effect/effect.rs`, `effect/inner.rs`, `signal/arc_trigger.rs` | `EffectTask` |
| immediate effects and `batch()` | `effect/immediate.rs` | `ImmediateEffect`, and `ReactiveGraph` for several effects with memos |
| actions | `actions/action.rs` | `Action` |
| owner tree, cleanup, arena | `owner.rs`, `owner/arena*.rs`, `owner/storage.rs` | `OwnerTree` (contexts left out) |
| owner, observer and zone scopes, `ScopedFuture` | `graph/subscriber.rs`, `diagnostics.rs`, `computed/async_derived/mod.rs` | `Scopes` |
| async derived values, suspense handles | `computed/async_derived/` | `AsyncDerived` (parts left out, see below) |
| keyed lists | `src/tachys/src/view/keyed.rs` | `KeyedList`, implementing `ViewList` |
| streaming of HTML, Suspense and error boundaries on the server | `src/tachys/src/ssr/mod.rs`, `src/leptos/src/suspense_component.rs`, `src/leptos/src/error_boundary.rs` | `HtmlStream` |
| hydration context on the server: the stream of data | `src/hydration_context/src/ssr.rs` | `DataStream` |
| a response: HTML, then data, with loaders at work | `src/integrations/utils/src/lib.rs`, `src/integrations/axum/src/lib.rs` | `Response` |
| static routes: build, publish, serve, regenerate | `src/router/src/static_routes.rs`, `src/integrations/utils/src/static_files.rs`, `src/integrations/axum/src/lib.rs` | `StaticRoutes` |
| executor | `src/any_spawner` | modelled from its use |
| render effects, `Effect::watch`, multi-actions, selector, async transitions, contexts | `effect/render_effect.rs`, `actions/multi_action.rs`, `computed/selector.rs`, `transition.rs`, `owner/context.rs` | planned |
| reactive stores, router, Suspense in the browser | `src/reactive_stores`, `src/router`, `src/leptos/src` | planned |
| server functions, macros, DOM output, meta tags, hot reload, utility crates, examples | | not modelled: I/O, generated code, or data types without a protocol |

`PROJECT.json` lists every part with its status, and for every definition that
models code the lines it stands for.

How they interact: a write of a signal (`Notify`) marks its subscribers. A memo
that is marked passes on `Check`; an effect that is marked sets its flag and
notifies a channel that wakes its task; an immediate effect runs at once; an
async value wakes its task. When a task or a reader wants a value,
`update_if_necessary` pulls: sources are brought up to date first, and a node
whose sources did not change does not run. While a node runs, the thread-local
`Observer` names it and every read subscribes it. The `Owner` that is current
when something is created owns it, and disposing of the owner disposes of that.

On a server the view is rendered into a `StreamBuilder`. A Suspense whose data are
not there becomes a chunk to wait for, or a fallback and a template that follows
out of order; resources, errors and Suspenses left incomplete register with the
`SsrSharedContext`, whose `pending_data` becomes a stream of scripts that is
chained after the HTML. A static route does this once, writes the page to a file,
keeps the headers in a bounded cache, and may render it again when told to. In the
browser a list of items is a keyed list that is patched on every change.

## The modules

Two conventions hold throughout. A **step** is one critical section of a lock, or
one access to an atomic, so that the interleavings of the model are those of the
code; on one thread the machine is the sequential program. A variable marked
**history** is not in the code: it records what the properties need (who read
which version, which run added a source), and guards read it only to keep to a
bound or to create a thing at most once.

**`ReactiveGraph`** (with `MCReactiveGraph`). Every thread has an explicit call
stack of frames; a frame is a call of `notify_subscribers`, a mark,
`update_if_necessary`, a memo's or effect's run, a read. `state` is
`ReactiveNodeState`, `subscribers` and `sources` are the insertion-ordered sets,
`dirty` is `EffectInner.dirty` and `notified` the flag of the effect's channel.
Closures are parameters: `NextRead(n, vals)` is the next source a node reads
after the values `vals`, so what is read may depend on what was read, and
`Result(n, vals)` is what a memo returns. `MCReactiveGraph` gives graphs.
`Eval` is the reference: what the closures would return with no caching at all.

**`EffectTask`**. One effect and the task that `Effect::new` spawns, against any
number of writer threads. The channel is a flag and an `AtomicWaker`
(`Register`, `Swap`, `NotifyStore`, `NotifyWake`); `Poll` to `FinishRun` are the
loop; `lock` is the `RwLock` of `EffectInner`; a trigger differs from a signal in
that it takes its subscribers out when it notifies. Signal values are versions.

**`ImmediateEffect`** (with `MCImmediateEffect`). One immediate effect whose
closure reads and writes any of its sources in any order, so runs overlap on
threads and recurse within one; `batch` is the global `BATCH`; `started`,
`doneCount`, `doneMax` and `lastThread` are `EffectInner`'s run counters.

**`Action`**. Calls of one `ArcAction`: the increment of `in_flight`, the dispatch
counter, its snapshot, the spawned task with its `select!` of abort and result, the
stores of version and value, the clearing of the input. `DroppedInPoll` is a handle
dropped on another thread while `select!` looks at it. `Threads = 1` makes every
handler run to its end before another begins; otherwise all steps interleave.

**`OwnerTree`** (with `MCOwnerTree`). Owners, weak parent and child links,
cleanup functions, arena items, `pause` and `resume`. Reference counting is
modelled: an owner dies when the last handle, frame and arena item that holds it
goes, and its drop runs as a frame on the thread that dropped it. User code runs
inside cleanup functions, so creation, cleanup and drop nest. `Retain` is
`Vec::retain`, with which full lists are pruned.

**`Scopes`**. The thread-locals `OWNER`, `OBSERVER`, `IS_SPECIAL_ZONE`, every
construct that replaces one and puts it back, and `ScopedFuture`s polled anywhere.

**`AsyncDerived`**. The task of `ArcAsyncDerived` from the first future made by
`spawn_derived!`, through waiting, marking, loading and storing, to
`notify_subs`; direct writers of the value (`Users`), awaiting tasks, readers
under a `SuspenseContext` with their task handles, a subscriber, pause and
disposal. `Parallel` gives each actor its own thread; without it they change
places only at an `.await`. With `Guarded` a user may keep the guard of a write across
an await, so that the task can find the value locked when it is about to store, and
waits.

**`KeyedList`** (with `MCKeyedList`) and **`ViewList`**. `Diff`, `GroupAdjacentMoves`,
`UnpackMoves` and `ApplyDiff` are the functions of `keyed.rs` of those names, on
`hashed_items`, `rendered_items` with their holes, and the document. `ViewList` is
what a keyed list promises: a view for each item, in order, kept for the keys that
stay, each told its position, each shown once. `KeyedList` implements it under the
mapping in `Abstract`; the order in the document is not part of the promise, see
`EditsKeepOrder` and "Disagreements".

**`HtmlStream`**. A view of texts, Suspenses and error boundaries, rendered into a
`StreamBuilder`; chunks, ids and nested builders are the code's, HTML is a sequence
of tokens. `PollNext` is `poll_next` in one of its three ways of use (in order, out
of order, collected at once). The browser is external: `Parse` appends tokens to
the document and runs the scripts, each of which moves a template to where the
fallback of that id is.

**`DataStream`**. `SsrSharedContext` and `AsyncDataStream`: `Work` is everything
that rendering and loaders may do to the context (`WriteAsync`, `RegisterError`,
`SetIncompleteChunk`, and loading itself), `PendingData` to `FinalFlush` the
stream, a step per lock taken, so that registrations come in anywhere between.

**`Response`** (with `MCResponse`) composes the two: HTML first, then data, loaders
running meanwhile and registering what they create. `IsDataStream` says that a
response does nothing to the context that `DataStream` does not allow, so the
theorems about `DataStream` hold of responses.

**`StaticRoutes`** (with `MCStaticRoutes`). Requests (`rpc`) and build tasks (`pc`)
around the files, the cache of headers (`lru`, `kept`), `publish_lock` and
`REGENERATING_PATHS`. A render is a number, which is its HTML and its headers. The
identity of its file is a parameter, `FileId`, by which alone headers are found
(`Matches`): with inodes it tells all files apart (`Exact`), without them renders of
equal length in one tick of the clock share one. File operations may fail and the
process may die at any step: files stay, everything else goes.

The theorems about a module are in the module of its name with `Proofs`, which
extends it. The parts of the reactive core meet in the modules rather than in one
product: `ReactiveGraph` has the graph with both kinds of effect, `EffectTask` the
effect with channel, executor and owner's pause, `AsyncDerived` the async value with
source, memo, subscriber and suspense. The product of all of them is out of TLC's
reach.

## The runs

Passing runs; every property is violated under at least one plausible bug in the
code it is about (the mutants of `PROJECT.json`).

| run | instance | shows |
| --- | --- | --- |
| `graph_one` | one thread, 2 signals, 3 memos in a diamond with sources that come and go, an effect, an immediate effect, 2 writes in or out of `batch()`; 1.77 million states | `ReadsAreFresh`: a read outside a marking returns what `Eval` says. `EffectsUpToDate`, `ImmediatesUpToDate`: nobody misses a change, also across a batch. `NoNeedlessRun`: no memo or effect runs unless a source changed |
| `effect_task` | 2 sources (one a trigger), 2 writers, versions up to 2, one pause, a disposal; 103,000 states | `AtRestUpToDate`: no update is lost. `NeverAsleepOnFlag`: no wake-up is lost. `WritesAreSeen`, `SignalResumesEffect`, `DisposeEndsTask`: every write is seen in the end, a signal written after a resume runs the effect, disposal ends the task |
| `immediate` | 2 sources, 2 threads, one write of each, one pause, depth 3; 1.02 million states under symmetry | `KeptByLatest` for overlapping and recursive runs; `UpToDate` as long as calls have not overlapped on two threads |
| `action` | 3 calls, one thread, aborts, dropped handles, `clear`; 110,000 states | the pending count is exact, the shown input is the newest pending call's, an older result never replaces a newer, the newest is stored, every call settles |
| `owner_one` | 2 owners, a cleanup function, 2 items, one thread, depth 2; 852,000 states | `NothingLeft`: what an owner owned is gone with it, functions run exactly once. `CleanupOrder`: children before parents. `ItemsOwned`: a live item is in its owner's list |
| `scopes` | 2 owners, 2 subscribers, 2 futures, depth 3; 147,000 states | the thread-locals are always the innermost scope's; reads in a future go to the subscriber it was made under or to nobody |
| `async_one` | one thread, a writer, a direct writer, an awaiter, a reader under suspense, a pause, a disposal; source a signal or a memo; 540,000 states | `UpToDate` for the value and its subscriber, `WritesStand` (a future's result never replaces a direct write that came after the task took up that future), `FallbackShown` (a suspense handle is not released early), `AwaitersFinish` |
| `async_threads` | 2 writers, task, awaiter, reader under suspense on threads of their own, a subscriber that writes the source; 1.3 million states | `NobodyLeftAsleep`, `SuspenseEmpties` (every handle is released in the end) |
| `static_routes` | one request at a time, 2 tasks, 2 pages of which one is regenerated, room for one in the cache, 5 renders of which two share an identity, a failure or crash; 4.1 million states | `BodyWithItsHeaders`: a response is one whole render, with the headers of a render whose file has the same identity or none. `OnDiskIsKept`: what is on disk has its headers. `HeadersUnlessOutrun`: a hit goes without headers only if the page was replaced more often than it is re-opened. `OneLoopPerPath`, `WaitersHaveABuilder` |
| `keyed` | all lists of up to 5 keys, 2 updates, mounting and unmounting at any time; 938 states under symmetry, 48,000 transitions | `ShowsItsItems`: `KeyedList` implements `ViewList`. `EditsKeepOrder`: inserting and removing anywhere keeps the document in order |
| `ssr` | 4 apps with 3 Suspenses, 2 error boundaries, errors, local and blocking resources, a loader that creates a resource; 3 ways of streaming; 157,000 states | `DocumentComplete`: in the end the document is the whole view. `InDocumentOrder`: at every moment it is in order and nothing is twice. `PendingFirst`, `AllDelivered`, `IsDataStream`: the data. `ResponseEnds` |

`ssr_ids` is expected to fail; it is the first entry of "Disagreements".

Checked as well, with the modules as they are: `EffectsUpToDate` and `EffectsSettle`
of `ReactiveGraph` with two threads and two effects on two signals (`FlatRead`,
`FlatResult`, `MaxSets = 2`; 242,000 states), `NothingLeft` of `OwnerTree` with two
threads and no items (a million states), and the type invariants on the constants of
the runs.

### Bounds

Writes are bounded by `MaxSets`, `MaxVersion`, `MaxWrites`, pauses by `MaxPauses`,
nesting by `MaxDepth`; a bound is a conjunct of the guard of the action that
would exceed it. Why they are enough:

- A marking or a run reacts to a change and then only to whether there was
  another since: two writes after the start give a first run, a change and a
  change that races with the reaction to it.
- Two threads are what each race is between; three calls let an action have a
  newest, an older and an oldest result. Depth 3 in `immediate` lets a run inside
  a write or a batch write a signal and so be run again within itself.
- `MixedRead` has a diamond, a source that is read only sometimes, a memo read by
  memo, effect and immediate effect, and memos that come out unchanged.
- The second and the third of the renders share an identity, so that a request may
  have opened one when the other is published, and is answered with the headers of the
  newer, as `src/integrations/utils/src/static_files.rs:13` says (`OwnHeaders`, which
  asks for its own, is violated there); the other renders can be told apart.
- Five renders of two pages with room for one let a page be recorded, replaced while
  it is being opened, evicted, and replaced once more often than it is re-opened.
- Five keys let one update move, add and remove several items (the disorder
  reported below shows with five); two updates let the second start from what the
  first left.
- The apps of `MCResponse` have each kind of boundary in, beside, before and after
  each other, as far as their chunk ids do not collide out of order.
- Two owners are a parent and a child; the items hold owners, so that dropping
  one drops another inside a cleanup.

`SYMMETRY` is used in `immediate`, `owner_one`, `static_routes` and `keyed`, which
check only safety and whose permuted constants occur only in equality tests.

### Deadlock

`CHECK_DEADLOCK FALSE` stands where the program may stop: all calls made
(`action`), everything disposed of (`effect_task`, `owner_one`, `async_one`), all
renders used up (`static_routes`), the response over (`ssr`). The other runs check
it.

### Fairness

- Threads: weak fairness of a thread's next step within a call it has begun. The
  operating system schedules every thread and no modelled lock is held by a
  thread that waits.
- Executor: a woken task is polled in its turn. It is strong in `AsyncDerived`,
  `Action` and the effect polls of `ReactiveGraph`, because there being polled may
  be disabled for a while by another actor that has the thread; run queues are
  first in first out, so a task that is runnable again and again is polled.
- Futures given by the user resolve (`AsyncDerived`, `Action`), and resources load
  (`Response`): assumed of the program, as nothing can be said of a value whose
  future never does. A local resource is the exception: it never loads on a server.
- The response is polled when it has been woken (`Response`): weak fairness of
  `Respond`, as a server polls the body of a response until it ends.
- Nobody has to write, pause, resume, abort or dispose: no fairness.

## What is proved

TLAPS proves the following for all values of the constants.

`EffectTaskProofs`, from `EffectTaskAssumption` (triggers are sources, `Nobody` is
no writer, the bounds are naturals):

- `Invariance`: `Spec => []IInv`.
- `NoLostUpdate`: `Spec => []AtRestUpToDate`. When everything is quiet the effect
  has seen the last version of every source it reads, unless a notification
  met a pause or the effect is disposed of.
- `FlagIsNoticed`: `Spec => []NeverAsleepOnFlag`.

`AtRestUpToDate` speaks of quiet states only, so the invariant says who carries an
update while it is under way. `SubsInv` and `SeenInv` say that a version not yet
seen is a source still to be read in this run, or is in the hands of a writer that
is still to mark the effect, or the effect is dirty. `DirtyInv` says that a dirty
effect has its flag set, or a writer about to set it, or a task about to look.
`NeverAsleepOnFlag` and `WakeInv` say that a set flag has a task that is queued,
or a registered waker and a writer about to use it. `LockInv`, `RunInv` and
`FirstInv` tie the lock, the run's reading sets and the first run to the program
counters. The proof has one step per action and under it one per conjunct.

`ActionProofs`, from `ActionAssumption` (`Calls` is finite and does not contain
`None`, and there is at least one thread):

- `InFlightExact`: `in_flight` is the number of pending calls on any number of
  threads; `saturating_sub` never saturates.
- `InputReset`: when all calls have finished the input is reset, on any number of
  threads.
- `OneThreadNewestWins`, `OneThreadInput`: with `Threads = 1`, a result never
  replaces a later dispatch's, and the newest call's input is shown exactly while
  calls are pending. With two threads both are false, see below.

Here `OrderInv` relates the snapshots to the order of dispatch, and `OneThreadInv`
says that at most one call is inside a handler.

`StaticRoutesProofs`, from `StaticAssumption` (the cache holds a path and two renders
of it, a file is re-opened at least once; the identities, `Paths`, `Requests` and
`Tasks` are any sets, and so are the bounds any numbers):

- `ResponsesPaired`: `Spec => []BodyWithItsHeaders`.
- `HeadersExact`: `Exact => (Spec => []OwnHeaders)`. Where no two files share an
  identity a response has its own render's headers or none. No run checks it; it
  follows from `BodyWithItsHeaders`, which the run checks with a shared identity.
- `DiskKept`: `Spec => []OnDiskIsKept`.
- `HitsHaveHeaders`: `Spec => []HeadersUnlessOutrun`.
- `OneLoop`: `Spec => []OneLoopPerPath`.
- `NoWaiterForgotten`: `Spec => []WaitersHaveABuilder`.

`KeptInv` carries `OnDiskIsKept` through a publication: between the record and the
rename the newest headers are those of the file to come and the ones before them those
of the file on disk, which is why two generations are needed and why the record and
the rename are under one lock. `ReqInv` carries `HeadersUnlessOutrun` through the
attempts of a request: the file it has opened is still there, or it has been replaced
more often than it was re-opened. `TaskInv` ties loops, lock and renders to the
program counters. The steps rest on a few lemmas: recording keeps the newest render
and the one before (`LatestAppend`, `PublishKept`), every request for a page notices
its replacement (`RenameReq`), and each part of the invariant depends on some
variables only (`Frame`).

`ImmediateEffectProofs`, from `ImmediateAssumption` (`None` is no thread, the bounds
are naturals; `Sources` and `Threads` are any sets):

- `SourcesOfLatest`: `Spec => []KeptByLatest`.
- `EffectUpToDate`: `Spec => []UpToDate`.

For the first, the invariant follows the ids of the runs through calls that recurse
and overlap. `Numbered`, `Ordered` and `Apart` say that exactly the calls
inside a run have an id, that inner runs have the later ones and that no two threads
share one. `CountInv` says that as many runs are in progress as have started and are
not done, so none is left when the counters start again, and a new run
never gets the id of one in progress. `LatestInv` says that the latest run is still
on the stack of `lastThread` until it is done; being the latest it is the innermost
there, which is why the thread's id tells `add_source` enough. `KeptByLatest` then
carries itself.

For the second, `LoneInv` describes the one thread that is in calls while none
overlap. `Shape` says that an open batch has exactly one call that owns it, with no
run above it; `Subscribed` that the effect is subscribed to what it keeps as a
source, or about to be; `Fresh` that a source whose last value has not been read is
carried by the call on top of the stack (`Carried`: it is about to be notified,
marked, decided on or read) or by the batch that is open. Every step of `Carried`
hands the source on until it is read.

`ScopesProofs`, from `ScopeAssumption` (`Root` is an owner, `None` neither an owner
nor a subscriber, the depth is a natural):

- `ScopesAlwaysNest`: `Spec => []ScopesNest`.
- `ReadsAlwaysAttributed`: `Spec => []ReadsAttributed`.

`ScopesNest` speaks of the innermost scopes now, and leaving a scope restores what
its guard kept, so `Nested` says of every prefix of the scopes what `ScopesNest` says
of all of them: what a guard is to restore is what the scopes below it set. For
reads, `FutureInv` ties what a `ScopedFuture` holds to the subscriber that made it,
and `FlagInv` says that the untracked flag is up only while the innermost scope that
sets the Observer is one that raises it: a guard does not put the flag back up (see
below), and never leaves it up.

`DataStreamProofs`, for any sets of resources, Suspenses and errors:

- `KnownBeforeResolved`: `DataSpec => []PendingFirst`.
- `NothingIsLost`: `DataSpec => []AllDelivered`.

`AllDelivered` speaks of the end only. `DInv` says where everything is before: what
is registered is staged, in flight or sent, what was thrown is kept or sent, the
markers sent are the first ones up to the cursor, and once the stream has found
nothing in flight and nothing staged no loader is left that could register more.
Since every response implements `DataSpec` (`IsDataStream`, model-checked), both
hold of responses.

`AsyncDerivedProofs`, from `AsyncAssumption` (`None` and `"task"` are no actors, `None`
is no handle and no handle an awaiter, there is a first version, the bounds are
naturals; all sets of actors and handles are arbitrary):

- `FallbacksShown`: `Spec => []FallbackShown`.
- `HandlesDropped`: `Notified => (Spec => []SuspenseEmpties)`.
- `EveryoneWoken`: `Notified /\ (Serial \/ Users = {}) => (Spec => []NobodyLeftAsleep)`.
- `WritesKept`: `Serial => (Spec => WritesStand)`, an action property. It is about
  writes that come after the task made the future or, for the future made at creation,
  after the task's first poll; an earlier write is lost, see below.
- `StatePutBack`: `Serial => (Spec => []NotifyingEnds)`, which no run checks.
- `LatestShown`: `Orderly /\ Notified => (Spec => []UpToDate)`.

The hypotheses are about constants, and are needed: without them the code does
otherwise, as the table below shows. The exception is that `StatePutBack` and
`LatestShown` exclude guards kept across an await, where TLC finds both properties to
hold (`Guarded`, one writer, two users, `MaxVersion = 2`, `MaxWrites = 2`). `Notified`
says that no direct write is `try_write_untracked`. `Serial` says that there is one
thread and that no guard of a write is kept across an await (`~Parallel /\ ~Guarded`),
`Orderly` also that no subscriber writes the source and that no memo is a source
before the task's first poll. The runs `async_one` and `async_threads` satisfy the
hypotheses of what they check.

Most of these properties speak of quiet states, so the invariant follows what is
under way. `WakeInv` says that a waker is registered while the value loads, or in
the hands of exactly one caller of `notify_subs`, and that its owner sleeps;
`LoadInv` names who will end loading; `HoldInv`, `KeptInv` and `ShownInv` say who
keeps each handle: a reader in `try_read_untracked`, the task that waits for it, or
the load it was made for. `NotifyInv` says that `Notifying` stands only while
someone notifies, who has kept a state that is not `Notifying`, and `SinceInv` that
nobody has written since a future whose result counts was made or, if it was made at
creation, since it was taken up. `FreshInv` carries
`UpToDate`: if the value is not from the last version, that version is about to
mark, or marked (`Told`: a dirty state, perhaps kept by a notifier, or a dirty memo
to be pulled, and the flag set), or a run is to come (`Coming`), or a load of the
last version is under way (`UnderWay`), or a user holds the value to write it.
`Solo` says that on one thread whoever is inside a synchronous stretch of code is
alone there; it is what makes these facts stable on one thread.

`OwnerTreeProofs`, from `OwnerAssumption` (`Root` is an owner and `None` is not, no
function is an item, the depth is a natural; owners, functions, items and threads are
any sets):

- `NothingLeftBehind`: `Spec => []NothingLeft`, on any number of threads.
- `ItemsAlwaysOwned`: `Spec => []ItemsOwned`, on any number of threads.
- `OrderOfCleanup`: `Spec => []CleanupOrder`, if all threads are one (`Lone`). With two
  it is false, see below.

`NothingLeft` speaks of quiet states only. `FnInv` says where a function is before: in
its owner's list, or in exactly one frame that has taken it and is to run it, or run;
`ItemInv` says the same of items, and `Apart` that no two frames, on one stack or on
two, have a function or an item in common. This is what taking all three lists under
one lock gives. `GoneInv` says that the lists of an owner that is gone are
empty or about to be taken, so nothing can be left in them when all calls have
returned. The steps that only move work from frame to frame (`Steady`) share one
argument, and each step that touches a list has its own lemma.

For `CleanupOrder` the frame of a cleanup keeps (in `due`, a history variable) the
functions that were registered below its owner when it began. `DueInv` says of every
frame that they have run when its own functions begin, and until then that each is in
reach (`Reached`) of the frames from this one to the innermost: taken by one of them, or
with an owner in every set that has the owners these frames are about to clean up and
is closed under live children. `Handed` says that a step keeps in reach what was, and
is proved once for steps that empty no list (`HandingOn`) and once for `Take`, which
needs that no owner is below itself (`Acyclic`). `BornInv` is for `Acyclic`: a new
owner has no children before its parent lists it.

All eight inductive invariants were also checked by TLC on instances.

Only model-checked: everything else. Out of the prover's reach are liveness and
`ENABLED`, what recursive functions such as `Eval` or the folds of `KeyedList` compute for
every input (induction over data), and any module that reaches a `RECURSIVE` operator
(`HtmlStream`, `Response`). The safety of `ReactiveGraph` has no proof yet: its `Eval`
is such a function. The type invariants of the modules named above are part of what is
proved.

## Disagreements

Where the code, read with its comments and docs, does not do what they say. The
first is kept as the run `ssr_ids`. For the others the property is a definition of
the module, or a property of a passing run under constants that the run leaves out;
TLC violates it with the constants given (those not named are empty sets, `FALSE`,
or as in the module's first run). Whether each matters to a program is for the
maintainers to say; several need threads, and the passing runs say what holds
without them. Paths are under `src/reactive_graph/src` unless they begin with `src`.

| what the code does | what is said | property and constants |
| --- | --- | --- |
| An error boundary renders its children into a builder with a clone of the chunk id, and the advanced id is not brought back (`src/leptos/src/error_boundary.rs:397`): the next Suspense gets an id in use, and out of order one's content is shown twice and the other's never | `src/tachys/src/ssr/mod.rs:128`: "Increments the chunk ID."; `src/leptos/src/suspense_component.rs:105`: "hidden until all data have loaded" | run `ssr_ids`: `DocumentComplete` |
| A Suspense that turns out to be local while its fallback is still in the buffer is replaced in place by an empty chunk (`src/tachys/src/ssr/mod.rs:432`, which does not look at `replace`) | `src/leptos/src/suspense_component.rs:396`: "if there are local resources, we just return the fallback immediately" | `LocalShowsFallback` of `Response`; `Apps` is `LocalApps`, else as in `ssr` |
| A view is left where it is in the document when it moves by as many places as were added less removed before it (`src/tachys/src/view/keyed.rs:567`), although those that stay may change places: from k1 k2 k3 to k4 k5 k3 k2 k1 the document ends as k2 k4 k5 k3 k1 | `src/tachys/src/view/keyed.rs:511`: "Calculates the operations needed to get from `from` to `to`." | `DocumentInOrder` of `KeyedList`; as in `keyed` |
| A memo that changes does not mark the subscriber that is the `Observer` (`computed/inner.rs:169`). An effect that checks memo `zero`, which updates `half` on the way and comes out unchanged, then finds `half` Clean, and does not run | `effect/effect.rs:162`: "runs again when reactive values that are read inside it change" | `EffectsUpToDate` of `ReactiveGraph`; `Signals = {"a"}`, `Memos = {"half", "zero"}`, `Effects = {"view"}`, one thread, `NestedRead`, `NestedResult`, no `Batching`, `Values = {0, 1, 2}`, `MaxSets = 3` |
| The end of a memo's run stores Clean over a mark that another thread placed during the run (`computed/inner.rs:160`) | `graph/node.rs:20`: "known to be clean" | `CleanIsFreshAtRest` of `ReactiveGraph`; `Signals = {"a"}`, one memo, two threads, `SharedRead`, `SharedResult`, no `Batching` |
| The value is taken out while the closure runs (`computed/inner.rs:128`); another thread that found the memo Clean reads `None` | `computed/arc_memo.rs:332`: "safe to unwrap here" | `UnwrapIsSafe`, same constants |
| A deferred immediate effect is marked `Check` over `Dirty` (`effect/immediate.rs:390`), so that the flush (`:329`) may find nothing to do | `effect/immediate.rs:150`: "Defers ... until the end of the function" | `BatchesLoseNothing` of `ReactiveGraph`; `Signals = {"a"}`, `Memos = {"half"}`, `Immediates = {"log"}`, one thread, `ImmediateRead`, `ImmediateResult`, `Batching`, `Values = {0, 1, 2}`, `MaxSets = 2` |
| A notification that meets a pause is consumed (`effect/effect.rs:182`); if it is the first, the effect has no source that could notify it again, and never runs | `effect/effect.rs:162` | `FirstRunHappens` of `EffectTask`; `Sources = {a}`, one writer, `MaxVersion = 2`, `MaxPauses = 1` |
| A trigger takes its subscribers out when it notifies (`signal/subscriber_traits.rs:124`); a paused effect does not run and is not put back | `owner.rs:481`: "until they are notified again by a source after being resumed" | `TriggerResumesEffect`; `Sources = {a, b}`, `Triggers = {b}`, one writer, `MaxVersion = 3`, `MaxPauses = 1` |
| On two threads a task that has checked that it is the latest (`actions/action.rs:294`) may store its result after a newer one has been stored | `tests/action_dispatch_order.rs:5`: "a stale (older) dispatch cannot overwrite the value produced by a newer one" | `NewestWins` of `Action`; two calls, `Threads = 2` |
| On two threads the reset of the input (`actions/action.rs:301`) may follow the input of a new call | `actions/action.rs:450`: "will be `Some` while we are waiting for it to resolve" | `InputShowsPending`; two calls, `Threads = 2` |
| A handle dropped on another thread after `select!` has found the receiver not terminated and before it polls it (`actions/action.rs:288`) ends the call as if aborted | `actions/action.rs:287`: "if the abort message has been sent, bail" | `NewestCommits`; one call, `Threads = 2` |
| `version` counts stored results only (`actions/action.rs:295`) | `actions/action.rs:423`: "number of times the action has successfully completed" | `VersionCountsCompleted`; two calls, `Threads = 1` |
| A run that ends stores Clean over another thread's mark (`effect/immediate.rs:383`) | `effect/immediate.rs:50`: "as soon as any tracked signal changes" | `UpToDateAtRest` of `ImmediateEffect`; two threads, `MaxVersion = 1`, `MaxPauses = 0`, `MaxDepth = 2` |
| `BATCH` is global: the thread that opened it also ends the batch of another (`effect/immediate.rs:173`) | `effect/immediate.rs:150` | `BatchDefersAlways`; as in `immediate` |
| `Owner::new` under a paused owner is not paused (`owner.rs:179`); `Owner::child` is | `owner.rs:476`: "this owner, and any of its descendants" | `DescendantsFollowPause` of `OwnerTree`; `Owners = {root, a}`, `Pausable = {root}`, one thread, `MaxDepth = 2` |
| An owner whose last handle goes on another thread can no longer be upgraded (`owner.rs:620`): its parent's cleanup passes it by, and runs the parent's functions before its own have run | `owner.rs:297`: "Cleans up this owner in the following order" | `CleanupOrder` of `OwnerTree`; `Owners = {root, a}`, `Fns = {f}`, two threads, `MaxDepth = 2` |
| The guard of a nested observer scope restores the subscriber but not the untracked flag (`graph/subscriber.rs:59`) | `graph/subscriber.rs:217`: "without tracking dependencies" | `UntrackedDoesNotTrack` of `Scopes`; as in `scopes` |
| A mark that comes while the state is Notifying is dropped (`computed/async_derived/inner.rs:39`) | `computed/async_derived/inner.rs:21`: "when a source changes, notifying this will cause the async work to rerun" | `UpToDate` of `AsyncDerived`; `Feedback`, `MaxVersion = 2` |
| A memo source that changes before the task's first poll leaves the state as it is (`arc_async_derived.rs:361`), so the stale first future is used | `arc_async_derived.rs:355`: "we should throw out the Future we already created" | `UpToDate`; `Starts = {"memo"}`, one writer, `MaxVersion = 2` |
| A signal written on another thread between that look and the use of the first future | `arc_async_derived.rs:355` | `InitialIsFresh`; `Parallel`, `Starts = {"signal"}`, one writer, `MaxVersion = 2` |
| Two overlapping `notify_subs` save and restore each other's state, and leave Notifying for good (`arc_async_derived.rs:508`) | `computed/async_derived/inner.rs:21` | `NotifyingEnds`; `Parallel`, one writer, one user, `MaxVersion = 2`, `MaxWrites = 1` |
| A direct write on another thread between the comparison of versions (`arc_async_derived.rs:431`) and the store | `arc_async_derived.rs:736`: "a rerun triggered previously does not overwrite this new value" | `WritesStand`; `Parallel`, one user, `MaxWrites = 1` |
| A direct write before the task's first poll is replaced by the result of the future made at creation: the version is read only after that future is taken up (`arc_async_derived.rs:380`, `:409`) | `arc_async_derived.rs:736`: "a rerun triggered previously does not overwrite this new value" | `AllWritesStand`; one user, `MaxWrites = 1` |
| A user keeps the guard of a write across an await, so that the task, which has compared the versions, waits for the lock (`arc_async_derived.rs:463`); a second write comes before the task is polled, and is overwritten | `arc_async_derived.rs:736` | `WritesStand`; `Guarded`, one writer, one user, `MaxVersion = 2`, `MaxWrites = 2` |
| `try_write_untracked` discards the running future and does not clear `loading` (`arc_async_derived.rs:758`) | `arc_async_derived.rs:642`: "ready when this resource has next finished loading" | `NobodyLeftAsleep`; `Untracked`, one user, one awaiter, `MaxWrites = 1` |
| A poll that finds the value locked waits with a lock future it drops (`future_impls.rs:148`), and is not woken | `future_impls.rs:109`: "ready when an `ArcAsyncDerived` is finished loading" | `NobodyLeftAsleep`; `Parallel` or `Guarded`, one user, one awaiter, `MaxWrites = 1` |
| Disposing of a loading async value leaves the waiter that holds a suspense handle asleep (`arc_async_derived.rs:708`) | `src/leptos/src/suspense_component.rs:101`: "a fallback that will be shown while resources are still loading" | `SuspenseEmpties` without its exception for disposal; `Disposing`, one reader, two handles |

## Not modelled, and abstractions

- Values, equality of memos and closures are abstract; panics and poisoned locks,
  garbage of dead weak references in the subscriber sets, and `defined_at`
  diagnostics are left out. Memory orderings are taken as sequentially consistent:
  the code's atomics are used with locks or `AtomicWaker` around them.
- `ReactiveGraph` has no immediate effects on several threads (`ImmediateEffect`
  has) and no disposal of nodes (`OwnerTree` has).
- `AsyncDerived` leaves out `SuspenseContext::poll_empty`, the lock inside
  `cancel_on_cleanup` (disposal does not happen during a poll of the task),
  `AsyncDerivedRefFuture` and the ready channel of `AsyncTransition`.
- `AtomicWaker`, the async `RwLock`, the executor, the file system and the browser
  are external and modelled by how the code uses them.
- `KeyedList`: keys are distinct, as `<For/>` asks; a view is one node of the
  document, and hydration of a list that is already in the document is left out.
- `HtmlStream`: each Suspense reads one resource, and a view is never empty. A pass
  of `poll_next` is one step; loaders run between passes. An error is registered,
  and a Suspense marked incomplete, when its data come and not at the poll that
  follows, and an `Err` is a token of its own where the code renders `<!>`.
  `Transition` renders on the server as Suspense does. A `Suspend` outside of any
  Suspense (`src/tachys/src/reactive_graph/suspense.rs:328`) also takes an id and pushes
  a fallback and a chunk; it is left out.
- `DataStream` leaves out serialisation and sealed error boundaries (`seal_errors`
  has no caller).
- `StaticRoutes`: a file that cannot be opened for another reason than that it is
  missing (answered with 500) and rejected paths are left out. The record of a render
  whose rename fails stays in the cache, as in the code; `intact` marks the pages to
  which that has not happened. The handler is axum's; actix takes the same steps.
- Not modelled at all: reactive stores, the router's matching and navigation,
  contexts, selectors, multi-actions, render effects, hydration in the browser (each
  is a component of its own, see the plan), and parts that have no protocol to check:
  DOM output, macros, server functions, meta tags, hot reloading, utility crates,
  examples.

## Plan

In this order; each component gets a module, the runs that its hazards call for,
and theorems where an invariant is provable.

1. `Suspense` in the browser: `poll_empty` against `TaskHandle::drop`, the switch
   between fallback and children, `cancel_on_cleanup` and its lock (two tasks that
   dispose each other's owners), `AsyncTransition`; composed with `AsyncDerived`.
2. An abstract specification of an observable value (a writer, an observer that in
   the end sees the last value), implemented by `EffectTask` and by `ReactiveGraph`
   with signals only, under a refinement mapping.
3. `MultiAction`, `Selector`, render effects and `Effect::watch`, contexts on top of
   `OwnerTree`, `OnceResource`.
4. Reactive stores: triggers per path, keys of keyed fields. Hydration: ids handed
   out on both sides. Route matching as functions checked against a reference, and
   navigations that overtake each other.
5. Proofs: the safety of `ReactiveGraph` for what does not depend on the values that
   memos compute.
