---------------------------- MODULE StaticRoutes ----------------------------
(***************************************************************************)
(* Statically generated routes of a server: requests that serve a page     *)
(* from its file or have it built, build tasks that render a page, write   *)
(* it and go on to regenerate it, and the bounded cache that pairs a file  *)
(* with the headers of the render that wrote it.  Files outlive the        *)
(* process; the cache and the tasks do not.                                *)
(*                                                                         *)
(* A render is its number, which is also its HTML and its headers.  The    *)
(* file that it is written to has an identity, FileId (length, time and,   *)
(* where there are inodes, inode), which is all that the cache compares:   *)
(* renders may share one.                                                  *)
(***************************************************************************)
EXTENDS Naturals, Sequences, Functions

CONSTANTS
    Paths,
    Regenerated,    \* the paths of routes with a RegenerationFn
    Requests,       \* requests in service at a time
    Tasks,          \* build tasks alive at a time
    Capacity,       \* paths in the cache
    Generations,    \* renders whose headers are kept for each path
    ReopenAttempts, \* REOPEN_ATTEMPTS, 2 in the code
    FileId,         \* the identity of each render's file, and of one that is being written
    None,
    MaxRenders,     \* bound on the renders ever begun
    MaxFaults       \* bound on failing file operations and crashes of the process

ASSUME StaticAssumption ==
    /\ Capacity \in Nat \ {0}
    /\ Generations \in Nat /\ Generations >= 2
    /\ ReopenAttempts \in Nat \ {0}
    /\ MaxRenders \in Nat /\ MaxFaults \in Nat
    /\ DOMAIN FileId = 1 .. MaxRenders + 1
    /\ None \notin Tasks \cup Paths

Nothing == 0                \* no file, or no headers
Torn == MaxRenders + 1      \* what a reader would find in a file that is being written

VARIABLES
    disk,           \* the render whose file is at each path
    lru,            \* the paths in the cache, the most recently used first
    kept,           \* the renders whose headers are kept for each path, the oldest first
    intact,         \* history: the paths whose file was recorded in the cache, with no
                    \* eviction, failed rename or crash since
    lock,           \* publish_lock: the task that holds it
    regenerating,   \* REGENERATING_PATHS
    pc, path, render,   \* the build tasks: where each is, its page and its render
    looping,        \* the tasks that regenerate their page
    rpc, rpath,     \* the requests: where each is and the page it asks for
    builder,        \* the build a request waits for
    body, headers,  \* the page a request has opened or been sent, and its headers
    tries,          \* how often a request has opened the file again
    renames, calm,  \* history: how often the page was replaced since the request came (up
                    \* to what matters); it was intact then and nothing has gone wrong since
    renders,        \* how many renders have begun
    faults          \* how many file operations failed and how often the process died

files == <<disk, lru, kept, intact, lock>>
tasks == <<pc, path, render, looping>>
requests == <<rpc, rpath, builder, body, headers, tries, renames, calm>>
vars == <<files, regenerating, tasks, requests, renders, faults>>

Init ==
    /\ disk = [p \in Paths |-> Nothing]
    /\ lru = <<>> /\ kept = [p \in Paths |-> <<>>] /\ intact = {}
    /\ lock = None /\ regenerating = {}
    /\ pc = [t \in Tasks |-> "idle"] /\ path = [t \in Tasks |-> None]
    /\ render = [t \in Tasks |-> Nothing] /\ looping = {}
    /\ rpc = [r \in Requests |-> "idle"] /\ rpath = [r \in Requests |-> None]
    /\ builder = [r \in Requests |-> None]
    /\ body = [r \in Requests |-> Nothing] /\ headers = [r \in Requests |-> Nothing]
    /\ tries = [r \in Requests |-> 0] /\ renames = [r \in Requests |-> 0] /\ calm = {}
    /\ renders = 0 /\ faults = 0

(* The places in the cache of headers whose file cannot be told from r's    *)
Matches(p, r) == {i \in DOMAIN kept[p] : FileId[kept[p][i]] = FileId[r]}

-----------------------------------------------------------------------------
(* Requests: handle_static_route                                            *)

(* ResolvedStaticPath::build: a task of its own renders the page.           *)
Build(t, p) ==
    /\ pc[t] = "idle" /\ renders < MaxRenders
    /\ renders' = renders + 1
    /\ pc' = [pc EXCEPT ![t] = "render"]
    /\ path' = [path EXCEPT ![t] = p]
    /\ render' = [render EXCEPT ![t] = renders + 1]
    /\ UNCHANGED looping

(* There is no file yet: the request has the page built and waits for it.   *)
OpenMissing(r, p, t) ==
    /\ rpc[r] = "idle" /\ disk[p] = Nothing
    /\ Build(t, p)
    /\ rpc' = [rpc EXCEPT ![r] = "await"]
    /\ rpath' = [rpath EXCEPT ![r] = p]
    /\ builder' = [builder EXCEPT ![r] = t]
    /\ UNCHANGED <<files, regenerating, body, headers, tries, renames, calm, faults>>

(* There is a file: pair it with its headers.                               *)
Open(r, p) ==
    /\ rpc[r] = "idle" /\ disk[p] # Nothing
    /\ rpc' = [rpc EXCEPT ![r] = "get"]
    /\ rpath' = [rpath EXCEPT ![r] = p]
    /\ body' = [body EXCEPT ![r] = disk[p]]
    /\ calm' = IF p \in intact THEN calm \cup {r} ELSE calm
    /\ UNCHANGED <<files, regenerating, tasks, builder, headers, tries, renames, renders, faults>>

(* StaticHeadersCache::get, which makes the path the most recently used     *)
Used(p) == IF p \in Range(lru) THEN <<p>> \o SelectSeq(lru, LAMBDA q : q # p) ELSE lru

Answer(r, h) ==
    /\ rpc' = [rpc EXCEPT ![r] = "done"]
    /\ headers' = [headers EXCEPT ![r] = h]

Lookup(r) ==
    /\ rpc[r] = "get"
    /\ lru' = Used(rpath[r])
    /\ UNCHANGED <<disk, kept, intact, lock, regenerating, tasks, rpath, builder, body, tries,
                   renames, calm, renders, faults>>

(* The first headers kept for the path, whatever file was opened            *)
HitFirst(r) == Lookup(r) /\ kept[rpath[r]] # <<>> /\ Answer(r, kept[rpath[r]][1])

(* The newest of those that match                                           *)
Hit(r) ==
    /\ Lookup(r)
    /\ \E i \in Matches(rpath[r], body[r]) :
          /\ \A j \in Matches(rpath[r], body[r]) : j <= i
          /\ Answer(r, kept[rpath[r]][i])

Miss(r) ==
    /\ Lookup(r)
    /\ Matches(rpath[r], body[r]) = {} /\ tries[r] < ReopenAttempts
    /\ rpc' = [rpc EXCEPT ![r] = "missed"] /\ UNCHANGED headers

GiveUpEarly(r) ==
    Lookup(r) /\ Matches(rpath[r], body[r]) = {} /\ tries[r] >= ReopenAttempts - 1 /\ Answer(r, Nothing)

GiveUp(r) ==
    Lookup(r) /\ Matches(rpath[r], body[r]) = {} /\ tries[r] = ReopenAttempts /\ Answer(r, Nothing)

(* A path that is not in the cache has no headers to find.                  *)
Uncached(r) ==
    /\ rpc[r] = "missed" /\ kept[rpath[r]] = <<>>
    /\ Answer(r, Nothing)
    /\ UNCHANGED <<files, regenerating, tasks, rpath, builder, body, tries, renames, calm,
                   renders, faults>>

Cached(r) ==
    /\ rpc[r] = "missed" /\ kept[rpath[r]] # <<>>
    /\ rpc' = [rpc EXCEPT ![r] = "reopen"]
    /\ UNCHANGED <<files, regenerating, tasks, rpath, builder, body, headers, tries, renames,
                   calm, renders, faults>>

Reopen(r) ==
    /\ rpc[r] = "reopen"
    /\ rpc' = [rpc EXCEPT ![r] = "get"]
    /\ body' = [body EXCEPT ![r] = disk[rpath[r]]]
    /\ tries' = [tries EXCEPT ![r] = @ + 1]
    /\ UNCHANGED <<files, regenerating, tasks, rpath, builder, headers, renames, calm,
                   renders, faults>>

(* The response is sent, or the client goes away first.                     *)
Leave(r) ==
    /\ rpc[r] # "idle"
    /\ rpc' = [rpc EXCEPT ![r] = "idle"]
    /\ rpath' = [rpath EXCEPT ![r] = None] /\ builder' = [builder EXCEPT ![r] = None]
    /\ body' = [body EXCEPT ![r] = Nothing] /\ headers' = [headers EXCEPT ![r] = Nothing]
    /\ tries' = [tries EXCEPT ![r] = 0] /\ renames' = [renames EXCEPT ![r] = 0]
    /\ calm' = calm \ {r}
    /\ UNCHANGED <<files, regenerating, tasks, renders, faults>>

-----------------------------------------------------------------------------
(* Build tasks                                                              *)

(* The pages to prerender are built when the server starts.                 *)
Generate(t, p) == Build(t, p) /\ UNCHANGED <<files, regenerating, requests, faults>>

Goes(t, to) == pc' = [pc EXCEPT ![t] = to] /\ UNCHANGED <<path, render>>

(* The task waits for the stream of regeneration.                           *)
Waits(t) ==
    /\ pc' = [pc EXCEPT ![t] = "wait"]
    /\ render' = [render EXCEPT ![t] = Nothing]
    /\ UNCHANGED path

(* The task ends.                                                           *)
Ends(t) ==
    /\ pc' = [pc EXCEPT ![t] = "idle"]
    /\ path' = [path EXCEPT ![t] = None]
    /\ render' = [render EXCEPT ![t] = Nothing]

(* The oneshot of a build: the request that waits gets the HTML in memory   *)
(* and the headers of the same render.                                      *)
Send(t) ==
    LET to == {r \in Requests : rpc[r] = "await" /\ builder[r] = t}
        sent(f) == [r \in Requests |-> IF r \in to THEN render[t] ELSE f[r]]
    IN /\ rpc' = [r \in Requests |-> IF r \in to THEN "done" ELSE rpc[r]]
       /\ body' = sent(body) /\ headers' = sent(headers)
       /\ UNCHANGED <<rpath, builder, tries, renames, calm>>

(* The page is rendered and is not an error: stage_file_atomic begins to    *)
(* write it to a temporary file.  In place, a reader would see what is      *)
(* there so far.                                                            *)
RenderInPlace(t) ==
    /\ pc[t] = "render"
    /\ Goes(t, "stage")
    /\ disk' = [disk EXCEPT ![path[t]] = Torn]
    /\ UNCHANGED <<lru, kept, intact, lock, regenerating, looping, requests,
                   renders, faults>>

Render(t) ==
    /\ pc[t] = "render"
    /\ Goes(t, "stage")
    /\ UNCHANGED <<files, regenerating, looping, requests, renders, faults>>

(* An error page is not written: the first one is the response, a later one *)
(* leaves the page as it is.                                                *)
FirstErrorUnsent(t) ==
    /\ pc[t] = "render" /\ t \notin looping
    /\ Ends(t)
    /\ UNCHANGED <<files, regenerating, looping, requests, renders, faults>>

FirstError(t) ==
    /\ pc[t] = "render" /\ t \notin looping
    /\ Ends(t) /\ Send(t)
    /\ UNCHANGED <<files, regenerating, looping, renders, faults>>

LaterError(t) ==
    /\ pc[t] = "render" /\ t \in looping
    /\ Waits(t)
    /\ UNCHANGED <<files, regenerating, looping, requests, renders, faults>>

(* The temporary file is complete.                                          *)
Staged(t) ==
    /\ pc[t] = "stage"
    /\ Goes(t, "publish")
    /\ UNCHANGED <<files, regenerating, looping, requests, renders, faults>>

(* It fails: the temporary file is removed and the error only logged.       *)
StageFails(t) ==
    /\ pc[t] = "stage" /\ faults < MaxFaults
    /\ faults' = faults + 1
    /\ Goes(t, "written")
    /\ UNCHANGED <<files, regenerating, looping, requests, renders>>

(* record: a new path drives the least recently used one out of a full      *)
(* cache; a path has no more than Generations renders.                      *)
Full(p) == Len(lru) = Capacity /\ p \notin Range(lru)
Evicted(p) == IF Full(p) THEN {lru[Capacity]} ELSE {}
Latest(s) == IF Len(s) > Generations THEN Tail(s) ELSE s

Record(p, r) ==
    /\ lru' = <<p>> \o SelectSeq(lru, LAMBDA q : q \notin Evicted(p) \cup {p})
    /\ kept' = [q \in Paths |-> IF q = p THEN Latest(Append(kept[p], r))
                                ELSE IF q \in Evicted(p) THEN <<>> ELSE kept[q]]

(* The pages of ps, and the requests for them, are disturbed.               *)
Disturb(ps) ==
    /\ intact' = intact \ ps
    /\ calm' = {r \in calm : rpath[r] \notin ps}
    /\ UNCHANGED <<rpc, rpath, builder, body, headers, tries, renames>>

(* publish: under the lock, the headers are recorded before the file can be *)
(* opened.                                                                  *)
PublishUnlocked(t) ==
    /\ pc[t] = "publish"
    /\ Record(path[t], render[t])
    /\ Disturb(Evicted(path[t]))
    /\ Goes(t, "rename")
    /\ UNCHANGED <<disk, lock, regenerating, looping, renders, faults>>

Publish(t) ==
    /\ pc[t] = "publish" /\ lock = None
    /\ lock' = t
    /\ Record(path[t], render[t])
    /\ Disturb(Evicted(path[t]))
    /\ Goes(t, "rename")
    /\ UNCHANGED <<disk, regenerating, looping, renders, faults>>

(* commit *)
Rename(t) ==
    /\ pc[t] = "rename"
    /\ disk' = [disk EXCEPT ![path[t]] = render[t]]
    /\ lock' = None
    /\ intact' = intact \cup {path[t]}
    /\ renames' = [r \in Requests |->
                     IF rpath[r] = path[t] /\ renames[r] <= ReopenAttempts
                     THEN renames[r] + 1 ELSE renames[r]]
    /\ Goes(t, "written")
    /\ UNCHANGED <<lru, kept, regenerating, looping, rpc, rpath, builder, body,
                   headers, tries, calm, renders, faults>>

RenameFails(t) ==
    /\ pc[t] = "rename" /\ faults < MaxFaults
    /\ faults' = faults + 1
    /\ lock' = None
    /\ Disturb({path[t]})
    /\ Goes(t, "written")
    /\ UNCHANGED <<disk, lru, kept, regenerating, looping, renders>>

(* Written or not, a first build answers its request; then it regenerates   *)
(* the page, if that is asked for and no other task does.                   *)
FirstWritten(t) ==
    /\ pc[t] = "written" /\ t \notin looping
    /\ Goes(t, "enlist") /\ Send(t)
    /\ UNCHANGED <<files, regenerating, looping, renders, faults>>

LaterWritten(t) ==
    /\ pc[t] = "written" /\ t \in looping
    /\ Waits(t)
    /\ UNCHANGED <<files, regenerating, looping, requests, renders, faults>>

Enlist(t) ==
    /\ pc[t] = "enlist" /\ path[t] \in Regenerated \ regenerating
    /\ regenerating' = regenerating \cup {path[t]}
    /\ Waits(t) /\ looping' = looping \cup {t}
    /\ UNCHANGED <<files, requests, renders, faults>>

EnlistedTwice(t) ==
    /\ pc[t] = "enlist" /\ path[t] \in regenerating
    /\ Waits(t) /\ looping' = looping \cup {t}
    /\ UNCHANGED <<files, regenerating, requests, renders, faults>>

AlreadyEnlisted(t) ==
    /\ pc[t] = "enlist" /\ path[t] \notin Regenerated \ regenerating
    /\ Ends(t)
    /\ UNCHANGED <<files, regenerating, looping, requests, renders, faults>>

(* The stream of regeneration asks for another render, or ends.             *)
Tick(t) ==
    /\ pc[t] = "wait" /\ renders < MaxRenders
    /\ renders' = renders + 1
    /\ pc' = [pc EXCEPT ![t] = "render"]
    /\ render' = [render EXCEPT ![t] = renders + 1]
    /\ UNCHANGED <<files, regenerating, path, looping, requests, faults>>

EndStream(t) ==
    /\ pc[t] = "wait"
    /\ Ends(t) /\ looping' = looping \ {t}
    /\ regenerating' = regenerating \ {path[t]}
    /\ UNCHANGED <<files, requests, renders, faults>>

(* The process dies and is started again: only the files are left.          *)
Crash ==
    /\ faults < MaxFaults
    /\ faults' = faults + 1
    /\ lru' = <<>> /\ kept' = [p \in Paths |-> <<>>] /\ intact' = {}
    /\ lock' = None /\ regenerating' = {}
    /\ pc' = [t \in Tasks |-> "idle"] /\ path' = [t \in Tasks |-> None]
    /\ render' = [t \in Tasks |-> Nothing] /\ looping' = {}
    /\ rpc' = [r \in Requests |-> "idle"] /\ rpath' = [r \in Requests |-> None]
    /\ builder' = [r \in Requests |-> None]
    /\ body' = [r \in Requests |-> Nothing] /\ headers' = [r \in Requests |-> Nothing]
    /\ tries' = [r \in Requests |-> 0] /\ renames' = [r \in Requests |-> 0] /\ calm' = {}
    /\ UNCHANGED <<disk, renders>>

-----------------------------------------------------------------------------
RequestStep(r) ==
    Hit(r) \/ Miss(r) \/ GiveUp(r) \/ Uncached(r) \/ Cached(r) \/ Reopen(r) \/ Leave(r)

TaskStep(t) ==
    \/ Render(t) \/ FirstError(t) \/ LaterError(t)
    \/ Staged(t) \/ StageFails(t) \/ Publish(t) \/ Rename(t) \/ RenameFails(t)
    \/ FirstWritten(t) \/ LaterWritten(t) \/ Enlist(t) \/ AlreadyEnlisted(t)
    \/ Tick(t) \/ EndStream(t)

Next ==
    \/ \E r \in Requests : RequestStep(r)
    \/ \E r \in Requests, p \in Paths : Open(r, p) \/ \E t \in Tasks : OpenMissing(r, p, t)
    \/ \E t \in Tasks : TaskStep(t) \/ \E p \in Paths : Generate(t, p)
    \/ Crash

Spec == Init /\ [][Next]_vars

-----------------------------------------------------------------------------
Building == {"render", "stage", "publish", "rename", "written"}

(* A response is the whole page of one render, and the headers that go with *)
(* it are those of a render whose file has the same identity or, on a hit   *)
(* whose headers are gone, none: however many renders are being published,  *)
(* and also after a crash in the middle of a write.                         *)
BodyWithItsHeaders ==
    \A r \in Requests : rpc[r] = "done" =>
        /\ body[r] \in 1 .. MaxRenders
        /\ headers[r] # Nothing => FileId[headers[r]] = FileId[body[r]]

(* "On Unix the inode makes the identity exact": no two files share one.    *)
Exact == \A a, b \in DOMAIN FileId : FileId[a] = FileId[b] => a = b

(* The headers of a response are its own render's, or there are none.       *)
OwnHeaders == \A r \in Requests : rpc[r] = "done" => headers[r] \in {body[r], Nothing}

(* Publishing in the order of recording keeps the file on disk among the    *)
(* retained renders, at every moment of every interleaving of publishers.   *)
OnDiskIsKept == \A p \in intact : \E i \in DOMAIN kept[p] : kept[p][i] = disk[p]

(* A hit on a page whose headers were cached, and have been neither evicted *)
(* nor spoiled by a failed rename, comes without headers only if the page   *)
(* was replaced more often during the request than it re-opens the file.    *)
HeadersUnlessOutrun ==
    \A r \in calm : rpc[r] = "done" /\ headers[r] = Nothing => renames[r] > ReopenAttempts

(* However many requests and prerenders build a page at once, one task      *)
(* regenerates it, and REGENERATING_PATHS names exactly the pages that have *)
(* one, so that a stream that ends makes room for another.                  *)
OneLoopPerPath ==
    /\ \A t, u \in looping : path[t] = path[u] => t = u
    /\ regenerating = {path[t] : t \in looping}

(* No request waits for nothing: the build it waits for has yet to answer,  *)
(* whether the page is rendered, is an error or cannot be written, and the  *)
(* publish_lock that build may need is free or held by a task that is about *)
(* to release it.                                                           *)
WaitersHaveABuilder ==
    /\ \A r \in Requests : rpc[r] = "await" =>
          LET t == builder[r]
          IN t \in Tasks \ looping /\ pc[t] \in Building /\ path[t] = rpath[r]
    /\ lock # None => pc[lock] = "rename"

-----------------------------------------------------------------------------
(* The inductive invariant                                                  *)

(* Every variable has its type: in particular the page in a file is whole.  *)
TypeOK ==
    /\ disk \in [Paths -> 0 .. MaxRenders]
    /\ kept \in [Paths -> Seq(1 .. MaxRenders)]
    /\ intact \subseteq Paths /\ regenerating \subseteq Paths
    /\ lock \in Tasks \cup {None}
    /\ pc \in [Tasks -> Building \cup {"idle", "enlist", "wait"}]
    /\ path \in [Tasks -> Paths \cup {None}]
    /\ render \in [Tasks -> 0 .. MaxRenders]
    /\ looping \subseteq Tasks
    /\ rpc \in [Requests -> {"idle", "await", "get", "missed", "reopen", "done"}]
    /\ rpath \in [Requests -> Paths \cup {None}]
    /\ builder \in [Requests -> Tasks \cup {None}]
    /\ body \in [Requests -> 0 .. MaxRenders] /\ headers \in [Requests -> 0 .. MaxRenders]
    /\ tries \in [Requests -> 0 .. ReopenAttempts]
    /\ renames \in [Requests -> 0 .. ReopenAttempts + 1]
    /\ calm \subseteq Requests
    /\ renders \in 0 .. MaxRenders

(* A busy task has a path, and a render while it builds; a loop is waiting  *)
(* or building; the task about to rename is the one with the lock.          *)
TaskInv ==
    \A t \in Tasks :
        /\ pc[t] # "idle" => path[t] \in Paths
        /\ pc[t] \in Building => render[t] > 0
        /\ t \in looping => pc[t] \in Building \cup {"wait"}
        /\ pc[t] = "wait" => t \in looping
        /\ pc[t] = "rename" <=> lock = t

(* The newest headers of a path are those of its file or, between record    *)
(* and rename, those of the file about to be there.                         *)
Publishing(p) == lock # None /\ path[lock] = p
KeptInv ==
    \A p \in Paths :
        /\ Publishing(p) => Len(kept[p]) > 0 /\ kept[p][Len(kept[p])] = render[lock]
        /\ p \in intact /\ Publishing(p) =>
              Len(kept[p]) > 1 /\ kept[p][Len(kept[p]) - 1] = disk[p]
        /\ p \in intact /\ ~Publishing(p) =>
              Len(kept[p]) > 0 /\ kept[p][Len(kept[p])] = disk[p]

(* A request that looks for headers has opened a file that is still there,  *)
(* or the page has been replaced since it last opened it.                   *)
ReqInv ==
    \A r \in Requests :
        /\ rpc[r] \in {"get", "missed", "reopen"} =>
              rpath[r] \in Paths /\ disk[rpath[r]] > 0 /\ body[r] > 0
        /\ rpc[r] = "await" => r \notin calm
        /\ rpc[r] = "idle" => r \notin calm /\ tries[r] = 0 /\ renames[r] = 0 /\ rpath[r] = None
        /\ rpc[r] \in {"missed", "reopen"} => tries[r] < ReopenAttempts
        /\ r \in calm =>
              /\ rpath[r] \in intact
              /\ rpc[r] = "get" => /\ renames[r] >= tries[r]
                                   /\ body[r] = disk[rpath[r]] \/ renames[r] > tries[r]
              /\ rpc[r] \in {"missed", "reopen"} => renames[r] > tries[r]

IInv ==
    /\ TypeOK /\ TaskInv /\ KeptInv /\ ReqInv
    /\ BodyWithItsHeaders /\ HeadersUnlessOutrun /\ OneLoopPerPath /\ WaitersHaveABuilder

=============================================================================
