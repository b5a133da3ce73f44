------------------------------ MODULE Response ------------------------------
(***************************************************************************)
(* A streamed response: the HTML of the view (HtmlStream) followed by the  *)
(* data the client hydrates with (DataStream), and the loaders of          *)
(* resources that run meanwhile.  Every Suspense reads a resource of its   *)
(* own, which is created with the view around the Suspense: when the app   *)
(* runs, or when the Suspense around it has loaded.  A loader may create   *)
(* other resources (kids) before it is done.                               *)
(***************************************************************************)
EXTENDS HtmlStream, DataStream

CONSTANT Apps   \* for each kind of stream, the apps to render with it
VARIABLE app    \* an app: its page, the texts that may be an Err (throws), the Suspenses
                \* that may read a local resource (local), the resources that are blocking
                \* (blocking), and the kids of the loader of parent

vars == <<html, dataVars, app>>

(* The Suspenses and texts of a view that exist once it does                *)
RECURSIVE Created(_)
Created(view) ==
    UNION {IF view[i] \in Boundaries THEN Created(page[view[i]]) ELSE {view[i]} :
           i \in DOMAIN view}

(* defer_stream: the blocking resources that the response waits for         *)
Deferred == (app.blocking \cap registered) \ ready

Kids(r) == IF r = app.parent THEN app.kids ELSE {}

Init ==
    /\ mode \in DOMAIN Apps /\ app \in Apps[mode]
    /\ throws \in SUBSET app.throws
    /\ HtmlInit(app.page)
    /\ async_buf = Created(page[Root]) \cap Suspenses
    /\ errors = Created(page[Root]) \cap throws
    /\ DataInit

-----------------------------------------------------------------------------
(* Loaders                                                                  *)

(* A loader that creates other resources when its own is already there      *)
LoadThenCreate(r) ==
    LET shows == r \in Suspenses /\ data[r] = "loading"
    IN /\ r \in registered
       /\ ready' = ready \cup {r}
       /\ registered' = registered \cup (IF r \in ready THEN Kids(r) ELSE {})
                                   \cup (IF shows THEN Created(page[r]) \cap Suspenses ELSE {})
       /\ async_buf' = async_buf \cup (registered' \ registered)
       /\ IF shows THEN Settle(r, "loaded") ELSE UNCHANGED html
       /\ UNCHANGED <<errors, thrown, incomplete, stream, client, app>>

(* A resource is loaded.  A Suspense that waits for it has its children,    *)
(* with their resources, and the errors among them.                         *)
Load(r) ==
    LET shows == r \in Suspenses /\ data[r] = "loading"
    IN /\ r \in Running
       /\ ready' = ready \cup {r}
       /\ registered' = registered \cup Kids(r)
                                   \cup (IF shows THEN Created(page[r]) \cap Suspenses ELSE {})
       /\ async_buf' = async_buf \cup (registered' \ registered)
       /\ thrown' = thrown \cup (IF shows THEN Created(page[r]) \cap throws ELSE {})
       /\ errors' = errors \cup (thrown' \ thrown)
       /\ IF shows THEN Settle(r, "loaded") ELSE UNCHANGED html
       /\ UNCHANGED <<incomplete, stream, client, app>>

(* LocalResourceNotifier: the Suspense reads a local resource, and is       *)
(* marked as incomplete.                                                    *)
ReadLocal(s) ==
    /\ s \in Running \cap app.local /\ at = "html" /\ run # "ended"
    /\ Settle(s, "local")
    /\ incomplete' = Append(incomplete, s)
    /\ UNCHANGED <<async_buf, ready, errors, stream, client, history, app>>

-----------------------------------------------------------------------------
(* The response.  chunks() is called when the stream is built: before the   *)
(* HTML is polled, but in async mode after all of it.                       *)
Chain ==
    /\ run = IF mode = "async" THEN "ended" ELSE "new"
    /\ PendingData
    /\ UNCHANGED <<html, app>>

(* from_app: the stream is first polled when the deferred resources are     *)
(* there; in async mode it has been collected before.                       *)
Start ==
    /\ run = "new" /\ (mode # "async" => snapped /\ Deferred = {})
    /\ run' = "awake"
    /\ UNCHANGED <<mode, page, throws, data, chunks, sync_buf, pending, pending_ooo, watched,
                   outbox, doc, dataVars, app>>

HtmlStep == (PollNext \/ Resume) /\ UNCHANGED <<dataVars, app>>

(* Each chunk waits for the resources deferred by then.                     *)
SendHtml ==
    /\ snapped /\ Deferred = {}
    /\ Send
    /\ UNCHANGED <<dataVars, app>>

Over ==
    /\ run = "ended" /\ outbox = <<>>
    /\ HtmlOver
    /\ UNCHANGED <<html, app>>

DataStep == StreamStep /\ UNCHANGED <<html, app>>

Respond == Chain \/ Start \/ HtmlStep \/ SendHtml \/ Over \/ DataStep

Next ==
    \/ Respond
    \/ \E r \in Resources : Load(r)
    \/ \E s \in Suspenses : ReadLocal(s)

(* The executor polls a response that can go on, and loaders end.           *)
Spec == /\ Init /\ [][Next]_vars
        /\ WF_vars(Respond) /\ \A r \in Resources : WF_vars(Load(r))

-----------------------------------------------------------------------------
(* Every response ends, whatever order its data come in: no chunk is left   *)
(* in the builder and no registered resource stranded with nobody to poll   *)
(* it.                                                                      *)
ResponseEnds == <>(at = "end")

(* Rendering and loading do nothing else to the SsrSharedContext than the   *)
(* DataStream counts on, so that what holds of it holds of every response.  *)
IsDataStream == DataSpec

(* A Suspense that has read a local resource shows its fallback when the    *)
(* HTML has ended.                                                          *)
LocalShowsFallback ==
    run = "ended" /\ outbox = <<>> =>
        \A s \in Created(page[Root]) \cap Suspenses : data[s] = "local" => Contains(doc.body, Fallback(s))

=============================================================================
