----------------------------- MODULE DataStream -----------------------------
(***************************************************************************)
(* The data of a server response, for the client to hydrate with: the      *)
(* SsrSharedContext in which rendering, and the loaders of resources,      *)
(* register resources, errors and incomplete Suspenses, and the stream of  *)
(* scripts that pending_data makes of them.  The stream is chained after   *)
(* the HTML, so it is polled only when rendering is over; loaders may go   *)
(* on meanwhile, on any thread, and register what they create.             *)
(***************************************************************************)
EXTENDS Naturals, Sequences, SequencesExt

CONSTANTS Resources, Chunks, Errors     \* the ids of resources, Suspenses and errors

VARIABLES
    async_buf,          \* resources registered by write_async and not yet taken up
    ready,              \* resources that are loaded
    errors,             \* errors registered and not yet serialized
    incomplete,         \* the Suspenses marked by set_incomplete_chunk
    at,                 \* where the stream is
    snapped,            \* pending_data has been called
    initial_pending_ids, in_flight, incomplete_emitted,     \* AsyncDataStream
    any_ready, wrote,   \* in poll_next: a future was ready; something is to be sent
    listed, resolved,   \* the client: __PENDING_RESOURCES and __RESOLVED_RESOURCES,
    serialized, marked, \* __SERIALIZED_ERRORS and __INCOMPLETE_CHUNKS
    registered, thrown  \* history: the resources and the errors ever registered

shared == <<async_buf, ready, errors, incomplete>>
stream == <<at, snapped, initial_pending_ids, in_flight, incomplete_emitted, any_ready, wrote>>
client == <<listed, resolved, serialized, marked>>
history == <<registered, thrown>>
dataVars == <<shared, stream, client, history>>

DataInit ==
    /\ async_buf \subseteq Resources /\ ready = {} /\ errors \subseteq Errors /\ incomplete = <<>>
    /\ at = "html" /\ snapped = FALSE
    /\ initial_pending_ids = {} /\ in_flight = {} /\ incomplete_emitted = 0
    /\ any_ready = FALSE /\ wrote = FALSE
    /\ listed = {} /\ resolved = {} /\ serialized = {} /\ marked = <<>>
    /\ registered = async_buf /\ thrown = errors

(* A resource whose loader is still at work                                 *)
Running == (async_buf \cup in_flight) \ ready

WriteAsync ==
    /\ registered \subseteq registered' /\ registered' \subseteq Resources
    /\ async_buf' = async_buf \cup (registered' \ registered)

RegisterError ==
    /\ thrown \subseteq thrown' /\ thrown' \subseteq Errors
    /\ errors' = errors \cup (thrown' \ thrown)

SetIncompleteChunk == incomplete' \in Seq(Chunks) /\ IsPrefix(incomplete, incomplete')

(* Rendering, while there is HTML to come, and loaders, as long as they     *)
(* run: they load resources and register new ones, errors and Suspenses.    *)
Work ==
    /\ at = "html" \/ Running # {}
    /\ ready \subseteq ready' /\ ready' \ ready \subseteq Running
    /\ WriteAsync /\ RegisterError /\ SetIncompleteChunk
    /\ UNCHANGED <<stream, client>>

-----------------------------------------------------------------------------
(* pending_data: what is known now is put into the initial chunk.           *)
PendingData ==
    /\ at = "html" /\ ~snapped
    /\ snapped' = TRUE
    /\ initial_pending_ids' = async_buf
    /\ incomplete_emitted' = Len(incomplete)
    /\ listed' = async_buf /\ marked' = incomplete
    /\ serialized' = errors /\ errors' = {}
    /\ UNCHANGED <<async_buf, ready, incomplete, at, in_flight, any_ready, wrote, resolved,
                   history>>

(* The HTML is over: the initial chunk is sent, and the stream polled.      *)
HtmlOver ==
    /\ at = "html" /\ snapped
    /\ at' = "drain"
    /\ UNCHANGED <<shared, client, history, snapped, initial_pending_ids, in_flight, incomplete_emitted,
                   any_ready, wrote>>

(* AsyncDataStream::poll_next: take up what was registered ...              *)
Drain ==
    /\ at = "drain"
    /\ in_flight' = in_flight \cup async_buf /\ async_buf' = {}
    /\ any_ready' = FALSE /\ at' = "poll"
    /\ UNCHANGED <<ready, errors, incomplete, client, history, snapped, initial_pending_ids,
                   incomplete_emitted, wrote>>

(* ... write every resource that is ready, after its id if the client does  *)
(* not know that ...                                                        *)
ResolveUnlisted(r) ==
    /\ at = "poll" /\ r \in in_flight \cap ready
    /\ in_flight' = in_flight \ {r} /\ resolved' = resolved \cup {r}
    /\ any_ready' = TRUE /\ wrote' = TRUE
    /\ UNCHANGED <<shared, at, snapped, initial_pending_ids, incomplete_emitted, listed,
                   serialized, marked, history>>

Resolve(r) ==
    /\ at = "poll" /\ r \in in_flight \cap ready
    /\ in_flight' = in_flight \ {r}
    /\ listed' = IF r \in initial_pending_ids THEN listed ELSE listed \cup {r}
    /\ resolved' = resolved \cup {r}
    /\ any_ready' = TRUE /\ wrote' = TRUE
    /\ UNCHANGED <<shared, at, snapped, initial_pending_ids, incomplete_emitted, serialized,
                   marked, history>>

(* ... and do so again if those have registered others.                     *)
NoneReady ==
    /\ at = "poll" /\ in_flight \cap ready = {}
    /\ at' = IF any_ready /\ async_buf # {} THEN "drain" ELSE "rest"
    /\ UNCHANGED <<shared, client, history, snapped, initial_pending_ids, in_flight, incomplete_emitted,
                   any_ready, wrote>>

(* Then the incomplete Suspenses past the cursor, and the errors            *)
Rest ==
    /\ at = "rest"
    /\ marked' = marked \o SubSeq(incomplete, incomplete_emitted + 1, Len(incomplete))
    /\ incomplete_emitted' = Len(incomplete)
    /\ serialized' = serialized \cup errors /\ errors' = {}
    /\ wrote' = (wrote \/ incomplete_emitted < Len(incomplete) \/ errors # {})
    /\ at' = "done"
    /\ UNCHANGED <<async_buf, ready, incomplete, snapped, initial_pending_ids, in_flight,
                   any_ready, listed, resolved, history>>

(* A chunk, the end of the stream, or Pending.                              *)
DoneNothingStaged ==
    /\ at = "done"
    /\ at' = CASE wrote -> "drain" [] ~wrote /\ async_buf = {} -> "flush" [] OTHER -> "asleep"
    /\ wrote' = FALSE
    /\ UNCHANGED <<shared, client, history, snapped, initial_pending_ids, in_flight, incomplete_emitted,
                   any_ready>>

Done ==
    /\ at = "done"
    /\ at' = CASE wrote -> "drain"
               [] ~wrote /\ in_flight = {} /\ async_buf = {} -> "flush"
               [] OTHER -> "asleep"
    /\ wrote' = FALSE
    /\ UNCHANGED <<shared, client, history, snapped, initial_pending_ids, in_flight, incomplete_emitted,
                   any_ready>>

(* A future in flight that is ready wakes the stream; a registration does   *)
(* not.                                                                     *)
Wake ==
    /\ at = "asleep" /\ in_flight \cap ready # {}
    /\ at' = "drain"
    /\ UNCHANGED <<shared, client, history, snapped, initial_pending_ids, in_flight, incomplete_emitted,
                   any_ready, wrote>>

(* The last chunk: Suspenses marked after the stream has ended              *)
FinalFlush ==
    /\ at = "flush"
    /\ marked' = marked \o SubSeq(incomplete, incomplete_emitted + 1, Len(incomplete))
    /\ at' = "end"
    /\ UNCHANGED <<shared, snapped, initial_pending_ids, in_flight, incomplete_emitted,
                   any_ready, wrote, listed, resolved, serialized, history>>

StreamStep ==
    \/ Drain \/ (\E r \in Resources : Resolve(r)) \/ NoneReady \/ Rest \/ Done \/ Wake
    \/ FinalFlush

DataNext == Work \/ PendingData \/ HtmlOver \/ StreamStep

DataSpec == DataInit /\ [][DataNext]_dataVars

-----------------------------------------------------------------------------
(* The client never sees a resource resolved whose id it was not told of    *)
(* as pending before, whether it was registered before the initial chunk,   *)
(* while the HTML was streamed or by the loader of another resource.        *)
PendingFirst == resolved \subseteq listed

(* When the stream is over nothing that was ever registered is missing: all *)
(* resources and errors have got to the client, and the incomplete          *)
(* Suspenses in the order they were marked, once each.                      *)
AllDelivered ==
    at = "end" => resolved = registered /\ serialized = thrown /\ marked = incomplete

=============================================================================
