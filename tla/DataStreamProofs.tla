-------------------------- MODULE DataStreamProofs --------------------------
(***************************************************************************)
(* What the data of a response promise, for any resources, errors and      *)
(* Suspenses and whatever rendering and loaders register at any moment     *)
(* they may.                                                               *)
(***************************************************************************)
EXTENDS DataStream, TLAPS

(* The client has been sent the markers up to the cursor.                   *)
MarkedUpTo(n) ==
    Len(marked) = n /\ n <= Len(incomplete) /\ \A i \in 1 .. n : marked[i] = incomplete[i]

(* What is registered is somewhere; the stream is over only when nothing    *)
(* is left, and then no loader runs that could register more.               *)
DInv ==
    /\ incomplete \in Seq(Chunks) /\ marked \in Seq(Chunks) /\ incomplete_emitted \in Nat
    /\ registered = async_buf \cup in_flight \cup resolved
    /\ thrown = errors \cup serialized
    /\ resolved \subseteq listed
    /\ initial_pending_ids \subseteq listed
    /\ at = "html" => in_flight = {} /\ resolved = {}
    /\ ~snapped => at = "html" /\ listed = {} /\ serialized = {}
                   /\ incomplete_emitted = 0
    /\ MarkedUpTo(incomplete_emitted)
    /\ (at \in {"flush", "end"} \/ (at = "done" /\ in_flight = {} /\ async_buf = {})) =>
          in_flight = {} /\ async_buf = {} /\ errors = {} /\ incomplete_emitted = Len(incomplete)

(* A longer list of markers does not change what was sent of it.            *)
LEMMA PrefixMarked ==
    ASSUME NEW s \in Seq(Chunks), NEW t \in Seq(Chunks), IsPrefix(s, t)
    PROVE  Len(s) <= Len(t) /\ \A i \in 1 .. Len(s) : t[i] = s[i]
  BY DEF IsPrefix

(* The markers up to the cursor and those past it are all of them.          *)
LEMMA MarkedAll ==
    ASSUME NEW m \in Seq(Chunks), NEW s \in Seq(Chunks),
           Len(m) <= Len(s), \A i \in 1 .. Len(m) : m[i] = s[i]
    PROVE  m \o SubSeq(s, Len(m) + 1, Len(s)) = s
  OBVIOUS

(* A response starts with nothing registered and nothing sent.              *)
LEMMA DataInitInv == DataInit => DInv
  BY DEF DataInit, DInv, MarkedUpTo

(* Every registration of the renderer and of loaders, and every step of    *)
(* pending_data and of the stream it returns, preserves the invariant.      *)
LEMMA DataNextInv == DInv /\ [DataNext]_dataVars => DInv'
<1> SUFFICES ASSUME DInv, [DataNext]_dataVars PROVE DInv'
  OBVIOUS
<1> USE DEF DInv, stream, client, history, shared
<1>1. CASE Work
  <2>1. incomplete' \in Seq(Chunks) /\ Len(incomplete) <= Len(incomplete')
        /\ \A i \in 1 .. Len(incomplete) : incomplete'[i] = incomplete[i]
    BY Zenon, <1>1, PrefixMarked DEF Work, SetIncompleteChunk
  <2>2. MarkedUpTo(incomplete_emitted)'
    BY <1>1, <2>1 DEF Work, MarkedUpTo
  <2>3. at \notin {"flush", "end"} /\ ~(in_flight = {} /\ async_buf = {} /\ at = "done")
    BY Zenon, <1>1 DEF Work, Running
  <2>4. in_flight' = in_flight /\ at' = at /\ async_buf \subseteq async_buf'
    BY Zenon, <1>1 DEF Work, WriteAsync
  <2> QED
    BY Zenon, <1>1, <2>1, <2>2, <2>3, <2>4 DEF Work, WriteAsync, RegisterError, SetIncompleteChunk
<1>2. CASE PendingData
  BY <1>2 DEF PendingData, MarkedUpTo
<1>3. CASE HtmlOver
  BY Zenon, <1>3 DEF HtmlOver, MarkedUpTo
<1>4. CASE Drain
  BY Zenon, <1>4 DEF Drain, MarkedUpTo
<1>5. ASSUME NEW r \in Resources, Resolve(r) PROVE DInv'
  BY Zenon, <1>5 DEF Resolve, MarkedUpTo
<1>6. CASE NoneReady
  BY Zenon, <1>6 DEF NoneReady, MarkedUpTo
<1>7. CASE Rest
  <2>1. marked' = incomplete
    BY Zenon, <1>7, MarkedAll DEF Rest, MarkedUpTo
  <2>2. incomplete' = incomplete /\ incomplete_emitted' = Len(incomplete) /\ at' = "done" /\ snapped
    BY Zenon, <1>7 DEF Rest
  <2>3. MarkedUpTo(incomplete_emitted)'
    BY <2>1, <2>2 DEF MarkedUpTo
  <2>4. thrown' = (errors \cup serialized)' /\ errors' = {}
    BY Zenon, <1>7 DEF Rest
  <2> QED
    BY <1>7, <2>1, <2>2, <2>3, <2>4 DEF Rest
<1>8. CASE Done
  BY Zenon, <1>8 DEF Done, MarkedUpTo
<1>9. CASE Wake
  BY Zenon, <1>9 DEF Wake, MarkedUpTo
<1>10. CASE FinalFlush
  <2>1. marked' = incomplete
    BY Zenon, <1>10, MarkedAll DEF FinalFlush, MarkedUpTo
  <2> QED
    BY Zenon, <1>10, <2>1 DEF FinalFlush, MarkedUpTo
<1>11. CASE UNCHANGED dataVars
  BY Zenon, <1>11 DEF dataVars, MarkedUpTo
<1> QED
  BY Zenon, <1>1, <1>2, <1>3, <1>4, <1>5, <1>6, <1>7, <1>8, <1>9, <1>10, <1>11
     DEF DataNext, StreamStep

(* In every state of a response what is registered is staged, in flight or  *)
(* sent, and the stream does not end before all of it is.                   *)
THEOREM DataInvariance == DataSpec => []DInv
  BY DataInitInv, DataNextInv, PTL DEF DataSpec

(* The client of pending_data's stream never sees a resource resolved       *)
(* before it was told that it is pending.                                   *)
THEOREM KnownBeforeResolved == DataSpec => []PendingFirst
<1>1. DInv => PendingFirst
  BY Zenon DEF DInv, PendingFirst
<1> QED
  BY <1>1, DataInvariance, PTL

(* Nothing that was registered before the data stream of a response is over *)
(* is missing from it.                                                      *)
THEOREM NothingIsLost == DataSpec => []AllDelivered
<1>1. DInv => AllDelivered
  <2> SUFFICES ASSUME DInv, at = "end" PROVE AllDelivered
    BY Zenon DEF AllDelivered
  <2>1. marked = incomplete
    BY DEF DInv, MarkedUpTo
  <2> QED
    BY Zenon, <2>1 DEF DInv, AllDelivered
<1> QED
  BY <1>1, DataInvariance, PTL

=============================================================================
