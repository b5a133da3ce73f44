----------------------------- MODULE HtmlStream -----------------------------
(***************************************************************************)
(* The HTML of a server response: the view is rendered into a              *)
(* StreamBuilder, whose chunks are text, futures to wait for in order      *)
(* (Async) and futures whose HTML may come later, to replace a fallback    *)
(* that is already on the page (OutOfOrder); poll_next turns the chunks    *)
(* into text; the browser appends the text to the document and runs the    *)
(* scripts in it, each of which moves a template to where its fallback is. *)
(*                                                                         *)
(* A view is a sequence of names: of a text, of a Suspense or of an        *)
(* ErrorBoundary; page maps the latter two, and the root, to what they     *)
(* contain.  HTML is a sequence of tokens.                                 *)
(***************************************************************************)
EXTENDS Naturals, Sequences, SequencesExt

CONSTANTS Suspenses, Boundaries, Root

VARIABLES
    mode,           \* "ooo" (out of order), "inorder", or "async" (in order, sent at once)
    page,           \* what each node of the view contains
    throws,         \* the texts that are an Err
    data,           \* of each Suspense: "loading", "loaded", or "local" when it has read a
                    \* local resource, which never loads on the server
    chunks, sync_buf, pending, pending_ooo,     \* StreamBuilder
    run,            \* "new", "awake", "asleep", "woken" or "ended"
    watched,        \* the Suspenses that have the waker of the stream
    outbox,         \* what poll_next has returned and the response has not sent
    doc             \* the browser's document: its body, and the templates in it

html == <<mode, page, throws, data, chunks, sync_buf, pending, pending_ooo, run, watched,
          outbox, doc>>

Token(k, of, id) == [k |-> k, of |-> of, id |-> id]
Text(t) == Token("text", t, <<>>)
Fallback(s) == Token("fallback", s, <<>>)
Caught(e) == Token("caught", e, <<>>)
Hole == Token("hole", Root, <<>>)           \* what a view of nothing renders
Open(id) == Token("open", Root, id)
Close(id) == Token("close", Root, id)
Template(id) == Token("template", Root, id)
\* the end of a template and its script, which swaps it in or only keeps the fallback
Script(id, replace) == Token(IF replace THEN "swap" ELSE "keep", Root, id)

Sync(h) == [k |-> "sync", html |-> h]
Async(f) == [k |-> "async", fut |-> f]
OutOfOrder(f) == [k |-> "ooo", fut |-> f]
IsSync(c) == c.k = "sync"
Html(cs) == FlattenSeq([i \in DOMAIN cs |-> IF IsSync(cs[i]) THEN cs[i].html ELSE <<>>])
Held(cs) == SelectSeq(cs, LAMBDA c : ~IsSync(c))

(* op(v), with v evaluated once                                             *)
With(v, op(_)) == CHOOSE y \in {op(x) : x \in {v}} : TRUE

-----------------------------------------------------------------------------
(* Rendering into a StreamBuilder; in order, ids are None, here <<>>.       *)

Builder(id) == [chunks |-> <<>>, buf |-> <<>>, id |-> id]

(* The id is not advanced, and the next boundary takes the same.            *)
NextIdKept(b) == b
NextId(b) == IF b.id = <<>> THEN b ELSE [b EXCEPT !.id[Len(b.id)] = @ + 1]

(* The ids of what a Suspense contains: below its own                       *)
ChildIdSame(id) == id
ChildId(id) == Append(id, 0)

PushSync(b, h) == [b EXCEPT !.buf = @ \o h]

(* take_chunks, after finish: what is left in the buffer is the last chunk. *)
TakeChunks(b) == IF b.buf = <<>> THEN b.chunks ELSE Append(b.chunks, Sync(b.buf))

AppendTo(b, other) ==
    [b EXCEPT !.chunks = TakeChunks(b) \o other.chunks, !.buf = other.buf]

PushAsync(b, f) == [b EXCEPT !.chunks = Append(TakeChunks(b), Async(f)), !.buf = <<>>]

(* push_fallback and push_async_out_of_order: the chunk goes before the     *)
(* text that is still in the buffer.                                        *)
PushOutOfOrder(b, s, f) ==
    [b EXCEPT !.buf = @ \o <<Open(b.id), Fallback(s), Close(b.id)>>,
              !.chunks = Append(@, OutOfOrder(f))]

(* The future of a Suspense: it waits for the data, then for the Async      *)
(* chunks of what it contains, one after the other.                         *)
Waiting(s, id) ==
    [of |-> "suspense", s |-> s, id |-> id, at |-> "data", replace |-> FALSE,
     todo |-> <<>>, done |-> <<>>]
(* The future of an ErrorBoundary: it waits for all its chunks.             *)
Joining(e, cs) == [of |-> "boundary", e |-> e, todo |-> cs]

(* Errors thrown so far by what an ErrorBoundary contains: those of another *)
(* one inside it are not its own.                                           *)
RECURSIVE Throws(_)
Throws(cs) ==
    \E i \in DOMAIN cs :
        CASE cs[i].k = "sync" -> \E j \in DOMAIN cs[i].html :
                cs[i].html[j].k = "text" /\ cs[i].html[j].of \in throws
          [] cs[i].k = "ooo" -> Throws(cs[i].fut.done) \/ Throws(cs[i].fut.todo)
          [] OTHER -> FALSE

RECURSIVE Render(_, _)

(* SuspenseBoundary::to_html_async_with_buf *)
RenderSuspense(b, s) ==
    LET n == NextId(b)
    IN CASE data[s] = "loaded" -> Render(n, page[s])
         [] data[s] = "local" -> PushSync(n, <<Fallback(s)>>)
         [] data[s] = "loading" /\ n.id # <<>> -> PushOutOfOrder(n, s, Waiting(s, n.id))
         [] OTHER -> PushAsync(n, Waiting(s, <<>>))

(* ErrorBoundaryView::to_html_async_with_buf: the ids its children take are *)
(* not taken in the builder around it.                                      *)
RenderBoundary(b, e) ==
    With(Render(Builder(b.id), page[e]), LAMBDA new :
        CASE \E i \in DOMAIN page[e] : page[e][i] \in Suspenses ->
               AppendTo(b, PushAsync(Builder(new.id), Joining(e, TakeChunks(new))))
          [] Throws(TakeChunks(new)) -> PushSync(b, <<Caught(e)>>)
          [] OTHER -> AppendTo(b, new))

RenderNode(b, n) ==
    CASE n \in Suspenses -> RenderSuspense(b, n)
      [] n \in Boundaries -> RenderBoundary(b, n)
      [] OTHER -> PushSync(b, <<Text(n)>>)

Render(b, view) ==
    IF view = <<>> THEN b
    ELSE With(RenderNode(b, Head(view)), LAMBDA done : Render(done, Tail(view)))

-----------------------------------------------------------------------------
(* Futures: Poll lets one get as far as it can.                             *)

RECURSIVE Ready(_)
Ready(f) ==
    IF f.of = "suspense" THEN f.at = "chunks" /\ f.todo = <<>>
    ELSE \A i \in DOMAIN f.todo : IsSync(f.todo[i]) \/ Ready(f.todo[i].fut)

(* What it was waiting for; an ErrorBoundary some of whose children threw   *)
(* renders its fallback instead of them.                                    *)
RECURSIVE Result(_)
Result(f) ==
    IF f.of = "suspense" THEN f.done
    ELSE With(FlattenSeq([i \in DOMAIN f.todo |->
                 IF f.todo[i].k = "async" THEN Result(f.todo[i].fut) ELSE <<f.todo[i]>>]),
              LAMBDA joined : IF Throws(joined) THEN <<Sync(<<Caught(f.e)>>)>> ELSE joined)

(* The Suspenses that have its waker                                        *)
RECURSIVE Waits(_)
Waits(f) ==
    CASE f.of = "boundary" ->
           UNION {Waits(f.todo[i].fut) : i \in {j \in DOMAIN f.todo : ~IsSync(f.todo[j])}}
      [] f.of = "suspense" /\ f.at = "data" -> {f.s}
      [] OTHER -> IF f.todo = <<>> THEN {} ELSE Waits(Head(f.todo).fut)

(* With its data there, a Suspense renders what it contains, or nothing if  *)
(* it has turned out local; in order, its fallback.                         *)
Rendered(f) ==
    LET there == data[f.s] = "loaded"
    IN IF f.id = <<>>
       THEN [f EXCEPT !.at = "chunks",
                      !.done = TakeChunks(IF there THEN Render(Builder(<<>>), page[f.s])
                                          ELSE PushSync(Builder(<<>>), <<Fallback(f.s)>>))]
       ELSE LET b == Builder(ChildId(f.id))
            IN [f EXCEPT !.at = "chunks", !.replace = there,
                         !.todo = TakeChunks(IF there THEN Render(b, page[f.s])
                                             ELSE PushSync(b, <<Hole>>))]

RECURSIVE Poll(_)

(* push_async_out_of_order: Async chunks are awaited and flattened out.     *)
RECURSIVE Flatten(_)
Flatten(f) ==
    IF f.todo = <<>> THEN f
    ELSE LET c == Head(f.todo)
             Rest(done) == With([f EXCEPT !.todo = Tail(@), !.done = @ \o done], Flatten)
         IN IF c.k # "async" THEN Rest(<<c>>)
            ELSE With(Poll(c.fut), LAMBDA g :
                     IF Ready(g) THEN Rest(Result(g))
                     ELSE [f EXCEPT !.todo = <<Async(g)>> \o Tail(@)])

Poll(f) ==
    CASE f.of = "boundary" ->
           [f EXCEPT !.todo = [i \in DOMAIN @ |->
               IF IsSync(@[i]) THEN @[i] ELSE [@[i] EXCEPT !.fut = Poll(@)]]]
      [] f.at = "data" /\ data[f.s] = "loading" -> f
      [] f.at = "data" /\ data[f.s] # "loading" -> With(Rendered(f), Flatten)
      [] OTHER -> Flatten(f)

-----------------------------------------------------------------------------
(* StreamBuilder::poll_next, one action per call of it by itself or by the  *)
(* response                                                                 *)

(* It returns what is in the buffer ...                                     *)
Flush(b) == outbox' = outbox \o b /\ sync_buf' = <<>> /\ UNCHANGED <<run, watched>>
(* ... or is Pending, and is polled again when a future wakes it.           *)
Sleep(fs) ==
    /\ run' = "asleep"
    /\ watched' = watched \cup UNION {Waits(fs[i]) : i \in DOMAIN fs}
    /\ UNCHANGED <<sync_buf, outbox>>
FlushOrGoOn ==
    IF sync_buf = <<>> THEN UNCHANGED <<sync_buf, outbox, run, watched>> ELSE Flush(sync_buf)

PollPending ==
    /\ run = "awake" /\ pending # <<>>
    /\ \E f \in {Poll(pending[1])} :
          IF Ready(f)
          THEN /\ pending' = <<>> /\ chunks' = Result(f) \o chunks
               /\ UNCHANGED <<sync_buf, outbox, run, watched>>
          ELSE pending' = <<f>> /\ UNCHANGED chunks /\ Sleep(<<f>>)
    /\ UNCHANGED <<mode, page, throws, data, pending_ooo, doc>>

(* The next chunk is text: so is all up to the next that is not.            *)
TakeSync ==
    /\ run = "awake" /\ pending = <<>> /\ chunks # <<>> /\ IsSync(Head(chunks))
    /\ LET n == SelectInSeq(chunks, LAMBDA c : ~IsSync(c))
           text == IF n = 0 THEN chunks ELSE SubSeq(chunks, 1, n - 1)
           rest == IF n = 0 THEN <<>> ELSE SubSeq(chunks, n, Len(chunks))
           ooo == rest # <<>> /\ Head(rest).k = "ooo"
       IN /\ sync_buf' = sync_buf \o Html(text)
          /\ chunks' = IF ooo THEN Tail(rest) ELSE rest
          /\ pending_ooo' = IF ooo THEN Append(pending_ooo, Head(rest).fut) ELSE pending_ooo
    /\ UNCHANGED <<mode, page, throws, data, pending, run, watched, outbox, doc>>

(* An Async chunk, without a look at it before Pending is returned          *)
TakeAsyncUnpolled ==
    /\ run = "awake" /\ pending = <<>> /\ chunks # <<>> /\ Head(chunks).k = "async"
    /\ pending' = <<Head(chunks).fut>> /\ chunks' = Tail(chunks)
    /\ IF sync_buf = <<>> THEN Sleep(<<>>) ELSE Flush(sync_buf)
    /\ UNCHANGED <<mode, page, throws, data, pending_ooo, doc>>

TakeAsync ==
    /\ run = "awake" /\ pending = <<>> /\ chunks # <<>> /\ Head(chunks).k = "async"
    /\ pending' = <<Head(chunks).fut>> /\ chunks' = Tail(chunks)
    /\ FlushOrGoOn
    /\ UNCHANGED <<mode, page, throws, data, pending_ooo, doc>>

TakeOutOfOrder ==
    /\ run = "awake" /\ pending = <<>> /\ chunks # <<>> /\ Head(chunks).k = "ooo"
    /\ pending_ooo' = Append(pending_ooo, Head(chunks).fut) /\ chunks' = Tail(chunks)
    /\ FlushOrGoOn
    /\ UNCHANGED <<mode, page, throws, data, pending, doc>>

(* A chunk that is ready takes the place of its fallback if that is still   *)
(* in the buffer, and is sent as a template if not; what it holds that is   *)
(* not text is next.                                                        *)
Place(acc, f) ==
    LET start == SelectInSeq(acc.buf, LAMBDA t : t = Open(f.id))
        end == SelectInSubSeq(acc.buf, start, Len(acc.buf), LAMBDA t : t = Close(f.id))
    IN [acc EXCEPT
          !.chunks = Held(f.done) \o @,
          !.buf = IF start > 0
                  THEN SubSeq(@, 1, start - 1) \o Html(f.done) \o SubSeq(@, end + 1, Len(@))
                  ELSE @ \o <<Template(f.id)>> \o Html(f.done) \o <<Script(f.id, f.replace)>>]

RECURSIVE PollAll(_, _)
PollAll(acc, fs) ==
    IF fs = <<>> THEN acc
    ELSE With(Poll(Head(fs)), LAMBDA f :
             With(IF Ready(f) THEN Place(acc, f) ELSE [acc EXCEPT !.left = Append(@, f)],
                  LAMBDA next : PollAll(next, Tail(fs))))

PollOutOfOrder ==
    /\ run = "awake" /\ pending = <<>> /\ chunks = <<>> /\ pending_ooo # <<>>
    /\ \E all \in {PollAll([buf |-> sync_buf, chunks |-> <<>>, left |-> <<>>], pending_ooo)} :
          /\ chunks' = all.chunks /\ pending_ooo' = all.left
          /\ IF all.buf = <<>> THEN Sleep(all.left) ELSE Flush(all.buf)
    /\ UNCHANGED <<mode, page, throws, data, pending, doc>>

Finish ==
    /\ run = "awake" /\ pending = <<>> /\ chunks = <<>> /\ pending_ooo = <<>>
    /\ IF sync_buf # <<>> THEN Flush(sync_buf)
       ELSE run' = "ended" /\ UNCHANGED <<sync_buf, outbox, watched>>
    /\ UNCHANGED <<mode, page, throws, data, chunks, pending, pending_ooo, doc>>

PollNext ==
    PollPending \/ TakeSync \/ TakeAsync \/ TakeOutOfOrder \/ PollOutOfOrder \/ Finish

(* The response polls a stream that was woken when it has sent what it got; *)
(* in async mode it first collects everything.                              *)
Resume ==
    /\ run = "woken" /\ (mode # "async" => outbox = <<>>)
    /\ run' = "awake"
    /\ UNCHANGED <<mode, page, throws, data, chunks, sync_buf, pending, pending_ooo, watched,
                   outbox, doc>>

(* A Suspense has its data, or turns out to be local.                       *)
Settle(s, v) ==
    /\ data[s] = "loading"
    /\ data' = [data EXCEPT ![s] = v]
    /\ run' = IF run = "asleep" /\ s \in watched THEN "woken" ELSE run
    /\ UNCHANGED <<mode, page, throws, chunks, sync_buf, pending, pending_ooo, watched,
                   outbox, doc>>

-----------------------------------------------------------------------------
(* The browser: the script of a template finds the last markers of its id   *)
(* in the document and the first template of its id.                        *)
RunScript(d, t) ==
    LET o == SelectLastInSeq(d.body, LAMBDA x : x = Open(t.id))
        c == SelectLastInSeq(d.body, LAMBDA x : x = Close(t.id))
        tpl == d.templates[SelectInSeq(d.templates, LAMBDA x : x.id = t.id)].html
        before == SubSeq(d.body, 1, o - 1)
        after == SubSeq(d.body, c + 1, Len(d.body))
    IN IF o = 0 \/ c < o THEN d
       ELSE [d EXCEPT !.body = before \o (IF t.k = "swap" THEN tpl ELSE SubSeq(@, o + 1, c - 1))
                                      \o after]

ParseToken(d, t) ==
    CASE t.k = "template" -> [d EXCEPT !.open = <<[id |-> t.id, html |-> <<>>]>>]
      [] t.k \in {"swap", "keep"} ->
           RunScript([d EXCEPT !.templates = @ \o d.open, !.open = <<>>], t)
      [] d.open # <<>> -> [d EXCEPT !.open[1].html = Append(@, t)]
      [] OTHER -> [d EXCEPT !.body = Append(@, t)]

RECURSIVE Parse(_, _)
Parse(d, text) ==
    IF text = <<>> THEN d
    ELSE With(ParseToken(d, Head(text)), LAMBDA next : Parse(next, Tail(text)))

(* A batch of chunks is sent, and the browser takes it in.                  *)
Send ==
    /\ outbox # <<>> /\ (mode = "async" => run = "ended")
    /\ doc' = Parse(doc, outbox)
    /\ outbox' = <<>>
    /\ UNCHANGED <<mode, page, throws, data, chunks, sync_buf, pending, pending_ooo, run,
                   watched>>

(* to_html_stream_*: the view is rendered when the stream is made.  The     *)
(* ids of an out of order stream start at 0.                                *)
HtmlInit(view) ==
    /\ page = view
    /\ data = [s \in Suspenses |-> "loading"]
    /\ chunks = TakeChunks(Render(Builder(IF mode = "ooo" THEN <<0>> ELSE <<>>), page[Root]))
    /\ sync_buf = <<>> /\ pending = <<>> /\ pending_ooo = <<>>
    /\ run = "new" /\ watched = {} /\ outbox = <<>>
    /\ doc = [body |-> <<>>, templates |-> <<>>, open |-> <<>>]

-----------------------------------------------------------------------------
(* What the document must come to                                           *)

(* The names in and under a view, in document order                         *)
RECURSIVE Names(_)
Names(view) ==
    FlattenSeq([i \in DOMAIN view |->
        IF view[i] \in Suspenses \cup Boundaries
        THEN <<view[i]>> \o Names(page[view[i]]) ELSE <<view[i]>>])

(* The view once all data are there, with the ErrorBoundaries of es showing *)
(* their fallbacks                                                          *)
RECURSIVE Final(_, _)
Final(view, es) ==
    FlattenSeq([i \in DOMAIN view |->
        CASE view[i] \in es -> <<Caught(view[i])>>
          [] view[i] \in Boundaries \ es -> Final(page[view[i]], es)
          [] view[i] \in Suspenses -> IF data[view[i]] = "local" THEN <<Fallback(view[i])>>
                                      ELSE Final(page[view[i]], es)
          [] OTHER -> <<Text(view[i])>>])

(* An ErrorBoundary waits for the Suspenses in it before it decides; an     *)
(* error further down may come later.                                       *)
MustCatch(e) ==
    \E i \in DOMAIN page[e] :
        \/ page[e][i] \in throws
        \/ /\ page[e][i] \in Suspenses /\ data[page[e][i]] = "loaded"
           /\ ToSet(page[page[e][i]]) \cap throws # {}
MayCatch(e) == ToSet(Names(page[e])) \cap throws # {}

(* A local Suspense that was still in the buffer is replaced by nothing.    *)
Seen(body) == SelectSeq(body, LAMBDA t : t.k # "hole" /\ ~(t.k = "fallback" /\ data[t.of] = "local"))

(* When the stream has ended, and whatever order the data came in, the      *)
(* document is the whole view: every Suspense shows its children, once and  *)
(* in its place, no marker and no other fallback is left, and an            *)
(* ErrorBoundary whose children failed shows its fallback instead.          *)
DocumentComplete ==
    run = "ended" /\ outbox = <<>> =>
        \E es \in SUBSET Boundaries :
            /\ \A e \in Boundaries : (MustCatch(e) => e \in es) /\ (e \in es => MayCatch(e))
            /\ Seen(doc.body) = Seen(Final(page[Root], es))

(* At every moment what is on the page is in document order and nothing is  *)
(* there twice, neither a text nor a fallback nor one with the other.       *)
InDocumentOrder ==
    LET order == Names(page[Root])
        shown == SelectSeq(doc.body, LAMBDA t : t.k \in {"text", "fallback", "caught"})
        at(i) == SelectInSeq(order, LAMBDA n : n = shown[i].of)
        under(i) == IF shown[i].k = "text" THEN 0 ELSE Len(Names(page[shown[i].of]))
    IN \A i \in 1 .. Len(shown) - 1 : at(i) + under(i) < at(i + 1)

=============================================================================
