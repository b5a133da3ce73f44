----------------------------- MODULE KeyedList ------------------------------
(***************************************************************************)
(* A keyed list of views in the document: build, rebuild, mount and        *)
(* unmount.  rebuild compares the old keys with the new ones (diff) and    *)
(* applies the difference to the views and to the document (apply_diff),   *)
(* leaving in place in the document the views that it takes to be moved    *)
(* only by what is added and removed before them.                          *)
(*                                                                         *)
(* Positions count from 1.  A view is known by its key and by the update   *)
(* that built it; index is what its set_index was last called with.        *)
(***************************************************************************)
EXTENDS Integers, Sequences, SequencesExt, FiniteSets, FiniteSetsExt, Bags, BagsExt

CONSTANTS
    Keys,
    MaxUpdates      \* bound on the calls of rebuild

Hole == [view |-> "hole"]   \* None in rendered_items

VARIABLES
    hashed_items,   \* the keys, in order
    rendered_items, \* the views, in order
    dom,            \* the views in the document before the list's marker
    mounted,
    updates         \* history: how often the list was rebuilt

vars == <<hashed_items, rendered_items, dom, mounted, updates>>

(* The keys of the items are distinct.                                      *)
Lists == {ks \in UNION {[1 .. n -> Keys] : n \in 0 .. Cardinality(Keys)} : IsInjective(ks)}

View(k, n) == [key |-> k, born |-> n]
Entry(v, i) == [view |-> v, index |-> i]

Build(ks) ==
    /\ hashed_items = ks
    /\ rendered_items = [i \in DOMAIN ks |-> Entry(View(ks[i], 0), i)]
    /\ dom = <<>> /\ mounted = FALSE /\ updates = 0

-----------------------------------------------------------------------------
(* diff *)

At(s, i) == IF i \in DOMAIN s THEN s[i] ELSE Hole
Position(s, k) == CHOOSE i \in DOMAIN s : s[i] = k
UpTo(S, i) == Cardinality({j \in S : j <= i})

Removed(from, to) == {i \in DOMAIN from : from[i] \notin Range(to)}
Added(from, to) == {i \in DOMAIN to : to[i] \notin Range(from)}
Moved(from, to) == {i \in DOMAIN from : from[i] \in Range(to) /\ At(to, i) # from[i]}

(* A view that is moved by as many places as views are added before it less *)
(* those removed stays where it is in the document.                         *)
MoveInDom(from, to, i) ==
    Position(to, from[i]) - i # UpTo(Added(from, to), i) - UpTo(Removed(from, to), i)

Ordered(S) == SetToSortSeq(S, <)

SingleMoves(from, to) ==
    LET ms == Ordered(Moved(from, to))
    IN [n \in DOMAIN ms |-> [from |-> ms[n], len |-> 1, to |-> Position(to, from[ms[n]]),
                             move_in_dom |-> MoveInDom(from, to, ms[n])]]

(* group_adjacent_moves: neighbours that stay neighbours move as one.       *)
Joins(p, m) ==
    m.from = p.from + p.len /\ m.to = p.to + p.len /\ m.move_in_dom = p.move_in_dom

GroupAdjacentMoves(ms) ==
    FoldLeft(LAMBDA gs, m :
                IF gs # <<>> /\ Joins(Last(gs), m) THEN [gs EXCEPT ![Len(gs)].len = @ + 1]
                ELSE Append(gs, m),
             <<>>, ms)

Diff(from, to) ==
    IF to = <<>> THEN [removed |-> <<>>, moved |-> <<>>, added |-> <<>>, append |-> FALSE,
                       clear |-> from # <<>>]
    ELSE IF from = <<>> THEN [removed |-> <<>>, moved |-> <<>>, added |-> Ordered(DOMAIN to),
                              append |-> TRUE, clear |-> FALSE]
    ELSE [removed |-> Ordered(Removed(from, to)),
          moved |-> GroupAdjacentMoves(SingleMoves(from, to)),
          added |-> Ordered(Added(from, to)), append |-> FALSE, clear |-> FALSE]

-----------------------------------------------------------------------------
(* unpack_moves: the moves one by one and the additions, each in order      *)

First(m) == [m EXCEPT !.len = 1]
Rest(ms) ==
    IF Head(ms).len = 1 THEN Tail(ms)
    ELSE <<[Head(ms) EXCEPT !.len = @ - 1, !.from = @ + 1, !.to = @ + 1]>> \o Tail(ms)

UnpackStep(u, i) ==
    IF u.removed # <<>> /\ Head(u.removed) = i THEN [u EXCEPT !.removed = Tail(@)]
    ELSE IF u.added # <<>> /\ (u.moved = <<>> \/ Head(u.added) = i)
         THEN [u EXCEPT !.added = Tail(@), !.adds = Append(@, Head(u.added))]
    ELSE IF u.moved # <<>>
         THEN [u EXCEPT !.moved = Rest(@), !.moves = Append(@, First(Head(u.moved)))]
    ELSE u

UnpackMoves(d) ==
    LET n == FoldLeft(LAMBDA s, m : s + m.len, 0, d.moved) + Len(d.added) + Len(d.removed)
    IN FoldLeft(UnpackStep,
                [removed |-> d.removed, moved |-> d.moved, added |-> d.added,
                 moves |-> <<>>, adds |-> <<>>],
                [i \in 1 .. n |-> i])

-----------------------------------------------------------------------------
(* apply_diff, on the views cs and the document ds                          *)

Unmounted(ds, v) == SelectSeq(ds, LAMBDA w : w # v)

(* insert_before_this_or_marker: before the first view at i or after it, or *)
(* before the marker.  A list that is not in the document has no parent or, *)
(* once unmounted, one that its views and its marker are not in, and the    *)
(* insertion fails.                                                         *)
SiblingNext(cs, i) == {j \in {i, i + 1} \cap DOMAIN cs : cs[j] # Hole}

Sibling(cs, i) == {j \in i .. Len(cs) : cs[j] # Hole}

Inserted(ds, cs, i, v) ==
    LET rest == Unmounted(ds, v)
    IN IF ~mounted THEN ds
       ELSE IF Sibling(cs, i) = {} THEN Append(rest, v)
       ELSE InsertAt(rest, Position(rest, cs[Min(Sibling(cs, i))].view), v)

Clear(l) == [cs |-> <<>>, ds |-> SelectSeq(l.ds, LAMBDA w : \A c \in Range(l.cs) : c.view # w)]

TakeAway(l, i) == [cs |-> [l.cs EXCEPT ![i] = Hole], ds |-> Unmounted(l.ds, l.cs[i].view)]

(* The views to move are all taken out before any is put back.              *)
MoveOut(cs, moves) ==
    [i \in DOMAIN cs |-> IF \E n \in DOMAIN moves : moves[n].from = i THEN Hole ELSE cs[i]]

Resize(cs, n) == cs \o [i \in 1 .. n |-> Hole]

MoveInKeepIndex(old, cs, m) == [cs EXCEPT ![m.to] = old[m.from]]

MoveIn(old, cs, m) == [cs EXCEPT ![m.to] = Entry(old[m.from].view, m.to)]

MoveInDocument(old, l, m) ==
    [cs |-> [l.cs EXCEPT ![m.to] = Entry(old[m.from].view, m.to)],
     ds |-> Inserted(l.ds, l.cs, m.to, old[m.from].view)]

Add(l, i, k, append) ==
    LET v == View(k, updates + 1)
    IN [cs |-> [l.cs EXCEPT ![i] = Entry(v, i)],
        ds |-> IF append /\ mounted THEN Append(l.ds, v) ELSE Inserted(l.ds, l.cs, i, v)]

ApplyDiff(d, ks) ==
    LET l0 == [cs |-> rendered_items, ds |-> dom]
        l1 == FoldLeft(TakeAway, IF d.clear THEN Clear(l0) ELSE l0, d.removed)
        u == UnpackMoves(d)
        out == Resize(MoveOut(l1.cs, u.moves), Len(d.added))
        stay == SelectSeq(u.moves, LAMBDA m : ~m.move_in_dom)
        go == SelectSeq(u.moves, LAMBDA m : m.move_in_dom)
        l2 == [cs |-> FoldLeft(LAMBDA cs, m : MoveIn(l1.cs, cs, m), out, stay), ds |-> l1.ds]
        l3 == FoldLeft(LAMBDA l, m : MoveInDocument(l1.cs, l, m), l2, go)
        l4 == FoldLeft(LAMBDA l, i : Add(l, i, ks[i], d.append), l3, u.adds)
    IN [l4 EXCEPT !.cs = SelectSeq(@, LAMBDA c : c # Hole)]

-----------------------------------------------------------------------------
Init == \E ks \in Lists : Build(ks)

Rebuild(ks) ==
    LET l == ApplyDiff(Diff(hashed_items, ks), ks)
    IN /\ updates < MaxUpdates
       /\ updates' = updates + 1
       /\ rendered_items' = l.cs
       /\ dom' = l.ds
       /\ hashed_items' = ks
       /\ UNCHANGED mounted

(* Mounting a list that is already there moves its views to their places.   *)
Mount ==
    /\ mounted' = TRUE
    /\ dom' = [i \in DOMAIN rendered_items |-> rendered_items[i].view]
    /\ UNCHANGED <<hashed_items, rendered_items, updates>>

Unmount ==
    /\ mounted' = FALSE
    /\ dom' = SelectSeq(dom, LAMBDA w : \A c \in Range(rendered_items) : c.view # w)
    /\ UNCHANGED <<hashed_items, rendered_items, updates>>

Next == (\E ks \in Lists : Rebuild(ks)) \/ Mount \/ Unmount

Spec == Init /\ [][Next]_vars

-----------------------------------------------------------------------------
Views == [i \in DOMAIN rendered_items |-> rendered_items[i].view]

Indexes == [i \in DOMAIN rendered_items |-> rendered_items[i].index]

Abstract ==
    INSTANCE ViewList WITH
        views <- Views, indexes <- Indexes, shown <- FoldLeft(BagAdd, EmptyBag, dom)

(* The diff and its application implement the list that is simply made      *)
(* anew: through any series of updates, mounted or not, the views are those *)
(* of the new items in their order, each item that stays keeps its view,    *)
(* with its state, each other one gets a new view, each view is in the      *)
(* document once, and set_index has told it the position it really has.     *)
ShowsItsItems == Abstract!Spec

(* Removing and inserting items anywhere, also many at once, leaves a       *)
(* document that was in order in order, although each view that stays is    *)
(* moved only if the counts of what was added and removed before it say so. *)
Staying(ks, other) == SelectSeq(ks, LAMBDA k : k \in Range(other))

EditsKeepOrder ==
    [][/\ mounted /\ dom = Views
       /\ Staying(hashed_items, hashed_items') = Staying(hashed_items', hashed_items)
       => ~mounted' \/ dom' = Views']_vars

(* "Calculates the operations needed to get from `from` to `to`": once they *)
(* are applied, the views are in the document in the order of the items.    *)
DocumentInOrder == mounted => dom = Views

=============================================================================
