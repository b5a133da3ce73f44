------------------------------ MODULE ViewList ------------------------------
(***************************************************************************)
(* What a keyed list promises: it has one view for each item, in the order *)
(* of the items, and shows each of them once; an item whose key was there  *)
(* before keeps its view, and any other has a view built for it; and every *)
(* view knows its position.                                                *)
(***************************************************************************)
EXTENDS Naturals, Sequences, SequencesExt, Bags

CONSTANTS Keys

VARIABLES
    views,      \* the views, in the order of their items: key, and the update that built it
    indexes,    \* the position that each of them has last been told
    updates,    \* how many updates there have been
    mounted,    \* the list is in the document
    shown       \* the views in the document

vars == <<views, indexes, updates, mounted, shown>>

(* The keys of the items are distinct.                                      *)
Lists == {ks \in UNION {[1 .. n -> Keys] : n \in 0 .. Cardinality(Keys)} : IsInjective(ks)}

Kept(ks, i) == {v \in Range(views) : v.key = ks[i]}

Updated(ks) ==
    [i \in DOMAIN ks |-> IF Kept(ks, i) # {} THEN CHOOSE v \in Kept(ks, i) : TRUE
                         ELSE [key |-> ks[i], born |-> updates + 1]]

Positions(s) == [i \in DOMAIN s |-> i]

Init ==
    /\ \E ks \in Lists : views = [i \in DOMAIN ks |-> [key |-> ks[i], born |-> 0]]
    /\ indexes = Positions(views)
    /\ updates = 0 /\ mounted = FALSE /\ shown = EmptyBag

Update(ks) ==
    /\ views' = Updated(ks)
    /\ indexes' = Positions(ks)
    /\ updates' = updates + 1
    /\ shown' = IF mounted THEN SetToBag(Range(Updated(ks))) ELSE EmptyBag
    /\ UNCHANGED mounted

Mount == mounted' = TRUE /\ shown' = SetToBag(Range(views)) /\ UNCHANGED <<views, indexes, updates>>

Unmount == mounted' = FALSE /\ shown' = EmptyBag /\ UNCHANGED <<views, indexes, updates>>

Next == (\E ks \in Lists : Update(ks)) \/ Mount \/ Unmount

Spec == Init /\ [][Next]_vars

=============================================================================
