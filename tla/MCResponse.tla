----------------------------- MODULE MCResponse -----------------------------
(* Apps of three Suspenses and two ErrorBoundaries to check Response on     *)
EXTENDS Response

MCSuspenses == {"s1", "s2", "s3"}
MCBoundaries == {"e1", "e2"}
MCResources == MCSuspenses \cup {"k1"}
MCErrors == {"b", "c", "d", "x"}

App(root, s1, s2, s3, e1, e2, throwing, local, blocking, parent) ==
    [page |-> ("root" :> root) @@ ("s1" :> s1) @@ ("s2" :> s2) @@ ("s3" :> s3)
              @@ ("e1" :> e1) @@ ("e2" :> e2),
     throws |-> throwing, local |-> local, blocking |-> blocking,
     parent |-> parent, kids |-> {"k1"}]

(* Suspenses side by side, one of them with another in it                   *)
Nested(local, blocking) ==
    App(<<"a", "s1", "b", "s2">>, <<"c", "s3">>, <<"d">>, <<"x">>, <<>>, <<>>,
        {}, local, blocking, "s2")
(* An ErrorBoundary in a Suspense, after another Suspense                   *)
BoundaryLast ==
    App(<<"a", "s1">>, <<"s2", "b", "e1">>, <<"c">>, <<"d">>, <<"x", "s3">>, <<>>,
        {"d", "x"}, {"s3"}, {}, "s3")
(* One ErrorBoundary in another, each with a Suspense in it                 *)
BoundaryNested ==
    App(<<"a", "e1">>, <<"d">>, <<"x", "s3">>, <<"y">>, <<"s1", "b", "e2">>, <<"c", "s2">>,
        {"b", "c", "x"}, {"s1"}, {"s2"}, "s1")
(* A Suspense after an ErrorBoundary with a Suspense in it                  *)
BoundaryFirst(throwing, local) ==
    App(<<"a", "s1">>, <<"e1", "s3">>, <<"c">>, <<"d">>, <<"b", "s2">>, <<>>,
        throwing, local, {}, "s1")

InAnyOrder == {Nested({"s1", "s3"}, {"s2"}), BoundaryLast, BoundaryNested}
InOrder == InAnyOrder \cup {BoundaryFirst({"c"}, {"s2"})}
MCApps == ("ooo" :> InAnyOrder) @@ ("inorder" :> InOrder) @@ ("async" :> InOrder)
FirstApps == "ooo" :> {BoundaryFirst({}, {})}
LocalApps == "ooo" :> {Nested({"s1"}, {"s2"})}

=============================================================================
