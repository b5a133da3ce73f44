--------------------------- MODULE MCReactiveGraph ---------------------------
(***************************************************************************)
(* Small graphs for TLC: which nodes there are, what each closure reads    *)
(* after the values it has read so far, and what each memo returns.        *)
(***************************************************************************)
EXTENDS ReactiveGraph

(* A closure that reads a fixed sequence of sources. *)
Static(plan, vals) == IF Len(vals) < Len(plan) THEN plan[Len(vals) + 1] ELSE Done

Half(vals) == vals[1] \div 2

(* Diamonds and sources that come and go: name reads flag and, if it is not  *)
(* 0, half of a; both reads name and half; view reads both and, if it is 1,  *)
(* a itself.  sum is an immediate effect on flag and on a or half of it.     *)
MixedRead(n, vals) ==
    CASE n = "half" -> Static(<<"a">>, vals)
      [] n = "name" -> IF vals = <<>> THEN "flag"
                       ELSE IF Len(vals) = 1 /\ vals[1] # 0 THEN "half" ELSE Done
      [] n = "both" -> Static(<<"name", "half">>, vals)
      [] n = "view" -> IF vals = <<>> THEN "both"
                       ELSE IF vals = <<1>> THEN "a" ELSE Done
      [] n = "sum" -> IF vals = <<>> THEN "flag"
                      ELSE IF Len(vals) = 1 THEN IF vals[1] = 0 THEN "a" ELSE "half" ELSE Done

MixedResult(n, vals) ==
    CASE n = "half" -> Half(vals)
      [] n = "name" -> IF Len(vals) = 2 THEN vals[2] ELSE 0
      [] n = "both" -> vals[1] + vals[2]

(* half is read by zero, and view reads zero before half.                    *)
NestedRead(n, vals) ==
    CASE n = "half" -> Static(<<"a">>, vals)
      [] n = "zero" -> Static(<<"half">>, vals)
      [] n = "view" -> Static(<<"zero", "half">>, vals)

NestedResult(n, vals) ==
    CASE n = "half" -> Half(vals)
      [] n = "zero" -> 0

(* Effects on signals only *)
FlatRead(n, vals) ==
    CASE n = "view" -> Static(<<"a", "b", "a">>, vals)
      [] n = "log" -> IF vals = <<>> THEN "b" ELSE IF vals = <<1>> THEN "a" ELSE Done

FlatResult(n, vals) == None

(* Immediate effects: sum reads a and half of a, log reads half of a.        *)
ImmediateRead(n, vals) ==
    CASE n = "half" -> Static(<<"a">>, vals)
      [] n = "sum" -> Static(<<"a", "half", "b">>, vals)
      [] n = "log" -> Static(<<"half">>, vals)

ImmediateResult(n, vals) == Half(vals)

(* One memo shared by threads *)
SharedRead(n, vals) == Static(<<"a">>, vals)

SharedResult(n, vals) == vals[1]

=============================================================================
