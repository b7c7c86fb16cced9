---------------------------- MODULE MCRgaSession ----------------------------
(* RgaSession for TLC: the version of this librga, and the drivers on both  *)
(* sides of 1.3.0 and the older ones.                                       *)
EXTENDS RgaSession

Shipped == <<1, 10, 5>>

AnyDriver ==
  { [type |-> "compat", version |-> <<0, 0, 0>>],
    [type |-> "multi", version |-> <<1, 2, 27>>],
    [type |-> "multi", version |-> <<1, 3, 0>>] }

MultiDrivers == {d \in AnyDriver : d.type = "multi"}
=============================================================================
