------------------------------ MODULE MCRotation ------------------------------
(***************************************************************************)
(* Three server sets: a and b share the operator z, b and the mute m have  *)
(* the same lead operator, and both shuffles would start with a again if   *)
(* its operators were not excluded.                                        *)
(***************************************************************************)
EXTENDS Rotation, TLC

MCOperators == ("a" :> {"x", "z"}) @@ ("b" :> {"y", "z"}) @@ ("m" :> {"y"})
MCLead      == ("a" :> "x") @@ ("b" :> "y") @@ ("m" :> "y")
MCOrder     == (0 :> <<"a", "m", "b">>) @@ (1 :> <<"a", "m", "b">>)
NamesFirst  == {[names |-> "a", pinned |-> FALSE]}   \* the first pick itself
NamesOther  == {[names |-> "b", pinned |-> FALSE]}
SlotSymmetry == Permutations(Slots)
==============================================================================
