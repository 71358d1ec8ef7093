------------------------------ MODULE MCResolver ------------------------------
(* Instances of Resolver for TLC. *)
EXTENDS Resolver, TLC

ThreadSymmetry == Permutations(Threads)

\* A wire that does not parse, a name two deny gates want and a
\* literal route would answer, and a name that passes.
SomeCatches == [g \in Gates |->
                  CASE g = "parse" -> {"garbled"}
                    [] g \in {"blocklist", "homograph"} -> {"lookalike"}
                    [] OTHER -> {}]

\* The AAAA question is withheld while IPv6 egress is presumed dead.
SixCaught == [g \in Gates |-> IF g = "v6Withheld" THEN {"six"} ELSE {}]

TwoPools   == <<{"doh"}, {"crypt"}>>
OneDirect  == <<{"doh"}>>
Udp        == [t \in {"doh", "crypt"} |-> t = "crypt"]
Relay      == [t \in {"doh", "crypt"} |-> IF t = "crypt" THEN "relay" ELSE NoOne]

DohOnly    == [t \in {"doh"} |-> FALSE]
DohRelay   == [t \in {"doh"} |-> NoOne]
=============================================================================
