---------------------------- MODULE MCAnswerCache ----------------------------
(***************************************************************************)
(* Instances of AnswerCache for TLC.  The three of CacheSpec are about     *)
(* different inputs of the same cache: `part` says which ones a behaviour  *)
(* meets, and the properties are those of the constants that cover all.    *)
(***************************************************************************)
EXTENDS AnswerCacheInvariant

VARIABLE part

Ans(ttl, rtype, ad, private) ==
    [ttl |-> ttl, rtype |-> rtype, ad |-> ad, private |-> private]

\* A plain address; an authenticated and a private one.
PlainAnswers   == {Ans(1, "A", FALSE, FALSE)}
RestartAnswers == {Ans(2, "A", TRUE, FALSE), Ans(1, "A", FALSE, TRUE)}
\* One that is refused for its type, one for its zero TTL, one not readable.
GateAnswers    == {Ans(1, "A", TRUE, TRUE), Ans(0, "A", FALSE, FALSE),
                   Ans(1, "HTTPS", FALSE, FALSE), Ans(0, "none", FALSE, FALSE)}
AllAnswers     == PlainAnswers \cup RestartAnswers \cup GateAnswers

\* Three questions with hashes of their own, and a fourth that collides.
FourKeys       == {"a", "b", "c", "d"}
FourHash       == [k \in FourKeys |-> CASE k = "a" -> 1 [] k = "c" -> 3 [] OTHER -> 2]
ThreeKeys      == {"a", "b", "c"}
DistinctHash   == [k \in ThreeKeys |-> FourHash[k]]
TwoKeys        == {"b", "d"}
OneHash        == [k \in TwoKeys |-> 2]

NoTypeSets     == {{"A", "HTTPS"}}
NoDenials      == {}
\* A negative without an SOA and one whose minimum is above the ceiling.
BothDenials    == {-1, 9}

\* Three questions compete for one to three slots while the cap moves.
Lru == INSTANCE AnswerCache WITH
    Keys <- ThreeKeys, HashOf <- DistinctHash, Lists <- {1}, Answers <- PlainAnswers,
    Denials <- NoDenials, StaleModes <- {}, Floors <- {}, Ceilings <- {},
    TypeSets <- NoTypeSets, Switches <- {}, MaxTime <- 2

\* Two questions that collide, two block lists, stale answers and enforcement.
Restart == INSTANCE AnswerCache WITH
    Keys <- TwoKeys, HashOf <- OneHash, Answers <- RestartAnswers, Denials <- NoDenials,
    Caps <- {}, Floors <- {}, Ceilings <- {}, TypeSets <- NoTypeSets,
    Switches <- {"rebind"}, MaxSeq <- 3

\* One question, and every condition under which an answer is not stored or
\* is stored under another TTL than its own.
Gates == INSTANCE AnswerCache WITH
    Keys <- {"a"}, HashOf <- [k \in {"a"} |-> 1], Lists <- {1}, Answers <- GateAnswers,
    Caps <- {}, StaleModes <- {}, Switches <- {"zero", "rr"}, MaxTime <- 2, MaxSeq <- 2

CacheInit ==
    \/ part = "lru" /\ Lru!Init
    \/ part = "restart" /\ Restart!Init
    \/ part = "gates" /\ Gates!Init

CacheNext ==
    /\ UNCHANGED part
    /\ \/ part = "lru" /\ Lru!Next
       \/ part = "restart" /\ Restart!Next
       \/ part = "gates" /\ Gates!Next

CacheSpec == CacheInit /\ [][CacheNext]_<<part, vars>>

\* The cache as the constants of a configuration have it.
PlainSpec == part = "plain" /\ Init /\ [][Next /\ UNCHANGED part]_<<part, vars>>
=============================================================================
