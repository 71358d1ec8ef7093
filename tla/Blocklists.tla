------------------------------ MODULE Blocklists ------------------------------
(***************************************************************************)
(* The installed block list (blocklist.rs), its provenance registry        *)
(* (blocklist/trust.rs) and the signed lane catalogues that feed them      *)
(* (blocklist/catalogs.rs).  A name is the sequence of its labels, the top *)
(* level first, so that a parent zone is a prefix of its children; the     *)
(* trie is the set of its terminals with the mask of each.  The            *)
(* fingerprint is a hash of the set of terminals alone and stands for that *)
(* set.  GLOBAL and REGISTRY are two locks, taken one after the other:     *)
(* each critical section is one action, and ingests run side by side.  No  *)
(* matcher installed (None) and the empty matcher answer alike.            *)
(***************************************************************************)
EXTENDS Integers, Sequences, FiniteSets

CONSTANTS Names,                    \* the names that lists are made of
          Lists,                    \* the lists a user installs: sets of names
          Catalogues,               \* lane -> the lists its catalogue has held
          Ingests,                  \* ingests under way at one time
          MaxDay                    \* bound on the day of the caller's clock

\* Names are sequences of labels, lists are finite sets of them.
ASSUME BlocklistAssumption ==
    /\ \A d \in Names : Len(d) \in Nat
    /\ \A list \in Lists \cup UNION {Catalogues[s] : s \in DOMAIN Catalogues} :
          list \subseteq Names /\ IsFiniteSet(list)

VARIABLES
    terms,          \* GLOBAL: terminal -> mask
    id_to_bit,      \* REGISTRY: lane -> bit, from 1 on; bit 0 is the anonymous source
    first_seen,     \* REGISTRY: lane -> first_seen_epoch_days, for lanes with a meta
    set_fp,         \* REGISTRY: lane -> the fingerprint noted last
    fp_to_ids,      \* REGISTRY: the dedup buckets, as pairs <<fingerprint, lane>>
    ingest,         \* the ingests between two of their critical sections
    day,
    listed,         \* ghost: the names installed since the last replacement
    shipped,        \* ghost: <<lane, name>> installed since the last replacement
    raced           \* ghost: lanes whose two first ingests ran side by side

listVars == <<terms, id_to_bit, first_seen, set_fp, fp_to_ids, ingest, day,
              listed, shipped, raced>>

Lanes == DOMAIN Catalogues
Free  == [pc |-> "free"]
Empty == [t \in {} |-> {}]

BlocklistInit ==
    /\ terms = Empty
    /\ id_to_bit = Empty /\ first_seen = Empty /\ set_fp = Empty /\ fp_to_ids = {}
    /\ ingest = [i \in Ingests |-> Free] /\ day = 1
    /\ listed = {} /\ shipped = {} /\ raced = {}

------------------------------------------------------------------------------
\* The matcher.  A name lies under each of its prefixes.
IsPrefix(t, d) == Len(t) <= Len(d) /\ \A i \in 1..Len(t) : t[i] = d[i]
Covering(m, d) == {t \in DOMAIN m : IsPrefix(t, d)}

\* Slip: the descendants of a new terminal stay.
insertKeeping(m, d, mask) ==
    IF Covering(m, d) # {}
    THEN LET t == CHOOSE t \in Covering(m, d) : TRUE IN [m EXCEPT ![t] = @ \cup mask]
    ELSE [t \in DOMAIN m \cup {d} |-> IF t = d THEN mask ELSE m[t]]

\* A name under a terminal adds its bits to that terminal; otherwise it
\* becomes a terminal, and everything beneath it goes.
insert_with_source(m, d, mask) ==
    IF Covering(m, d) # {}
    THEN LET t == CHOOSE t \in Covering(m, d) : TRUE IN [m EXCEPT ![t] = @ \cup mask]
    ELSE [t \in {t \in DOMAIN m : ~IsPrefix(d, t)} \cup {d} |-> IF t = d THEN mask ELSE m[t]]

\* The names of a list, one after the other.
Order(names) ==
    CHOOSE order \in [1..Cardinality(names) -> names] :
        \A d \in names : \E i \in 1..Cardinality(names) : order[i] = d

insertAll(m, names, mask) ==
    LET after[i \in 0..Cardinality(names)] ==
          IF i = 0 THEN m ELSE insert_with_source(after[i - 1], Order(names)[i], mask)
    IN  after[Cardinality(names)]

compile_text(list) == insertAll(Empty, list, {})
fingerprint(m)     == DOMAIN m
is_blocked(m, d)   == Covering(m, d) # {}

\* Slip: a replacement goes on from the terminals in force.
installOver(list, mask, merge) ==
    terms' = insertAll(terms, DOMAIN compile_text(list), mask)

\* Under the lock of GLOBAL: the terminals of the new matcher, one by one,
\* into the old one or into an empty one.
install_compiled(list, mask, merge) ==
    terms' = insertAll(IF merge THEN terms ELSE Empty, DOMAIN compile_text(list), mask)

\* A user's list, as text, file or artifact: no source, no bit.
compile_and_install(list, merge) ==
    /\ install_compiled(list, {}, merge)
    /\ listed' = (IF merge THEN listed ELSE {}) \cup list
    /\ shipped' = IF merge THEN shipped ELSE {}
    /\ UNCHANGED <<id_to_bit, first_seen, set_fp, fp_to_ids, ingest, day, raced>>

------------------------------------------------------------------------------
\* One verified lane catalogue, ingest_lane_catalog: what is known of the
\* lane, its meta, its bit and fingerprint, its set.
bit_for(s) == IF s \in DOMAIN id_to_bit THEN id_to_bit
              ELSE [x \in DOMAIN id_to_bit \cup {s} |->
                       IF x = s THEN Cardinality(DOMAIN id_to_bit) + 1 ELSE id_to_bit[x]]

source_first_seen(i, s, list) ==
    /\ ingest[i] = Free
    /\ ingest' = [ingest EXCEPT ![i] =
                    [pc |-> "meta", lane |-> s, list |-> list,
                     first |-> IF s \in DOMAIN first_seen THEN first_seen[s] ELSE day]]
    /\ raced' = IF /\ s \notin DOMAIN first_seen
                   /\ \E j \in Ingests : ingest[j].pc = "meta" /\ ingest[j].lane = s
                THEN raced \cup {s} ELSE raced
    /\ UNCHANGED <<terms, id_to_bit, first_seen, set_fp, fp_to_ids, day, listed, shipped>>

register_source_meta(i) ==
    /\ ingest[i].pc = "meta"
    /\ id_to_bit' = bit_for(ingest[i].lane)
    /\ first_seen' = [x \in DOMAIN first_seen \cup {ingest[i].lane} |->
                        IF x = ingest[i].lane THEN ingest[i].first ELSE first_seen[x]]
    /\ ingest' = [ingest EXCEPT ![i].pc = "note"]
    /\ UNCHANGED <<terms, set_fp, fp_to_ids, day, listed, shipped, raced>>

note_fingerprint(s, fp) ==
    /\ set_fp' = [x \in DOMAIN set_fp \cup {s} |-> IF x = s THEN fp ELSE set_fp[x]]
    /\ fp_to_ids' = {p \in fp_to_ids : p[2] # s \/ p[1] # set_fp[s]} \cup {<<fp, s>>}

\* install_with_source, under the lock of REGISTRY.
note(i) ==
    /\ ingest[i].pc = "note"
    /\ id_to_bit' = bit_for(ingest[i].lane)
    /\ note_fingerprint(ingest[i].lane, fingerprint(compile_text(ingest[i].list)))
    /\ ingest' = [ingest EXCEPT ![i].pc = "install"]
    /\ UNCHANGED <<terms, first_seen, day, listed, shipped, raced>>

\* install_with_source, under the lock of GLOBAL; lanes are always merged.
install_with_source(i) ==
    /\ ingest[i].pc = "install"
    /\ LET s == ingest[i].lane
           list == ingest[i].list
       IN  /\ install_compiled(list, {id_to_bit[s]}, TRUE)
           /\ listed' = listed \cup list
           /\ shipped' = shipped \cup ({s} \X list)
    /\ ingest' = [ingest EXCEPT ![i] = Free]
    /\ UNCHANGED <<id_to_bit, first_seen, set_fp, fp_to_ids, day, raced>>

dayPasses ==
    /\ day < MaxDay /\ day' = day + 1
    /\ UNCHANGED <<terms, id_to_bit, first_seen, set_fp, fp_to_ids, ingest, listed, shipped, raced>>

BlocklistNext ==
    \/ \E list \in Lists, merge \in BOOLEAN : compile_and_install(list, merge)
    \/ \E i \in Ingests :
         \/ \E s \in Lanes : \E list \in Catalogues[s] : source_first_seen(i, s, list)
         \/ register_source_meta(i) \/ note(i) \/ install_with_source(i)
    \/ dayPasses

BlocklistSpec == BlocklistInit /\ [][BlocklistNext]_listVars

------------------------------------------------------------------------------
\* However lists were stacked and replaced, and in whatever order, a name is
\* blocked exactly when it or a parent of it was listed since the last
\* replacement, and no terminal lies beneath another: the count and the
\* fingerprint are those of the set, not of the way it was assembled
\* (is_blocked, finalize).
SetIsUnion ==
    /\ \A d \in Names : is_blocked(terms, d) <=> \E l \in listed : IsPrefix(l, d)
    /\ \A t, u \in DOMAIN terms : IsPrefix(t, u) => t = u

\* A bit on a terminal is the bit of a lane that shipped a name at or under
\* it since the last replacement, and that lane has its meta row: what
\* domain_provenance reports as agreeing lanes did agree, and it can name
\* each of them.
TagsEarned ==
    \A t \in DOMAIN terms : \A b \in terms[t] :
        \E s \in Lanes : /\ s \in DOMAIN id_to_bit /\ id_to_bit[s] = b
                         /\ s \in DOMAIN first_seen
                         /\ \E d \in Names : <<s, d>> \in shipped /\ IsPrefix(t, d)

\* Does not hold: a parent zone listed after its child takes the child's
\* place and the child's bits are gone.
TagsKept ==
    \A p \in shipped : \E t \in Covering(terms, p[2]) : id_to_bit[p[1]] \in terms[t]
==============================================================================
