----------------------------- MODULE Certificates -----------------------------
(***************************************************************************)
(* The certificate of a DNSCrypt upstream (resolver/dnscrypt.rs): every    *)
(* exchange, and the warm-up before it, takes the cached certificate or    *)
(* fetches one.  The lock of cert_cache is not held over the fetch, so     *)
(* fetches overlap and their answers arrive in any order.  The provider    *)
(* publishes certificates one after another, each with the next serial;    *)
(* an answer holds the latest Kept of them as they were when the server    *)
(* answered, some lost, some with the unsigned es_version header changed   *)
(* from one classic version to the other on the way (changed anywhere      *)
(* else, a certificate does not parse or verify and is as good as lost).   *)
(***************************************************************************)
EXTENDS Integers, FiniteSets

CONSTANTS Queries,
          Published,                \* serial -> [key, es_version, ts_start, ts_end]
          Kept,                     \* certificates in an answer
          pq_enabled,
          MaxNow,                   \* bound on the clock
          MaxRegressions            \* bound on the counter

VARIABLES
    cert_cache,     \* the CachedCert, or NoCert
    regressions,    \* CERT_SERIAL_REGRESSIONS
    serial,         \* the provider: serial published last
    now,
    query,          \* query -> where it is in ensure_cert, and with what
    fell,           \* ghost: times the cached serial fell
    fetchesMet      \* ghost: two fetches were under way at once

certVars == <<cert_cache, regressions, serial, now, query, fell, fetchesMet>>

ES_XSALSA == 1
ES_XCHACHA == 2
ES_XWING_PQ == 3

NoCert  == [serial |-> 0]
Resting == [pc |-> "idle", since |-> 0, certs |-> {}, cert |-> NoCert]
Serials == DOMAIN Published

ASSUME CertAssumption ==
    /\ IsFiniteSet(Serials) /\ Serials = 1 .. Cardinality(Serials) /\ Serials # {}
    /\ \A s \in Serials : /\ Published[s].es_version \in {ES_XSALSA, ES_XCHACHA, ES_XWING_PQ}
                         /\ Published[s].ts_start \in Nat /\ Published[s].ts_end \in Nat
    /\ Kept \in Nat /\ MaxNow \in Nat /\ MaxRegressions \in Nat /\ pq_enabled \in BOOLEAN

\* A certificate as it arrives, with the version its header then claims.
Arriving(s, es) == [serial |-> s, es_version |-> es, key |-> Published[s].key,
                    ts_start |-> Published[s].ts_start, ts_end |-> Published[s].ts_end]
Classic == {ES_XSALSA, ES_XCHACHA}
Certs == {Arriving(s, Published[s].es_version) : s \in Serials}
         \cup {Arriving(s, es) : s \in {s \in Serials : Published[s].es_version \in Classic}, es \in Classic}

CertInit ==
    /\ cert_cache = NoCert /\ regressions = 0 /\ serial = 1 /\ now = 1
    /\ query = [q \in Queries |-> Resting] /\ fell = 0 /\ fetchesMet = FALSE

------------------------------------------------------------------------------
cert_in_window(c, t) == t >= c.ts_start /\ t < c.ts_end

spoken(c) == \/ c.es_version \in Classic
             \/ c.es_version = ES_XWING_PQ /\ pq_enabled

Better(c, d) == \/ c.es_version > d.es_version
                \/ c.es_version = d.es_version /\ c.serial > d.serial
                \/ c.es_version = d.es_version /\ c.serial = d.serial /\ c.ts_end > d.ts_end

\* Of the certificates that verify, those that claim less than another with
\* the same key go; the best of the rest, unless it is of the oldest version.
select_best_cert(certs, t) ==
    LET verified == {c \in certs : spoken(c) /\ cert_in_window(c, t)}
        fit == {c \in verified : \A d \in verified : d.key = c.key => d.es_version <= c.es_version}
        best == CHOOSE c \in fit : \A d \in fit : ~Better(d, c)
    IN  IF fit = {} \/ best.es_version = ES_XSALSA THEN NoCert ELSE best

\* Slip: a cached certificate is used whatever its age.
cachedEver(t) == cert_cache # NoCert

\* Slip: the certificate is renewed a little before it expires.
cachedWithMargin(t) == cert_cache # NoCert /\ cert_cache.ts_end > t + 2

\* The fast path.
cached(t) == cert_cache # NoCert /\ cert_cache.ts_end > t

Fetching(q) == query[q].pc \in {"asked", "answered"}

\* ensure_cert up to its first await: the clock is read once.
ensure_cert(q) ==
    /\ query[q] = Resting
    /\ query' = [query EXCEPT ![q] =
                   IF cached(now)
                   THEN [pc |-> "use", since |-> now, certs |-> {}, cert |-> cert_cache]
                   ELSE [pc |-> "asked", since |-> now, certs |-> {}, cert |-> NoCert]]
    /\ fetchesMet' = (fetchesMet \/ /\ ~cached(now)
                                    /\ \E p \in Queries : Fetching(p))
    /\ UNCHANGED <<cert_cache, regressions, serial, now, fell>>

\* The server answers with what is published at that time.
serverAnswers(q, certs) ==
    /\ query[q].pc = "asked"
    /\ \A c \in certs : c.serial > serial - Kept /\ c.serial <= serial
    /\ query' = [query EXCEPT ![q] =
                   [pc |-> "answered", since |-> query[q].since, certs |-> certs, cert |-> NoCert]]
    /\ UNCHANGED <<cert_cache, regressions, serial, now, fell, fetchesMet>>

\* The answer arrives: verified, selected, cached under the lock.  A replaced
\* certificate with a higher serial is counted, and replaced.
Regresses(best) == cert_cache # NoCert /\ best.serial < cert_cache.serial

countRegression(best) ==
    \/ Regresses(best) /\ regressions' = regressions + 1
    \/ ~Regresses(best) /\ UNCHANGED regressions

takeAnswer(q) ==
    LET best == select_best_cert(query[q].certs, query[q].since) IN
    /\ query[q].pc = "answered"
    /\ \/ /\ best = NoCert
          /\ query' = [query EXCEPT ![q] = Resting]
          /\ UNCHANGED <<cert_cache, regressions, fell>>
       \/ /\ best # NoCert
          /\ cert_cache.serial > best.serial => fell < MaxRegressions
          /\ countRegression(best)
          /\ cert_cache' = best
          /\ fell' = IF cert_cache.serial > best.serial THEN fell + 1 ELSE fell
          /\ query' = [query EXCEPT ![q] =
                         [pc |-> "use", since |-> query[q].since, certs |-> {}, cert |-> best]]
    /\ UNCHANGED <<serial, now, fetchesMet>>

\* The fetch fails or its deadline passes.
fetchFails(q) ==
    /\ Fetching(q)
    /\ query' = [query EXCEPT ![q] = Resting]
    /\ UNCHANGED <<cert_cache, regressions, serial, now, fell, fetchesMet>>

\* encrypted_exchange, or the end of warm_setup.
encrypted_exchange(q) ==
    /\ query[q].pc = "use"
    /\ query' = [query EXCEPT ![q] = Resting]
    /\ UNCHANGED <<cert_cache, regressions, serial, now, fell, fetchesMet>>

publish ==
    /\ serial + 1 \in Serials /\ now >= Published[serial + 1].ts_start
    /\ serial' = serial + 1
    /\ UNCHANGED <<cert_cache, regressions, now, query, fell, fetchesMet>>

timePasses ==
    /\ now < MaxNow /\ now' = now + 1
    /\ UNCHANGED <<cert_cache, regressions, serial, query, fell, fetchesMet>>

CertNext ==
    \/ \E q \in Queries : \/ ensure_cert(q) \/ takeAnswer(q) \/ fetchFails(q) \/ encrypted_exchange(q)
                          \/ \E certs \in SUBSET Certs : serverAnswers(q, certs)
    \/ publish \/ timePasses

CertSpec == CertInit /\ [][CertNext]_certVars

------------------------------------------------------------------------------
\* No query is ever sealed with the oldest construction, whatever the
\* headers of the certificates said, one alone or next to their originals.
NeverDowngraded ==
    \A q \in Queries : query[q].pc = "use" => query[q].cert.es_version # ES_XSALSA

\* The certificate a query goes out with was inside its window when that
\* query began, whether it came from the cache or from a fetch.
UsedInWindow ==
    \A q \in Queries : query[q].pc = "use" => cert_in_window(query[q].cert, query[q].since)

\* Every fall of the cached serial is counted, and nothing else is.
FallsCounted == regressions = fell

\* With a provider whose serials only rise, the alarm stays at zero unless
\* two fetches overlapped: the later one may bring the older answer.
AlarmNeedsOverlap == regressions > 0 => fetchesMet

\* Does not hold: a certificate is replaced only after it expired, as the
\* comment on the replacement says.
ReplacedOnlyExpired ==
    [][cert_cache # NoCert /\ cert_cache' # cert_cache => cert_cache.ts_end <= now]_certVars
==============================================================================
