--------------------------- MODULE ResolverRuntime ---------------------------
(***************************************************************************)
(* ResolverRuntime.kt, the Kotlin owner of the native resolver's pool: the *)
(* lifecycle edges that configure and tear down the pool, the detector     *)
(* that moves it to the Go loopback and back, and the config authority     *)
(* that runs on every configure edge.                                      *)
(*                                                                         *)
(* A configuration file is reduced to the set of servers it names (or      *)
(* NoNames, an absent file or an empty server_names) and to whether it     *)
(* holds [static] pins.  elapsedRealtime is reduced to the number of       *)
(* checker periods left until fallbackRecoverAt, all the code compares.    *)
(* The counters of the resolver are process-wide and never reset, as in    *)
(* resolver/mod.rs.                                                        *)
(***************************************************************************)
EXTENDS Integers

CONSTANTS
    Sets,                       \* the server sets a configuration may name
    FALLBACK_MIN_SAMPLE,
    FALLBACK_TRIP_RATE,
    FALLBACK_RECOVER_SAMPLE,
    COOLDOWN,                   \* FALLBACK_RECOVER_COOLDOWN_MS, in periods
    MaxQueries,                 \* bound on the queries of a behaviour
    InitialConfigs,             \* configuration files that the app may start with
    RustChoices                 \* values of RESOLVER_USE_RUST_DNSCRYPT to consider

ASSUME RuntimeAssumption ==
    /\ FALLBACK_MIN_SAMPLE \in Nat \ {0} /\ FALLBACK_TRIP_RATE \in 0..100
    /\ FALLBACK_RECOVER_SAMPLE \in Nat /\ COOLDOWN \in Nat /\ MaxQueries \in Nat

ASSUME ConfigAssumption ==
    /\ Sets \cap {"default", "pins", "go", "none"} = {}
    /\ InitialConfigs \subseteq [names : Sets \cup {"no names"}, pinned : BOOLEAN]
    /\ RustChoices \subseteq BOOLEAN

NoNames == "no names"
Names  == Sets \cup {NoNames}
Config == [names : Names, pinned : BOOLEAN]
NoRecord == [names |-> "no record", pinned |-> FALSE]

\* What the native resolver has installed: a named set, the default pair,
\* the static pins, the loopback to the Go proxy, or nothing.
Pools == Sets \cup {"default", "pins", "go", "none"}

VARIABLES
    phase,                \* what the state loop last drove: the proxy runs,
                          \* the engine runs alone, or neither
    configured, fallbackActive, useRust,
    checker,              \* the detector loop: none, asleep, or past its delay
                          \* and waiting for the monitor
    stray,                \* a cancelled detector still waits for the monitor
    toml, record,         \* the compatibility file and the durable record
    pool,
    queries, fails,       \* lifetime counters of the native resolver
    fallbackTripQueries, recoverIn,
    sinceTrip,            \* ghost: queries and periods since the last TRIP
    refused,              \* ghost: its reconfigure was refused
    strayed               \* ghost: a stray detector has changed the pool

runtimeState == <<phase, configured, fallbackActive, useRust, checker, stray,
                  toml, record, pool, queries, fails, fallbackTripQueries,
                  recoverIn>>
runtimeGhost == <<sinceTrip, refused, strayed>>
runtimeVars  == <<runtimeState, runtimeGhost>>

RuntimeTypeOK ==
    /\ phase \in {"running", "standalone", "down"}
    /\ configured \in BOOLEAN /\ fallbackActive \in BOOLEAN /\ useRust \in BOOLEAN
    /\ stray \in BOOLEAN /\ refused \in BOOLEAN /\ strayed \in BOOLEAN
    /\ checker \in {"none", "asleep", "waiting"}
    /\ toml \in Config /\ record \in Config \cup {NoRecord}
    /\ pool \in Pools
    /\ queries \in 0..MaxQueries /\ fails \in 0..queries
    /\ fallbackTripQueries \in 0..queries /\ recoverIn \in 0..COOLDOWN
    /\ sinceTrip \in [queries : 0..FALLBACK_RECOVER_SAMPLE, periods : 0..COOLDOWN]

RuntimeInit ==
    /\ phase = "down" /\ configured = FALSE /\ fallbackActive = FALSE
    /\ useRust \in RustChoices /\ checker = "none" /\ stray = FALSE
    /\ toml \in InitialConfigs /\ record = NoRecord
    /\ pool = "none" /\ queries = 0 /\ fails = 0
    /\ fallbackTripQueries = 0 /\ recoverIn = 0
    /\ sinceTrip = [queries |-> 0, periods |-> 0]
    /\ refused = FALSE /\ strayed = FALSE

------------------------------------------------------------------------------
\* poolMode()
poolMode == IF fallbackActive \/ ~useRust THEN "go" ELSE "rust"

\* buildSpecsJson and deriveConfiguredUpstreams: the pool that a configure
\* of this mode asks for.  In standalone the mode is not consulted.
buildSpecs(running, mode) ==
    IF running /\ mode = "go" THEN "go"
    ELSE IF toml.names # NoNames THEN toml.names ELSE "default"

\* applyDnscryptConfigAuthority, after an accepted configure of p.  The
\* durable record, when there is one, replaces the file; the file is then
\* imported and applied, so that its pins take the pool; and the record is
\* written back (saved is FALSE when that write is refused).
applyConfigAuthority(p, saved) ==
    LET effective == IF record # NoRecord THEN record ELSE toml
    IN  /\ toml' = effective
        /\ pool' = IF effective.pinned THEN "pins" ELSE p
        /\ record' = IF saved THEN effective ELSE record

\* A cancelled detector that was past its delay still takes the monitor.
cancelChecker == stray' = (stray \/ checker = "waiting")

\* onDnsCryptStarted with neither the shadow nor the native arm.
onDnsCryptStartedIdle ==
    /\ phase' = "running" /\ configured' = FALSE /\ fallbackActive' = FALSE
    /\ UNCHANGED <<useRust, checker, stray, toml, record, pool, queries, fails,
                   fallbackTripQueries, recoverIn, runtimeGhost>>

onDnsCryptStarted(accepted, saved) ==
    LET mode == IF useRust THEN "rust" ELSE "go"     \* fallbackActive was reset
    IN  /\ phase' = "running" /\ fallbackActive' = FALSE
        /\ configured' = accepted
        /\ IF accepted
           THEN /\ applyConfigAuthority(buildSpecs(TRUE, mode), saved)
                /\ cancelChecker /\ checker' = "asleep"
           ELSE UNCHANGED <<toml, record, pool, checker, stray>>
        /\ UNCHANGED <<useRust, queries, fails, fallbackTripQueries, recoverIn,
                       runtimeGhost>>

\* onDnsCryptStopped, the teardown branch.
onDnsCryptStopped ==
    /\ phase' = "down" /\ configured' = FALSE /\ fallbackActive' = FALSE
    /\ pool' = "none"
    /\ cancelChecker /\ checker' = "none"
    /\ UNCHANGED <<useRust, toml, record, queries, fails, fallbackTripQueries,
                   recoverIn, runtimeGhost>>

\* onDnsCryptStopped with DNS_ENGINE_STANDALONE.
onDnsCryptStoppedStandalone(accepted, saved) ==
    /\ phase' = "standalone" /\ configured' = accepted
    /\ cancelChecker /\ checker' = "none"
    /\ IF accepted THEN applyConfigAuthority(buildSpecs(FALSE, poolMode), saved)
                   ELSE UNCHANGED <<toml, record, pool>>
    /\ UNCHANGED <<fallbackActive, useRust, queries, fails, fallbackTripQueries,
                   recoverIn, runtimeGhost>>

\* Slip: a rotation does not look at the mode.
swapAlways == configured

\* applyRotatedPool(specs): RotationManager's swap of the live pool.
swapAllowed == configured /\ poolMode = "rust"

applyRotatedPool(s, accepted, saved) ==
    IF swapAllowed /\ accepted
    THEN applyConfigAuthority(s, saved)
    ELSE UNCHANGED <<toml, record, pool>>

------------------------------------------------------------------------------
\* The detector loop wakes up; it leaves when the pool is gone.
checkerWakes ==
    /\ checker = "asleep"
    /\ checker' = IF configured THEN "waiting" ELSE "none"
    /\ UNCHANGED <<phase, configured, fallbackActive, useRust, stray, toml,
                   record, pool, queries, fails, fallbackTripQueries, recoverIn,
                   runtimeGhost>>

\* elapsedRealtime advances by one period.
periodPasses ==
    /\ recoverIn > 0 \/ (fallbackActive /\ sinceTrip.periods < COOLDOWN)
    /\ recoverIn' = IF recoverIn > 0 THEN recoverIn - 1 ELSE 0
    /\ sinceTrip' = [sinceTrip EXCEPT !.periods = IF fallbackActive /\ @ < COOLDOWN THEN @ + 1 ELSE @]
    /\ UNCHANGED <<phase, configured, fallbackActive, useRust, checker, stray,
                   toml, record, pool, queries, fails, fallbackTripQueries,
                   refused, strayed>>

\* The two bands of maybeFallbackToGo.
tripDue    == /\ configured /\ ~fallbackActive /\ useRust
              /\ queries >= FALLBACK_MIN_SAMPLE
              /\ fails * 100 >= queries * FALLBACK_TRIP_RATE

\* Slip: the sample has to be exceeded.
recoverLate == /\ configured /\ fallbackActive /\ useRust
               /\ recoverIn = 0
               /\ queries - fallbackTripQueries > FALLBACK_RECOVER_SAMPLE

recoverDue == /\ configured /\ fallbackActive /\ useRust
              /\ recoverIn = 0
              /\ queries - fallbackTripQueries >= FALLBACK_RECOVER_SAMPLE

\* reconfigure() with the mode that the step has just decided.
reconfigure(mode, accepted) ==
    pool' = IF accepted THEN buildSpecs(TRUE, mode) ELSE pool

trip(accepted) ==
    /\ tripDue
    /\ fallbackActive' = TRUE
    /\ reconfigure("go", accepted)
    /\ fallbackTripQueries' = IF accepted THEN queries ELSE fallbackTripQueries
    /\ recoverIn' = IF accepted THEN COOLDOWN ELSE 0
    /\ sinceTrip' = [queries |-> 0, periods |-> 0]
    /\ refused' = ~accepted

recover(accepted) ==
    /\ recoverDue
    /\ fallbackActive' = FALSE
    /\ reconfigure("rust", accepted)
    /\ UNCHANGED <<fallbackTripQueries, recoverIn, sinceTrip, refused>>

leaveAsIs ==
    /\ ~tripDue /\ ~recoverDue
    /\ UNCHANGED <<fallbackActive, pool, fallbackTripQueries, recoverIn,
                   sinceTrip, refused>>

\* maybeFallbackToGo, run by the detector or by a cancelled one.
maybeFallbackToGo(accepted) ==
    /\ \/ checker = "waiting" /\ checker' = "asleep"
          /\ UNCHANGED <<stray, strayed>>
       \/ stray /\ stray' = FALSE /\ UNCHANGED checker
          /\ strayed' = (strayed \/ tripDue \/ recoverDue)
    /\ trip(accepted) \/ recover(accepted) \/ leaveAsIs
    /\ UNCHANGED <<phase, configured, useRust, toml, record, queries, fails>>

------------------------------------------------------------------------------
\* A query reaches the native resolver; miss: no transport answered it.
queryArrives(miss) ==
    /\ pool # "none" /\ queries < MaxQueries
    /\ queries' = queries + 1
    /\ fails' = IF miss THEN fails + 1 ELSE fails
    /\ sinceTrip' = [sinceTrip EXCEPT
                        !.queries = IF fallbackActive /\ @ < FALLBACK_RECOVER_SAMPLE
                                    THEN @ + 1 ELSE @]
    /\ UNCHANGED <<phase, configured, fallbackActive, useRust, checker, stray,
                   toml, record, pool, fallbackTripQueries, recoverIn, refused, strayed>>

\* The user flips RESOLVER_USE_RUST_DNSCRYPT; read at the next configure.
toggleRust ==
    /\ useRust' \in RustChoices \ {useRust}
    /\ UNCHANGED <<phase, configured, fallbackActive, checker, stray, toml,
                   record, pool, queries, fails, fallbackTripQueries, recoverIn,
                   runtimeGhost>>

\* manageDNSCryptProxy: the file is imported, made the durable record and
\* written out again.
manageDNSCryptProxy ==
    /\ record' = toml
    /\ UNCHANGED <<phase, configured, fallbackActive, useRust, checker, stray,
                   toml, pool, queries, fails, fallbackTripQueries, recoverIn,
                   runtimeGhost>>

Rotate ==
    \E s \in Sets, accepted, saved \in BOOLEAN :
        /\ phase # "down"
        /\ applyRotatedPool(s, accepted, saved)
        /\ UNCHANGED <<phase, configured, fallbackActive, useRust, checker,
                       stray, queries, fails, fallbackTripQueries, recoverIn,
                       runtimeGhost>>

LifecycleEdge ==
    \/ onDnsCryptStartedIdle
    \/ \E accepted, saved \in BOOLEAN :
          \/ onDnsCryptStarted(accepted, saved)
          \/ onDnsCryptStoppedStandalone(accepted, saved)
    \/ onDnsCryptStopped

DetectorStep == \E accepted \in BOOLEAN : maybeFallbackToGo(accepted)

RuntimeNext ==
    \/ LifecycleEdge
    \/ checkerWakes
    \/ periodPasses
    \/ DetectorStep
    \/ \E miss \in BOOLEAN : queryArrives(miss)
    \/ toggleRust
    \/ manageDNSCryptProxy
    \/ Rotate

RuntimeSpec == RuntimeInit /\ [][RuntimeNext]_runtimeVars

\* The detector is a coroutine on the IO dispatcher that sleeps and takes
\* the monitor, and time passes; nothing is assumed of the user, of the state
\* loop, of the traffic or of what a query meets.
RuntimeFair ==
    /\ WF_runtimeVars(checkerWakes) /\ WF_runtimeVars(periodPasses)
    /\ WF_runtimeVars(DetectorStep)

------------------------------------------------------------------------------
\* While the detector holds the pool on the Go loopback nothing else moves
\* it: not a rotation, not a pin, not the end of an earlier detector.  The
\* only way to be in fallback without the loopback is that the reconfigure
\* of the TRIP itself was refused (applyRotatedPool: "an active Go fallback
\* is NEVER stomped").
FallbackNotStomped ==
    phase = "running" /\ fallbackActive /\ ~refused => pool = "go"

\* The loopback pool needs the proxy.  A configured standalone engine can be
\* left on it only by a detector that was cancelled while it waited for the
\* monitor and then ran once more (maybeFallbackToGo after
\* onDnsCryptStopped).
GoPoolNeedsProxy ==
    phase = "standalone" /\ configured /\ pool = "go" => strayed

\* The pool goes back to Rust only after FALLBACK_RECOVER_SAMPLE queries and
\* a whole cooldown since the TRIP, unless that TRIP's reconfigure was
\* refused and so set neither baseline (maybeFallbackToGo, reconfigure).
RecoverPaced ==
    [][ DetectorStep /\ fallbackActive /\ ~fallbackActive'
        => \/ refused
           \/ /\ sinceTrip.periods = COOLDOWN
              /\ sinceTrip.queries = FALLBACK_RECOVER_SAMPLE ]_runtimeVars

\* Rust is given the pool back: once the sample of queries since the TRIP is
\* there, a running engine whose user wants Rust does not stay in fallback
\* for ever (the RECOVER band of maybeFallbackToGo).
RustGetsAnotherChance ==
    (phase = "running" /\ configured /\ fallbackActive /\ useRust
     /\ queries - fallbackTripQueries >= FALLBACK_RECOVER_SAMPLE)
        ~> (~fallbackActive \/ ~useRust \/ phase # "running")
==============================================================================
