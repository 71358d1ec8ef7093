---------------------------- MODULE RotationProofs ----------------------------
(***************************************************************************)
(* Proofs about the runtime that holds the resolver pool and the rotation  *)
(* that swaps it: who may move the pool, what a verified set has answered, *)
(* that a mute pool does not stay, what the rotation index counts.         *)
(***************************************************************************)
EXTENDS Rotation, TLAPS

-----------------------------------------------------------------------------
(***************************************************************************)
(* Theorems about the runtime's pool and its fallback detector, for any    *)
(* server sets, thresholds, cooldown and number of queries.                *)
(***************************************************************************)

(***************************************************************************)
(* The inductive invariant.  A detector loop exists only while the proxy   *)
(* runs, so that in standalone only a cancelled one can still decide; and  *)
(* in a fallback whose TRIP was accepted the two baselines measure exactly *)
(* what the ghost counts: the cooldown left and the periods gone add up,   *)
(* and the sample seen is the queries since the TRIP up to the threshold.  *)
(***************************************************************************)
DetectorNeedsProxy == phase # "running" => checker = "none"

BaselinesTrue ==
    fallbackActive /\ ~refused =>
        /\ recoverIn + sinceTrip.periods = COOLDOWN
        /\ \/ sinceTrip.queries = queries - fallbackTripQueries
           \/ /\ sinceTrip.queries = FALLBACK_RECOVER_SAMPLE
              /\ sinceTrip.queries <= queries - fallbackTripQueries

RuntimeIInv ==
    /\ RuntimeTypeOK
    /\ DetectorNeedsProxy
    /\ BaselinesTrue
    /\ FallbackNotStomped
    /\ GoPoolNeedsProxy

------------------------------------------------------------------------------
(* What a configure installs *)

\* The specs built from the file are a pool, and only the running proxy in Go
\* mode makes them the loopback (buildSpecsJson).
LEMMA SpecsArePool ==
    ASSUME RuntimeTypeOK, NEW running \in BOOLEAN, NEW mode \in {"go", "rust"}
    PROVE  /\ buildSpecs(running, mode) \in Pools
           /\ buildSpecs(running, mode) = "go" => running /\ mode = "go"
<1>1. toml.names \in Sets \cup {NoNames} /\ "go" \notin Sets
  BY ConfigAssumption DEF RuntimeTypeOK, Config, Names
<1> QED
  BY <1>1 DEF buildSpecs, Pools

\* The configuration authority leaves a configuration, a record and a pool,
\* and never brings in the loopback itself (applyDnscryptConfigAuthority).
LEMMA AuthorityKeepsTypes ==
    ASSUME RuntimeTypeOK, NEW p \in Pools, NEW saved \in BOOLEAN,
           applyConfigAuthority(p, saved)
    PROVE  /\ toml' \in Config /\ record' \in Config \cup {NoRecord}
           /\ pool' \in Pools
           /\ pool' = "go" => p = "go"
<1> DEFINE effective == IF record # NoRecord THEN record ELSE toml
<1>1. effective \in Config
  BY DEF RuntimeTypeOK
<1>2. /\ toml' = effective /\ pool' = IF effective.pinned THEN "pins" ELSE p
      /\ record' = IF saved THEN effective ELSE record
  BY DEF applyConfigAuthority
<1>3. record \in Config \cup {NoRecord}
  BY DEF RuntimeTypeOK
<1> HIDE DEF effective
<1>4. pool' \in {"pins", p}
  BY <1>2
<1>5. record' \in {effective, record}
  BY <1>2
<1> QED
  BY <1>1, <1>2, <1>3, <1>4, <1>5 DEF Pools

------------------------------------------------------------------------------
(* The steps *)

LEMMA RuntimeInitIInv == RuntimeInit => RuntimeIInv
<1> SUFFICES ASSUME RuntimeInit PROVE RuntimeIInv
  OBVIOUS
<1>1. toml \in Config /\ useRust \in BOOLEAN
  BY ConfigAssumption DEF RuntimeInit, Config, Names, NoNames
<1>2. /\ sinceTrip \in [queries : 0..FALLBACK_RECOVER_SAMPLE, periods : 0..COOLDOWN]
      /\ queries \in 0..MaxQueries /\ fails \in 0..queries
      /\ fallbackTripQueries \in 0..queries /\ recoverIn \in 0..COOLDOWN
  BY RuntimeAssumption DEF RuntimeInit
<1>3. /\ configured \in BOOLEAN /\ fallbackActive \in BOOLEAN
      /\ stray \in BOOLEAN /\ refused \in BOOLEAN /\ strayed \in BOOLEAN
  BY Zenon DEF RuntimeInit
<1>4. /\ phase \in {"running", "standalone", "down"} /\ pool \in Pools
      /\ checker \in {"none", "asleep", "waiting"} /\ record \in Config \cup {NoRecord}
  BY DEF RuntimeInit, Pools
<1>5. RuntimeTypeOK
  BY <1>1, <1>2, <1>3, <1>4 DEF RuntimeTypeOK
<1> QED
  BY <1>5 DEF RuntimeInit, RuntimeIInv, DetectorNeedsProxy, BaselinesTrue,
              FallbackNotStomped, GoPoolNeedsProxy

\* What the counters and baselines keep when a step leaves them alone.
LEMMA CountersKept ==
    ASSUME RuntimeTypeOK,
           UNCHANGED <<queries, fails, fallbackTripQueries, recoverIn, sinceTrip>>
    PROVE  /\ queries' \in 0..MaxQueries /\ fails' \in 0..queries'
           /\ fallbackTripQueries' \in 0..queries' /\ recoverIn' \in 0..COOLDOWN
           /\ sinceTrip' \in [queries : 0..FALLBACK_RECOVER_SAMPLE, periods : 0..COOLDOWN]
  BY DEF RuntimeTypeOK

\* The lifecycle edges: each resets the fallback or leaves the proxy's phase.
LEMMA EdgeIInv ==
    ASSUME RuntimeIInv, LifecycleEdge PROVE RuntimeIInv'
<1>0. RuntimeTypeOK /\ DetectorNeedsProxy
  BY DEF RuntimeIInv
<1>1. CASE onDnsCryptStartedIdle
  <2>1. UNCHANGED <<queries, fails, fallbackTripQueries, recoverIn, sinceTrip>>
    BY <1>1 DEF onDnsCryptStartedIdle, runtimeGhost
  <2>2. RuntimeTypeOK'
    BY Zenon, <1>0, <1>1, <2>1, CountersKept DEF RuntimeTypeOK, onDnsCryptStartedIdle, runtimeGhost
  <2> QED
    BY <1>1, <2>2 DEF onDnsCryptStartedIdle, RuntimeIInv, DetectorNeedsProxy,
              BaselinesTrue, FallbackNotStomped, GoPoolNeedsProxy
<1>2. ASSUME NEW accepted \in BOOLEAN, NEW saved \in BOOLEAN, onDnsCryptStarted(accepted, saved)
      PROVE RuntimeIInv'
  <2> DEFINE mode == IF useRust THEN "rust" ELSE "go"
  <2>1. UNCHANGED <<queries, fails, fallbackTripQueries, recoverIn, sinceTrip>>
    BY <1>2 DEF onDnsCryptStarted, runtimeGhost
  <2>2. buildSpecs(TRUE, mode) \in Pools
    BY Zenon, <1>0, SpecsArePool
  <2>3. /\ phase' = "running" /\ fallbackActive' = FALSE /\ configured' = accepted
        /\ useRust' = useRust /\ refused' = refused /\ strayed' = strayed
    BY <1>2 DEF onDnsCryptStarted, runtimeGhost
  <2>4. /\ toml' \in Config /\ record' \in Config \cup {NoRecord} /\ pool' \in Pools
        /\ checker' \in {"none", "asleep", "waiting"} /\ stray' \in BOOLEAN
    <3>1. CASE accepted
      <4>1. applyConfigAuthority(buildSpecs(TRUE, mode), saved) /\ cancelChecker /\ checker' = "asleep"
        BY Zenon, <1>2, <3>1 DEF onDnsCryptStarted
      <4>2. stray' \in BOOLEAN
        BY <4>1 DEF cancelChecker
      <4> QED
        BY Zenon, <1>0, <2>2, <4>1, <4>2, AuthorityKeepsTypes
    <3>2. CASE ~accepted
      BY <1>0, <1>2, <3>2 DEF onDnsCryptStarted, RuntimeTypeOK
    <3> QED
      BY <3>1, <3>2
  <2>5. RuntimeTypeOK'
    BY Zenon, <1>0, <2>1, <2>3, <2>4, CountersKept DEF RuntimeTypeOK
  <2> QED
    BY <2>3, <2>5 DEF RuntimeIInv, DetectorNeedsProxy, BaselinesTrue,
              FallbackNotStomped, GoPoolNeedsProxy
<1>3. ASSUME NEW accepted \in BOOLEAN, NEW saved \in BOOLEAN,
             onDnsCryptStoppedStandalone(accepted, saved)
      PROVE RuntimeIInv'
  <2>1. UNCHANGED <<queries, fails, fallbackTripQueries, recoverIn, sinceTrip>>
    BY <1>3 DEF onDnsCryptStoppedStandalone, runtimeGhost
  <2>2. buildSpecs(FALSE, poolMode) \in Pools /\ buildSpecs(FALSE, poolMode) # "go"
    BY Zenon, <1>0, SpecsArePool DEF poolMode
  <2>3. /\ phase' = "standalone" /\ configured' = accepted /\ checker' = "none"
        /\ fallbackActive' = fallbackActive
        /\ useRust' = useRust /\ refused' = refused /\ strayed' = strayed
    BY <1>3 DEF onDnsCryptStoppedStandalone, runtimeGhost
  <2>4. /\ toml' \in Config /\ record' \in Config \cup {NoRecord} /\ pool' \in Pools
        /\ accepted => pool' # "go"
    <3>1. CASE accepted
      <4>1. applyConfigAuthority(buildSpecs(FALSE, poolMode), saved)
        BY Zenon, <1>3, <3>1 DEF onDnsCryptStoppedStandalone
      <4> QED
        BY Zenon, <1>0, <2>2, <4>1, AuthorityKeepsTypes
    <3>2. CASE ~accepted
      BY <1>0, <1>3, <3>2 DEF onDnsCryptStoppedStandalone, RuntimeTypeOK
    <3> QED
      BY <3>1, <3>2
  <2>5. stray' \in BOOLEAN
    BY Zenon, <1>3 DEF onDnsCryptStoppedStandalone, cancelChecker
  <2>6. RuntimeTypeOK'
    BY <1>0, <2>1, <2>3, <2>4, <2>5, CountersKept DEF RuntimeTypeOK
  <2>7. BaselinesTrue'
    BY <2>1, <2>3 DEF RuntimeIInv, BaselinesTrue
  <2> QED
    BY <2>3, <2>4, <2>6, <2>7 DEF RuntimeIInv, DetectorNeedsProxy,
              FallbackNotStomped, GoPoolNeedsProxy
<1>4. CASE onDnsCryptStopped
  <2>1. UNCHANGED <<queries, fails, fallbackTripQueries, recoverIn, sinceTrip>>
    BY <1>4 DEF onDnsCryptStopped, runtimeGhost
  <2>2. stray' \in BOOLEAN
    BY <1>4 DEF onDnsCryptStopped, cancelChecker
  <2>3. /\ phase' = "down" /\ configured' = FALSE /\ fallbackActive' = FALSE
        /\ pool' = "none" /\ checker' = "none" /\ toml' = toml /\ record' = record
        /\ useRust' = useRust /\ refused' = refused /\ strayed' = strayed
    BY Zenon, <1>4 DEF onDnsCryptStopped, runtimeGhost
  <2>4. RuntimeTypeOK'
    BY Zenon, <1>0, <2>1, <2>2, <2>3, CountersKept DEF RuntimeTypeOK, Pools
  <2> QED
    BY <2>3, <2>4 DEF RuntimeIInv, DetectorNeedsProxy, BaselinesTrue,
              FallbackNotStomped, GoPoolNeedsProxy
<1> QED
  BY <1>1, <1>2, <1>3, <1>4 DEF LifecycleEdge

\* The detector: a TRIP that is accepted installs the loopback and sets both
\* baselines, and in standalone only a cancelled detector is left to run.
LEMMA DetectorIInv ==
    ASSUME RuntimeIInv, DetectorStep PROVE RuntimeIInv'
<1>0. /\ RuntimeTypeOK /\ DetectorNeedsProxy /\ BaselinesTrue
      /\ FallbackNotStomped /\ GoPoolNeedsProxy
  BY DEF RuntimeIInv
<1>1. PICK accepted \in BOOLEAN : maybeFallbackToGo(accepted)
  BY DEF DetectorStep
<1>2. /\ phase' = phase /\ configured' = configured /\ useRust' = useRust
      /\ toml' = toml /\ record' = record /\ queries' = queries /\ fails' = fails
  BY <1>1 DEF maybeFallbackToGo
<1>3. \/ /\ checker = "waiting" /\ checker' = "asleep"
         /\ stray' = stray /\ strayed' = strayed
      \/ /\ stray' = FALSE /\ checker' = checker
         /\ strayed' = (strayed \/ tripDue \/ recoverDue)
  BY <1>1 DEF maybeFallbackToGo
<1>4. trip(accepted) \/ recover(accepted) \/ leaveAsIs
  BY <1>1 DEF maybeFallbackToGo
<1>5. checker' \in {"none", "asleep", "waiting"} /\ DetectorNeedsProxy'
  BY <1>0, <1>2, <1>3 DEF RuntimeTypeOK, DetectorNeedsProxy
<1>6. stray' \in BOOLEAN /\ strayed' \in BOOLEAN
  BY Zenon, <1>0, <1>3 DEF RuntimeTypeOK
<1>7. phase = "standalone" /\ strayed' # TRUE => ~strayed /\ ~tripDue /\ ~recoverDue
  BY Zenon, <1>0, <1>3 DEF RuntimeTypeOK, DetectorNeedsProxy
<1>8. buildSpecs(TRUE, "go") = "go" /\ buildSpecs(TRUE, "rust") \in Pools
  BY <1>0, SpecsArePool DEF buildSpecs
<1>9. CASE trip(accepted)
  <2>1. /\ tripDue /\ fallbackActive' = TRUE
        /\ pool' = IF accepted THEN buildSpecs(TRUE, "go") ELSE pool
        /\ fallbackTripQueries' = IF accepted THEN queries ELSE fallbackTripQueries
        /\ recoverIn' = IF accepted THEN COOLDOWN ELSE 0
        /\ sinceTrip' = [queries |-> 0, periods |-> 0]
    BY <1>9 DEF trip, reconfigure
  <2>2. refused' = ~accepted
    BY <1>9 DEF trip
  <2>3. pool' \in Pools /\ (accepted => pool' = "go")
    BY Zenon, <1>0, <1>8, <2>1 DEF RuntimeTypeOK, Pools
  <2>4. /\ fallbackTripQueries' \in 0..queries /\ recoverIn' \in 0..COOLDOWN
        /\ sinceTrip' \in [queries : 0..FALLBACK_RECOVER_SAMPLE, periods : 0..COOLDOWN]
    BY <1>0, <2>1, RuntimeAssumption DEF RuntimeTypeOK
  <2>5. fallbackActive' \in BOOLEAN /\ refused' \in BOOLEAN
    BY <2>1, <2>2
  <2>6. RuntimeTypeOK'
    BY <1>0, <1>2, <1>5, <1>6, <2>3, <2>4, <2>5 DEF RuntimeTypeOK
  <2>7. accepted => BaselinesTrue'
    BY <1>0, <1>2, <2>1, RuntimeAssumption DEF BaselinesTrue, RuntimeTypeOK
  <2>8. BaselinesTrue'
    BY Zenon, <2>2, <2>7 DEF BaselinesTrue
  <2>9. FallbackNotStomped'
    BY Zenon, <2>2, <2>3 DEF FallbackNotStomped
  <2>10. GoPoolNeedsProxy'
    BY Zenon, <1>2, <1>6, <1>7, <2>1 DEF GoPoolNeedsProxy
  <2> QED
    BY <1>5, <2>6, <2>8, <2>9, <2>10 DEF RuntimeIInv
<1>10. CASE recover(accepted)
  <2>1. /\ recoverDue /\ fallbackActive' = FALSE
        /\ pool' = IF accepted THEN buildSpecs(TRUE, "rust") ELSE pool
        /\ fallbackTripQueries' = fallbackTripQueries /\ recoverIn' = recoverIn
        /\ sinceTrip' = sinceTrip /\ refused' = refused
    BY <1>10 DEF recover, reconfigure
  <2>2. pool' \in Pools
    BY Zenon, <1>0, <1>8, <2>1 DEF RuntimeTypeOK
  <2>3. RuntimeTypeOK'
    BY Zenon, <1>0, <1>2, <1>5, <1>6, <2>1, <2>2 DEF RuntimeTypeOK
  <2>4. GoPoolNeedsProxy'
    BY Zenon, <1>2, <1>6, <1>7, <2>1 DEF GoPoolNeedsProxy
  <2> QED
    BY Zenon, <1>5, <2>1, <2>3, <2>4 DEF RuntimeIInv, BaselinesTrue, FallbackNotStomped
<1>11. CASE leaveAsIs
  <2>1. /\ fallbackActive' = fallbackActive /\ pool' = pool
        /\ fallbackTripQueries' = fallbackTripQueries /\ recoverIn' = recoverIn
        /\ sinceTrip' = sinceTrip /\ refused' = refused
    BY <1>11 DEF leaveAsIs
  <2>2. RuntimeTypeOK'
    BY <1>0, <1>2, <1>5, <1>6, <2>1 DEF RuntimeTypeOK
  <2>3. BaselinesTrue' /\ FallbackNotStomped'
    BY <1>0, <1>2, <2>1 DEF BaselinesTrue, FallbackNotStomped
  <2>4. GoPoolNeedsProxy'
    BY Zenon, <1>0, <1>2, <1>6, <1>7, <2>1 DEF GoPoolNeedsProxy
  <2> QED
    BY <1>5, <2>2, <2>3, <2>4 DEF RuntimeIInv
<1> QED
  BY <1>4, <1>9, <1>10, <1>11

\* A period and a query move the ghost and the baselines together.
LEMMA PeriodIInv ==
    ASSUME RuntimeIInv, periodPasses PROVE RuntimeIInv'
<1>0. /\ RuntimeTypeOK /\ DetectorNeedsProxy /\ BaselinesTrue
      /\ FallbackNotStomped /\ GoPoolNeedsProxy
  BY DEF RuntimeIInv
<1>1. /\ phase' = phase /\ configured' = configured /\ fallbackActive' = fallbackActive
      /\ useRust' = useRust /\ checker' = checker /\ stray' = stray
      /\ toml' = toml /\ record' = record /\ pool' = pool /\ queries' = queries
      /\ fails' = fails /\ fallbackTripQueries' = fallbackTripQueries
      /\ refused' = refused /\ strayed' = strayed
  BY DEF periodPasses
<1> DEFINE p == IF fallbackActive /\ sinceTrip.periods < COOLDOWN
                THEN sinceTrip.periods + 1 ELSE sinceTrip.periods
<1>2. /\ sinceTrip \in [queries : 0..FALLBACK_RECOVER_SAMPLE, periods : 0..COOLDOWN]
      /\ recoverIn \in 0..COOLDOWN /\ fallbackActive \in BOOLEAN
  BY <1>0 DEF RuntimeTypeOK
<1>3. /\ sinceTrip' = [sinceTrip EXCEPT !.periods = p]
      /\ recoverIn' = IF recoverIn > 0 THEN recoverIn - 1 ELSE 0
  BY DEF periodPasses
<1>4. p \in 0..COOLDOWN
  BY <1>2, RuntimeAssumption
<1>5. /\ sinceTrip' \in [queries : 0..FALLBACK_RECOVER_SAMPLE, periods : 0..COOLDOWN]
      /\ sinceTrip'.periods = p /\ sinceTrip'.queries = sinceTrip.queries
      /\ recoverIn' \in 0..COOLDOWN
  <2> HIDE DEF p
  <2> QED  BY <1>2, <1>3, <1>4, RuntimeAssumption
<1>6. RuntimeTypeOK'
  BY <1>0, <1>1, <1>5 DEF RuntimeTypeOK
<1>7. fallbackActive /\ recoverIn + sinceTrip.periods = COOLDOWN
        => recoverIn' + sinceTrip'.periods = COOLDOWN
  <2>1. recoverIn > 0 \/ sinceTrip.periods < COOLDOWN
    BY DEF periodPasses
  <2> QED  BY <1>2, <1>3, <1>5, <2>1, RuntimeAssumption
<1>8. BaselinesTrue'
  BY <1>0, <1>1, <1>5, <1>7 DEF BaselinesTrue
<1> QED
  BY <1>0, <1>1, <1>6, <1>8 DEF RuntimeIInv, DetectorNeedsProxy, FallbackNotStomped,
                                GoPoolNeedsProxy

LEMMA QueryIInv ==
    ASSUME RuntimeIInv, NEW miss \in BOOLEAN, queryArrives(miss) PROVE RuntimeIInv'
<1>0. /\ RuntimeTypeOK /\ DetectorNeedsProxy /\ BaselinesTrue
      /\ FallbackNotStomped /\ GoPoolNeedsProxy
  BY DEF RuntimeIInv
<1>1. /\ phase' = phase /\ configured' = configured /\ fallbackActive' = fallbackActive
      /\ useRust' = useRust /\ checker' = checker /\ stray' = stray
      /\ toml' = toml /\ record' = record /\ pool' = pool
      /\ fallbackTripQueries' = fallbackTripQueries /\ recoverIn' = recoverIn
      /\ refused' = refused /\ strayed' = strayed
  BY DEF queryArrives
<1> DEFINE q == IF fallbackActive /\ sinceTrip.queries < FALLBACK_RECOVER_SAMPLE
                THEN sinceTrip.queries + 1 ELSE sinceTrip.queries
<1>2. /\ sinceTrip \in [queries : 0..FALLBACK_RECOVER_SAMPLE, periods : 0..COOLDOWN]
      /\ queries \in 0..MaxQueries /\ fails \in 0..queries
      /\ fallbackTripQueries \in 0..queries /\ fallbackActive \in BOOLEAN
  BY <1>0 DEF RuntimeTypeOK
<1>3. /\ sinceTrip' = [sinceTrip EXCEPT !.queries = q]
      /\ queries' = queries + 1 /\ queries < MaxQueries
      /\ fails' = IF miss THEN fails + 1 ELSE fails
  BY DEF queryArrives
<1>4. q \in 0..FALLBACK_RECOVER_SAMPLE
  BY <1>2, RuntimeAssumption
<1>5. /\ sinceTrip' \in [queries : 0..FALLBACK_RECOVER_SAMPLE, periods : 0..COOLDOWN]
      /\ sinceTrip'.queries = q /\ sinceTrip'.periods = sinceTrip.periods
  <2> HIDE DEF q
  <2> QED  BY <1>2, <1>3, <1>4, RuntimeAssumption
<1>6. /\ queries' \in 0..MaxQueries /\ fails' \in 0..queries'
      /\ fallbackTripQueries' \in 0..queries'
  BY <1>1, <1>2, <1>3, RuntimeAssumption
<1>7. RuntimeTypeOK'
  BY <1>0, <1>1, <1>5, <1>6 DEF RuntimeTypeOK
<1>8. BaselinesTrue'
  BY <1>0, <1>1, <1>2, <1>3, <1>5, RuntimeAssumption DEF BaselinesTrue
<1> QED
  BY <1>0, <1>1, <1>7, <1>8 DEF RuntimeIInv, DetectorNeedsProxy, FallbackNotStomped,
                                GoPoolNeedsProxy

\* The steps that only read the fallback: a rotation is refused while it is
\* active, and neither the user's choice nor the record moves the pool.
LEMMA QuietIInv ==
    ASSUME RuntimeIInv,
           checkerWakes \/ toggleRust \/ manageDNSCryptProxy \/ Rotate \/ UNCHANGED runtimeVars
    PROVE  RuntimeIInv'
<1>0. /\ RuntimeTypeOK /\ DetectorNeedsProxy /\ BaselinesTrue
      /\ FallbackNotStomped /\ GoPoolNeedsProxy
  BY DEF RuntimeIInv
<1>1. /\ phase' = phase /\ configured' = configured /\ fallbackActive' = fallbackActive
      /\ stray' = stray /\ refused' = refused /\ strayed' = strayed
      /\ UNCHANGED <<queries, fails, fallbackTripQueries, recoverIn, sinceTrip>>
  BY Zenon DEF checkerWakes, toggleRust, manageDNSCryptProxy, Rotate, runtimeVars,
         runtimeState, runtimeGhost
<1>2. useRust' \in BOOLEAN
  BY Zenon, <1>0, ConfigAssumption DEF checkerWakes, toggleRust, manageDNSCryptProxy, Rotate,
     runtimeVars, runtimeState, RuntimeTypeOK
<1>3. checker' \in {"none", "asleep", "waiting"} /\ DetectorNeedsProxy'
  BY <1>0, <1>1 DEF checkerWakes, toggleRust, manageDNSCryptProxy, Rotate,
     runtimeVars, runtimeState, RuntimeTypeOK, DetectorNeedsProxy
<1>4. /\ toml' \in Config /\ record' \in Config \cup {NoRecord} /\ pool' \in Pools
      /\ pool' = pool \/ (~fallbackActive /\ pool' # "go")
  <2>1. CASE Rotate
    <3>1. PICK s \in Sets, accepted \in BOOLEAN, saved \in BOOLEAN :
             applyRotatedPool(s, accepted, saved)
      BY <2>1 DEF Rotate
    <3>2. s \in Pools /\ s # "go"
      BY ConfigAssumption DEF Pools
    <3>3. CASE swapAllowed /\ accepted
      <4>1. applyConfigAuthority(s, saved)
        BY <3>1, <3>3 DEF applyRotatedPool
      <4>2. ~fallbackActive
        BY <3>3 DEF swapAllowed, poolMode
      <4> QED
        BY <1>0, <3>2, <4>1, <4>2, AuthorityKeepsTypes
    <3>4. CASE ~(swapAllowed /\ accepted)
      BY Zenon, <1>0, <3>1, <3>4 DEF applyRotatedPool, RuntimeTypeOK
    <3> QED
      BY <3>3, <3>4
  <2>2. CASE ~Rotate
    BY Zenon, <1>0, <2>2 DEF checkerWakes, toggleRust, manageDNSCryptProxy, runtimeVars,
       runtimeState, RuntimeTypeOK
  <2> QED
    BY <2>1, <2>2
<1>5. RuntimeTypeOK'
  BY <1>0, <1>1, <1>2, <1>3, <1>4, CountersKept DEF RuntimeTypeOK
<1>6. BaselinesTrue'
  BY <1>0, <1>1 DEF BaselinesTrue
<1>7. FallbackNotStomped' /\ GoPoolNeedsProxy'
  BY <1>0, <1>1, <1>4 DEF FallbackNotStomped, GoPoolNeedsProxy
<1> QED
  BY <1>3, <1>5, <1>6, <1>7 DEF RuntimeIInv

LEMMA RuntimeNextIInv == RuntimeIInv /\ [RuntimeNext]_runtimeVars => RuntimeIInv'
  BY EdgeIInv, DetectorIInv, PeriodIInv, QueryIInv, QuietIInv DEF RuntimeNext

------------------------------------------------------------------------------
(* The theorems *)

\* The invariant holds in every behaviour of the runtime.
THEOREM RuntimeInvariant == RuntimeSpec => []RuntimeIInv
<1> QED
  BY RuntimeInitIInv, RuntimeNextIInv, PTL DEF RuntimeSpec

\* The counters, the baselines, the file, the record and the pool keep their
\* ranges; in particular the query count never falls behind the TRIP baseline
\* that maybeFallbackToGo subtracts from it.
THEOREM RuntimeTypeCorrect == RuntimeSpec => []RuntimeTypeOK
<1>1. RuntimeIInv => RuntimeTypeOK
  BY DEF RuntimeIInv
<1> QED
  BY RuntimeInvariant, <1>1, PTL

\* An active Go fallback is never stomped, by a rotation, a pin or a detector
\* that was cancelled, whatever the configuration and the thresholds.
THEOREM FallbackIsKept == RuntimeSpec => []FallbackNotStomped
<1>1. RuntimeIInv => FallbackNotStomped
  BY DEF RuntimeIInv
<1> QED
  BY RuntimeInvariant, <1>1, PTL

\* A configured standalone engine is on the loopback of a proxy that does not
\* run only if a cancelled detector decided once more after the edge.
THEOREM StandaloneIsNotOnGo == RuntimeSpec => []GoPoolNeedsProxy
<1>1. RuntimeIInv => GoPoolNeedsProxy
  BY DEF RuntimeIInv
<1> QED
  BY RuntimeInvariant, <1>1, PTL

\* RECOVER comes no earlier than the sample and the cooldown after the TRIP,
\* unless the reconfigure of that TRIP was refused.
THEOREM RecoverIsPaced == RuntimeSpec => RecoverPaced
<1>1. RuntimeIInv /\ [RuntimeNext]_runtimeVars =>
        [DetectorStep /\ fallbackActive /\ ~fallbackActive'
          => \/ refused
             \/ /\ sinceTrip.periods = COOLDOWN
                /\ sinceTrip.queries = FALLBACK_RECOVER_SAMPLE]_runtimeVars
  <2> SUFFICES ASSUME RuntimeIInv, DetectorStep, fallbackActive, ~fallbackActive', ~refused
               PROVE  /\ sinceTrip.periods = COOLDOWN
                      /\ sinceTrip.queries = FALLBACK_RECOVER_SAMPLE
    OBVIOUS
  <2>1. PICK accepted \in BOOLEAN : trip(accepted) \/ recover(accepted) \/ leaveAsIs
    BY DEF DetectorStep, maybeFallbackToGo
  <2>2. recover(accepted)
    <3>1. fallbackActive \in BOOLEAN
      BY DEF RuntimeIInv, RuntimeTypeOK
    <3>2. ~trip(accepted)
      BY DEF trip
    <3>3. leaveAsIs => fallbackActive' = fallbackActive
      BY DEF leaveAsIs
    <3> QED
      BY Zenon, <2>1, <3>1, <3>2, <3>3
  <2>3. recoverIn = 0 /\ queries - fallbackTripQueries >= FALLBACK_RECOVER_SAMPLE
    BY <2>2 DEF recover, recoverDue
  <2>4. /\ sinceTrip \in [queries : 0..FALLBACK_RECOVER_SAMPLE, periods : 0..COOLDOWN]
        /\ queries \in 0..MaxQueries /\ fallbackTripQueries \in 0..queries
    BY DEF RuntimeIInv, RuntimeTypeOK
  <2>5. /\ recoverIn + sinceTrip.periods = COOLDOWN
        /\ \/ sinceTrip.queries = queries - fallbackTripQueries
           \/ sinceTrip.queries = FALLBACK_RECOVER_SAMPLE
    BY DEF RuntimeIInv, BaselinesTrue
  <2>6. sinceTrip.queries \in 0..FALLBACK_RECOVER_SAMPLE /\ sinceTrip.periods \in 0..COOLDOWN
    BY <2>4
  <2>7. sinceTrip.periods = COOLDOWN
    BY <2>3, <2>5, <2>6, RuntimeAssumption
  <2>8. queries \in Nat /\ fallbackTripQueries \in Nat
    BY <2>4, RuntimeAssumption
  <2>9. sinceTrip.queries = FALLBACK_RECOVER_SAMPLE
    BY <2>3, <2>5, <2>6, <2>8, RuntimeAssumption
  <2> QED
    BY <2>7, <2>9
<1> QED
  BY RuntimeInvariant, <1>1, PTL DEF RuntimeSpec, RecoverPaced

-----------------------------------------------------------------------------
(***************************************************************************)
(* Theorems about the rotation of the resolver pool, for any sets,         *)
(* families and number of coroutines: what a pass that ends as verified    *)
(* has seen, that a mute pool does not stay, what the rotation index       *)
(* counts, and that two commits in a row never lead with the same operator *)
(* family.                                                                 *)
(***************************************************************************)

\* What the fields of RotationManager and its coroutines hold.
Families == {NoFamily} \cup {Lead[s] : s \in Sets}
Cursor   == [family : Families, index : Nat]
Picks    == Sets \cup {NoSet}
Places   == {"free"} \cup Asleep \cup Steps
Job      == [pc : Places, manual : BOOLEAN, boot : BOOLEAN,
             cancelled : BOOLEAN, set : Picks, failed : Picks, held : Cursor]
Causes   == {"crossed", "declined", "cancelled", "unsaved"}

RotationTypeOK ==
    /\ job \in [Slots -> Job] /\ rotationJob \in Slots \cup {NoJob}
    /\ lastVerifiedSet \in Picks /\ landed \in Picks
    /\ lastOperatorFamily \in Families /\ cursor \in Cursor
    /\ rotationIndex \in Nat /\ commits \in Nat
    /\ unvetted \in BOOLEAN /\ events \subseteq Causes

\* What has interfered so far: "events" remembers it.
Past(causes) == events \cap causes # {}

\* Nobody counts further than the commits.
CountsBounded ==
    /\ rotationIndex <= commits /\ cursor.index <= commits
    /\ \A i \in Slots : /\ job[i].held.index <= commits
                        /\ job[i].pc = "index" => job[i].held.index < commits

\* The armed timer is a coroutine that nobody has cancelled.
TimerArmed ==
    /\ rotationJob # NoJob => job[rotationJob].pc # "free"
    /\ \A i \in Slots :
          /\ i = rotationJob => ~job[i].manual /\ ~job[i].cancelled
          /\ job[i].pc \in Asleep => i = rotationJob
          /\ job[i].pc # "free" /\ ~job[i].manual /\ ~job[i].cancelled => i = rotationJob
          /\ job[i].cancelled => Past({"cancelled", "crossed"})
          /\ job[i].pc \in {"ckRead", "ckWrite"} => ~job[i].manual

\* The passes share the mutex: two are under way only after a start that
\* crossed a pass.
OnePass ==
    \A i, j \in Slots :
        i # j /\ job[i].pc \in Steps /\ job[j].pc \in Steps => Past({"crossed"})

\* A pass that has chosen has chosen a set.
Picked ==
    \A i \in Slots :
        job[i].pc \in Steps \ {"ckRead", "ckWrite"} => job[i].set \in Sets

\* What a pass knows of its set: Rust holds it from the swap to the commit. A
\* set that is committed has answered, and so has the one a rollback restores.
PassVets ==
    \A i \in Slots :
        \/ Past({"declined", "crossed"})
        \/ /\ job[i].pc \in {"verify", "commit"} => pool = job[i].set
           /\ job[i].pc \in {"commit", "restoreToml", "restoreRust"} => job[i].set \notin Mute

\* A mute pool is one that a pass is still vetting, or that something brought
\* in past the check.
MutePending ==
    pool \in Mute /\ lastVerifiedSet # NoSet
        => \/ unvetted \/ Past({"declined", "crossed", "cancelled"})
           \/ \E i \in Slots : job[i].pc \in {"verify", "restoreToml", "restoreRust"}

At(pcs) == \E i \in Slots : job[i].pc \in pcs

\* The manager runs: only then are its fields in memory those of the record.
Active  == rotationJob # NoJob \/ At(Steps)

\* The fields in memory follow the commits ...
CursorMemory ==
    /\ Active /\ landed # NoSet => lastOperatorFamily = Lead[landed]
    /\ Active /\ ~At({"index"}) => rotationIndex = commits

\* ... and so does the record, except while a commit is being written.
CursorDurable ==
    ~At({"index", "persist"}) =>
        /\ cursor.index = commits
        /\ landed # NoSet => cursor.family = Lead[landed]

\* What a pass holds: the place in the count it is about to write, and a set
\* that does not use the family that led last.
PassCounts ==
    \A i \in Slots :
        /\ job[i].pc = "index" => /\ rotationIndex + 1 = commits
                                  /\ job[i].held.index = rotationIndex
        /\ job[i].pc = "persist" => job[i].held = [family |-> Lead[landed], index |-> commits]
        /\ job[i].pc \in {"index", "persist"} => landed # NoSet
        /\ job[i].pc = "ckWrite" => job[i].held = cursor
        /\ job[i].pc \in {"probe", "toml", "rust", "verify", "commit"} /\ landed # NoSet
              => Lead[landed] \notin Operators[job[i].set]

Counts == \/ Past({"crossed", "unsaved"})
          \/ CursorMemory /\ CursorDurable /\ PassCounts

\* The inductive invariant. IndexCountsCommits and LeadNeverRepeats rest on
\* Counts, MuteRolledBack on MutePending, VerifiedAnswered on PassVets; and
\* each of these needs that one pass is under way at a time (OnePass) and that
\* a cancelled timer is not the armed one (TimerArmed).
RotationIInv ==
    /\ RotationTypeOK /\ CountsBounded /\ TimerArmed /\ OnePass /\ Picked
    /\ PassVets /\ VerifiedAnswered /\ MutePending /\ Counts

-----------------------------------------------------------------------------
(* The slots. *)
LEMMA RecordOfJob ==
    ASSUME NEW j \in Job
    PROVE  /\ j.pc \in Places /\ j.manual \in BOOLEAN /\ j.boot \in BOOLEAN
           /\ j.cancelled \in BOOLEAN /\ j.set \in Picks /\ j.failed \in Picks
           /\ j.held \in Cursor /\ j.held.index \in Nat /\ j.held.family \in Families
BY Zenon DEF Job, Cursor

LEMMA FreeJob ==
    /\ NoCursor \in Cursor /\ NoCursor.index = 0 /\ NoCursor.family = NoFamily
    /\ Free \in Job /\ Free.pc = "free" /\ ~Free.manual /\ ~Free.cancelled
    /\ Free.held = NoCursor
<1>1. NoCursor \in Cursor /\ NoCursor.index = 0 /\ NoCursor.family = NoFamily
  BY DEF NoCursor, Cursor, Families
<1>2. Free \in Job
  BY <1>1 DEF Free, Job, Picks, Places
<1> QED
  BY <1>1, <1>2, Zenon DEF Free

LEMMA TimerJob ==
    ASSUME NEW b \in BOOLEAN
    PROVE  LET t == NewTimer(b)
           IN  /\ t \in Job /\ t.pc \in Asleep /\ ~t.manual /\ ~t.cancelled
               /\ t.held = NoCursor /\ (~b => t.pc = "wait")
<1> DEFINE pc == IF b THEN "settle" ELSE "wait"
<1>1. NewTimer(b) = [Free EXCEPT !.pc = pc, !.boot = b]
  BY DEF NewTimer
<1>2. pc \in Places /\ pc \in Asleep /\ (~b => pc = "wait")
  BY DEF Places, Asleep
<1> HIDE DEF pc
<1>3. LET k == [Free EXCEPT !.pc = pc, !.boot = b]
      IN  /\ k \in Job /\ k.pc = pc /\ k.manual = Free.manual
          /\ k.cancelled = Free.cancelled /\ k.held = Free.held
  BY <1>2, FreeJob, Zenon DEF Job
<1> QED
  BY <1>1, <1>2, <1>3, FreeJob, Zenon

LEMMA WindowJob ==
    ASSUME NEW j \in Job
    PROVE  LET w == NextWindow(j)
           IN  /\ w \in Job /\ w.pc = "wait" /\ ~w.manual /\ ~w.cancelled
               /\ w.held = NoCursor
<1>1. NextWindow(j) = [NewTimer(FALSE) EXCEPT !.failed = j.failed]
  BY Zenon DEF NextWindow
<1>2. j.failed \in Picks
  BY RecordOfJob, Zenon
<1>3. LET t == NewTimer(FALSE)
      IN  /\ t \in Job /\ t.pc = "wait" /\ ~t.manual /\ ~t.cancelled
          /\ t.held = NoCursor
  BY TimerJob, Zenon
<1> QED
  BY <1>1, <1>2, <1>3, Zenon DEF Job

LEMMA AfterPassJob ==
    ASSUME NEW j \in Job
    PROVE  LET k == AfterPass(j)
           IN  /\ k \in Job /\ k.held = NoCursor
               /\ k.pc \in {"free", "wait", "ckRead"}
               /\ k.pc = "free" => k = Free /\ (j.manual \/ j.cancelled)
               /\ k.pc # "free" => ~j.manual /\ ~k.manual /\ k.cancelled = j.cancelled
               /\ k.pc = "wait" => ~k.cancelled
<1> DEFINE k == AfterPass(j)
<1>0. j.cancelled \in BOOLEAN /\ j.manual \in BOOLEAN
  BY RecordOfJob, Zenon
<1>1. CASE j.manual
  BY <1>1, FreeJob, Zenon DEF AfterPass
<1>2. CASE ~j.manual /\ j.boot /\ j.cancelled
  BY <1>2, FreeJob, Zenon DEF AfterPass
<1>3. CASE ~j.manual /\ j.boot /\ ~j.cancelled
  <2>1. k = NextWindow(j)
    BY <1>3 DEF AfterPass
  <2>2. /\ k \in Job /\ k.pc = "wait" /\ ~k.manual /\ ~k.cancelled
        /\ k.held = NoCursor
    BY <2>1, WindowJob, Zenon
  <2>3. k.cancelled \in BOOLEAN
    BY <2>2, RecordOfJob, Zenon
  <2> HIDE DEF k
  <2>4. k.cancelled = j.cancelled
    BY <1>0, <1>3, <2>2, <2>3
  <2>5. k.pc # "free" /\ k.pc \in {"free", "wait", "ckRead"}
    BY <2>2
  <2> USE DEF k
  <2> QED
    BY <1>3, <2>2, <2>4, <2>5, Zenon
<1>4. CASE ~j.manual /\ ~j.boot
  <2>1. k = [j EXCEPT !.pc = "ckRead", !.set = NoSet, !.held = NoCursor]
    BY <1>4 DEF AfterPass
  <2>2. "ckRead" \in Places /\ NoSet \in Picks
    BY DEF Picks, Places, Steps
  <2>3. /\ k \in Job /\ k.pc = "ckRead" /\ k.manual = j.manual
        /\ k.cancelled = j.cancelled /\ k.held = NoCursor
    BY <2>1, <2>2, FreeJob, Zenon DEF Job
  <2> HIDE DEF k
  <2>5. k.pc # "free" /\ k.pc # "wait" /\ k.pc \in {"free", "wait", "ckRead"}
    BY <2>3
  <2> USE DEF k
  <2> QED
    BY <1>4, <2>3, <2>5, Zenon
<1> QED
  BY <1>1, <1>2, <1>3, <1>4, RecordOfJob, Zenon

-----------------------------------------------------------------------------
(* What has interfered is never forgotten. *)
Grown == \A c \in events : c \in events' \/ "crossed" \in events'

LEMMA NoteGrows ==
    ASSUME NEW causes \in SUBSET Causes, events \subseteq Causes, note(causes)
    PROVE  /\ events' \subseteq Causes /\ Grown
           /\ \A c \in causes : c \in events' \/ "crossed" \in events'
BY Zenon DEF note, Grown, Causes

LEMMA SameGrows == ASSUME events' = events PROVE Grown
BY Zenon DEF Grown

LEMMA PastKept ==
    ASSUME Grown, NEW K, "crossed" \in K, Past(K)
    PROVE  Past(K)'
BY Zenon DEF Grown, Past

-----------------------------------------------------------------------------
(* One step of a pass, seen from its slot. *)
Passing == Steps \ {"ckRead", "ckWrite"}

PassMove(i, j) ==
    /\ j \in Job /\ job[i].pc \in Steps
    /\ job' = [job EXCEPT ![i] = j] /\ rotationJob' = rotationJob
    /\ \/ j = Free /\ (job[i].manual \/ job[i].cancelled)
       \/ /\ j.pc # "free" /\ j.manual = job[i].manual /\ j.cancelled = job[i].cancelled
          /\ j.pc \in Asleep \cup {"ckRead", "ckWrite"} => ~j.manual
          /\ j.pc \in Asleep => ~j.cancelled
    /\ j.pc \in Passing => j.set \in Sets

LEMMA PlaceFacts ==
    /\ Steps \subseteq Places /\ Asleep \subseteq Places /\ "free" \in Places
    /\ "free" \notin Steps /\ "free" \notin Asleep
    /\ \A pc \in Asleep : pc \notin Steps
    /\ Passing \subseteq Steps
    /\ "ckRead" \in Steps /\ "ckWrite" \in Steps
    /\ "ckRead" \notin Passing /\ "ckWrite" \notin Passing
    /\ \A pc \in Passing : pc # "ckRead" /\ pc # "ckWrite" /\ pc \notin Asleep /\ pc # "free"
    /\ {"probe", "toml", "rust", "verify", "restoreToml", "restoreRust", "commit",
        "index", "persist"} = Passing
BY DEF Steps, Asleep, Places, Passing

LEMMA PcMove ==
    ASSUME RotationTypeOK, Picked, NEW i \in Slots, job[i].pc \in Passing,
           NEW pc \in Passing, goto(i, pc), rotationJob' = rotationJob
    PROVE  PassMove(i, [job[i] EXCEPT !.pc = pc])
<1> DEFINE j == [job[i] EXCEPT !.pc = pc]
<1>1. job[i] \in Job
  BY Zenon DEF RotationTypeOK
<1>2. pc \in Places /\ job[i].pc \in Steps /\ job[i].set \in Sets
  BY PlaceFacts, Zenon DEF Picked, Passing
<1>3. /\ j \in Job /\ j.pc = pc /\ j.manual = job[i].manual
      /\ j.cancelled = job[i].cancelled /\ j.set = job[i].set
  BY <1>1, <1>2, Zenon DEF Job
<1>4. job' = [job EXCEPT ![i] = j]
  BY DEF goto
<1> HIDE DEF j
<1>5. PassMove(i, j)
  BY <1>2, <1>3, <1>4, PlaceFacts, Zenon DEF PassMove
<1> QED
  BY <1>5 DEF j

LEMMA FinishMove ==
    ASSUME RotationTypeOK, NEW i \in Slots, job[i].pc \in Steps,
           NEW j \in Job, j.manual = job[i].manual, j.cancelled = job[i].cancelled,
           job' = [job EXCEPT ![i] = AfterPass(j)], rotationJob' = rotationJob
    PROVE  PassMove(i, AfterPass(j))
<1> DEFINE k == AfterPass(j)
<1>1. /\ k \in Job
      /\ k.pc \in {"free", "wait", "ckRead"}
      /\ k.pc = "free" => k = Free /\ (j.manual \/ j.cancelled)
      /\ k.pc # "free" => ~j.manual /\ ~k.manual /\ k.cancelled = j.cancelled
      /\ k.pc = "wait" => ~k.cancelled
  BY AfterPassJob, Zenon
<1>2. k.manual \in BOOLEAN /\ j.manual \in BOOLEAN
  BY <1>1, RecordOfJob, Zenon
<1>3. job' = [job EXCEPT ![i] = k]
  OBVIOUS
<1> HIDE DEF k
<1>4. k.pc \notin Passing
  BY <1>1, PlaceFacts DEF Passing, Steps
<1>5. k.pc # "free" => k.manual = j.manual
  BY <1>1, <1>2
<1>6. k.pc \in Asleep => k.pc = "wait"
  BY <1>1 DEF Asleep
<1>7. PassMove(i, k)
  BY <1>1, <1>3, <1>4, <1>5, <1>6, Zenon DEF PassMove
<1> QED
  BY <1>7 DEF k

LEMMA MoveStructure ==
    ASSUME RotationTypeOK, TimerArmed, OnePass, Picked, Grown,
           NEW i \in Slots, NEW j, PassMove(i, j)
    PROVE  (job \in [Slots -> Job])' /\ TimerArmed' /\ OnePass' /\ Picked'
<1>1. /\ job \in [Slots -> Job] /\ rotationJob' = rotationJob
      /\ rotationJob \in Slots \cup {NoJob}
  BY Zenon DEF RotationTypeOK, PassMove
<1>2. /\ job' \in [Slots -> Job] /\ job'[i] = j
      /\ \A l \in Slots : l # i => job'[l] = job[l]
  BY <1>1, Zenon DEF PassMove
<1>3. job[i].pc \in Steps /\ job[i].pc # "free"
  BY PlaceFacts, Zenon DEF PassMove
<1>4. OnePass'
  <2> SUFFICES ASSUME NEW l \in Slots, NEW m \in Slots, l # m,
                      job'[l].pc \in Steps, job'[m].pc \in Steps
               PROVE  Past({"crossed"})'
    BY Zenon DEF OnePass
  <2>1. job[l].pc \in Steps /\ job[m].pc \in Steps
    BY <1>2, <1>3, Zenon
  <2> QED
    BY <2>1, PastKept, Zenon DEF OnePass
<1>5. Picked'
  BY <1>2, Zenon DEF Picked, PassMove, Passing
<1>6. TimerArmed'
  <2>1. (rotationJob # NoJob => job[rotationJob].pc # "free")'
    <3> SUFFICES ASSUME rotationJob # NoJob PROVE job'[rotationJob].pc # "free"
      BY <1>1, Zenon
    <3>1. rotationJob \in Slots
      BY <1>1, Zenon
    <3>2. CASE rotationJob = i
      BY <3>2, <1>2, Zenon DEF TimerArmed, PassMove
    <3>3. CASE rotationJob # i
      BY <3>1, <3>3, <1>2, Zenon DEF TimerArmed
    <3> QED
      BY <3>2, <3>3
  <2>2. ASSUME NEW l \in Slots
        PROVE  /\ l = rotationJob => ~job'[l].manual /\ ~job'[l].cancelled
               /\ job'[l].pc \in Asleep => l = rotationJob
               /\ job'[l].pc # "free" /\ ~job'[l].manual /\ ~job'[l].cancelled
                     => l = rotationJob
               /\ job'[l].cancelled => Past({"cancelled", "crossed"})'
               /\ job'[l].pc \in {"ckRead", "ckWrite"} => ~job'[l].manual
    <3>0. job[l].cancelled => Past({"cancelled", "crossed"})'
      BY PastKept, Zenon DEF TimerArmed
    <3>1. CASE l # i
      BY <3>0, <3>1, <1>2, Zenon DEF TimerArmed
    <3>2. CASE l = i /\ j = Free
      <4>1. job'[l] = Free
        BY <3>2, <1>2
      <4>2. /\ job'[l].pc = "free" /\ ~job'[l].manual /\ ~job'[l].cancelled
        BY <4>1, FreeJob, Zenon
      <4>3. job'[l].pc \notin Asleep /\ job'[l].pc \notin {"ckRead", "ckWrite"}
        BY <4>2, PlaceFacts
      <4> QED
        BY <4>2, <4>3, Zenon
    <3>3. CASE l = i /\ j # Free
      <4>1. /\ j.pc # "free" /\ j.manual = job[i].manual /\ j.cancelled = job[i].cancelled
            /\ j.pc \in Asleep \cup {"ckRead", "ckWrite"} => ~j.manual
            /\ j.pc \in Asleep => ~j.cancelled
        BY <3>3, Zenon DEF PassMove
      <4> QED
        BY <3>0, <3>3, <4>1, <1>2, <1>3, Zenon DEF TimerArmed
    <3> QED
      BY <3>1, <3>2, <3>3, Zenon
  <2> QED
    BY <2>1, <2>2, <1>1, Zenon DEF TimerArmed
<1> QED
  BY <1>2, <1>4, <1>5, <1>6, Zenon

-----------------------------------------------------------------------------
(* What a step of a pass owes each part of the invariant. *)
LEMMA MoveFacts ==
    ASSUME RotationIInv, NEW i \in Slots, NEW j, PassMove(i, j)
    PROVE  /\ job'[i] = j /\ job[i].pc \in Steps
           /\ \A l \in Slots : l # i => job'[l] = job[l]
           /\ \A l \in Slots : l # i /\ job[l].pc \in Steps => Past({"crossed"})
BY Zenon DEF RotationIInv, RotationTypeOK, PassMove, OnePass

LEMMA MoveVets ==
    ASSUME RotationIInv, Grown, NEW i \in Slots, NEW j, PassMove(i, j),
           \/ Past({"declined", "crossed"})'
           \/ /\ j.pc \in {"verify", "commit"} => pool' = j.set
              /\ j.pc \in {"commit", "restoreToml", "restoreRust"} => j.set \notin Mute
    PROVE  PassVets'
<1>0. CASE Past({"declined", "crossed"})'
  BY <1>0, Zenon DEF PassVets
<1>1. CASE ~Past({"declined", "crossed"})'
  <2>1. ~Past({"declined", "crossed"}) /\ ~Past({"crossed"})
    <3>1. ~Past({"declined", "crossed"})
      BY <1>1, PastKept, SMT
    <3> QED
      BY <3>1, SMT DEF Past
  <2>2. \A l \in Slots : l # i => job'[l] = job[l] /\ job[l].pc \notin Steps
    BY <2>1, MoveFacts, Zenon
  <2>3. "verify" \in Steps /\ "commit" \in Steps /\ "restoreToml" \in Steps /\ "restoreRust" \in Steps
    BY DEF Steps
  <2>4. job'[i] = j /\ (j.pc \in {"verify", "commit"} => pool' = j.set)
        /\ (j.pc \in {"commit", "restoreToml", "restoreRust"} => j.set \notin Mute)
    BY <1>1, MoveFacts, Zenon
  <2>5. ASSUME NEW l \in Slots
        PROVE  /\ job'[l].pc \in {"verify", "commit"} => pool' = job'[l].set
               /\ job'[l].pc \in {"commit", "restoreToml", "restoreRust"} => job'[l].set \notin Mute
    <3>1. CASE l = i
      BY <3>1, <2>4, Zenon
    <3>2. CASE l # i
      BY <3>2, <2>2, <2>3, Zenon
    <3> QED
      BY <3>1, <3>2
  <2> QED
    BY <2>5, Zenon DEF PassVets
<1> QED
  BY <1>0, <1>1

LEMMA MoveMute ==
    ASSUME RotationIInv, Grown, NEW i \in Slots, NEW j, PassMove(i, j),
           pool' \in Mute /\ lastVerifiedSet' # NoSet =>
               \/ unvetted' \/ Past({"declined", "crossed", "cancelled"})'
               \/ j.pc \in {"verify", "restoreToml", "restoreRust"}
               \/ /\ pool \in Mute /\ lastVerifiedSet # NoSet /\ (unvetted => unvetted')
                  /\ job[i].pc \notin {"verify", "restoreToml", "restoreRust"}
    PROVE  MutePending'
<1> SUFFICES ASSUME pool' \in Mute, lastVerifiedSet' # NoSet, ~unvetted',
                    ~Past({"declined", "crossed", "cancelled"})'
             PROVE  \E l \in Slots : job'[l].pc \in {"verify", "restoreToml", "restoreRust"}
  BY Zenon DEF MutePending
<1>1. CASE j.pc \in {"verify", "restoreToml", "restoreRust"}
  BY <1>1, MoveFacts, Zenon
<1>2. CASE /\ pool \in Mute /\ lastVerifiedSet # NoSet /\ ~unvetted
           /\ job[i].pc \notin {"verify", "restoreToml", "restoreRust"}
  <2>1. ~Past({"declined", "crossed", "cancelled"})
    BY PastKept
  <2>2. PICK l \in Slots : job[l].pc \in {"verify", "restoreToml", "restoreRust"}
    BY <1>2, <2>1, Zenon DEF RotationIInv, MutePending
  <2> QED
    BY <1>2, <2>2, MoveFacts, Zenon
<1> QED
  BY <1>1, <1>2, Zenon

LEMMA MoveCounts ==
    ASSUME RotationIInv, Grown, NEW i \in Slots, NEW j, PassMove(i, j),
           /\ ~Past({"crossed", "unsaved"}) /\ ~Past({"crossed", "unsaved"})'
           /\ landed # NoSet => lastOperatorFamily = Lead[landed]
           /\ job[i].pc # "index" => rotationIndex = commits
           /\ job[i].pc \notin {"index", "persist"} =>
                 /\ cursor.index = commits
                 /\ landed # NoSet => cursor.family = Lead[landed]
           /\ PassCounts
           => /\ landed' # NoSet => lastOperatorFamily' = Lead[landed']
              /\ j.pc # "index" => rotationIndex' = commits'
              /\ j.pc \notin {"index", "persist"} =>
                    /\ cursor'.index = commits'
                    /\ landed' # NoSet => cursor'.family = Lead[landed']
              /\ j.pc = "index" => rotationIndex' + 1 = commits' /\ j.held.index = rotationIndex'
              /\ j.pc = "persist" => j.held = [family |-> Lead[landed'], index |-> commits']
              /\ j.pc \in {"index", "persist"} => landed' # NoSet
              /\ j.pc = "ckWrite" => j.held = cursor'
              /\ j.pc \in {"probe", "toml", "rust", "verify", "commit"} /\ landed' # NoSet
                    => Lead[landed'] \notin Operators[j.set]
    PROVE  Counts'
<1> SUFFICES ASSUME ~Past({"crossed", "unsaved"})'
             PROVE  CursorMemory' /\ CursorDurable' /\ PassCounts'
  BY Zenon DEF Counts
<1>1. ~Past({"crossed", "unsaved"}) /\ ~Past({"crossed"})
  <2>1. ~Past({"crossed", "unsaved"})
    BY PastKept, SMT
  <2> QED
    BY <2>1, SMT DEF Past
<1>2. /\ job'[i] = j /\ job[i].pc \in Steps
      /\ \A l \in Slots : l # i => job'[l].pc \notin Steps /\ job[l].pc \notin Steps
  BY <1>1, MoveFacts, Zenon
<1>3. CursorMemory /\ CursorDurable /\ PassCounts
  BY <1>1, Zenon DEF RotationIInv, Counts
<1>4. /\ "index" \in Steps /\ "persist" \in Steps /\ "ckWrite" \in Steps
      /\ {"probe", "toml", "rust", "verify", "commit"} \subseteq Steps
  BY DEF Steps
<1>5. Active /\ (At({"index"}) => job[i].pc = "index")
      /\ (At({"index", "persist"}) => job[i].pc \in {"index", "persist"})
  BY <1>2, <1>4 DEF Active, At
<1>6. /\ landed # NoSet => lastOperatorFamily = Lead[landed]
      /\ job[i].pc # "index" => rotationIndex = commits
      /\ job[i].pc \notin {"index", "persist"} =>
            /\ cursor.index = commits
            /\ landed # NoSet => cursor.family = Lead[landed]
  BY <1>3, <1>5, Zenon DEF CursorMemory, CursorDurable
<1>7. /\ landed' # NoSet => lastOperatorFamily' = Lead[landed']
      /\ j.pc # "index" => rotationIndex' = commits'
      /\ j.pc \notin {"index", "persist"} =>
            /\ cursor'.index = commits'
            /\ landed' # NoSet => cursor'.family = Lead[landed']
      /\ j.pc = "index" => rotationIndex' + 1 = commits' /\ j.held.index = rotationIndex'
      /\ j.pc = "persist" => j.held = [family |-> Lead[landed'], index |-> commits']
      /\ j.pc \in {"index", "persist"} => landed' # NoSet
      /\ j.pc = "ckWrite" => j.held = cursor'
      /\ j.pc \in {"probe", "toml", "rust", "verify", "commit"} /\ landed' # NoSet
            => Lead[landed'] \notin Operators[j.set]
  BY <1>1, <1>3, <1>6, Zenon
<1>8. CursorMemory'
  <2>1. j.pc = "index" => At({"index"})'
    BY <1>2 DEF At
  <2> QED
    BY <1>7, <2>1, Zenon DEF CursorMemory
<1>9. CursorDurable'
  <2>1. j.pc \in {"index", "persist"} => At({"index", "persist"})'
    BY <1>2, Zenon DEF At
  <2> QED
    BY <1>7, <2>1, Zenon DEF CursorDurable
<1>10. PassCounts'
  BY <1>2, <1>4, <1>7, Zenon DEF PassCounts
<1> QED
  BY <1>8, <1>9, <1>10
LEMMA MoveBounded ==
    ASSUME RotationIInv, NEW i \in Slots, NEW j, PassMove(i, j),
           commits' \in Nat, commits <= commits',
           rotationIndex' <= commits', cursor'.index <= commits',
           j.held.index <= commits', j.pc = "index" => j.held.index < commits'
    PROVE  CountsBounded'
<1>1. commits \in Nat /\ CountsBounded
  BY Zenon DEF RotationIInv, RotationTypeOK
<1>2. \A l \in Slots : job[l].held.index \in Nat
  BY RecordOfJob, Zenon DEF RotationIInv, RotationTypeOK
<1>3. job'[i] = j /\ \A l \in Slots : l # i => job'[l] = job[l]
  BY MoveFacts, Zenon
<1>4. ASSUME NEW l \in Slots
      PROVE  /\ job'[l].held.index <= commits'
             /\ job'[l].pc = "index" => job'[l].held.index < commits'
  <2>1. CASE l = i
    BY <2>1, <1>3, Zenon
  <2>2. CASE l # i
    <3>1. job'[l] = job[l]
      BY <2>2, <1>3, Zenon
    <3>2. job[l].held.index \in Nat /\ job[l].held.index <= commits
          /\ (job[l].pc = "index" => job[l].held.index < commits)
      BY <1>1, <1>2, Zenon DEF CountsBounded
    <3>3. \A n \in Nat : (n <= commits => n <= commits') /\ (n < commits => n < commits')
      BY <1>1, SMT
    <3> QED
      BY <3>1, <3>2, <3>3, Zenon
  <2> QED
    BY <2>1, <2>2
<1> QED
  BY <1>4, Zenon DEF CountsBounded

LEMMA MoveKeeps ==
    ASSUME RotationIInv, Grown, NEW i \in Slots, NEW j, PassMove(i, j),
           events' \subseteq Causes, lastVerifiedSet' \in Picks, landed' \in Picks,
           lastOperatorFamily' \in Families, cursor' \in Cursor, rotationIndex' \in Nat,
           commits' \in Nat, unvetted' \in BOOLEAN,
           CountsBounded', PassVets', VerifiedAnswered', MutePending', Counts'
    PROVE  RotationIInv'
<1>1. (job \in [Slots -> Job])' /\ TimerArmed' /\ OnePass' /\ Picked'
  BY MoveStructure, Zenon DEF RotationIInv
<1>2. (rotationJob \in Slots \cup {NoJob})'
  BY Zenon DEF RotationIInv, RotationTypeOK, PassMove
<1>3. RotationTypeOK'
  BY <1>1, <1>2, Zenon DEF RotationTypeOK
<1> QED
  BY <1>1, <1>3, Zenon DEF RotationIInv

Memory == <<lastVerifiedSet, lastOperatorFamily, rotationIndex, cursor, commits, landed>>

LEMMA AnsweredKept ==
    ASSUME VerifiedAnswered, Grown, lastVerifiedSet' = lastVerifiedSet
    PROVE  VerifiedAnswered'
<1>1. VerifiedAnswered <=> (lastVerifiedSet \in Mute => Past({"declined", "crossed"}))
  BY Zenon DEF VerifiedAnswered, Past
<1>2. Past({"declined", "crossed"}) => Past({"declined", "crossed"})'
  BY PastKept, SMT
<1>3. VerifiedAnswered' <=> (lastVerifiedSet' \in Mute => Past({"declined", "crossed"})')
  BY Zenon DEF VerifiedAnswered, Past
<1> QED
  BY <1>1, <1>2, <1>3, Zenon

Picking == {"probe", "toml", "rust", "verify", "commit"}

LEMMA QuietMove ==
    ASSUME RotationIInv, Grown, NEW i \in Slots, NEW j, PassMove(i, j),
           Memory' = Memory, events' \subseteq Causes, unvetted' \in BOOLEAN,
           job[i].pc # "index", job[i].pc # "persist", j.pc # "index", j.pc # "persist",
           j.held.index <= commits, j.pc = "ckWrite" => j.held = cursor,
           j.pc \in Picking => job[i].pc \in Picking /\ j.set = job[i].set,
           PassVets', MutePending'
    PROVE  RotationIInv'
<1>1. /\ lastVerifiedSet' = lastVerifiedSet /\ lastOperatorFamily' = lastOperatorFamily
      /\ rotationIndex' = rotationIndex /\ cursor' = cursor /\ commits' = commits
      /\ landed' = landed
  BY DEF Memory
<1>2. RotationTypeOK /\ CountsBounded /\ VerifiedAnswered
  BY Zenon DEF RotationIInv
<1>3. CountsBounded'
  <2>1. commits' \in Nat /\ rotationIndex' <= commits' /\ cursor'.index <= commits'
        /\ j.held.index <= commits'
    BY <1>1, <1>2, Zenon DEF RotationTypeOK, CountsBounded
  <2>2. commits <= commits'
    BY <1>1, <1>2, SMT DEF RotationTypeOK
  <2> QED
    BY <2>1, <2>2, MoveBounded, Zenon
<1>4. VerifiedAnswered'
  BY <1>1, <1>2, AnsweredKept, Zenon
<1>5. Counts'
  <2>1. PassCounts /\ j.pc \in Picking /\ landed' # NoSet => Lead[landed'] \notin Operators[j.set]
    BY <1>1, Zenon DEF PassCounts, Picking
  <2> QED
    BY <1>1, <2>1, MoveCounts, Zenon DEF Picking
<1> QED
  BY <1>1, <1>2, <1>3, <1>4, <1>5, MoveKeeps, Zenon DEF RotationTypeOK
Verifying == {"verify", "restoreToml", "restoreRust"}

LEMMA FinishKeeps ==
    ASSUME RotationIInv, Grown, NEW i \in Slots, job[i].pc \in Steps,
           job[i].pc # "index", job[i].pc # "persist",
           NEW k \in Job, k.manual = job[i].manual, k.cancelled = job[i].cancelled,
           job' = [job EXCEPT ![i] = AfterPass(k)], rotationJob' = rotationJob,
           Memory' = Memory, events' \subseteq Causes, unvetted' \in BOOLEAN,
           pool' \in Mute /\ lastVerifiedSet # NoSet =>
               \/ unvetted' \/ Past({"declined", "crossed", "cancelled"})'
               \/ pool \in Mute /\ (unvetted => unvetted') /\ job[i].pc \notin Verifying
    PROVE  RotationIInv'
<1> DEFINE j == AfterPass(k)
<1>1. PassMove(i, j)
  BY FinishMove, Zenon DEF RotationIInv
<1>2. j.held = NoCursor /\ j.pc \in {"free", "wait", "ckRead"}
  BY AfterPassJob, Zenon
<1> HIDE DEF j
<1>3. /\ j.pc # "index" /\ j.pc # "persist" /\ j.pc # "ckWrite" /\ j.pc \notin Picking
      /\ j.pc \notin Verifying
      /\ j.pc \notin {"verify", "commit"} /\ j.pc \notin {"commit", "restoreToml", "restoreRust"}
  BY <1>2 DEF Picking, Verifying
<1>4. j.held.index <= commits
  <2>1. commits \in Nat /\ j.held.index = 0
    BY <1>2, FreeJob, Zenon DEF RotationIInv, RotationTypeOK
  <2> QED
    BY <2>1, SMT
<1>5. lastVerifiedSet' = lastVerifiedSet
  BY DEF Memory
<1>6. PassVets'
  BY <1>1, <1>3, MoveVets, Zenon
<1>7. MutePending'
  BY <1>1, <1>3, <1>5, MoveMute, Zenon DEF Verifying
<1> QED
  BY <1>1, <1>3, <1>4, <1>6, <1>7, QuietMove, Zenon

LEMMA GotoKeeps ==
    ASSUME RotationIInv, Grown, NEW i \in Slots, job[i].pc \in Passing,
           job[i].pc # "index", job[i].pc # "persist",
           NEW pc \in Passing, pc # "index", pc # "persist",
           pc \in Picking => job[i].pc \in Picking,
           goto(i, pc), rotationJob' = rotationJob,
           Memory' = Memory, events' \subseteq Causes, unvetted' \in BOOLEAN,
           \/ Past({"declined", "crossed"})'
           \/ /\ pc \in {"verify", "commit"} => pool' = job[i].set
              /\ pc \in {"commit", "restoreToml", "restoreRust"} => job[i].set \notin Mute,
           pool' \in Mute /\ lastVerifiedSet # NoSet =>
               \/ pc \in Verifying
               \/ pool \in Mute /\ (unvetted => unvetted') /\ job[i].pc \notin Verifying
    PROVE  RotationIInv'
<1> DEFINE j == [job[i] EXCEPT !.pc = pc]
<1>1. PassMove(i, j)
  BY PcMove, Zenon DEF RotationIInv
<1>2. job[i] \in Job /\ pc \in Places
  BY PlaceFacts, Zenon DEF RotationIInv, RotationTypeOK
<1>3. j.pc = pc /\ j.set = job[i].set /\ j.held = job[i].held
  BY <1>2, Zenon DEF Job
<1> HIDE DEF j
<1>4. j.held.index <= commits
  BY <1>3, Zenon DEF RotationIInv, CountsBounded
<1>5. lastVerifiedSet' = lastVerifiedSet
  BY DEF Memory
<1>6. PassVets'
  BY <1>1, <1>3, MoveVets, Zenon
<1>7. MutePending'
  BY <1>1, <1>3, <1>5, MoveMute, Zenon DEF Verifying
<1>8. j.pc # "ckWrite"
  BY <1>3, PlaceFacts, Zenon
<1> QED
  BY <1>1, <1>3, <1>4, <1>6, <1>7, <1>8, QuietMove, Zenon

LEMMA PickingFacts ==
    /\ {"probe", "toml", "rust", "verify", "restoreToml", "restoreRust", "commit"}
          \subseteq Passing \ {"index", "persist"}
    /\ "probe" \in Picking /\ "toml" \in Picking /\ "rust" \in Picking /\ "verify" \in Picking
    /\ "probe" \notin Verifying /\ "toml" \notin Verifying /\ "rust" \notin Verifying
    /\ "verify" \in Verifying /\ "restoreToml" \in Verifying /\ "restoreRust" \in Verifying
    /\ "restoreToml" \notin Picking /\ "restoreRust" \notin Picking
    /\ "toml" \notin {"verify", "commit"} /\ "rust" \notin {"verify", "commit"}
    /\ "restoreRust" \notin {"verify", "commit"}
    /\ "toml" \notin {"commit", "restoreToml", "restoreRust"}
    /\ "rust" \notin {"commit", "restoreToml", "restoreRust"}
    /\ "verify" \notin {"commit", "restoreToml", "restoreRust"}
    /\ Passing \subseteq Steps
BY DEF Passing, Steps, Picking, Verifying

LEMMA ProbeKeeps ==
    ASSUME RotationIInv, NEW i \in Slots, NEW ok \in BOOLEAN, probe(i, ok)
    PROVE  RotationIInv'
<1>1. /\ job[i].pc = "probe" /\ rotationJob' = rotationJob /\ pool' = pool
      /\ unvetted' = unvetted /\ events' = events
      /\ goto(i, "toml") \/ job' = [job EXCEPT ![i] = AfterPass(@)]
  BY Zenon DEF probe, rotationGhost, runtimeVars, runtimeState, finish
<1>2. Memory' = Memory
  BY Zenon DEF probe, Memory, rotationGhost
<1>3. events' \subseteq Causes /\ unvetted' \in BOOLEAN /\ job[i] \in Job /\ Grown
  BY <1>1, SameGrows, Zenon DEF RotationIInv, RotationTypeOK
<1>4. job[i].pc # "index" /\ job[i].pc # "persist" /\ job[i].pc \in Passing
      /\ job[i].pc \in Picking /\ job[i].pc \notin Verifying /\ job[i].pc \in Steps
  BY <1>1, PickingFacts
<1>5. "toml" \in Passing /\ "toml" # "index" /\ "toml" # "persist"
  BY PickingFacts
<1>6. CASE goto(i, "toml")
  BY <1>1, <1>2, <1>3, <1>4, <1>5, <1>6, PickingFacts, GotoKeeps, Zenon
<1>7. CASE job' = [job EXCEPT ![i] = AfterPass(@)]
  BY <1>1, <1>2, <1>3, <1>4, <1>7, FinishKeeps, Zenon
<1> QED
  BY <1>1, <1>6, <1>7, Zenon
LEMMA TomlKeeps ==
    ASSUME RotationIInv, NEW i \in Slots, NEW ok \in BOOLEAN, applyToml(i, ok)
    PROVE  RotationIInv'
<1>1. /\ job[i].pc = "toml" /\ rotationJob' = rotationJob /\ pool' = pool
      /\ unvetted' = unvetted /\ events' = events
      /\ goto(i, "rust") \/ job' = [job EXCEPT ![i] = AfterPass(@)]
  BY Zenon DEF applyToml, rotationGhost, finish
<1>2. Memory' = Memory
  BY Zenon DEF applyToml, Memory, rotationGhost
<1>3. events' \subseteq Causes /\ unvetted' \in BOOLEAN /\ job[i] \in Job /\ Grown
  BY <1>1, SameGrows, Zenon DEF RotationIInv, RotationTypeOK
<1>4. job[i].pc # "index" /\ job[i].pc # "persist" /\ job[i].pc \in Passing
      /\ job[i].pc \in Picking /\ job[i].pc \notin Verifying /\ job[i].pc \in Steps
  BY <1>1, PickingFacts
<1>5. "rust" \in Passing /\ "rust" # "index" /\ "rust" # "persist"
  BY PickingFacts
<1>6. CASE goto(i, "rust")
  BY <1>1, <1>2, <1>3, <1>4, <1>5, <1>6, PickingFacts, GotoKeeps, Zenon
<1>7. CASE job' = [job EXCEPT ![i] = AfterPass(@)]
  BY <1>1, <1>2, <1>3, <1>4, <1>7, FinishKeeps, Zenon
<1> QED
  BY <1>1, <1>6, <1>7, Zenon

LEMMA SwapNoted ==
    ASSUME RotationIInv, NEW i \in Slots, note(SwapEvent(i))
    PROVE  /\ Grown /\ events' \subseteq Causes
           /\ pool' = job[i].set \/ Past({"declined", "crossed"})'
<1>1. SwapEvent(i) \in SUBSET Causes /\ (pool' # job[i].set => "declined" \in SwapEvent(i))
  BY DEF SwapEvent, Causes
<1>2. events \subseteq Causes
  BY Zenon DEF RotationIInv, RotationTypeOK
<1>3. /\ events' \subseteq Causes /\ Grown
      /\ \A c \in SwapEvent(i) : c \in events' \/ "crossed" \in events'
  BY <1>1, <1>2, NoteGrows, Zenon
<1> QED
  BY <1>1, <1>3, Zenon DEF Past

LEMMA FreeMove ==
    ASSUME RotationIInv, NEW i \in Slots, job[i].pc \in Steps,
           job[i].manual \/ job[i].cancelled,
           job' = [job EXCEPT ![i] = Free], rotationJob' = rotationJob
    PROVE  PassMove(i, Free) /\ Free.pc \notin Steps /\ Free.pc = "free" /\ Free.held.index = 0
<1>1. Free \in Job /\ Free.pc = "free" /\ Free.held.index = 0
  BY FreeJob, Zenon
<1>2. Free.pc \notin Passing /\ Free.pc \notin Steps
  BY <1>1, PlaceFacts, Zenon
<1> QED
  BY <1>1, <1>2, Zenon DEF PassMove

LEMMA PastMore ==
    /\ Past({"declined", "crossed"}) => Past({"declined", "crossed", "cancelled"})
    /\ Past({"cancelled", "crossed"}) => Past({"declined", "crossed", "cancelled"})
    /\ Past({"declined", "crossed"})' => Past({"declined", "crossed", "cancelled"})'
    /\ Past({"cancelled", "crossed"})' => Past({"declined", "crossed", "cancelled"})'
BY Zenon DEF Past

LEMMA RustKeeps ==
    ASSUME RotationIInv, NEW i \in Slots, NEW accepted \in BOOLEAN, NEW saved \in BOOLEAN,
           applyRust(i, accepted, saved)
    PROVE  RotationIInv'
<1>1. /\ job[i].pc = "rust" /\ rotationJob' = rotationJob /\ note(SwapEvent(i))
      /\ unvetted' = (unvetted /\ pool' # job[i].set)
      /\ IF job[i].cancelled THEN job' = [job EXCEPT ![i] = Free] ELSE goto(i, "verify")
  BY Zenon DEF applyRust
<1>2. Memory' = Memory
  BY Zenon DEF applyRust, Memory
<1>3. unvetted' \in BOOLEAN
  BY <1>1
<1>4. job[i].pc # "index" /\ job[i].pc # "persist" /\ job[i].pc \in Passing
      /\ job[i].pc \in Picking /\ job[i].pc \notin Verifying /\ job[i].pc \in Steps
  BY <1>1, PickingFacts
<1>5. "verify" \in Passing /\ "verify" # "index" /\ "verify" # "persist"
  BY PickingFacts
<1>6. CASE ~job[i].cancelled
  BY <1>1, <1>2, <1>3, <1>4, <1>5, <1>6, SwapNoted, PickingFacts, GotoKeeps, Zenon
<1>7. CASE job[i].cancelled
  <2>1. /\ PassMove(i, Free) /\ Free.pc \notin Steps /\ Free.held.index = 0
        /\ Grown /\ events' \subseteq Causes
    BY <1>1, <1>4, <1>7, FreeMove, SwapNoted, Zenon
  <2>2. Past({"declined", "crossed", "cancelled"})'
    <3>1. Past({"cancelled", "crossed"})
      BY <1>7, Zenon DEF RotationIInv, TimerArmed
    <3>2. Past({"declined", "crossed", "cancelled"})
      BY <3>1, PastMore, Zenon
    <3> QED
      BY <3>2, <2>1, PastKept, SMT
  <2>3. MutePending'
    BY <2>1, <2>2, MoveMute, Zenon
  <2>4. /\ Free.pc \notin {"verify", "commit"} /\ Free.pc \notin {"commit", "restoreToml", "restoreRust"}
        /\ Free.pc # "index" /\ Free.pc # "persist" /\ Free.pc # "ckWrite" /\ Free.pc \notin Picking
    BY FreeJob DEF Picking
  <2>5. PassVets'
    BY <2>1, <2>4, MoveVets, Zenon
  <2>6. Free.held.index <= commits
    <3>1. commits \in Nat
      BY Zenon DEF RotationIInv, RotationTypeOK
    <3> QED
      BY <2>1, <3>1, SMT
  <2> QED
    BY <1>2, <1>3, <1>4, <2>1, <2>3, <2>4, <2>5, <2>6, QuietMove, Zenon
<1> QED
  BY <1>6, <1>7

LEMMA RestoreTomlKeeps ==
    ASSUME RotationIInv, NEW i \in Slots, NEW ok \in BOOLEAN, restoreToml(i, ok)
    PROVE  RotationIInv'
<1>1. /\ job[i].pc = "restoreToml" /\ rotationJob' = rotationJob /\ pool' = pool
      /\ unvetted' = unvetted /\ events' = events /\ goto(i, "restoreRust")
  BY Zenon DEF restoreToml, rotationGhost
<1>2. Memory' = Memory
  BY Zenon DEF restoreToml, Memory, rotationGhost
<1>3. events' \subseteq Causes /\ unvetted' \in BOOLEAN /\ Grown
  BY <1>1, SameGrows, Zenon DEF RotationIInv, RotationTypeOK
<1>4. job[i].pc # "index" /\ job[i].pc # "persist" /\ job[i].pc \in Passing
  BY <1>1, PickingFacts
<1>5. "restoreRust" \in Passing /\ "restoreRust" # "index" /\ "restoreRust" # "persist"
  BY PickingFacts
<1>6. Past({"declined", "crossed"})' \/ job[i].set \notin Mute
  <2>1. Past({"declined", "crossed"}) \/ job[i].set \notin Mute
    BY <1>1, Zenon DEF RotationIInv, PassVets
  <2>2. Past({"declined", "crossed"}) => Past({"declined", "crossed"})'
    BY <1>3, PastKept, SMT
  <2> QED
    BY <2>1, <2>2
<1> QED
  BY <1>1, <1>2, <1>3, <1>4, <1>5, <1>6, PickingFacts, GotoKeeps, Zenon

LEMMA RestoreRustKeeps ==
    ASSUME RotationIInv, NEW i \in Slots, NEW accepted \in BOOLEAN, NEW saved \in BOOLEAN,
           restoreRust(i, accepted, saved)
    PROVE  RotationIInv'
<1>1. /\ job[i].pc = "restoreRust" /\ rotationJob' = rotationJob /\ note(SwapEvent(i))
      /\ unvetted' = (unvetted /\ pool' # job[i].set)
      /\ job' = [job EXCEPT ![i] = AfterPass(@)]
  BY Zenon DEF restoreRust, finish
<1>2. Memory' = Memory
  BY Zenon DEF restoreRust, Memory
<1>3. unvetted' \in BOOLEAN /\ job[i] \in Job
  BY <1>1, Zenon DEF RotationIInv, RotationTypeOK
<1>4. job[i].pc # "index" /\ job[i].pc # "persist" /\ job[i].pc \in Steps
  BY <1>1, PickingFacts
<1>5. Grown /\ events' \subseteq Causes
  BY <1>1, SwapNoted, Zenon
<1>6. pool' \in Mute => Past({"declined", "crossed", "cancelled"})'
  <2>1. Past({"declined", "crossed"}) \/ job[i].set \notin Mute
    BY <1>1, Zenon DEF RotationIInv, PassVets
  <2>2. Past({"declined", "crossed"}) => Past({"declined", "crossed"})'
    BY <1>5, PastKept, SMT
  <2>3. pool' = job[i].set \/ Past({"declined", "crossed"})'
    BY <1>1, SwapNoted, Zenon
  <2> QED
    BY <2>1, <2>2, <2>3, PastMore, Zenon
<1> QED
  BY <1>1, <1>2, <1>3, <1>4, <1>5, <1>6, FinishKeeps, Zenon
LEMMA VerifyKeeps ==
    ASSUME RotationIInv, NEW i \in Slots, NEW answered \in BOOLEAN, verify(i, answered)
    PROVE  RotationIInv'
<1> DEFINE k == [job[i] EXCEPT !.failed = IF pool = job[i].set THEN pool ELSE @]
           j == [k EXCEPT !.pc = "restoreToml", !.set = lastVerifiedSet]
<1>1. /\ job[i].pc = "verify" /\ CanAnswer(answered) /\ rotationJob' = rotationJob
      /\ pool' = pool /\ unvetted' = unvetted /\ events' = events
      /\ IF answered THEN goto(i, "commit")
         ELSE job' = [job EXCEPT ![i] = IF lastVerifiedSet = NoSet THEN AfterPass(k) ELSE j]
  BY Zenon DEF verify, runtimeVars, runtimeState
<1>2. Memory' = Memory
  BY Zenon DEF verify, Memory
<1>3. events' \subseteq Causes /\ unvetted' \in BOOLEAN /\ job[i] \in Job /\ Grown
  BY <1>1, SameGrows, Zenon DEF RotationIInv, RotationTypeOK
<1>4. job[i].pc # "index" /\ job[i].pc # "persist" /\ job[i].pc \in Passing
      /\ job[i].pc \in Picking /\ job[i].pc \in Steps
  BY <1>1, PickingFacts
<1>5. Past({"declined", "crossed"})' = Past({"declined", "crossed"})
  BY <1>1, Zenon DEF Past
<1>6. CASE answered
  <2>1. pool \notin Mute
    BY <1>1, <1>6, RotationAssumption, Zenon DEF CanAnswer
  <2>2. Past({"declined", "crossed"}) \/ pool = job[i].set
    BY <1>1, Zenon DEF RotationIInv, PassVets
  <2>3. "commit" \in Passing /\ "commit" # "index" /\ "commit" # "persist"
    BY PickingFacts
  <2> QED
    BY <1>1, <1>2, <1>3, <1>4, <1>5, <1>6, <2>1, <2>2, <2>3, GotoKeeps, Zenon
<1>7. CASE ~answered
  <2>1. job[i].set \in Picks /\ job[i].failed \in Picks /\ job[i].set \in Sets
    BY <1>3, <1>4, RecordOfJob, Zenon DEF RotationIInv, Picked, Passing
  <2>2. /\ k \in Job /\ k.manual = job[i].manual /\ k.cancelled = job[i].cancelled
        /\ k.held = job[i].held
    BY <1>3, <2>1, Zenon DEF Job
  <2> HIDE DEF k
  <2>3. CASE lastVerifiedSet = NoSet
    <3>1. job' = [job EXCEPT ![i] = AfterPass(k)]
      BY <1>1, <1>7, <2>3, Zenon
    <3> QED
      BY <1>1, <1>2, <1>3, <1>4, <2>2, <2>3, <3>1, FinishKeeps, Zenon
  <2>4. CASE lastVerifiedSet # NoSet
    <3>1. job' = [job EXCEPT ![i] = j]
      BY <1>1, <1>7, <2>4, Zenon
    <3>2. lastVerifiedSet \in Sets /\ lastVerifiedSet \in Picks /\ "restoreToml" \in Places
      BY <2>4, PickingFacts, PlaceFacts, Zenon DEF RotationIInv, RotationTypeOK, Picks
    <3>3. /\ j \in Job /\ j.pc = "restoreToml" /\ j.set = lastVerifiedSet
          /\ j.manual = k.manual /\ j.cancelled = k.cancelled /\ j.held = k.held
      BY <2>2, <3>2, Zenon DEF Job
    <3> HIDE DEF j
    <3>4. /\ j.pc # "free" /\ j.pc \notin Asleep /\ j.pc \notin Asleep \cup {"ckRead", "ckWrite"}
          /\ j.pc # "index" /\ j.pc # "persist" /\ j.pc # "ckWrite" /\ j.pc \notin Picking
          /\ j.pc \notin {"verify", "commit"} /\ j.pc \in {"verify", "restoreToml", "restoreRust"}
      BY <3>3 DEF Asleep, Picking
    <3>5. PassMove(i, j)
      BY <1>1, <1>4, <2>2, <3>1, <3>2, <3>3, <3>4, Zenon DEF PassMove
    <3>6. lastVerifiedSet \notin Mute \/ Past({"declined", "crossed"})
      BY Zenon DEF RotationIInv, VerifiedAnswered, Past
    <3>7. PassVets'
      BY <1>3, <1>5, <3>3, <3>4, <3>5, <3>6, MoveVets, Zenon
    <3>8. MutePending'
      BY <1>3, <3>4, <3>5, MoveMute, Zenon
    <3>9. j.held.index <= commits
      BY <2>2, <3>3, Zenon DEF RotationIInv, CountsBounded
    <3> QED
      BY <1>2, <1>3, <1>4, <3>4, <3>5, <3>7, <3>8, <3>9, QuietMove, Zenon
  <2> QED
    BY <2>3, <2>4
<1> QED
  BY <1>6, <1>7

LEMMA CheckpointReadKeeps ==
    ASSUME RotationIInv, NEW i \in Slots, checkpointRead(i)
    PROVE  RotationIInv'
<1> DEFINE j == [job[i] EXCEPT !.pc = "ckWrite", !.held = cursor]
<1>1. /\ job[i].pc = "ckRead" /\ rotationJob' = rotationJob /\ pool' = pool
      /\ unvetted' = unvetted /\ events' = events /\ job' = [job EXCEPT ![i] = j]
  BY Zenon DEF checkpointRead, rotationGhost, runtimeVars, runtimeState
<1>2. Memory' = Memory
  BY Zenon DEF checkpointRead, Memory, rotationGhost
<1>3. /\ events' \subseteq Causes /\ unvetted' \in BOOLEAN /\ job[i] \in Job /\ Grown
      /\ cursor \in Cursor
  BY <1>1, SameGrows, Zenon DEF RotationIInv, RotationTypeOK
<1>4. "ckWrite" \in Places
  BY PlaceFacts, Zenon
<1>5. /\ j \in Job /\ j.pc = "ckWrite" /\ j.held = cursor
      /\ j.manual = job[i].manual /\ j.cancelled = job[i].cancelled
  BY <1>3, <1>4, Zenon DEF Job
<1> HIDE DEF j
<1>6. /\ job[i].pc \in Steps /\ j.pc \notin Passing
      /\ job[i].pc # "index" /\ job[i].pc # "persist"
      /\ j.pc # "free" /\ j.pc # "index" /\ j.pc # "persist" /\ j.pc \notin Picking
      /\ j.pc \notin {"verify", "commit"} /\ j.pc \notin {"commit", "restoreToml", "restoreRust"}
      /\ job[i].pc \notin {"verify", "restoreToml", "restoreRust"}
      /\ j.pc \notin Asleep
  BY <1>1, <1>5 DEF Steps, Passing, Picking, Asleep
<1>7. ~job[i].manual
  BY <1>1, Zenon DEF RotationIInv, TimerArmed
<1>8. PassMove(i, j)
  BY <1>1, <1>5, <1>6, <1>7, Zenon DEF PassMove
<1>9. PassVets'
  BY <1>3, <1>6, <1>8, MoveVets, Zenon
<1>10. lastVerifiedSet' = lastVerifiedSet
  BY <1>2 DEF Memory
<1>11. MutePending'
  BY <1>1, <1>3, <1>6, <1>8, <1>10, MoveMute, Zenon
<1>12. j.held.index <= commits
  BY <1>5, Zenon DEF RotationIInv, CountsBounded
<1> QED
  BY <1>2, <1>3, <1>5, <1>6, <1>8, <1>9, <1>11, <1>12, QuietMove, Zenon
LEMMA CommitKeeps ==
    ASSUME RotationIInv, NEW i \in Slots, commit(i)
    PROVE  RotationIInv'
<1> DEFINE j == [job[i] EXCEPT !.pc = "index", !.failed = NoSet, !.held.index = rotationIndex]
<1>1. /\ job[i].pc = "commit" /\ rotationJob' = rotationJob /\ pool' = pool
      /\ unvetted' = unvetted /\ events' = events /\ job' = [job EXCEPT ![i] = j]
      /\ lastVerifiedSet' = job[i].set /\ landed' = job[i].set
      /\ lastOperatorFamily' = Lead[job[i].set] /\ commits' = commits + 1
      /\ rotationIndex' = rotationIndex /\ cursor' = cursor
  BY Zenon DEF commit, runtimeVars, runtimeState
<1>2. /\ events' \subseteq Causes /\ unvetted' \in BOOLEAN /\ job[i] \in Job /\ Grown
      /\ commits \in Nat /\ rotationIndex \in Nat /\ cursor \in Cursor
  BY <1>1, SameGrows, Zenon DEF RotationIInv, RotationTypeOK
<1>3. "index" \in Places /\ NoSet \in Picks /\ "index" \in Passing
  BY DEF Places, Steps, Picks, Passing
<1>4. /\ j \in Job /\ j.pc = "index" /\ j.manual = job[i].manual
      /\ j.cancelled = job[i].cancelled /\ j.set = job[i].set /\ j.held.index = rotationIndex
  BY <1>2, <1>3, Zenon DEF Job, Cursor
<1> HIDE DEF j
<1>5. /\ job[i].pc \in Passing /\ job[i].pc \in Steps
      /\ job[i].pc # "index" /\ job[i].pc # "persist" /\ j.pc # "free"
      /\ j.pc \notin {"verify", "commit"} /\ j.pc \notin {"commit", "restoreToml", "restoreRust"}
      /\ j.pc \notin Asleep \cup {"ckRead", "ckWrite"} /\ j.pc \notin Asleep
      /\ j.pc # "persist" /\ j.pc # "ckWrite" /\ j.pc \in {"index", "persist"}
      /\ j.pc \notin {"probe", "toml", "rust", "verify", "commit"}
      /\ job[i].pc \notin {"index", "persist"}
  BY <1>1, <1>4 DEF Steps, Passing, Asleep
<1>6. job[i].set \in Sets
  BY <1>5, Zenon DEF RotationIInv, Picked, Passing
<1>7. PassMove(i, j)
  BY <1>1, <1>4, <1>5, <1>6, Zenon DEF PassMove
<1>8. Past({"declined", "crossed"}) \/ (pool = job[i].set /\ job[i].set \notin Mute)
  <2>1. Past({"declined", "crossed"}) \/ pool = job[i].set
    BY <1>1, Zenon DEF RotationIInv, PassVets
  <2>2. Past({"declined", "crossed"}) \/ job[i].set \notin Mute
    BY <1>1, Zenon DEF RotationIInv, PassVets
  <2> QED
    BY <2>1, <2>2
<1>9. Past({"declined", "crossed"})' = Past({"declined", "crossed"})
  BY <1>1, Zenon DEF Past
<1>10. VerifiedAnswered'
  BY <1>1, <1>8, <1>9, Zenon DEF VerifiedAnswered, Past
<1>11. PassVets'
  BY <1>2, <1>5, <1>7, MoveVets, Zenon
<1>12. MutePending'
  <2>1. pool' \in Mute => Past({"declined", "crossed", "cancelled"})'
    BY <1>1, <1>8, <1>9, PastMore, Zenon
  <2> QED
    BY <1>2, <1>7, <2>1, MoveMute, Zenon
<1>13. CountsBounded'
  <2>1. rotationIndex <= commits /\ cursor.index <= commits /\ cursor.index \in Nat
    BY <1>2, Zenon DEF RotationIInv, CountsBounded, Cursor
  <2>2. /\ commits' \in Nat /\ commits <= commits' /\ rotationIndex' <= commits'
        /\ cursor'.index <= commits' /\ j.held.index <= commits' /\ j.held.index < commits'
    BY <1>1, <1>2, <1>4, <2>1, SMT
  <2> QED
    BY <1>7, <2>2, MoveBounded, Zenon
<1>14. Counts'
  <2>1. landed' # NoSet /\ lastOperatorFamily' = Lead[landed']
    BY <1>1, <1>6, RotationAssumption, Zenon
  <2>2. rotationIndex = commits => rotationIndex' + 1 = commits' /\ j.held.index = rotationIndex'
    BY <1>1, <1>4, Zenon
  <2> QED
    BY <1>2, <1>4, <1>5, <1>7, <2>1, <2>2, MoveCounts, Zenon
<1>15. /\ lastVerifiedSet' \in Picks /\ landed' \in Picks /\ lastOperatorFamily' \in Families
       /\ cursor' \in Cursor /\ rotationIndex' \in Nat
  BY <1>1, <1>2, <1>6, Zenon DEF Picks, Families
<1>16. commits' \in Nat
  BY <1>1, <1>2, SMT
<1> QED
  BY <1>2, <1>7, <1>10, <1>11, <1>12, <1>13, <1>14, <1>15, <1>16, MoveKeeps, Zenon

LEMMA AdvanceKeeps ==
    ASSUME RotationIInv, NEW i \in Slots, advanceIndex(i)
    PROVE  RotationIInv'
<1> DEFINE n == job[i].held.index + 1
           h == [family |-> lastOperatorFamily, index |-> n]
           j == [job[i] EXCEPT !.pc = "persist", !.held = h]
<1>1. /\ job[i].pc = "index" /\ rotationJob' = rotationJob /\ pool' = pool
      /\ unvetted' = unvetted /\ events' = events /\ job' = [job EXCEPT ![i] = j]
      /\ lastVerifiedSet' = lastVerifiedSet /\ landed' = landed
      /\ lastOperatorFamily' = lastOperatorFamily /\ commits' = commits
      /\ rotationIndex' = n /\ cursor' = cursor
  BY Zenon DEF advanceIndex, rotationGhost, runtimeVars, runtimeState
<1>2. /\ events' \subseteq Causes /\ unvetted' \in BOOLEAN /\ job[i] \in Job /\ Grown
      /\ commits \in Nat /\ cursor \in Cursor /\ lastOperatorFamily \in Families
      /\ lastVerifiedSet \in Picks /\ landed \in Picks /\ VerifiedAnswered
  BY <1>1, SameGrows, Zenon DEF RotationIInv, RotationTypeOK
<1>3. job[i].held.index \in Nat /\ job[i].held.index < commits
  BY <1>1, <1>2, RecordOfJob, Zenon DEF RotationIInv, CountsBounded
<1>4. n \in Nat /\ n <= commits /\ commits <= commits
  BY <1>2, <1>3, SMT
<1> HIDE DEF n
<1>5. h \in Cursor /\ h.index = n
  BY <1>2, <1>4, Zenon DEF Cursor
<1>6. "persist" \in Places /\ "persist" \in Passing
  BY DEF Places, Steps, Passing
<1>7. h = [family |-> lastOperatorFamily, index |-> n]
  OBVIOUS
<1> HIDE DEF h
<1>8. /\ j \in Job /\ j.pc = "persist" /\ j.manual = job[i].manual
      /\ j.cancelled = job[i].cancelled /\ j.set = job[i].set /\ j.held = h
  BY <1>2, <1>5, <1>6, Zenon DEF Job
<1> HIDE DEF j
<1>9. /\ job[i].pc \in Passing /\ job[i].pc \in Steps
      /\ j.pc # "free" /\ j.pc # "index" /\ j.pc # "ckWrite" /\ j.pc \in {"index", "persist"}
      /\ j.pc \notin {"verify", "commit"} /\ j.pc \notin {"commit", "restoreToml", "restoreRust"}
      /\ j.pc \notin Asleep \cup {"ckRead", "ckWrite"} /\ j.pc \notin Asleep
      /\ j.pc \notin {"probe", "toml", "rust", "verify", "commit"}
      /\ job[i].pc \notin {"verify", "restoreToml", "restoreRust"}
  BY <1>1, <1>8 DEF Steps, Passing, Asleep
<1>10. job[i].set \in Sets
  BY <1>9, Zenon DEF RotationIInv, Picked, Passing
<1>11. PassMove(i, j)
  BY <1>1, <1>8, <1>9, <1>10, Zenon DEF PassMove
<1>12. VerifiedAnswered'
  BY <1>1, <1>2, AnsweredKept, Zenon
<1>13. PassVets'
  BY <1>2, <1>9, <1>11, MoveVets, Zenon
<1>14. MutePending'
  BY <1>1, <1>2, <1>9, <1>11, MoveMute, Zenon
<1>15. CountsBounded'
  <2>1. cursor.index <= commits
    BY Zenon DEF RotationIInv, CountsBounded
  <2>2. /\ commits' \in Nat /\ commits <= commits' /\ rotationIndex' <= commits'
        /\ cursor'.index <= commits' /\ j.held.index <= commits'
    BY <1>1, <1>2, <1>4, <1>5, <1>8, <2>1, Zenon
  <2> QED
    BY <1>9, <1>11, <2>2, MoveBounded, Zenon
<1>16. Counts'
  <2>1. PassCounts => landed # NoSet /\ rotationIndex + 1 = commits
                      /\ job[i].held.index = rotationIndex
    BY <1>1, Zenon DEF PassCounts
  <2>2. PassCounts => n = commits
    BY <2>1, Zenon DEF n
  <2>3. PassCounts /\ (landed # NoSet => lastOperatorFamily = Lead[landed])
        => j.held = [family |-> Lead[landed'], index |-> commits']
    BY <1>1, <1>7, <1>8, <2>1, <2>2, Zenon
  <2> QED
    BY <1>1, <1>2, <1>9, <1>11, <2>1, <2>2, <2>3, MoveCounts, Zenon
<1> QED
  BY <1>1, <1>2, <1>4, <1>11, <1>12, <1>13, <1>14, <1>15, <1>16, MoveKeeps, Zenon
LEMMA PersistKeeps ==
    ASSUME RotationIInv, NEW i \in Slots, NEW written \in BOOLEAN,
           persistRotationCursor(i, written)
    PROVE  RotationIInv'
<1> DEFINE j == AfterPass(job[i])
           causes == IF written THEN {} ELSE {"unsaved"}
<1>1. /\ job[i].pc = "persist" /\ rotationJob' = rotationJob /\ pool' = pool
      /\ unvetted' = unvetted /\ note(causes)
      /\ job' = [job EXCEPT ![i] = AfterPass(job[i])]
      /\ lastVerifiedSet' = lastVerifiedSet /\ landed' = landed
      /\ lastOperatorFamily' = lastOperatorFamily /\ commits' = commits
      /\ rotationIndex' = rotationIndex
      /\ cursor' = IF written THEN job[i].held ELSE cursor
  BY Zenon DEF persistRotationCursor, finish, runtimeVars, runtimeState
<1>2. /\ events \subseteq Causes /\ unvetted' \in BOOLEAN /\ job[i] \in Job
      /\ commits \in Nat /\ cursor \in Cursor /\ lastOperatorFamily \in Families
      /\ lastVerifiedSet \in Picks /\ landed \in Picks /\ VerifiedAnswered
      /\ rotationIndex \in Nat
  BY <1>1, Zenon DEF RotationIInv, RotationTypeOK
<1>3. causes \in SUBSET Causes /\ (~written => "unsaved" \in causes)
  BY DEF Causes
<1> HIDE DEF causes
<1>4. Grown /\ events' \subseteq Causes /\ (~written => "unsaved" \in events' \/ "crossed" \in events')
  BY <1>1, <1>2, <1>3, NoteGrows, Zenon
<1>5. job[i].pc \in Steps /\ job[i].pc \notin {"verify", "restoreToml", "restoreRust"}
  BY <1>1 DEF Steps
<1>6. PassMove(i, j)
  BY <1>1, <1>2, <1>5, FinishMove, Zenon DEF RotationIInv
<1>7. j.held = NoCursor /\ j.pc \in {"free", "wait", "ckRead"}
  BY <1>2, AfterPassJob, Zenon
<1> HIDE DEF j
<1>8. /\ j.pc # "index" /\ j.pc # "persist" /\ j.pc # "ckWrite"
      /\ j.pc \notin {"probe", "toml", "rust", "verify", "commit"}
      /\ j.pc \notin {"verify", "commit"} /\ j.pc \notin {"commit", "restoreToml", "restoreRust"}
      /\ j.pc \notin {"index", "persist"}
  BY <1>7
<1>9. VerifiedAnswered'
  BY <1>1, <1>2, <1>4, AnsweredKept, Zenon
<1>10. PassVets'
  BY <1>4, <1>6, <1>8, MoveVets, Zenon
<1>11. MutePending'
  BY <1>1, <1>4, <1>5, <1>6, MoveMute, Zenon
<1>12. job[i].held \in Cursor /\ job[i].held.index <= commits
  BY <1>2, RecordOfJob, Zenon DEF RotationIInv, CountsBounded
<1>13. cursor' \in Cursor /\ cursor'.index <= commits /\ rotationIndex <= commits
  BY <1>1, <1>2, <1>12, Zenon DEF RotationIInv, CountsBounded
<1>14. CountsBounded'
  <2>1. j.held.index = 0
    BY <1>7, FreeJob, Zenon
  <2>2. commits <= commits' /\ j.held.index <= commits'
    BY <1>1, <1>2, <2>1, SMT
  <2> QED
    BY <1>1, <1>2, <1>6, <1>8, <1>13, <2>2, MoveBounded, Zenon
<1>15. Counts'
  <2>1. ~Past({"crossed", "unsaved"})' => written
    BY <1>4, Zenon DEF Past
  <2>2. PassCounts /\ written => cursor' = [family |-> Lead[landed], index |-> commits]
    BY <1>1, Zenon DEF PassCounts
  <2>3. LET r == [family |-> Lead[landed], index |-> commits]
        IN  r.index = commits /\ r.family = Lead[landed]
    BY Zenon
  <2>4. PassCounts /\ written => cursor'.index = commits' /\ cursor'.family = Lead[landed']
    BY <1>1, <2>2, <2>3, Zenon
  <2>5. job[i].pc # "index"
    BY <1>1
  <2> QED
    BY <1>1, <1>4, <1>6, <1>8, <2>1, <2>4, <2>5, MoveCounts, Zenon
<1> QED
  BY <1>1, <1>2, <1>4, <1>6, <1>9, <1>10, <1>11, <1>13, <1>14, <1>15, MoveKeeps, Zenon

LEMMA CheckpointWriteKeeps ==
    ASSUME RotationIInv, NEW i \in Slots, checkpointWrite(i)
    PROVE  RotationIInv'
<1> DEFINE j == IF job[i].cancelled THEN Free ELSE NextWindow(job[i])
<1>1. /\ job[i].pc = "ckWrite" /\ rotationJob' = rotationJob /\ pool' = pool
      /\ unvetted' = unvetted /\ events' = events
      /\ job' = [job EXCEPT ![i] = j]
      /\ lastVerifiedSet' = lastVerifiedSet /\ landed' = landed
      /\ lastOperatorFamily' = lastOperatorFamily /\ commits' = commits
      /\ rotationIndex' = rotationIndex /\ cursor' = job[i].held
  BY Zenon DEF checkpointWrite, rotationGhost, runtimeVars, runtimeState
<1>2. /\ events' \subseteq Causes /\ unvetted' \in BOOLEAN /\ job[i] \in Job /\ Grown
      /\ commits \in Nat /\ lastOperatorFamily \in Families
      /\ lastVerifiedSet \in Picks /\ landed \in Picks /\ VerifiedAnswered
      /\ rotationIndex \in Nat
  BY <1>1, SameGrows, Zenon DEF RotationIInv, RotationTypeOK
<1>3. /\ job[i].pc \in Steps /\ job[i].pc \notin {"verify", "restoreToml", "restoreRust"}
      /\ job[i].pc # "index" /\ job[i].pc \notin {"index", "persist"}
  BY <1>1 DEF Steps
<1>4. ~job[i].manual /\ job[i].manual \in BOOLEAN /\ job[i].cancelled \in BOOLEAN
  BY <1>1, <1>2, RecordOfJob, Zenon DEF RotationIInv, TimerArmed
<1>5. /\ j \in Job /\ j.held = NoCursor /\ (j.pc = "free" \/ j.pc = "wait")
      /\ ~j.manual /\ ~j.cancelled /\ (job[i].cancelled => j = Free)
      /\ (~job[i].cancelled => j.pc = "wait")
  BY <1>2, FreeJob, WindowJob, Zenon
<1> HIDE DEF j
<1>6. /\ j.pc # "index" /\ j.pc # "persist" /\ j.pc # "ckWrite" /\ j.pc \notin Passing
      /\ j.pc \notin {"probe", "toml", "rust", "verify", "commit"}
      /\ j.pc \notin {"verify", "commit"} /\ j.pc \notin {"commit", "restoreToml", "restoreRust"}
      /\ j.pc \notin {"index", "persist"} /\ (~job[i].cancelled => j.pc # "free")
  BY <1>5 DEF Passing, Steps
<1>7. ~job[i].cancelled => j.manual = job[i].manual /\ j.cancelled = job[i].cancelled
  <2>1. j.manual \in BOOLEAN /\ j.cancelled \in BOOLEAN
    BY <1>5, RecordOfJob, Zenon
  <2> QED
    BY <2>1, <1>4, <1>5
<1>8. PassMove(i, j)
  BY <1>1, <1>3, <1>5, <1>6, <1>7, Zenon DEF PassMove
<1>9. VerifiedAnswered'
  BY <1>1, <1>2, AnsweredKept, Zenon
<1>10. PassVets'
  BY <1>2, <1>6, <1>8, MoveVets, Zenon
<1>11. MutePending'
  BY <1>1, <1>2, <1>3, <1>8, MoveMute, Zenon
<1>12. cursor' \in Cursor /\ cursor'.index <= commits /\ rotationIndex <= commits
  BY <1>1, <1>2, RecordOfJob, Zenon DEF RotationIInv, CountsBounded
<1>13. CountsBounded'
  <2>1. j.held.index = 0
    BY <1>5, FreeJob, Zenon
  <2>2. commits <= commits' /\ j.held.index <= commits'
    BY <1>1, <1>2, <2>1, SMT
  <2> QED
    BY <1>1, <1>2, <1>6, <1>8, <1>12, <2>2, MoveBounded, Zenon
<1>14. Counts'
  <2>1. PassCounts => cursor' = cursor
    BY <1>1, Zenon DEF PassCounts
  <2> QED
    BY <1>1, <1>2, <1>3, <1>6, <1>8, <2>1, MoveCounts, Zenon
<1> QED
  BY <1>1, <1>2, <1>8, <1>9, <1>10, <1>11, <1>12, <1>13, <1>14, MoveKeeps, Zenon
-----------------------------------------------------------------------------
(* The steps that begin a pass. *)
LEMMA SelectPicks ==
    ASSUME RotationIInv, commits < MaxCommits
    PROVE  LET s == selectRandomSet
           IN  \/ s = NoSet
               \/ s \in Sets /\ s # NoSet /\ lastOperatorFamily \notin Operators[s]
<1> DEFINE order == Order[rotationIndex]
           survives(k) == lastOperatorFamily \notin Operators[order[k]]
           first == {k \in DOMAIN order : survives(k) /\ \A l \in 1..(k - 1) : ~survives(l)}
<1>1. rotationIndex \in 0..(MaxCommits - 1)
  <2>1. /\ rotationIndex \in Nat /\ commits \in Nat /\ rotationIndex <= commits
        /\ MaxCommits \in Nat
    BY RotationAssumption, Zenon DEF RotationIInv, RotationTypeOK, CountsBounded
  <2> QED
    BY <2>1, SMT
<1>2. order \in Seq(Sets)
  BY <1>1, RotationAssumption, Zenon
<1>3. selectRandomSet = IF first = {} THEN NoSet ELSE order[CHOOSE k \in first : TRUE]
  BY DEF selectRandomSet
<1>4. \A k \in DOMAIN order : order[k] \in Sets
  <2> HIDE DEF order
  <2> QED
    BY <1>2, SMT
<1>5. \A k \in first : order[k] \in Sets /\ lastOperatorFamily \notin Operators[order[k]]
  <2> HIDE DEF order
  <2> QED
    BY <1>4, Zenon
<1> HIDE DEF first, order
<1>6. CASE first = {}
  BY <1>3, <1>6, Zenon
<1>7. CASE first # {}
  <2>1. (CHOOSE k \in first : TRUE) \in first
    BY <1>7, Zenon
  <2> QED
    BY <1>3, <1>5, <1>7, <2>1, RotationAssumption, Zenon
<1> QED
  BY <1>6, <1>7

BeginMove(i, j) ==
    /\ j \in Job /\ job[i].pc \notin Steps /\ rotationJob \in Slots
    /\ job' = [job EXCEPT ![i] = j] /\ rotationJob' = rotationJob
    /\ j.pc \in {"free", "wait", "ckRead", "probe"}
    /\ j.cancelled => job[i].cancelled
    /\ \/ i = rotationJob /\ ~j.manual /\ ~j.cancelled /\ j.pc # "free"
       \/ i # rotationJob /\ (j = Free \/ (j.manual /\ j.pc = "probe"))
    /\ j.pc = "probe" => j.set \in Sets /\ lastOperatorFamily \notin Operators[j.set]
    /\ j.held.index <= commits
    /\ (\E l \in Slots : l # i /\ job[l].pc \in Steps) => Past({"crossed"})'

LEMMA ComposeBegins ==
    ASSUME RotationIInv, NEW i \in Slots, timerFires(i) \/ rotateNow(i)
    PROVE  Grown /\ events' \subseteq Causes /\ \E j : BeginMove(i, j)
<1> DEFINE manual == job[i].pc = "free"
           s == selectRandomSet
           k == [job[i] EXCEPT !.manual = manual]
           j == IF s = NoSet THEN AfterPass(k)
                ELSE [job[i] EXCEPT !.pc = "probe", !.manual = manual, !.set = s]
           causes == IF Busy(i) THEN {"crossed"} ELSE {}
<1>1. /\ job \in [Slots -> Job] /\ rotationJob \in Slots \cup {NoJob} /\ events \subseteq Causes
      /\ TimerArmed /\ job[i] \in Job /\ commits \in Nat
  BY Zenon DEF RotationIInv, RotationTypeOK
<1>2. \/ job[i].pc \in Asleep /\ compose(i, FALSE)
      \/ job[i].pc = "free" /\ rotationJob # NoJob /\ compose(i, TRUE)
  BY Zenon DEF timerFires, rotateNow
<1>3. /\ compose(i, manual) /\ job[i].pc \notin Steps
      /\ \/ manual = FALSE /\ job[i].pc \in Asleep
         \/ manual = TRUE /\ job[i].pc = "free" /\ rotationJob # NoJob
  <2>1. CASE job[i].pc \in Asleep /\ compose(i, FALSE)
    <3>1. manual = FALSE /\ job[i].pc \notin Steps
      BY <2>1, PlaceFacts DEF Asleep
    <3> QED
      BY <2>1, <3>1, Zenon
  <2>2. CASE job[i].pc = "free" /\ rotationJob # NoJob /\ compose(i, TRUE)
    <3>1. manual = TRUE /\ job[i].pc \notin Steps
      BY <2>2, PlaceFacts
    <3> QED
      BY <2>2, <3>1, Zenon
  <2> QED
    BY <1>2, <2>1, <2>2, Zenon
<1> HIDE DEF manual
<1>4. /\ commits < MaxCommits /\ job' = [job EXCEPT ![i] = j]
      /\ note(causes) /\ rotationJob' = rotationJob
  BY <1>3, Zenon DEF compose
<1>5. s = NoSet \/ (s \in Sets /\ s # NoSet /\ lastOperatorFamily \notin Operators[s])
  BY <1>4, SelectPicks, Zenon
<1> HIDE DEF s
<1>6. causes \in SUBSET Causes /\ (Busy(i) => "crossed" \in causes)
  BY DEF Causes
<1> HIDE DEF causes
<1>7. Grown /\ events' \subseteq Causes /\ (Busy(i) => "crossed" \in events')
  BY <1>1, <1>4, <1>6, NoteGrows, Zenon
<1>8. (\E l \in Slots : l # i /\ job[l].pc \in Steps) => Past({"crossed"})'
  BY <1>7, Zenon DEF Busy, Past
<1>9. /\ k \in Job /\ k.manual = manual /\ k.cancelled = job[i].cancelled
  <2>1. manual \in BOOLEAN
    BY <1>3, Zenon
  <2> QED
    BY <1>1, <2>1, Zenon DEF Job
<1> HIDE DEF k
<1>10. \/ i = rotationJob /\ ~manual /\ ~job[i].cancelled /\ rotationJob \in Slots
       \/ i # rotationJob /\ manual /\ rotationJob \in Slots
  BY <1>1, <1>3, RotationAssumption, Zenon DEF TimerArmed
<1>11. j.held.index <= commits /\ j \in Job
       /\ j.pc \in {"free", "wait", "ckRead", "probe"}
       /\ (j.cancelled => job[i].cancelled)
       /\ (j.pc = "probe" => j.set \in Sets /\ lastOperatorFamily \notin Operators[j.set])
       /\ (~manual /\ ~job[i].cancelled => j.pc # "free" /\ ~j.manual /\ ~j.cancelled)
       /\ (manual => j = Free \/ (j.manual /\ j.pc = "probe"))
  <2>1. CASE s = NoSet
    <3>1. j = AfterPass(k)
      BY <2>1
    <3> HIDE DEF j
    <3>2. /\ j \in Job /\ j.held = NoCursor
          /\ j.pc \in {"free", "wait", "ckRead"}
          /\ j.pc = "free" => j = Free /\ (k.manual \/ k.cancelled)
          /\ j.pc # "free" => ~k.manual /\ ~j.manual /\ j.cancelled = k.cancelled
      BY <1>9, <3>1, AfterPassJob, Zenon
    <3>3. j.held.index = 0
      BY <3>2, FreeJob, Zenon
    <3>4. j.held.index <= commits
      BY <1>1, <3>3, SMT
    <3>5. j.pc # "probe" /\ j.pc \in {"free", "wait", "ckRead", "probe"}
      BY <3>2
    <3>6. j = Free => ~j.cancelled
      BY FreeJob, Zenon
    <3> QED
      BY <1>9, <3>2, <3>4, <3>5, <3>6, Zenon
  <2>2. CASE s # NoSet
    <3>1. j = [job[i] EXCEPT !.pc = "probe", !.manual = manual, !.set = s]
      BY <2>2
    <3> HIDE DEF j
    <3>2. "probe" \in Places /\ s \in Picks /\ manual \in BOOLEAN
      BY <1>3, <1>5, <2>2, PickingFacts, PlaceFacts, Zenon DEF Picks
    <3>3. /\ j \in Job /\ j.pc = "probe" /\ j.manual = manual /\ j.set = s
          /\ j.cancelled = job[i].cancelled /\ j.held = job[i].held
      BY <1>1, <3>1, <3>2, Zenon DEF Job
    <3>4. j.held.index <= commits
      BY <3>3, Zenon DEF RotationIInv, CountsBounded
    <3>5. j.pc # "free" /\ j.pc \in {"free", "wait", "ckRead", "probe"}
      BY <3>3
    <3> QED
      BY <1>5, <2>2, <3>3, <3>4, <3>5, Zenon
  <2> QED
    BY <2>1, <2>2
<1> HIDE DEF j
<1>12. BeginMove(i, j)
  BY <1>3, <1>4, <1>8, <1>10, <1>11, Zenon DEF BeginMove
<1> QED
  BY <1>7, <1>12, Zenon
LEMMA BeginKeeps ==
    ASSUME RotationIInv, Grown, events' \subseteq Causes, NEW i \in Slots, NEW j, BeginMove(i, j),
           Memory' = Memory, pool' = pool, unvetted' = unvetted
    PROVE  RotationIInv'
<1>1. /\ lastVerifiedSet' = lastVerifiedSet /\ lastOperatorFamily' = lastOperatorFamily
      /\ rotationIndex' = rotationIndex /\ cursor' = cursor /\ commits' = commits
      /\ landed' = landed /\ rotationJob' = rotationJob /\ rotationJob \in Slots
  BY Zenon DEF Memory, BeginMove
<1>2. /\ RotationTypeOK /\ CountsBounded /\ TimerArmed /\ OnePass /\ Picked
      /\ PassVets /\ VerifiedAnswered /\ MutePending /\ Counts
  BY Zenon DEF RotationIInv
<1>3. /\ job' \in [Slots -> Job] /\ job'[i] = j /\ j \in Job /\ job[i].pc \notin Steps
      /\ \A l \in Slots : l # i => job'[l] = job[l]
  BY <1>2, Zenon DEF BeginMove, RotationTypeOK
<1>4. /\ j.pc # "index" /\ j.pc # "persist" /\ j.pc # "ckWrite"
      /\ j.pc \notin {"verify", "commit"} /\ j.pc \notin {"commit", "restoreToml", "restoreRust"}
      /\ j.pc \notin {"index", "persist"}
      /\ j.pc \in Passing => j.pc = "probe"
      /\ j.pc \in {"probe", "toml", "rust", "verify", "commit"} => j.pc = "probe"
  BY DEF BeginMove, Passing, Steps
<1>5. RotationTypeOK'
  BY <1>1, <1>2, <1>3, Zenon DEF RotationTypeOK
<1>6. CountsBounded'
  BY <1>1, <1>2, <1>3, <1>4, Zenon DEF CountsBounded, BeginMove
<1>7. OnePass' /\ Picked'
  <2>1. ASSUME NEW l \in Slots, NEW m \in Slots, l # m, job'[l].pc \in Steps, job'[m].pc \in Steps
        PROVE  Past({"crossed"})'
    <3>1. CASE l = i \/ m = i
      BY <2>1, <3>1, <1>3, Zenon DEF BeginMove
    <3>2. CASE l # i /\ m # i
      BY <2>1, <3>2, <1>2, <1>3, PastKept, Zenon DEF OnePass
    <3> QED
      BY <3>1, <3>2
  <2>2. ASSUME NEW l \in Slots, job'[l].pc \in Passing
        PROVE  job'[l].set \in Sets
    <3>1. CASE l = i
      BY <2>2, <3>1, <1>3, <1>4, Zenon DEF BeginMove
    <3>2. CASE l # i
      BY <2>2, <3>2, <1>2, <1>3, Zenon DEF Picked, Passing
    <3> QED
      BY <3>1, <3>2
  <2> QED
    BY <2>1, <2>2, Zenon DEF OnePass, Picked, Passing
<1>8. TimerArmed'
  <2>1. job'[rotationJob].pc # "free"
    <3>1. CASE rotationJob = i
      BY <3>1, <1>3, Zenon DEF BeginMove
    <3>2. CASE rotationJob # i
      BY <3>2, <1>1, <1>2, <1>3, RotationAssumption, Zenon DEF TimerArmed
    <3> QED
      BY <3>1, <3>2
  <2>2. ASSUME NEW l \in Slots
        PROVE  /\ l = rotationJob => ~job'[l].manual /\ ~job'[l].cancelled
               /\ job'[l].pc \in Asleep => l = rotationJob
               /\ job'[l].pc # "free" /\ ~job'[l].manual /\ ~job'[l].cancelled
                     => l = rotationJob
               /\ job'[l].cancelled => Past({"cancelled", "crossed"})'
               /\ job'[l].pc \in {"ckRead", "ckWrite"} => ~job'[l].manual
    <3>0. job[l].cancelled => Past({"cancelled", "crossed"})'
      BY <1>2, PastKept, Zenon DEF TimerArmed
    <3>1. CASE l # i
      BY <3>0, <3>1, <1>2, <1>3, Zenon DEF TimerArmed
    <3>2. CASE l = i /\ i = rotationJob
      BY <3>2, <1>3, Zenon DEF BeginMove
    <3>3. CASE l = i /\ i # rotationJob /\ j = Free
      <4>1. job'[l].pc = "free" /\ ~job'[l].cancelled
        BY <3>3, <1>3, FreeJob, Zenon
      <4>2. job'[l].pc \notin Asleep /\ job'[l].pc \notin {"ckRead", "ckWrite"}
        BY <4>1 DEF Asleep
      <4> QED
        BY <3>3, <4>1, <4>2, Zenon
    <3>4. CASE l = i /\ i # rotationJob /\ j.manual /\ j.pc = "probe"
      <4>1. job'[l] = j /\ j.pc \notin Asleep /\ j.pc \notin {"ckRead", "ckWrite"}
        BY <3>4, <1>3 DEF Asleep
      <4> QED
        BY <3>0, <3>4, <4>1, Zenon DEF BeginMove
    <3> QED
      BY <3>1, <3>2, <3>3, <3>4, Zenon DEF BeginMove
  <2> QED
    BY <1>1, <2>1, <2>2, Zenon DEF TimerArmed
<1>9. PassVets'
  <2>1. Past({"declined", "crossed"}) => Past({"declined", "crossed"})'
    BY PastKept, SMT
  <2>2. ASSUME NEW l \in Slots
        PROVE  \/ Past({"declined", "crossed"})'
               \/ /\ job'[l].pc \in {"verify", "commit"} => pool' = job'[l].set
                  /\ job'[l].pc \in {"commit", "restoreToml", "restoreRust"} => job'[l].set \notin Mute
    <3>1. CASE l = i
      BY <3>1, <1>3, <1>4, Zenon
    <3>2. CASE l # i
      <4>1. job'[l] = job[l]
        BY <3>2, <1>3, Zenon
      <4>2. \/ Past({"declined", "crossed"})
            \/ /\ job[l].pc \in {"verify", "commit"} => pool = job[l].set
               /\ job[l].pc \in {"commit", "restoreToml", "restoreRust"} => job[l].set \notin Mute
        BY <1>2, Zenon DEF PassVets
      <4> QED
        BY <2>1, <4>1, <4>2, Zenon
    <3> QED
      BY <3>1, <3>2
  <2> QED
    BY <2>2, Zenon DEF PassVets
<1>10. VerifiedAnswered'
  BY <1>1, <1>2, AnsweredKept, Zenon
<1>11. MutePending'
  <2> SUFFICES ASSUME pool' \in Mute, lastVerifiedSet' # NoSet, ~unvetted',
                      ~Past({"declined", "crossed", "cancelled"})'
               PROVE  \E l \in Slots : job'[l].pc \in {"verify", "restoreToml", "restoreRust"}
    BY Zenon DEF MutePending
  <2>1. ~Past({"declined", "crossed", "cancelled"})
    BY PastKept, SMT
  <2>2. PICK l \in Slots : job[l].pc \in {"verify", "restoreToml", "restoreRust"}
    BY <1>1, <1>2, <2>1, Zenon DEF MutePending
  <2>3. job[l].pc \in Steps
    BY <2>2 DEF Steps
  <2> QED
    BY <1>3, <2>2, <2>3, Zenon
<1>12. Counts'
  <2> SUFFICES ASSUME ~Past({"crossed", "unsaved"})'
               PROVE  CursorMemory' /\ CursorDurable' /\ PassCounts'
    BY Zenon DEF Counts
  <2>1. ~Past({"crossed", "unsaved"}) /\ ~Past({"crossed"})'
    <3>1. ~Past({"crossed", "unsaved"})
      BY PastKept, SMT
    <3> QED
      BY <3>1, SMT DEF Past
  <2>2. \A l \in Slots : job[l].pc \notin Steps
    BY <1>3, <2>1, Zenon DEF BeginMove
  <2>3. CursorMemory /\ CursorDurable
    BY <1>2, <2>1, Zenon DEF Counts
  <2>4. {"index", "persist", "ckWrite", "probe", "toml", "rust", "verify", "commit"} \subseteq Steps
    BY DEF Steps
  <2>5. ~At({"index"}) /\ ~At({"index", "persist"}) /\ Active
    BY <1>1, <2>2, <2>4, RotationAssumption, Zenon DEF At, Active
  <2>6. /\ landed # NoSet => lastOperatorFamily = Lead[landed]
        /\ rotationIndex = commits /\ cursor.index = commits
        /\ landed # NoSet => cursor.family = Lead[landed]
    BY <2>3, <2>5, Zenon DEF CursorMemory, CursorDurable
  <2>7. CursorMemory' /\ CursorDurable'
    BY <1>1, <2>6, Zenon DEF CursorMemory, CursorDurable
  <2>8. ASSUME NEW l \in Slots
        PROVE  /\ job'[l].pc \notin {"index", "persist"} /\ job'[l].pc # "ckWrite"
               /\ job'[l].pc # "index" /\ job'[l].pc # "persist"
               /\ job'[l].pc \in {"probe", "toml", "rust", "verify", "commit"} /\ landed # NoSet
                     => Lead[landed] \notin Operators[job'[l].set]
    <3>1. CASE l = i
      BY <3>1, <1>3, <1>4, <2>6, Zenon DEF BeginMove
    <3>2. CASE l # i
      <4>1. job'[l].pc \notin Steps
        BY <3>2, <1>3, <2>2, Zenon
      <4> QED
        BY <4>1 DEF Steps
    <3> QED
      BY <3>1, <3>2
  <2>9. PassCounts'
    BY <1>1, <2>8, Zenon DEF PassCounts
  <2> QED
    BY <2>7, <2>9
<1> QED
  BY <1>5, <1>6, <1>7, <1>8, <1>9, <1>10, <1>11, <1>12, Zenon DEF RotationIInv
-----------------------------------------------------------------------------
(* stop, start and the cadence: the armed timer is cancelled, another armed. *)
Ends == {"free", "settle", "wait", "verify"}

Kept(k, j) == k.pc = j.pc /\ k.set = j.set /\ k.held = j.held

Rearmed ==
    /\ job' \in [Slots -> Job]
    /\ \A l \in Slots :
          \/ Kept(job'[l], job[l])
          \/ /\ job'[l].pc \notin Steps /\ job'[l].held = NoCursor /\ job[l].pc \in Ends
             /\ job[l].pc = "verify" => Past({"cancelled", "crossed"})'

Idle == <<lastVerifiedSet, cursor, commits, landed, unvetted, pool>>

LEMMA RearmedKeeps ==
    ASSUME RotationIInv, Grown, Rearmed, Idle' = Idle, rotationIndex' <= commits
    PROVE  /\ CountsBounded' /\ OnePass' /\ Picked' /\ PassVets' /\ VerifiedAnswered'
           /\ MutePending'
           /\ \A l \in Slots : job'[l].pc \in Steps => Kept(job'[l], job[l])
           /\ At({"index", "persist"})' <=> At({"index", "persist"})
           /\ At({"index"})' <=> At({"index"})
<1>1. /\ lastVerifiedSet' = lastVerifiedSet /\ cursor' = cursor /\ commits' = commits
      /\ landed' = landed /\ unvetted' = unvetted /\ pool' = pool
  BY DEF Idle
<1>2. /\ RotationTypeOK /\ CountsBounded /\ TimerArmed /\ OnePass /\ Picked
      /\ PassVets /\ VerifiedAnswered /\ MutePending
  BY Zenon DEF RotationIInv
<1>3. \A l \in Slots : job'[l].pc \in Steps => Kept(job'[l], job[l])
  BY Zenon DEF Rearmed
<1>4. \A l \in Slots : job'[l].pc \in Steps => job[l].pc \in Steps
  BY <1>3, Zenon DEF Kept
<1>5. Passing \subseteq Steps /\ "index" \in Steps /\ "persist" \in Steps
      /\ {"verify", "commit"} \subseteq Steps
      /\ {"commit", "restoreToml", "restoreRust"} \subseteq Steps
  BY DEF Passing, Steps
<1>6. CountsBounded'
  <2>1. ASSUME NEW l \in Slots
        PROVE  job'[l].held.index <= commits
               /\ (job'[l].pc = "index" => job'[l].held.index < commits)
    <3>1. CASE Kept(job'[l], job[l])
      BY <3>1, <1>2, Zenon DEF Kept, CountsBounded
    <3>2. CASE job'[l].pc \notin Steps /\ job'[l].held = NoCursor
      <4>1. commits \in Nat /\ job'[l].held.index = 0 /\ job'[l].pc # "index"
        BY <3>2, <1>2, <1>5, FreeJob, Zenon DEF RotationTypeOK
      <4> QED
        BY <4>1, SMT
    <3> QED
      BY <3>1, <3>2, Zenon DEF Rearmed
  <2> QED
    BY <1>1, <1>2, <2>1, Zenon DEF CountsBounded
<1>7. OnePass' /\ Picked'
  <2>1. ASSUME NEW l \in Slots, NEW m \in Slots, l # m, job'[l].pc \in Steps, job'[m].pc \in Steps
        PROVE  Past({"crossed"})'
    BY <1>2, <1>4, <2>1, PastKept, Zenon DEF OnePass
  <2>2. ASSUME NEW l \in Slots, job'[l].pc \in Passing
        PROVE  job'[l].set \in Sets
    BY <1>2, <1>3, <1>5, <2>2, Zenon DEF Picked, Passing, Kept
  <2> QED
    BY <2>1, <2>2, Zenon DEF OnePass, Picked, Passing
<1>8. PassVets'
  <2>1. Past({"declined", "crossed"}) => Past({"declined", "crossed"})'
    BY PastKept, SMT
  <2>2. ASSUME NEW l \in Slots
        PROVE  \/ Past({"declined", "crossed"})'
               \/ /\ job'[l].pc \in {"verify", "commit"} => pool' = job'[l].set
                  /\ job'[l].pc \in {"commit", "restoreToml", "restoreRust"} => job'[l].set \notin Mute
    <3>1. CASE job'[l].pc \notin Steps
      BY <3>1, <1>5, Zenon
    <3>2. CASE job'[l].pc \in Steps
      <4>1. job'[l].pc = job[l].pc /\ job'[l].set = job[l].set
        BY <3>2, <1>3, Zenon DEF Kept
      <4>2. \/ Past({"declined", "crossed"})
            \/ /\ job[l].pc \in {"verify", "commit"} => pool = job[l].set
               /\ job[l].pc \in {"commit", "restoreToml", "restoreRust"} => job[l].set \notin Mute
        BY <1>2, Zenon DEF PassVets
      <4> QED
        BY <1>1, <2>1, <4>1, <4>2, Zenon
    <3> QED
      BY <3>1, <3>2
  <2> QED
    BY <2>2, Zenon DEF PassVets
<1>9. VerifiedAnswered'
  BY <1>1, <1>2, AnsweredKept, Zenon
<1>10. MutePending'
  <2> SUFFICES ASSUME pool' \in Mute, lastVerifiedSet' # NoSet, ~unvetted',
                      ~Past({"declined", "crossed", "cancelled"})'
               PROVE  \E l \in Slots : job'[l].pc \in {"verify", "restoreToml", "restoreRust"}
    BY Zenon DEF MutePending
  <2>1. ~Past({"declined", "crossed", "cancelled"}) /\ ~Past({"cancelled", "crossed"})'
    BY PastKept, PastMore, SMT
  <2>2. PICK l \in Slots : job[l].pc \in {"verify", "restoreToml", "restoreRust"}
    BY <1>1, <1>2, <2>1, Zenon DEF MutePending
  <2>3. job[l].pc \in Ends => job[l].pc = "verify"
    BY <2>2 DEF Ends
  <2>4. Kept(job'[l], job[l])
    BY <2>1, <2>3, Zenon DEF Rearmed
  <2> QED
    BY <2>2, <2>4, Zenon DEF Kept
<1>11. /\ At({"index", "persist"})' <=> At({"index", "persist"})
       /\ At({"index"})' <=> At({"index"})
  <2>1. ASSUME NEW l \in Slots
        PROVE  /\ job'[l].pc \in {"index", "persist"} <=> job[l].pc \in {"index", "persist"}
               /\ job'[l].pc \in {"index"} <=> job[l].pc \in {"index"}
    <3>1. CASE Kept(job'[l], job[l])
      BY <3>1, Zenon DEF Kept
    <3>2. CASE job'[l].pc \notin Steps /\ job[l].pc \in Ends
      BY <3>2 DEF Steps, Ends
    <3> QED
      BY <3>1, <3>2, Zenon DEF Rearmed
  <2> QED
    BY <2>1, Zenon DEF At
<1> QED
  BY <1>3, <1>6, <1>7, <1>8, <1>9, <1>10, <1>11
LEMMA CancelledJob ==
    ASSUME NEW j \in Job
    PROVE  LET k == Cancelled(j)
           IN  /\ k \in Job
               /\ j.pc \in Asleep \cup {"verify"} => k = Free
               /\ j.pc \notin Asleep \cup {"verify"} =>
                     /\ k.pc = j.pc /\ k.set = j.set /\ k.held = j.held
                     /\ k.manual = j.manual /\ k.cancelled
<1>1. CASE j.pc \in Asleep \cup {"verify"}
  <2>1. Cancelled(j) = Free
    BY <1>1 DEF Cancelled
  <2> QED
    BY <1>1, <2>1, FreeJob, Zenon
<1>2. CASE j.pc \notin Asleep \cup {"verify"}
  <2>1. Cancelled(j) = [j EXCEPT !.cancelled = TRUE]
    BY <1>2 DEF Cancelled
  <2>2. LET k == [j EXCEPT !.cancelled = TRUE]
        IN  /\ k \in Job /\ k.pc = j.pc /\ k.set = j.set /\ k.held = j.held
            /\ k.manual = j.manual /\ k.cancelled
    BY Zenon DEF Job
  <2> QED
    BY <1>2, <2>1, <2>2, Zenon
<1> QED
  BY <1>1, <1>2

\* What stop() leaves of the coroutines: the armed timer is gone if it slept
\* and marked as cancelled if it was in a pass; manual passes go on.
LEMMA StopFacts ==
    ASSUME RotationIInv
    PROVE  /\ StopJobs \in [Slots -> Job] /\ CancelEvent \in SUBSET Causes
           /\ \A l \in Slots :
                 LET k == StopJobs[l]
                 IN  /\ \/ /\ Kept(k, job[l]) /\ k.manual = job[l].manual
                           /\ k.cancelled => job[l].cancelled \/ "cancelled" \in CancelEvent
                        \/ /\ k = Free /\ job[l].pc \in Ends
                           /\ job[l].pc = "verify" => "cancelled" \in CancelEvent
                     /\ k.pc \notin Asleep
                     /\ k.pc # "free" => k.manual \/ k.cancelled
<1>1. /\ job \in [Slots -> Job] /\ rotationJob \in Slots \cup {NoJob} /\ TimerArmed
      /\ NoJob \notin Slots
  BY RotationAssumption, Zenon DEF RotationIInv, RotationTypeOK
<1>2. CancelEvent \in SUBSET Causes
  BY DEF CancelEvent, Causes
<1>3. CASE rotationJob = NoJob
  <2>1. StopJobs = job
    BY <1>3 DEF StopJobs
  <2>2. ASSUME NEW l \in Slots
        PROVE  /\ Kept(job[l], job[l])
               /\ job[l].pc \notin Asleep
               /\ job[l].pc # "free" => job[l].manual \/ job[l].cancelled
    BY <1>1, <1>3, <2>2, Zenon DEF TimerArmed, Kept
  <2> QED
    BY <1>1, <1>2, <2>1, <2>2, Zenon
<1>4. CASE rotationJob # NoJob
  <2>1. rotationJob \in Slots /\ StopJobs = [job EXCEPT ![rotationJob] = Cancelled(job[rotationJob])]
    BY <1>1, <1>4, Zenon DEF StopJobs
  <2>2. job[rotationJob] \in Job /\ job[rotationJob].pc \in Places /\ job[rotationJob].pc # "free"
    BY <1>1, <1>4, <2>1, RecordOfJob, Zenon DEF TimerArmed
  <2>3. Cancelled(job[rotationJob]) \in Job
    BY <2>2, CancelledJob, Zenon
  <2>4. /\ StopJobs \in [Slots -> Job] /\ StopJobs[rotationJob] = Cancelled(job[rotationJob])
        /\ \A l \in Slots : l # rotationJob => StopJobs[l] = job[l]
    BY <1>1, <2>1, <2>3, Zenon
  <2>5. job[rotationJob].pc \notin Asleep => "cancelled" \in CancelEvent /\ job[rotationJob].pc \in Steps
    BY <1>4, <2>2, Zenon DEF CancelEvent, Places
  <2>6. ASSUME NEW l \in Slots, l # rotationJob
        PROVE  /\ Kept(job[l], job[l])
               /\ job[l].pc \notin Asleep
               /\ job[l].pc # "free" => job[l].manual \/ job[l].cancelled
    BY <1>1, <2>6, Zenon DEF TimerArmed, Kept
  <2>7. LET j == job[rotationJob]
            k == Cancelled(job[rotationJob])
        IN  /\ \/ /\ Kept(k, j) /\ k.manual = j.manual
                  /\ k.cancelled => j.cancelled \/ "cancelled" \in CancelEvent
               \/ /\ k = Free /\ j.pc \in Ends
                  /\ j.pc = "verify" => "cancelled" \in CancelEvent
            /\ k.pc \notin Asleep
            /\ k.pc # "free" => k.manual \/ k.cancelled
    <3>1. CASE job[rotationJob].pc \in Asleep \cup {"verify"}
      <4>1. Cancelled(job[rotationJob]) = Free
        BY <2>2, <3>1, CancelledJob, Zenon
      <4>2. job[rotationJob].pc \in Ends
        BY <3>1 DEF Ends, Asleep
      <4>3. job[rotationJob].pc = "verify" => job[rotationJob].pc \notin Asleep
        BY DEF Asleep
      <4>4. Free.pc = "free" /\ Free.pc \notin Asleep
        BY FreeJob, PlaceFacts, Zenon
      <4> QED
        BY <2>5, <4>1, <4>2, <4>3, <4>4, Zenon
    <3>2. CASE job[rotationJob].pc \notin Asleep \cup {"verify"}
      <4>1. LET j == job[rotationJob]
                k == Cancelled(job[rotationJob])
            IN  /\ k.pc = j.pc /\ k.set = j.set /\ k.held = j.held
                /\ k.manual = j.manual /\ k.cancelled
        BY <2>2, <3>2, CancelledJob, Zenon
      <4> QED
        BY <2>5, <3>2, <4>1, Zenon DEF Kept
    <3> QED
      BY <3>1, <3>2, Zenon
  <2> QED
    BY <1>2, <2>4, <2>6, <2>7, Zenon
<1> QED
  BY <1>3, <1>4

Disarm == job' = StopJobs /\ rotationJob' = NoJob
Arm(i, b) == /\ StopJobs[i].pc = "free" /\ rotationJob' = i
             /\ job' = [StopJobs EXCEPT ![i] = NewTimer(b)]

LEMMA DisarmRearms ==
    ASSUME RotationIInv, Grown, "cancelled" \in CancelEvent => Past({"cancelled", "crossed"})',
           Disarm
    PROVE  Rearmed /\ TimerArmed'
<1>1. job' = StopJobs /\ rotationJob' = NoJob /\ NoJob \notin Slots
  BY RotationAssumption, Zenon DEF Disarm
<1>2. StopJobs \in [Slots -> Job] /\ TimerArmed
  BY StopFacts, Zenon DEF RotationIInv
<1>3. ASSUME NEW l \in Slots
      PROVE  /\ \/ /\ Kept(job'[l], job[l]) /\ job'[l].manual = job[l].manual
                   /\ job'[l].cancelled => job[l].cancelled \/ "cancelled" \in CancelEvent
                \/ /\ job'[l] = Free /\ job[l].pc \in Ends
                   /\ job[l].pc = "verify" => "cancelled" \in CancelEvent
             /\ job'[l].pc \notin Asleep
             /\ job'[l].pc # "free" => job'[l].manual \/ job'[l].cancelled
  BY <1>1, StopFacts, Zenon
<1>4. Rearmed
  <2>1. Free.pc \notin Steps /\ Free.held = NoCursor
    BY FreeJob, PlaceFacts, Zenon
  <2> QED
    BY <1>1, <1>2, <1>3, <2>1, Zenon DEF Rearmed
<1>5. TimerArmed'
  <2>1. ASSUME NEW l \in Slots
        PROVE  /\ job'[l].cancelled => Past({"cancelled", "crossed"})'
               /\ job'[l].pc \in {"ckRead", "ckWrite"} => ~job'[l].manual
    <3>1. job[l].cancelled => Past({"cancelled", "crossed"})'
      BY <1>2, PastKept, Zenon DEF TimerArmed
    <3>2. CASE job'[l] = Free
      <4>1. job'[l].pc = "free" /\ ~job'[l].cancelled
        BY <3>2, FreeJob, Zenon
      <4> QED
        BY <4>1
    <3>3. CASE /\ Kept(job'[l], job[l]) /\ job'[l].manual = job[l].manual
               /\ job'[l].cancelled => job[l].cancelled \/ "cancelled" \in CancelEvent
      BY <1>2, <3>1, <3>3, Zenon DEF TimerArmed, Kept
    <3> QED
      BY <1>3, <3>2, <3>3, Zenon
  <2> QED
    BY <1>1, <1>3, <2>1, Zenon DEF TimerArmed
<1> QED
  BY <1>4, <1>5
LEMMA ArmRearms ==
    ASSUME RotationIInv, Grown, "cancelled" \in CancelEvent => Past({"cancelled", "crossed"})',
           NEW i \in Slots, NEW b \in BOOLEAN, Arm(i, b)
    PROVE  /\ Rearmed /\ TimerArmed'
           /\ \A l \in Slots : job'[l].pc \in Steps => StopJobs[l].pc \in Steps
<1> DEFINE t == NewTimer(b)
<1>1. StopJobs[i].pc = "free" /\ rotationJob' = i /\ job' = [StopJobs EXCEPT ![i] = t]
  BY Zenon DEF Arm
<1>2. /\ t \in Job /\ t.pc \in Asleep /\ ~t.manual /\ ~t.cancelled /\ t.held = NoCursor
  BY TimerJob, Zenon
<1> HIDE DEF t
<1>3. StopJobs \in [Slots -> Job] /\ TimerArmed /\ NoJob \notin Slots
  BY StopFacts, RotationAssumption, Zenon DEF RotationIInv
<1>4. /\ job' \in [Slots -> Job] /\ job'[i] = t
      /\ \A l \in Slots : l # i => job'[l] = StopJobs[l]
  BY <1>1, <1>2, <1>3, Zenon
<1>5. ASSUME NEW l \in Slots
      PROVE  LET k == StopJobs[l]
             IN  /\ \/ /\ Kept(k, job[l]) /\ k.manual = job[l].manual
                       /\ k.cancelled => job[l].cancelled \/ "cancelled" \in CancelEvent
                    \/ /\ k = Free /\ job[l].pc \in Ends
                       /\ job[l].pc = "verify" => "cancelled" \in CancelEvent
                 /\ k.pc \notin Asleep
                 /\ k.pc # "free" => k.manual \/ k.cancelled
  BY StopFacts, Zenon
<1>6. t.pc \notin Steps /\ t.pc # "free" /\ t.pc \notin {"ckRead", "ckWrite"}
  BY <1>2 DEF Steps, Asleep
<1>7. Free.pc \notin Steps /\ Free.held = NoCursor /\ Free.pc = "free" /\ ~Free.cancelled
  BY FreeJob, PlaceFacts, Zenon
<1>8. ASSUME NEW l \in Slots
      PROVE  \/ Kept(job'[l], job[l])
             \/ /\ job'[l].pc \notin Steps /\ job'[l].held = NoCursor /\ job[l].pc \in Ends
                /\ job[l].pc = "verify" => Past({"cancelled", "crossed"})'
  <2>1. CASE l # i
    BY <1>4, <1>5, <1>7, <2>1, Zenon
  <2>2. CASE l = i
    <3>1. job[i].pc = "free" => job[i].pc \in Ends /\ job[i].pc # "verify"
      BY DEF Ends
    <3>2. \/ job[i].pc = "free"
          \/ job[i].pc \in Ends /\ (job[i].pc = "verify" => "cancelled" \in CancelEvent)
      BY <1>1, <1>5, Zenon DEF Kept
    <3> QED
      BY <1>2, <1>4, <1>6, <2>2, <3>1, <3>2, Zenon
  <2> QED
    BY <2>1, <2>2
<1>9. Rearmed
  BY <1>4, <1>8, Zenon DEF Rearmed
<1>10. TimerArmed'
  <2>1. ASSUME NEW l \in Slots
        PROVE  /\ l = i => ~job'[l].manual /\ ~job'[l].cancelled
               /\ job'[l].pc \in Asleep => l = i
               /\ job'[l].pc # "free" /\ ~job'[l].manual /\ ~job'[l].cancelled => l = i
               /\ job'[l].cancelled => Past({"cancelled", "crossed"})'
               /\ job'[l].pc \in {"ckRead", "ckWrite"} => ~job'[l].manual
    <3>1. CASE l = i
      BY <1>2, <1>4, <1>6, <3>1, Zenon
    <3>2. CASE l # i
      <4>1. job'[l] = StopJobs[l]
        BY <1>4, <3>2, Zenon
      <4>2. job[l].cancelled => Past({"cancelled", "crossed"})'
        BY <1>3, PastKept, Zenon DEF TimerArmed
      <4>3. job'[l].pc \notin Asleep /\ (job'[l].pc # "free" => job'[l].manual \/ job'[l].cancelled)
        BY <1>5, <4>1, Zenon
      <4>4. CASE StopJobs[l] = Free
        <5>1. job'[l].pc \notin {"ckRead", "ckWrite"} /\ ~job'[l].cancelled
          BY <4>1, <4>4, <1>7
        <5> QED
          BY <3>2, <4>3, <5>1, Zenon
      <4>5. CASE /\ Kept(StopJobs[l], job[l]) /\ StopJobs[l].manual = job[l].manual
                 /\ StopJobs[l].cancelled => job[l].cancelled \/ "cancelled" \in CancelEvent
        BY <1>3, <3>2, <4>1, <4>2, <4>3, <4>5, Zenon DEF Kept, TimerArmed
      <4> QED
        BY <1>5, <4>4, <4>5, Zenon
    <3> QED
      BY <3>1, <3>2
  <2> QED
    BY <1>1, <1>4, <1>6, <2>1, Zenon DEF TimerArmed
<1>11. ASSUME NEW l \in Slots, job'[l].pc \in Steps
       PROVE  StopJobs[l].pc \in Steps
  BY <1>4, <1>6, <1>11, Zenon
<1> QED
  BY <1>9, <1>10, <1>11

LEMMA RearmKeeps ==
    ASSUME RotationIInv, Grown, Rearmed, TimerArmed', Idle' = Idle,
           events' \subseteq Causes, rotationJob' \in Slots \cup {NoJob},
           rotationIndex' \in Nat, rotationIndex' <= commits, lastOperatorFamily' \in Families,
           ~Past({"crossed", "unsaved"})' /\ CursorMemory /\ CursorDurable
               => /\ CursorMemory'
                  /\ \A l \in Slots : job'[l].pc \in Steps => rotationIndex' = rotationIndex
    PROVE  RotationIInv'
<1>1. /\ lastVerifiedSet' = lastVerifiedSet /\ cursor' = cursor /\ commits' = commits
      /\ landed' = landed /\ unvetted' = unvetted
  BY DEF Idle
<1>2. /\ CountsBounded' /\ OnePass' /\ Picked' /\ PassVets' /\ VerifiedAnswered'
      /\ MutePending'
      /\ \A l \in Slots : job'[l].pc \in Steps => Kept(job'[l], job[l])
      /\ At({"index", "persist"})' <=> At({"index", "persist"})
  BY RearmedKeeps, Zenon
<1>3. RotationTypeOK'
  <2>1. RotationTypeOK
    BY Zenon DEF RotationIInv
  <2> QED
    BY <1>1, <2>1, Zenon DEF RotationTypeOK, Rearmed
<1>4. Counts'
  <2> SUFFICES ASSUME ~Past({"crossed", "unsaved"})'
               PROVE  CursorMemory' /\ CursorDurable' /\ PassCounts'
    BY Zenon DEF Counts
  <2>1. ~Past({"crossed", "unsaved"})
    BY PastKept, SMT
  <2>2. CursorMemory /\ CursorDurable /\ PassCounts
    BY <2>1, Zenon DEF RotationIInv, Counts
  <2>3. CursorDurable'
    BY <1>1, <1>2, <2>2, Zenon DEF CursorDurable
  <2>4. {"index", "persist", "ckWrite", "probe", "toml", "rust", "verify", "commit"} \subseteq Steps
    BY Zenon DEF Steps
  <2>5. ASSUME NEW l \in Slots
        PROVE  /\ job'[l].pc = "index" => /\ rotationIndex' + 1 = commits'
                                          /\ job'[l].held.index = rotationIndex'
               /\ job'[l].pc = "persist"
                     => job'[l].held = [family |-> Lead[landed'], index |-> commits']
               /\ job'[l].pc \in {"index", "persist"} => landed' # NoSet
               /\ job'[l].pc = "ckWrite" => job'[l].held = cursor'
               /\ job'[l].pc \in {"probe", "toml", "rust", "verify", "commit"} /\ landed' # NoSet
                     => Lead[landed'] \notin Operators[job'[l].set]
    <3>1. CASE job'[l].pc \notin Steps
      BY <3>1, <2>4, Zenon
    <3>2. CASE job'[l].pc \in Steps
      <4>1. /\ job'[l].pc = job[l].pc /\ job'[l].set = job[l].set /\ job'[l].held = job[l].held
            /\ rotationIndex' = rotationIndex
        BY <1>2, <2>2, <3>2, Zenon DEF Kept
      <4> QED
        BY <1>1, <2>2, <4>1, Zenon DEF PassCounts
    <3> QED
      BY <3>1, <3>2, Zenon
  <2>6. PassCounts'
    BY <2>5, Zenon DEF PassCounts
  <2> QED
    BY <2>2, <2>3, <2>6
<1> QED
  BY <1>2, <1>3, <1>4, Zenon DEF RotationIInv

\* The durable cursor comes back into the fields, or leaves them.
LEMMA RehydrateFacts ==
    ASSUME RotationIInv, rehydrateRotationCursor
    PROVE  /\ rotationIndex' \in Nat /\ rotationIndex' <= commits
           /\ lastOperatorFamily' \in Families
           /\ CursorDurable /\ ~At({"index", "persist"}) =>
                 /\ rotationIndex' = commits
                 /\ landed # NoSet => lastOperatorFamily' = Lead[landed]
<1>1. /\ cursor \in Cursor /\ rotationIndex \in Nat /\ lastOperatorFamily \in Families
      /\ rotationIndex <= commits /\ cursor.index <= commits /\ commits \in Nat
      /\ landed \in Picks
  BY Zenon DEF RotationIInv, RotationTypeOK, CountsBounded
<1>2. cursor.index \in Nat /\ cursor.family \in Families
  BY <1>1, Zenon DEF Cursor
<1>3. landed # NoSet => Lead[landed] # NoFamily
  BY <1>1, RotationAssumption, Zenon DEF Picks
<1>4. CASE cursor = NoCursor
  <2>1. rotationIndex' = rotationIndex /\ lastOperatorFamily' = lastOperatorFamily
    BY <1>4, Zenon DEF rehydrateRotationCursor
  <2>2. cursor.index = 0 /\ cursor.family = NoFamily
    BY <1>4, FreeJob, Zenon
  <2>3. commits = 0 => rotationIndex = commits
    BY <1>1, SMT
  <2> QED
    BY <1>1, <1>3, <2>1, <2>2, <2>3, Zenon DEF CursorDurable
<1>5. CASE cursor # NoCursor
  <2>1. /\ rotationIndex' = cursor.index
        /\ lastOperatorFamily' = IF cursor.family # NoFamily THEN cursor.family ELSE lastOperatorFamily
    BY <1>5, Zenon DEF rehydrateRotationCursor
  <2> QED
    BY <1>1, <1>2, <1>3, <2>1, Zenon DEF CursorDurable
<1> QED
  BY <1>4, <1>5

LEMMA StartOverKeeps ==
    ASSUME RotationIInv, startOver(StopJobs), note(CancelEvent \cup RehydrateEvent(StopJobs)),
           Idle' = Idle
    PROVE  RotationIInv'
<1> DEFINE causes == CancelEvent \cup RehydrateEvent(StopJobs)
<1>1. causes \in SUBSET Causes
  BY StopFacts, SMT DEF RehydrateEvent, Causes
<1>2. events \subseteq Causes
  BY Zenon DEF RotationIInv, RotationTypeOK
<1>3. /\ events' \subseteq Causes /\ Grown
      /\ \A c \in causes : c \in events' \/ "crossed" \in events'
  <2> HIDE DEF causes
  <2>1. note(causes)
    BY DEF causes
  <2> QED
    BY <1>1, <1>2, <2>1, NoteGrows, Zenon
<1>4. /\ "cancelled" \in CancelEvent => Past({"cancelled", "crossed"})'
      /\ (\E l \in Slots : StopJobs[l].pc \in Steps) => "crossed" \in events'
  BY <1>3, Zenon DEF Past, RehydrateEvent
<1>5. PICK i \in Slots : StopJobs[i].pc = "free" /\ rotationJob' = i
                         /\ job' = [StopJobs EXCEPT ![i] = NewTimer(TRUE)]
  BY Zenon DEF startOver
<1>6. Arm(i, TRUE)
  BY <1>5 DEF Arm
<1>7. /\ Rearmed /\ TimerArmed'
      /\ \A l \in Slots : job'[l].pc \in Steps => StopJobs[l].pc \in Steps
  BY <1>3, <1>4, <1>6, ArmRearms, Zenon
<1>8. rehydrateRotationCursor
  BY Zenon DEF startOver
<1>9. /\ rotationIndex' \in Nat /\ rotationIndex' <= commits /\ lastOperatorFamily' \in Families
  BY <1>8, RehydrateFacts, Zenon
<1>10. ASSUME ~Past({"crossed", "unsaved"})', CursorDurable
       PROVE  /\ CursorMemory'
              /\ \A l \in Slots : job'[l].pc \in Steps => rotationIndex' = rotationIndex
  <2>1. "crossed" \notin events'
    BY <1>10, Zenon DEF Past
  <2>2. \A l \in Slots : job'[l].pc \notin Steps
    BY <2>1, <1>4, <1>7, Zenon
  <2>3. "index" \in Steps /\ "persist" \in Steps
    BY DEF Steps
  <2>4. ~At({"index", "persist"})'
    BY <2>2, <2>3, Zenon DEF At
  <2>5. ~At({"index", "persist"})
    BY <2>4, <1>3, <1>7, <1>9, RearmedKeeps, Zenon
  <2>6. rotationIndex' = commits /\ (landed # NoSet => lastOperatorFamily' = Lead[landed])
    BY <1>8, <1>10, <2>5, RehydrateFacts, Zenon
  <2>7. commits' = commits /\ landed' = landed
    BY DEF Idle
  <2>8. CursorMemory'
    BY <2>6, <2>7, Zenon DEF CursorMemory
  <2> QED
    BY <2>2, <2>8, Zenon
<1>11. rotationJob' \in Slots \cup {NoJob}
  BY <1>5, Zenon
<1> QED
  BY <1>3, <1>7, <1>9, <1>10, <1>11, RearmKeeps, Zenon

LEMMA SameKeeps ==
    ASSUME RotationIInv, Idle' = Idle, events' = events, job' = job, rotationJob' = rotationJob,
           lastOperatorFamily' = lastOperatorFamily, rotationIndex' = rotationIndex
    PROVE  RotationIInv'
<1>1. /\ lastVerifiedSet' = lastVerifiedSet /\ cursor' = cursor /\ commits' = commits
      /\ landed' = landed /\ unvetted' = unvetted /\ pool' = pool
  BY DEF Idle
<1>2. /\ RotationTypeOK' /\ CountsBounded' /\ TimerArmed' /\ OnePass' /\ Picked'
  BY <1>1, Zenon DEF RotationIInv, RotationTypeOK, CountsBounded, TimerArmed, OnePass, Picked, Past
<1>3. PassVets' /\ VerifiedAnswered' /\ MutePending'
  BY <1>1, Zenon DEF RotationIInv, PassVets, VerifiedAnswered, MutePending, Past
<1>4. Counts'
  BY <1>1, Zenon DEF RotationIInv, Counts, CursorMemory, CursorDurable, PassCounts, Active, At, Past
<1> QED
  BY <1>2, <1>3, <1>4, Zenon DEF RotationIInv
LEMMA StartKeeps ==
    ASSUME RotationIInv, start, pool' = pool
    PROVE  RotationIInv'
<1>1. Idle' = Idle
  BY Zenon DEF start, Idle
<1>2. CASE rotationJob # NoJob
  BY <1>1, <1>2, SameKeeps, Zenon DEF start
<1>3. CASE rotationJob = NoJob
  <2>1. startOver(job) /\ note(RehydrateEvent(job))
    BY <1>3, Zenon DEF start
  <2>2. StopJobs = job /\ CancelEvent = {}
    BY <1>3 DEF StopJobs, CancelEvent
  <2>3. CancelEvent \cup RehydrateEvent(StopJobs) = RehydrateEvent(job)
    BY <2>2 DEF RehydrateEvent
  <2>4. startOver(StopJobs) /\ note(CancelEvent \cup RehydrateEvent(StopJobs))
    BY <2>1, <2>2, <2>3
  <2> QED
    BY <1>1, <2>4, StartOverKeeps, Zenon
<1> QED
  BY <1>2, <1>3

LEMMA CancelNoted ==
    ASSUME RotationIInv, note(CancelEvent)
    PROVE  /\ Grown /\ events' \subseteq Causes
           /\ "cancelled" \in CancelEvent => Past({"cancelled", "crossed"})'
<1>1. CancelEvent \in SUBSET Causes /\ events \subseteq Causes
  BY StopFacts, Zenon DEF RotationIInv, RotationTypeOK
<1>2. /\ events' \subseteq Causes /\ Grown
      /\ \A c \in CancelEvent : c \in events' \/ "crossed" \in events'
  BY <1>1, NoteGrows, Zenon
<1> QED
  BY <1>2, Zenon DEF Past

LEMMA StopKeeps ==
    ASSUME RotationIInv, stop, pool' = pool
    PROVE  RotationIInv'
<1>1. /\ Idle' = Idle /\ note(CancelEvent) /\ lastOperatorFamily' = lastOperatorFamily
      /\ rotationIndex' = rotationIndex /\ Disarm /\ rotationJob' = NoJob
  BY Zenon DEF stop, Idle, Disarm
<1>2. Grown /\ events' \subseteq Causes /\ ("cancelled" \in CancelEvent => Past({"cancelled", "crossed"})')
  BY <1>1, CancelNoted, Zenon
<1>3. Rearmed /\ TimerArmed'
  BY <1>1, <1>2, DisarmRearms, Zenon
<1>4. /\ rotationIndex' \in Nat /\ rotationIndex' <= commits /\ lastOperatorFamily' \in Families
  BY <1>1, Zenon DEF RotationIInv, RotationTypeOK, CountsBounded
<1>5. CursorMemory => CursorMemory'
  <2>1. /\ \A l \in Slots : job'[l].pc \in Steps => Kept(job'[l], job[l])
        /\ At({"index"})' <=> At({"index"})
    BY <1>1, <1>2, <1>3, <1>4, RearmedKeeps, Zenon
  <2>2. Active' => Active
    BY <1>1, <2>1, Zenon DEF Active, At, Kept
  <2>3. commits' = commits /\ landed' = landed
    BY <1>1 DEF Idle
  <2> QED
    BY <1>1, <2>1, <2>2, <2>3, Zenon DEF CursorMemory
<1> QED
  BY <1>1, <1>2, <1>3, <1>4, <1>5, RearmKeeps, Zenon

LEMMA CadenceKeeps ==
    ASSUME RotationIInv, onCadencePrefChanged
    PROVE  RotationIInv'
<1>1. /\ Idle' = Idle /\ note(CancelEvent) /\ lastOperatorFamily' = lastOperatorFamily
      /\ rotationIndex' = rotationIndex /\ rotationJob # NoJob
  BY Zenon DEF onCadencePrefChanged, Idle, runtimeVars, runtimeState
<1>2. PICK i \in Slots : Arm(i, FALSE)
  BY Zenon DEF onCadencePrefChanged, Arm
<1>3. rotationJob' \in Slots \cup {NoJob}
  BY <1>2, Zenon DEF Arm
<1>4. Grown /\ events' \subseteq Causes /\ ("cancelled" \in CancelEvent => Past({"cancelled", "crossed"})')
  BY <1>1, CancelNoted, Zenon
<1>5. Rearmed /\ TimerArmed'
  BY <1>2, <1>4, ArmRearms, Zenon
<1>6. /\ rotationIndex' \in Nat /\ rotationIndex' <= commits /\ lastOperatorFamily' \in Families
  BY <1>1, Zenon DEF RotationIInv, RotationTypeOK, CountsBounded
<1>7. CursorMemory => CursorMemory'
  <2>1. At({"index"})' <=> At({"index"})
    BY <1>1, <1>4, <1>5, <1>6, RearmedKeeps, Zenon
  <2>2. Active
    BY <1>1, Zenon DEF Active
  <2>3. commits' = commits /\ landed' = landed
    BY <1>1 DEF Idle
  <2> QED
    BY <1>1, <2>1, <2>2, <2>3, Zenon DEF CursorMemory
<1> QED
  BY <1>1, <1>3, <1>4, <1>5, <1>6, <1>7, RearmKeeps, Zenon

LEMMA UnderPassesKeeps ==
    ASSUME RotationIInv, UnderPasses
    PROVE  RotationIInv'
<1> DEFINE causes == IF pool' # pool /\ \E i \in Slots : job[i].pc \in Steps
                     THEN {"crossed"} ELSE {}
<1>1. /\ lastVerifiedSet' = lastVerifiedSet /\ cursor' = cursor /\ commits' = commits
      /\ landed' = landed /\ job' = job /\ rotationJob' = rotationJob
      /\ lastOperatorFamily' = lastOperatorFamily /\ rotationIndex' = rotationIndex
      /\ unvetted' = (unvetted \/ pool' # pool) /\ note(causes)
  BY Zenon DEF UnderPasses
<1>2. causes \in SUBSET Causes
  BY DEF Causes
<1>3. /\ RotationTypeOK /\ CountsBounded /\ TimerArmed /\ OnePass /\ Picked
      /\ PassVets /\ VerifiedAnswered /\ MutePending /\ Counts
  BY Zenon DEF RotationIInv
<1>4. /\ events' \subseteq Causes /\ Grown
      /\ \A c \in causes : c \in events' \/ "crossed" \in events'
  <2> HIDE DEF causes
  <2> QED
    BY <1>1, <1>2, <1>3, NoteGrows, Zenon DEF RotationTypeOK
<1>5. pool' # pool /\ (\E i \in Slots : job[i].pc \in Steps) => Past({"declined", "crossed"})'
  BY <1>4, Zenon DEF Past
<1> HIDE DEF causes
<1>6. RotationTypeOK'
  <2>1. unvetted' \in BOOLEAN
    BY <1>1
  <2> QED
    BY <1>1, <1>3, <1>4, <2>1, Zenon DEF RotationTypeOK
<1>7. CountsBounded' /\ Picked'
  BY <1>1, <1>3, Zenon DEF CountsBounded, Picked
<1>8. TimerArmed' /\ OnePass'
  <2>1. /\ Past({"cancelled", "crossed"}) => Past({"cancelled", "crossed"})'
        /\ Past({"crossed"}) => Past({"crossed"})'
    BY <1>4, PastKept, SMT
  <2> QED
    BY <1>1, <1>3, <2>1, Zenon DEF TimerArmed, OnePass
<1>9. VerifiedAnswered'
  BY <1>1, <1>3, <1>4, AnsweredKept, Zenon
<1>10. PassVets'
  <2>1. Past({"declined", "crossed"}) => Past({"declined", "crossed"})'
    BY <1>4, PastKept, SMT
  <2>2. {"verify", "commit"} \subseteq Steps /\ {"commit", "restoreToml", "restoreRust"} \subseteq Steps
    BY DEF Steps
  <2>3. ASSUME NEW l \in Slots
        PROVE  \/ Past({"declined", "crossed"})'
               \/ /\ job'[l].pc \in {"verify", "commit"} => pool' = job'[l].set
                  /\ job'[l].pc \in {"commit", "restoreToml", "restoreRust"} => job'[l].set \notin Mute
    <3>1. \/ Past({"declined", "crossed"})
          \/ /\ job[l].pc \in {"verify", "commit"} => pool = job[l].set
             /\ job[l].pc \in {"commit", "restoreToml", "restoreRust"} => job[l].set \notin Mute
      BY <1>3, Zenon DEF PassVets
    <3>2. CASE job[l].pc \notin Steps
      BY <1>1, <2>2, <3>2, Zenon
    <3>3. CASE job[l].pc \in Steps
      <4>1. pool' # pool => Past({"declined", "crossed"})'
        BY <1>5, <3>3, Zenon
      <4> QED
        BY <1>1, <2>1, <3>1, <4>1, Zenon
    <3> QED
      BY <3>2, <3>3
  <2> QED
    BY <2>3, Zenon DEF PassVets
<1>11. MutePending'
  <2>1. Past({"declined", "crossed", "cancelled"}) => Past({"declined", "crossed", "cancelled"})'
    BY <1>4, PastKept, SMT
  <2>2. unvetted' \/ (pool' = pool /\ ~unvetted)
    BY <1>1, Zenon
  <2> QED
    BY <1>1, <1>3, <2>1, <2>2, Zenon DEF MutePending
<1>12. Counts'
  <2>1. Past({"crossed", "unsaved"}) => Past({"crossed", "unsaved"})'
    BY <1>4, PastKept, SMT
  <2>2. CursorMemory => CursorMemory'
    BY <1>1, Zenon DEF CursorMemory, Active, At
  <2>3. CursorDurable => CursorDurable'
    BY <1>1, Zenon DEF CursorDurable, At
  <2>4. PassCounts => PassCounts'
    BY <1>1, Zenon DEF PassCounts
  <2> QED
    BY <1>3, <2>1, <2>2, <2>3, <2>4, Zenon DEF Counts
<1> QED
  BY <1>6, <1>7, <1>8, <1>9, <1>10, <1>11, <1>12, Zenon DEF RotationIInv

\* The process dies: the coroutines and the fields go, the record stays.
LEMMA CrashKeeps ==
    ASSUME RotationIInv, crash
    PROVE  RotationIInv'
<1> DEFINE causes == IF \E i \in Slots : job[i].pc \in {"index", "persist"}
                     THEN {"unsaved"} ELSE {}
<1>1. /\ lastVerifiedSet' = NoSet /\ lastOperatorFamily' = NoFamily /\ rotationIndex' = 0
      /\ cursor' = cursor /\ commits' = commits /\ landed' = landed /\ unvetted' = unvetted
      /\ job' = [i \in Slots |-> Free] /\ rotationJob' = NoJob /\ note(causes)
  BY Zenon DEF crash
<1>2. causes \in SUBSET Causes
  BY DEF Causes
<1>3. RotationTypeOK /\ CountsBounded /\ Counts
  BY Zenon DEF RotationIInv
<1>4. /\ events' \subseteq Causes /\ Grown
      /\ \A c \in causes : c \in events' \/ "crossed" \in events'
  <2> HIDE DEF causes
  <2> QED
    BY <1>1, <1>2, <1>3, NoteGrows, Zenon DEF RotationTypeOK
<1>5. At({"index", "persist"}) => Past({"crossed", "unsaved"})'
  BY <1>4, Zenon DEF At, Past
<1> HIDE DEF causes
<1>6. /\ Free \in Job /\ Free.pc = "free" /\ Free.pc \notin Steps /\ Free.pc \notin Asleep
      /\ ~Free.cancelled /\ Free.held.index = 0 /\ Free.pc # "index"
  BY FreeJob, PlaceFacts, Zenon
<1>7. job' \in [Slots -> Job] /\ \A l \in Slots : job'[l] = Free
  BY <1>1, <1>6, Zenon
<1>8. \A l \in Slots : job'[l].pc = "free" /\ job'[l].pc \notin Steps /\ job'[l].pc \notin Asleep
                       /\ ~job'[l].cancelled /\ job'[l].held.index = 0 /\ job'[l].pc # "index"
  BY <1>6, <1>7, Zenon
<1>9. RotationTypeOK'
  <2>1. NoSet \in Picks /\ NoFamily \in Families /\ 0 \in Nat
    BY DEF Picks, Families
  <2> QED
    BY <1>1, <1>3, <1>4, <1>7, <2>1, Zenon DEF RotationTypeOK
<1>10. CountsBounded'
  <2>1. 0 <= commits' /\ cursor'.index <= commits'
    BY <1>1, <1>3, SMT DEF CountsBounded, RotationTypeOK
  <2> QED
    BY <1>1, <1>8, <2>1, Zenon DEF CountsBounded
<1>11. TimerArmed' /\ OnePass' /\ Picked'
  <2>1. "ckRead" \in Steps /\ "ckWrite" \in Steps /\ NoJob \notin Slots
    BY RotationAssumption, PlaceFacts, Zenon
  <2> QED
    BY <1>1, <1>8, <2>1, Zenon DEF TimerArmed, OnePass, Picked
<1>12. {"verify", "commit"} \subseteq Steps /\ {"commit", "restoreToml", "restoreRust"} \subseteq Steps
       /\ {"index", "persist", "ckWrite", "probe", "toml", "rust", "verify", "commit"} \subseteq Steps
  BY DEF Steps
<1>13. PassVets' /\ MutePending'
  BY <1>1, <1>8, <1>12, Zenon DEF PassVets, MutePending
<1>14. VerifiedAnswered'
  BY <1>1, RotationAssumption, Zenon DEF VerifiedAnswered
<1>15. Counts'
  <2> SUFFICES ASSUME ~Past({"crossed", "unsaved"})'
               PROVE  CursorMemory' /\ CursorDurable' /\ PassCounts'
    BY Zenon DEF Counts
  <2>1. ~Past({"crossed", "unsaved"}) /\ ~At({"index", "persist"})
    BY <1>4, <1>5, PastKept, SMT
  <2>2. CursorDurable'
    BY <1>1, <1>3, <2>1, Zenon DEF Counts, CursorDurable
  <2>3. CursorMemory'
    BY <1>1, <1>8, Zenon DEF CursorMemory, Active, At
  <2>4. PassCounts'
    BY <1>8, <1>12, Zenon DEF PassCounts
  <2> QED
    BY <2>2, <2>3, <2>4
<1> QED
  BY <1>9, <1>10, <1>11, <1>13, <1>14, <1>15, Zenon DEF RotationIInv

-----------------------------------------------------------------------------
(* The theorems. *)
LEMMA InitHolds == ASSUME RotationInit PROVE RotationIInv
<1>1. /\ lastVerifiedSet = NoSet /\ lastOperatorFamily = NoFamily /\ rotationIndex = 0
      /\ cursor = NoCursor /\ commits = 0 /\ landed = NoSet /\ unvetted = FALSE /\ events = {}
      /\ job = [i \in Slots |-> Free] /\ rotationJob = NoJob
  BY Zenon DEF RotationInit
<1>2. /\ Free \in Job /\ Free.pc = "free" /\ Free.pc \notin Steps /\ Free.pc \notin Asleep
      /\ ~Free.cancelled /\ Free.held.index = 0 /\ Free.pc # "index"
      /\ cursor \in Cursor /\ cursor.index = 0
  BY <1>1, FreeJob, PlaceFacts, Zenon
<1>3. /\ job \in [Slots -> Job]
      /\ \A l \in Slots : job[l].pc = "free" /\ job[l].pc \notin Steps /\ job[l].pc \notin Asleep
                          /\ ~job[l].cancelled /\ job[l].held.index = 0
  BY <1>1, <1>2, Zenon
<1>4. RotationTypeOK
  <2>1. NoSet \in Picks /\ NoFamily \in Families /\ rotationIndex \in Nat /\ commits \in Nat
        /\ unvetted \in BOOLEAN /\ events \subseteq Causes
    BY <1>1, Zenon DEF Picks, Families
  <2> QED
    BY <1>1, <1>2, <1>3, <2>1, Zenon DEF RotationTypeOK
<1>5. CountsBounded
  BY <1>1, <1>2, <1>3 DEF CountsBounded
<1>6. TimerArmed /\ OnePass /\ Picked
  <2>1. "ckRead" \in Steps /\ "ckWrite" \in Steps /\ NoJob \notin Slots
    BY RotationAssumption, PlaceFacts, Zenon
  <2> QED
    BY <1>1, <1>3, <2>1, Zenon DEF TimerArmed, OnePass, Picked
<1>7. {"verify", "commit"} \subseteq Steps /\ {"commit", "restoreToml", "restoreRust"} \subseteq Steps
      /\ {"index", "persist", "ckWrite", "probe", "toml", "rust", "verify", "commit"} \subseteq Steps
  BY DEF Steps
<1>8. PassVets /\ MutePending
  BY <1>1, <1>3, <1>7, Zenon DEF PassVets, MutePending
<1>9. VerifiedAnswered
  BY <1>1, RotationAssumption, Zenon DEF VerifiedAnswered
<1>10. Counts
  BY <1>1, <1>2, <1>3, <1>7, Zenon DEF Counts, CursorMemory, CursorDurable, PassCounts, Active, At
<1> QED
  BY <1>4, <1>5, <1>6, <1>8, <1>9, <1>10, Zenon DEF RotationIInv

LEMMA PassKeeps ==
    ASSUME RotationIInv, NEW i \in Slots, Pass(i)
    PROVE  RotationIInv'
<1>1. CASE timerFires(i) \/ rotateNow(i)
  <2>1. Grown /\ events' \subseteq Causes /\ \E j : BeginMove(i, j)
    BY <1>1, ComposeBegins, Zenon
  <2>2. PICK j : BeginMove(i, j)
    BY <2>1, Zenon
  <2>3. Memory' = Memory /\ pool' = pool /\ unvetted' = unvetted
    BY <1>1, Zenon DEF timerFires, rotateNow, compose, Memory, runtimeVars, runtimeState
  <2> QED
    BY <2>1, <2>2, <2>3, BeginKeeps, Zenon
<1>2. CASE commit(i) \/ advanceIndex(i) \/ checkpointRead(i) \/ checkpointWrite(i)
  BY <1>2, CommitKeeps, AdvanceKeeps, CheckpointReadKeeps, CheckpointWriteKeeps, Zenon
<1>3. ASSUME NEW ok \in BOOLEAN,
             \/ probe(i, ok) \/ applyToml(i, ok) \/ verify(i, ok)
             \/ restoreToml(i, ok) \/ persistRotationCursor(i, ok)
      PROVE  RotationIInv'
  BY <1>3, ProbeKeeps, TomlKeeps, VerifyKeeps, RestoreTomlKeeps, PersistKeeps, Zenon
<1>4. ASSUME NEW accepted \in BOOLEAN, NEW saved \in BOOLEAN,
             applyRust(i, accepted, saved) \/ restoreRust(i, accepted, saved)
      PROVE  RotationIInv'
  BY <1>4, RustKeeps, RestoreRustKeeps, Zenon
<1> QED
  BY <1>1, <1>2, <1>3, <1>4, Zenon DEF Pass

LEMMA NextKeeps ==
    ASSUME RotationIInv, [RotationNext]_allVars
    PROVE  RotationIInv'
<1>1. ASSUME NEW i \in Slots, Pass(i) PROVE RotationIInv'
  BY <1>1, PassKeeps, Zenon
<1>2. CASE onCadencePrefChanged
  BY <1>2, CadenceKeeps, Zenon
<1>3. CASE runningEdge \/ startEngineStandalone
  BY <1>3, StartKeeps, Zenon DEF runningEdge, startEngineStandalone, runtimeVars, runtimeState
<1>4. CASE stopEngineStandalone
  BY <1>4, StopKeeps, Zenon DEF stopEngineStandalone, runtimeVars, runtimeState
<1>5. CASE stoppedEdge
  <2>1. pool' = pool /\ (stop \/ stopAndStart)
    BY <1>5, Zenon DEF stoppedEdge, runtimeVars, runtimeState
  <2>2. CASE stop
    BY <2>1, <2>2, StopKeeps, Zenon
  <2>3. CASE stopAndStart
    <3>1. Idle' = Idle
      BY <2>1, <2>3, Zenon DEF stopAndStart, Idle
    <3> QED
      BY <2>3, <3>1, StartOverKeeps, Zenon DEF stopAndStart
  <2> QED
    BY <2>1, <2>2, <2>3
<1>6. CASE runtimeEdge
  BY <1>6, UnderPassesKeeps, Zenon DEF runtimeEdge
<1>7. CASE crash
  BY <1>7, CrashKeeps, Zenon
<1>8. CASE UNCHANGED allVars
  BY <1>8, SameKeeps, Zenon DEF allVars, rotationVars, rotationGhost, runtimeVars, runtimeState, Idle
<1> QED
  BY <1>1, <1>2, <1>3, <1>4, <1>5, <1>6, <1>7, <1>8, Zenon DEF RotationNext
\* The inductive invariant of RotationManager over its runtime holds in every
\* reachable state.
THEOREM RotationInvariant == RotationSpec => []RotationIInv
<1>1. RotationInit => RotationIInv
  BY InitHolds
<1>2. RotationIInv /\ [RotationNext]_allVars => RotationIInv'
  BY NextKeeps
<1> QED
  BY <1>1, <1>2, PTL DEF RotationSpec

\* The rollback target of rotateOnce answered a real query: whatever the
\* number of coroutines and sets, lastVerifiedSet is a mute set only after a
\* declined swap or a crossing.
THEOREM VerifiedAnsweredAlways == RotationSpec => []VerifiedAnswered
<1>1. RotationIInv => VerifiedAnswered
  BY DEF RotationIInv
<1> QED
  BY <1>1, RotationInvariant, PTL

\* The third fail-safe of rotateOnce leaves no mute set installed: once no pass
\* is under way a mute pool was never vetted, or a declined swap, a crossing or
\* a cancelled verification let it stay.
THEOREM MuteRolledBackAlways == RotationSpec => []MuteRolledBack
<1>1. RotationIInv => MuteRolledBack
  <2> SUFFICES ASSUME RotationIInv, Quiet, lastVerifiedSet # NoSet, pool \in Mute
               PROVE  unvetted \/ events \cap {"declined", "crossed", "cancelled"} # {}
    BY DEF MuteRolledBack
  <2>1. ASSUME NEW i \in Slots
        PROVE  job[i].pc \notin {"verify", "restoreToml", "restoreRust"}
    BY DEF Quiet, Asleep
  <2> QED
    BY <2>1, Zenon DEF RotationIInv, MutePending, Past
<1> QED
  BY <1>1, RotationInvariant, PTL

\* The index that seeds the next shuffle counts the committed swaps, across
\* stop, start, a cadence change and the death of the process.
THEOREM IndexCountsCommitsAlways == RotationSpec => []IndexCountsCommits
<1>1. RotationIInv => IndexCountsCommits
  <2> SUFFICES ASSUME RotationIInv, Quiet, rotationJob # NoJob,
                      ~Past({"crossed", "unsaved"})
               PROVE  rotationIndex = commits
    BY Zenon DEF IndexCountsCommits, Past
  <2>1. ~At({"index"})
    BY DEF Quiet, Asleep, At
  <2> QED
    BY <2>1, Zenon DEF RotationIInv, Counts, CursorMemory, Active
<1> QED
  BY <1>1, RotationInvariant, PTL

\* Only a commit moves the set that landed.
LEMMA OnlyCommitCounts ==
    ASSUME [RotationNext]_allVars, commits' # commits
    PROVE  \E i \in Slots : commit(i)
<1>1. ASSUME NEW i \in Slots, Pass(i), ~commit(i) PROVE commits' = commits
  <2>1. CASE timerFires(i) \/ rotateNow(i)
    BY <2>1, Zenon DEF timerFires, rotateNow, compose
  <2>2. CASE advanceIndex(i) \/ checkpointRead(i) \/ checkpointWrite(i)
    BY <2>2, Zenon DEF advanceIndex, checkpointRead, checkpointWrite, rotationGhost
  <2>3. ASSUME NEW ok \in BOOLEAN,
               \/ probe(i, ok) \/ applyToml(i, ok) \/ verify(i, ok)
               \/ restoreToml(i, ok) \/ persistRotationCursor(i, ok)
        PROVE  commits' = commits
    BY <2>3, Zenon DEF probe, applyToml, verify, restoreToml, persistRotationCursor, rotationGhost
  <2>4. ASSUME NEW accepted \in BOOLEAN, NEW saved \in BOOLEAN,
               applyRust(i, accepted, saved) \/ restoreRust(i, accepted, saved)
        PROVE  commits' = commits
    BY <2>4, Zenon DEF applyRust, restoreRust
  <2> QED
    BY <1>1, <2>1, <2>2, <2>3, <2>4, Zenon DEF Pass
<1>2. onCadencePrefChanged => commits' = commits
  BY Zenon DEF onCadencePrefChanged
<1>3. start \/ stop \/ stopAndStart => commits' = commits
  BY Zenon DEF start, stop, stopAndStart
<1>4. runtimeEdge \/ crash => commits' = commits
  BY Zenon DEF runtimeEdge, UnderPasses, crash
<1>5. UNCHANGED allVars => commits' = commits
  BY Zenon DEF allVars, rotationVars, rotationGhost
<1> QED
  BY <1>1, <1>2, <1>3, <1>4, <1>5, Zenon
     DEF RotationNext, runningEdge, stoppedEdge, startEngineStandalone, stopEngineStandalone

\* Two consecutive committed sets have different lead operators, in the same
\* process and across its death (excludeFamily and the durable cursor).
THEOREM LeadNeverRepeatsAlways == RotationSpec => LeadNeverRepeats
<1>1. ASSUME RotationIInv, [RotationNext]_allVars,
             landed # NoSet, commits' = commits + 1, Lead[landed'] = Lead[landed]
      PROVE  events \cap {"crossed", "unsaved"} # {}
  <2> SUFFICES ASSUME ~Past({"crossed", "unsaved"}) PROVE FALSE
    BY Zenon DEF Past
  <2>1. commits' # commits
    <3>1. commits \in Nat
      BY <1>1, Zenon DEF RotationIInv, RotationTypeOK
    <3> QED
      BY <1>1, <3>1, SMT
  <2>2. PICK i \in Slots : commit(i)
    BY <1>1, <2>1, OnlyCommitCounts, Zenon
  <2>3. job[i].pc = "commit" /\ landed' = job[i].set
    BY <2>2, Zenon DEF commit
  <2>4. job[i].pc \in Steps \ {"ckRead", "ckWrite"}
        /\ job[i].pc \in {"probe", "toml", "rust", "verify", "commit"}
    BY <2>3 DEF Steps
  <2>5. job[i].set \in Sets
    BY <1>1, <2>4, Zenon DEF RotationIInv, Picked
  <2>6. PassCounts
    BY <1>1, Zenon DEF RotationIInv, Counts
  <2>7. Lead[landed] \notin Operators[job[i].set]
    BY <1>1, <2>4, <2>6, Zenon DEF PassCounts
  <2> QED
    BY <1>1, <2>3, <2>5, <2>7, RotationAssumption, Zenon
<1>2. RotationIInv /\ [RotationNext]_allVars =>
        [landed # NoSet /\ commits' = commits + 1 /\ Lead[landed'] = Lead[landed]
            => events \cap {"crossed", "unsaved"} # {}]_allVars
  BY <1>1, Zenon
<1> QED
  BY <1>2, RotationInvariant, PTL DEF RotationSpec, LeadNeverRepeats
=============================================================================
