------------------------------ MODULE Hysteresis ------------------------------
(***************************************************************************)
(* The anti-flap gate of the solver (Hysteresis.kt): the Schmitt latch,    *)
(* the debounce, the dwell and cooldown windows and the switch margin,     *)
(* folded over a caller that observes, races on SOLVE and stamps the       *)
(* outcome.  Signals and scores are integers on the scale of Enter and     *)
(* Exit.  Time does not go back (the gate takes the caller's clock).       *)
(***************************************************************************)
EXTENDS Integers, Sequences

CONSTANTS triggerEnter, triggerExit, confirmSamples, dwell, cooldown,
          switchMargin,             \* in percent
          Signals, Scores,
          MaxTime, MaxRun           \* bounds on the clock and on the run

ASSUME HysteresisAssumption ==
    /\ triggerEnter \in Nat /\ triggerExit \in Nat /\ triggerExit < triggerEnter
    /\ confirmSamples \in Nat \ {0}
    /\ dwell \in Nat /\ cooldown \in Nat /\ switchMargin \in 0..100
    /\ Signals \subseteq Nat /\ Scores \subseteq Nat /\ MaxTime \in Nat
    /\ MaxRun \in Nat /\ MaxRun >= confirmSamples

VARIABLES
    armed, confirmRun, dwellUntil, cooldownUntil, lastCommit,
    racing,         \* observe has said SOLVE and the race is on
    incumbent,      \* score of the locked binding, -1 for none
    time,
    committed,      \* ghost: there has been a commit
    recent          \* ghost: the last confirmSamples signals since then

hysteresisVars == <<armed, confirmRun, dwellUntil, cooldownUntil, lastCommit,
                    racing, incumbent, time, committed, recent>>

HysteresisTypeOK ==
    /\ armed \in BOOLEAN /\ racing \in BOOLEAN /\ committed \in BOOLEAN
    /\ confirmRun \in 0..MaxRun
    /\ dwellUntil \in Nat /\ cooldownUntil \in Nat /\ lastCommit \in Nat
    /\ incumbent \in Scores \cup {-1}
    /\ time \in Nat /\ recent \in Seq(Signals)

HysteresisInit ==
    /\ armed = FALSE /\ confirmRun = 0 /\ dwellUntil = 0 /\ cooldownUntil = 0
    /\ lastCommit = 0 /\ racing = FALSE /\ incumbent = -1 /\ time = 0
    /\ committed = FALSE /\ recent = <<>>

------------------------------------------------------------------------------
\* The latch: raised at triggerEnter, lowered below triggerExit, held between.
latch(s) == s >= triggerEnter \/ (s >= triggerExit /\ armed)

\* Past MaxRun a run is not told from a longer one.
Longer(run) == IF run < MaxRun THEN run + 1 ELSE MaxRun

debounce(s) == IF s >= triggerEnter THEN Longer(confirmRun) ELSE 0

\* Slip: the windows are alternatives.
windowsEither == time >= dwellUntil \/ time >= cooldownUntil

windowsOver == time >= dwellUntil /\ time >= cooldownUntil

Window(seq) == IF Len(seq) > confirmSamples THEN Tail(seq) ELSE seq

observe(s) ==
    /\ ~racing
    /\ armed' = latch(s) /\ confirmRun' = debounce(s)
    /\ racing' = (armed' /\ confirmRun' >= confirmSamples /\ windowsOver)
    /\ recent' = Window(Append(recent, s))
    /\ UNCHANGED <<dwellUntil, cooldownUntil, lastCommit, incumbent, time, committed>>

\* decideSwitch, without division.
decideSwitch(candidate, dead) ==
    \/ incumbent = -1
    \/ dead
    \/ candidate * 100 <= incumbent * (100 - switchMargin)

\* applySolve, at the end of a race that switched or kept.
applySolve(candidate, dead) ==
    /\ racing /\ racing' = FALSE
    /\ armed' = FALSE /\ confirmRun' = 0
    /\ dwellUntil' = time + dwell /\ cooldownUntil' = time + cooldown
    /\ lastCommit' = time
    /\ incumbent' = IF decideSwitch(candidate, dead) THEN candidate ELSE incumbent
    /\ committed' = TRUE /\ recent' = <<>>
    /\ UNCHANGED time

Tick ==
    /\ time < MaxTime /\ time' = time + 1
    /\ UNCHANGED <<armed, confirmRun, dwellUntil, cooldownUntil, lastCommit,
                   racing, incumbent, committed, recent>>

Solve == \E candidate \in Scores, dead \in BOOLEAN : applySolve(candidate, dead)

HysteresisNext == Tick \/ (\E s \in Signals : observe(s)) \/ Solve

HysteresisSpec == HysteresisInit /\ [][HysteresisNext]_hysteresisVars

------------------------------------------------------------------------------
\* The composite law: between two commits, races that keep the incumbent
\* included, lie at least the dwell and the cooldown (Hysteresis.kt: "a
\* commit can happen at most once per max(dwellMs, cooldownMs)").
CommitsSpaced ==
    [][ Solve /\ committed
        => time - lastCommit >= dwell /\ time - lastCommit >= cooldown ]_hysteresisVars

\* A race has behind it confirmSamples signals in a row at or above the
\* enter rail, all of them since the last commit: neither a spike, nor any
\* oscillation that dips into the dead band, nor the obstruction that the
\* last race answered starts one (latch, debounce, applySolve).
RaceConfirmed ==
    racing => /\ Len(recent) = confirmSamples
              /\ \A i \in DOMAIN recent : recent[i] >= triggerEnter
==============================================================================
