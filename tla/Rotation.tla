------------------------------- MODULE Rotation -------------------------------
(***************************************************************************)
(* RotationManager.kt over ResolverRuntime: the cadence timer, Rotate Now, *)
(* the rotation pass with its three fail-safes, the durable cursor of      *)
(* lib.rs and the state-loop edges that drive both managers.               *)
(*                                                                         *)
(* Kotlin cancels a coroutine at its next suspension point, so stop() ends *)
(* a pass that waits or verifies, is swallowed by a pass that probes, and  *)
(* lets any other pass run on to its next suspension.  The servers of one  *)
(* pick are one member of Sets, with the operators that run them and the   *)
(* lead operator that the manager records.                                 *)
(***************************************************************************)
EXTENDS ResolverRuntime, Sequences

CONSTANTS
    Slots,          \* coroutines of the manager that may exist at once
    Operators,      \* Operators[s]: the operators of the servers of s
    Lead,           \* Lead[s]: the first one, the family that is recorded
    Mute,           \* sets that accept connections and answer nothing
    Order,          \* Order[i]: the shuffle of the signed list with seed i
    MaxCommits      \* bound on the commits of a behaviour

NoFamily == "no family"
NoSet    == "no set"
NoJob    == "no job"

\* A set names its lead operator among its operators; a shuffle holds known
\* sets.
ASSUME RotationAssumption ==
    /\ NoSet \notin Sets /\ NoJob \notin Slots /\ Mute \subseteq Sets
    /\ \A s \in Sets : Lead[s] \in Operators[s] /\ Lead[s] # NoFamily
    /\ MaxCommits \in Nat
    /\ \A n \in 0..(MaxCommits - 1) : Order[n] \in Seq(Sets)

VARIABLES
    edge,           \* what the state loop has told rotation, not yet the runtime
    rotationJob,    \* slot of the armed timer, or NoJob
    job,
    lastVerifiedSet, lastOperatorFamily, rotationIndex,
    cursor,         \* the durable "resolver-rotation" record
    commits,        \* ghost: committed swaps since the record was cold
    landed,         \* ghost: the set of the last committed swap
    unvetted,       \* ghost: an edge or the detector configured the pool last
    events          \* ghost: what has interfered with a pass so far

rotationGhost == <<commits, landed, unvetted, events>>
rotationVars  == <<edge, rotationJob, job, lastVerifiedSet,
                   lastOperatorFamily, rotationIndex, cursor,
                   rotationGhost>>
allVars       == <<runtimeVars, rotationVars>>

NoCursor == [family |-> NoFamily, index |-> 0]
Free     == [pc |-> "free", manual |-> FALSE, boot |-> FALSE, cancelled |-> FALSE,
             set |-> NoSet, failed |-> NoSet, held |-> NoCursor]
Asleep   == {"settle", "wait"}
Steps    == {"probe", "toml", "rust", "verify", "restoreToml", "restoreRust",
             "commit", "index", "persist", "ckRead", "ckWrite"}

RotationInit ==
    /\ RuntimeInit
    /\ edge = "none"
    /\ rotationJob = NoJob /\ job = [i \in Slots |-> Free]
    /\ lastVerifiedSet = NoSet /\ lastOperatorFamily = NoFamily /\ rotationIndex = 0
    /\ cursor = NoCursor
    /\ commits = 0 /\ landed = NoSet /\ unvetted = FALSE
    /\ events = {}

------------------------------------------------------------------------------
\* What has interfered.  No property claims anything past a crossing, so a
\* crossing stands for everything else.
note(causes) ==
    events' = IF "crossed" \in events \cup causes THEN {"crossed"}
              ELSE events \cup causes

\* A pass of another coroutine is under way.
Busy(i) == \E j \in Slots \ {i} : job[j].pc \in Steps

NewTimer(boot) == [Free EXCEPT !.pc = IF boot THEN "settle" ELSE "wait",
                               !.boot = boot]
NextWindow(j) == [NewTimer(FALSE) EXCEPT !.failed = j.failed]

\* Cancellation of the armed timer, as a change of its slot.
Cancelled(j) == IF j.pc \in Asleep \cup {"verify"} THEN Free
                ELSE [j EXCEPT !.cancelled = TRUE]

CancelEvent == IF rotationJob # NoJob /\ job[rotationJob].pc \in Steps
               THEN {"cancelled"} ELSE {}

\* Slip: only the index is restored.
rehydrateIndexOnly ==
    /\ rotationIndex' = IF cursor = NoCursor THEN rotationIndex ELSE cursor.index
    /\ UNCHANGED lastOperatorFamily

\* Slip: only the family is restored.
rehydrateFamilyOnly ==
    /\ lastOperatorFamily' = IF cursor.family # NoFamily
                             THEN cursor.family ELSE lastOperatorFamily
    /\ UNCHANGED rotationIndex

\* rehydrateRotationCursor: a warm record replaces the cursor in memory.
rehydrateRotationCursor ==
    IF cursor = NoCursor
    THEN UNCHANGED <<lastOperatorFamily, rotationIndex>>
    ELSE /\ rotationIndex' = cursor.index
         /\ lastOperatorFamily' = IF cursor.family # NoFamily
                                  THEN cursor.family ELSE lastOperatorFamily

\* start(), with jobs the coroutines after any cancellation.
startOver(jobs) ==
    \E i \in Slots :
        /\ jobs[i].pc = "free"
        /\ job' = [jobs EXCEPT ![i] = NewTimer(TRUE)]
        /\ rotationJob' = i
        /\ rehydrateRotationCursor

StopJobs == IF rotationJob = NoJob THEN job
            ELSE [job EXCEPT ![rotationJob] = Cancelled(@)]

RehydrateEvent(jobs) ==
    IF \E i \in Slots : jobs[i].pc \in Steps THEN {"crossed"} ELSE {}

start ==
    /\ IF rotationJob # NoJob
       THEN UNCHANGED <<job, rotationJob, lastOperatorFamily, rotationIndex, events>>
       ELSE /\ startOver(job)
            /\ note(RehydrateEvent(job))
    /\ UNCHANGED <<lastVerifiedSet, cursor, commits, landed, unvetted>>

stop ==
    /\ job' = StopJobs /\ rotationJob' = NoJob
    /\ note(CancelEvent)
    /\ UNCHANGED <<lastVerifiedSet, lastOperatorFamily, rotationIndex,
                   cursor, commits, landed, unvetted>>

\* onDnsCryptStopped in standalone: stop() then start().
stopAndStart ==
    /\ startOver(StopJobs)
    /\ note(CancelEvent \cup RehydrateEvent(StopJobs))
    /\ UNCHANGED <<lastVerifiedSet, cursor, commits, landed, unvetted>>

\* onCadencePrefChanged: the timer is cancelled and a plain loop launched.
onCadencePrefChanged ==
    /\ rotationJob # NoJob
    /\ \E i \in Slots :
          /\ StopJobs[i].pc = "free"
          /\ job' = [StopJobs EXCEPT ![i] = NewTimer(FALSE)]
          /\ rotationJob' = i
    /\ note(CancelEvent)
    /\ UNCHANGED <<edge, lastVerifiedSet, lastOperatorFamily,
                   rotationIndex, cursor, commits, landed,
                   unvetted, runtimeVars>>

------------------------------------------------------------------------------
\* selectRandomSet with the index as seed: the operators of the last set are
\* excluded, and the shuffle of what is left is the same for the same list,
\* the same index and the same exclusion.
selectRandomSet ==
    LET order == Order[rotationIndex]
        survives(k) == lastOperatorFamily \notin Operators[order[k]]
        first == {k \in DOMAIN order : survives(k) /\ \A l \in 1..(k - 1) : ~survives(l)}
    IN  IF first = {} THEN NoSet ELSE order[CHOOSE k \in first : TRUE]

\* Where a coroutine goes when rotateOnce returns.
AfterPass(j) ==
    IF j.manual THEN Free
    ELSE IF j.boot THEN IF j.cancelled THEN Free ELSE NextWindow(j)
    ELSE [j EXCEPT !.pc = "ckRead", !.set = NoSet, !.held = NoCursor]

finish(i) == job' = [job EXCEPT ![i] = AfterPass(@)]
goto(i, pc) == job' = [job EXCEPT ![i].pc = pc]

\* rotateOnce up to the probe: the pick is made from the cursor as it is now.
compose(i, manual) ==
    /\ commits < MaxCommits
    /\ LET s == selectRandomSet
       IN  job' = [job EXCEPT ![i] =
                     IF s = NoSet THEN AfterPass([@ EXCEPT !.manual = manual])
                     ELSE [@ EXCEPT !.pc = "probe", !.manual = manual, !.set = s]]
    /\ note(IF Busy(i) THEN {"crossed"} ELSE {})
    /\ UNCHANGED <<edge, rotationJob, lastVerifiedSet, lastOperatorFamily,
                   rotationIndex, cursor, commits, landed,
                   unvetted, runtimeVars>>

timerFires(i) == job[i].pc \in Asleep /\ compose(i, FALSE)

rotateNow(i) == rotationJob # NoJob /\ job[i].pc = "free" /\ compose(i, TRUE)

\* probeReachable: a cancelled probe is reported as a pool of which nothing
\* is reachable.
probe(i, reachable) ==
    /\ job[i].pc = "probe"
    /\ IF reachable /\ ~job[i].cancelled
       THEN goto(i, "toml") ELSE finish(i)
    /\ UNCHANGED <<edge, rotationJob, lastVerifiedSet, lastOperatorFamily,
                   rotationIndex, cursor, rotationGhost, runtimeVars>>

\* applyRotationToDnscrypt: server_names is rewritten and the proxy restarted.
\* written is FALSE when the file or its key is missing or a write fails.
rewriteToml(i, written) ==
    toml' = IF written THEN [toml EXCEPT !.names = job[i].set] ELSE toml

runtimeElse == <<phase, configured, fallbackActive, useRust, checker, stray,
                 queries, fails, fallbackTripQueries, recoverIn, runtimeGhost>>

applyToml(i, written) ==
    /\ job[i].pc = "toml"
    /\ written => toml.names # NoNames
    /\ rewriteToml(i, written)
    /\ IF written THEN goto(i, "rust") ELSE finish(i)
    /\ UNCHANGED <<edge, rotationJob, lastVerifiedSet, lastOperatorFamily,
                   rotationIndex, cursor, rotationGhost, record, pool,
                   runtimeElse>>

SwapEvent(i) == IF pool' = job[i].set THEN {} ELSE {"declined"}

\* The swap of the live pool; the pass then suspends in its verification,
\* where a cancelled one ends.
applyRust(i, accepted, saved) ==
    /\ job[i].pc = "rust"
    /\ applyRotatedPool(job[i].set, accepted, saved)
    /\ note(SwapEvent(i))
    /\ unvetted' = (unvetted /\ pool' # job[i].set)
    /\ IF job[i].cancelled THEN job' = [job EXCEPT ![i] = Free]
                           ELSE goto(i, "verify")
    /\ UNCHANGED <<edge, rotationJob, lastVerifiedSet, lastOperatorFamily,
                   rotationIndex, cursor, commits, landed,
                   runtimeElse>>

\* poolAnswersRealQueries asks the pool that is live, whoever installed it.
CanAnswer(answered) ==
    CASE pool \in Sets  -> answered = (pool \notin Mute)
      [] pool = "none"  -> ~answered
      [] OTHER          -> TRUE

\* Slip: a pool that took the swap counts as verified.
verifyByInstall(i, answered) ==
    /\ job[i].pc = "verify" /\ answered
    /\ goto(i, "commit")
    /\ UNCHANGED <<edge, rotationJob, lastVerifiedSet, lastOperatorFamily,
                   rotationIndex, cursor, commits, landed, unvetted,
                   events, runtimeVars>>

verify(i, answered) ==
    /\ job[i].pc = "verify"
    /\ CanAnswer(answered)
    /\ IF answered THEN goto(i, "commit")
       ELSE LET j == [job[i] EXCEPT !.failed = IF pool = job[i].set THEN pool ELSE @]
            IN  job' = [job EXCEPT ![i] =
                          IF lastVerifiedSet = NoSet THEN AfterPass(j)
                          ELSE [j EXCEPT !.pc = "restoreToml", !.set = lastVerifiedSet]]
    /\ UNCHANGED <<edge, rotationJob, lastVerifiedSet, lastOperatorFamily,
                   rotationIndex, cursor, commits, landed, unvetted,
                   events, runtimeVars>>

\* The rollback: both results are ignored.
restoreToml(i, written) ==
    /\ job[i].pc = "restoreToml"
    /\ rewriteToml(i, written)
    /\ goto(i, "restoreRust")
    /\ UNCHANGED <<edge, rotationJob, lastVerifiedSet, lastOperatorFamily,
                   rotationIndex, cursor, rotationGhost, record, pool,
                   runtimeElse>>

\* Slip: the rollback rewrites the file and leaves the live pool.
restoreNothing(i, accepted, saved) ==
    /\ job[i].pc = "restoreRust"
    /\ finish(i)
    /\ UNCHANGED <<edge, rotationJob, lastVerifiedSet, lastOperatorFamily,
                   rotationIndex, cursor, rotationGhost, runtimeVars>>

restoreRust(i, accepted, saved) ==
    /\ job[i].pc = "restoreRust"
    /\ applyRotatedPool(job[i].set, accepted, saved)
    /\ note(SwapEvent(i))
    /\ unvetted' = (unvetted /\ pool' # job[i].set)
    /\ finish(i)
    /\ UNCHANGED <<edge, rotationJob, lastVerifiedSet, lastOperatorFamily,
                   rotationIndex, cursor, commits, landed,
                   runtimeElse>>

------------------------------------------------------------------------------
\* The commit: rotationIndex += 1 is a read and a write of a volatile field,
\* and the durable write uses what the fields hold when it is called.
commit(i) ==
    /\ job[i].pc = "commit"
    /\ lastVerifiedSet' = job[i].set
    /\ lastOperatorFamily' = Lead[job[i].set]
    /\ job' = [job EXCEPT ![i] = [@ EXCEPT !.pc = "index", !.failed = NoSet,
                                           !.held.index = rotationIndex]]
    /\ commits' = commits + 1 /\ landed' = job[i].set
    /\ UNCHANGED <<edge, rotationJob, rotationIndex, cursor, unvetted, events, runtimeVars>>

advanceIndex(i) ==
    /\ job[i].pc = "index"
    /\ rotationIndex' = job[i].held.index + 1
    /\ job' = [job EXCEPT ![i] = [@ EXCEPT !.pc = "persist",
                                   !.held = [family |-> lastOperatorFamily,
                                             index |-> job[i].held.index + 1]]]
    /\ UNCHANGED <<edge, rotationJob, lastVerifiedSet, lastOperatorFamily,
                   cursor, rotationGhost, runtimeVars>>

persistRotationCursor(i, written) ==
    /\ job[i].pc = "persist"
    /\ cursor' = IF written THEN job[i].held ELSE cursor
    /\ note(IF written THEN {} ELSE {"unsaved"})
    /\ finish(i)
    /\ UNCHANGED <<edge, rotationJob, lastVerifiedSet, lastOperatorFamily,
                   rotationIndex, commits, landed, unvetted,
                   runtimeVars>>

\* checkpoint_rotation: the record is read, its hints refreshed, and the
\* whole record written back, with no lock against the persist of a flip.
checkpointRead(i) ==
    /\ job[i].pc = "ckRead"
    /\ job' = [job EXCEPT ![i] = [@ EXCEPT !.pc = "ckWrite", !.held = cursor]]
    /\ UNCHANGED <<edge, rotationJob, lastVerifiedSet, lastOperatorFamily,
                   rotationIndex, cursor, rotationGhost, runtimeVars>>

checkpointWrite(i) ==
    /\ job[i].pc = "ckWrite"
    /\ cursor' = job[i].held
    /\ job' = [job EXCEPT ![i] = IF @.cancelled THEN Free ELSE NextWindow(@)]
    /\ UNCHANGED <<edge, rotationJob, lastVerifiedSet, lastOperatorFamily,
                   rotationIndex, rotationGhost, runtimeVars>>

Pass(i) ==
    \/ timerFires(i) \/ rotateNow(i)
    \/ commit(i) \/ advanceIndex(i) \/ checkpointRead(i) \/ checkpointWrite(i)
    \/ \E ok \in BOOLEAN :
          \/ probe(i, ok) \/ applyToml(i, ok) \/ verify(i, ok)
          \/ restoreToml(i, ok) \/ persistRotationCursor(i, ok)
    \/ \E accepted, saved \in BOOLEAN :
          applyRust(i, accepted, saved) \/ restoreRust(i, accepted, saved)

------------------------------------------------------------------------------
\* The edges of ModulesStateLoop: rotation is told first, then the runtime,
\* and the coroutines of both run in between.
runningEdge ==
    /\ edge = "none" /\ phase # "running"
    /\ start /\ edge' = "start" /\ UNCHANGED runtimeVars

stoppedEdge ==
    /\ edge = "none" /\ phase = "running"
    /\ \/ stop /\ edge' = "stop"
       \/ stopAndStart /\ edge' = "standalone"
    /\ UNCHANGED runtimeVars

startEngineStandalone ==
    /\ edge = "none" /\ phase = "down"
    /\ start /\ edge' = "standalone" /\ UNCHANGED runtimeVars

stopEngineStandalone ==
    /\ edge = "none" /\ phase = "standalone"
    /\ stop /\ edge' = "stop" /\ UNCHANGED runtimeVars

\* The runtime's half of an edge, or a step of its own.
UnderPasses ==
    /\ unvetted' = (unvetted \/ pool' # pool)
    /\ note(IF pool' # pool /\ \E i \in Slots : job[i].pc \in Steps
            THEN {"crossed"} ELSE {})
    /\ UNCHANGED <<rotationJob, job, lastVerifiedSet, lastOperatorFamily,
                   rotationIndex, cursor, commits, landed>>

runtimeEdge ==
    /\ edge # "none" /\ edge' = "none"
    /\ \/ edge = "start" /\ onDnsCryptStartedIdle
       \/ edge = "stop" /\ onDnsCryptStopped
       \/ \E accepted, saved \in BOOLEAN :
            \/ edge = "start" /\ onDnsCryptStarted(accepted, saved)
            \/ edge = "standalone" /\ onDnsCryptStoppedStandalone(accepted, saved)
    /\ UnderPasses

\* The process dies: the file, the record and the cursor are on disk,
\* everything else starts afresh.
crash ==
    /\ phase' = "down" /\ configured' = FALSE /\ fallbackActive' = FALSE
    /\ checker' = "none" /\ stray' = FALSE /\ pool' = "none"
    /\ queries' = 0 /\ fails' = 0 /\ fallbackTripQueries' = 0 /\ recoverIn' = 0
    /\ sinceTrip' = [queries |-> 0, periods |-> 0] /\ refused' = FALSE
    /\ edge' = "none"
    /\ rotationJob' = NoJob /\ job' = [i \in Slots |-> Free]
    /\ lastVerifiedSet' = NoSet /\ lastOperatorFamily' = NoFamily
    /\ rotationIndex' = 0
    /\ note(IF \E i \in Slots : job[i].pc \in {"index", "persist"}
            THEN {"unsaved"} ELSE {})
    /\ UNCHANGED <<useRust, toml, record, strayed, cursor, commits, landed, unvetted>>

RotationNext ==
    \/ \E i \in Slots : Pass(i)
    \/ onCadencePrefChanged
    \/ runningEdge \/ stoppedEdge \/ startEngineStandalone \/ stopEngineStandalone
    \/ runtimeEdge \/ crash

RotationSpec == RotationInit /\ [][RotationNext]_allVars

------------------------------------------------------------------------------
Quiet == edge = "none" /\ \A i \in Slots : job[i].pc \in Asleep \cup {"free"}

\* The rollback target answered a real query.  It is a mute set only when
\* the verification asked another pool than its own: the swap was declined,
\* or another pass or an edge replaced the pool meanwhile.
VerifiedAnswered ==
    lastVerifiedSet \in Mute => events \cap {"declined", "crossed"} # {}

\* No mute set is left installed once something has been verified, unless an
\* edge installed it, a swap was declined, a stop cut the verification off,
\* or two passes crossed (the third fail-safe of rotateOnce).
MuteRolledBack ==
    Quiet /\ lastVerifiedSet # NoSet /\ pool \in Mute
        => unvetted \/ events \cap {"declined", "crossed", "cancelled"} # {}

\* The index counts the committed swaps, across stops, re-arms and restarts,
\* unless two passes crossed, a durable write was refused, or the process
\* died between a commit and its durable write.
IndexCountsCommits ==
    Quiet /\ rotationJob # NoJob
        => rotationIndex = commits \/ events \cap {"crossed", "unsaved"} # {}

\* The lead operator of two consecutive committed sets differs, across
\* restarts too, under the same exceptions (excludeFamily, the durable
\* cursor).
LeadNeverRepeats ==
    [][ landed # NoSet /\ commits' = commits + 1 /\ Lead[landed'] = Lead[landed]
        => events \cap {"crossed", "unsaved"} # {} ]_allVars

\* "every later reconfigure re-lands the SAME rotated pool": once a pass has
\* committed a set that is live, the configuration file names it.
RotationSurvives ==
    Quiet /\ events = {} /\ pool \in Sets /\ pool = lastVerifiedSet /\ ~unvetted
        => toml.names = pool

\* "let the next cadence re-pick": a set that was rolled back is not picked
\* again from the same list.
NextPickDiffers ==
    \A i \in Slots : job[i].pc = "probe" /\ events = {} => job[i].set # job[i].failed
==============================================================================
