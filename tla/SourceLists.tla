----------------------------- MODULE SourceLists -----------------------------
(***************************************************************************)
(* The refresh of one signed source list (SourceListUpdateManager): sweeps *)
(* that fetch the list and its signature, verify the pair, reject an older *)
(* one and replace both files, over process death and the end of the       *)
(* service scope, which forgets a manager but not its sweep.  The lists of *)
(* a sweep are independent, so one stands for each of them.                *)
(*                                                                         *)
(* A version stands for a genuine list, for its signature and for the      *)
(* timestamp in it.  Mirrors lag: any published version may be fetched,    *)
(* for the list and for the signature separately.  Death is the process's: *)
(* what was written is on disk, loss of power is not modelled.             *)
(***************************************************************************)
EXTENDS Integers, FiniteSets

CONSTANTS MaxVersion,    \* bound: versions published
          Size,          \* version -> length of the list
          MaxManagers    \* bound: service scopes in one process

Versions == 1 .. MaxVersion
Sweeps   == 1 .. 2
Names    == {"md", "sig", "md.new", "sig.new"}
Absent   == 0
Empty    == -1
Torn     == -2

ASSUME ListAssumption ==
  MaxVersion \in Nat \ {0} /\ MaxManagers \in Nat \ {0} /\ Size \in [Versions -> Nat]

VARIABLES
  published,             \* the latest version upstream
  file,                  \* name -> version, or Empty, Torn or no such file (Absent)
  young,                 \* the list is younger than REFRESH_INTERVAL_MS
  accepted, saved,       \* the accepted timestamp, in RAM and on disk
  manager,               \* the manager of the current service scope
  sweeping,              \* the managers whose flag is up
  sweep,                 \* the coroutines in flight
  sweepsMet,             \* ghost: sweeps of two managers were in flight at once
  cut                    \* ghost: a sweep ended between its two files

listVars == <<published, file, young, accepted, saved, manager, sweeping, sweep,
              sweepsMet, cut>>

NoSweep == [pc |-> "idle", owner |-> Absent, md |-> Absent, sig |-> Absent, fd |-> "none"]
NewSweep(m) == [pc |-> "ready", owner |-> m, md |-> Absent, sig |-> Absent, fd |-> "none"]
InFlight == {s \in Sweeps : sweep[s].pc # "idle"}

(* The APK ships the first version, without its signature.                    *)
ListInit ==
  /\ published = 1
  /\ file = [n \in Names |-> IF n = "md" THEN 1 ELSE Absent]
  /\ young = FALSE
  /\ accepted = Absent /\ saved = Absent
  /\ manager = 1 /\ sweeping = {}
  /\ sweep = [s \in Sweeps |-> NoSweep]
  /\ sweepsMet = FALSE /\ cut = FALSE

fileVars == <<file, young, cut>>
prefVars == <<accepted, saved>>
lifeVars == <<published, manager, sweepsMet>>

------------------------------------------------------------------------------
stepTo(s, pc) == sweep' = [sweep EXCEPT ![s].pc = pc] /\ UNCHANGED sweeping

(* The coroutine ends: `finally` lowers the flag of its own manager.          *)
finish(s) ==
  /\ sweep' = [sweep EXCEPT ![s] = NoSweep]
  /\ sweeping' = sweeping \ {sweep[s].owner}

(* Slip: a RUNNING edge starts a sweep although one is in flight.             *)
startAgain ==
  \E s \in Sweeps :
     /\ s \notin InFlight /\ \A r \in Sweeps \ InFlight : s <= r
     /\ sweeping' = sweeping \cup {manager}
     /\ sweep' = [sweep EXCEPT ![s] = NewSweep(manager)]
     /\ sweepsMet' = (sweepsMet \/ \E r \in InFlight : sweep[r].owner # manager)
     /\ UNCHANGED <<published, manager, fileVars, prefVars>>

(* A RUNNING edge.  With the kill-switch off start() does nothing.            *)
start ==
  \E s \in Sweeps :
     /\ manager \notin sweeping
     /\ s \notin InFlight /\ \A r \in Sweeps \ InFlight : s <= r
     /\ sweeping' = sweeping \cup {manager}
     /\ sweep' = [sweep EXCEPT ![s] = NewSweep(manager)]
     /\ sweepsMet' = (sweepsMet \/ \E r \in InFlight : sweep[r].owner # manager)
     /\ UNCHANGED <<published, manager, fileVars, prefVars>>

sweepAt(s, pc) == sweep[s].pc = pc

(* Up to the throttle nothing shared is read: the resolver answers within the *)
(* attempts of awaitResolverReady or does not, then the list is young or old. *)
throttle(s) ==
  /\ sweepAt(s, "ready")
  /\ \/ finish(s)
     \/ ~(file["md"] \notin {Absent, Empty} /\ young) /\ stepTo(s, "fetch")
  /\ UNCHANGED <<lifeVars, fileVars, prefVars>>

verified(md, sig) == md = sig

rollback(sig) == accepted > 0 /\ sig < accepted

(* Both are fetched and checked before anything shared is touched but the     *)
(* accepted timestamp; a mirror may fail at either.                           *)
fetch(s) ==
  /\ sweepAt(s, "fetch")
  /\ \/ finish(s)
     \/ \E md, sig \in 1 .. published :
           /\ verified(md, sig) /\ ~rollback(sig)
           /\ sweep' = [sweep EXCEPT ![s] = [@ EXCEPT !.pc = "open md", !.md = md, !.sig = sig]]
           /\ UNCHANGED sweeping
  /\ UNCHANGED <<lifeVars, fileVars, prefVars>>

------------------------------------------------------------------------------
(* atomicWrite(md), then atomicWrite(sig).                                    *)
Targets == {"md", "sig"}
tmpOf(n)  == IF n = "md" THEN "md.new" ELSE "sig.new"
opens(n) == IF n = "md" THEN "open md" ELSE "open sig"
writes(n) == IF n = "md" THEN "write md" ELSE "write sig"
renames(n) == IF n = "md" THEN "rename md" ELSE "rename sig"

(* A descriptor follows its file: to the new name when the file is renamed,   *)
(* and to no name when the file is deleted or replaced.                       *)
follow(fd, from, to) == CASE fd = from -> to [] fd = to -> "none" [] OTHER -> fd
following(sw, from, to) == [r \in Sweeps |-> [sw[r] EXCEPT !.fd = follow(@, from, to)]]

(* A write that throws, and a rename that fails twice, drop the temporary     *)
(* file and end the list's refresh.                                           *)
dropTmp(s, n) ==
  /\ cut' = (cut \/ n = "sig")
  /\ sweep' = following([sweep EXCEPT ![s] = NoSweep], tmpOf(n), "none")
  /\ sweeping' = sweeping \ {sweep[s].owner}
  /\ UNCHANGED <<lifeVars, young, prefVars>>

open(s, n) ==
  /\ sweepAt(s, opens(n))
  /\ file' = [file EXCEPT ![tmpOf(n)] = Empty]
  /\ sweep' = [sweep EXCEPT ![s] = [@ EXCEPT !.pc = writes(n), !.fd = tmpOf(n)]]
  /\ UNCHANGED <<lifeVars, young, cut, prefVars, sweeping>>

(* Both writers of one file start at its beginning: a shorter list over a     *)
(* longer one leaves the longer one's tail.                                   *)
overlay(old, v) ==
  CASE old = Torn     -> Torn
    [] old = Empty    -> v
    [] OTHER          -> IF old = v \/ Size[v] >= Size[old] THEN v ELSE Torn

write(s, n) ==
  /\ sweepAt(s, writes(n))
  /\ LET v == IF n = "md" THEN sweep[s].md ELSE sweep[s].sig
     IN  file' = [m \in Names |-> IF m = sweep[s].fd THEN overlay(file[m], v) ELSE file[m]]
  /\ sweep' = [sweep EXCEPT ![s] = [@ EXCEPT !.pc = renames(n), !.fd = "none"]]
  /\ UNCHANGED <<lifeVars, young, cut, prefVars, sweeping>>

writeThrows(s, n) ==
  /\ sweepAt(s, writes(n))
  /\ file' = [file EXCEPT ![tmpOf(n)] = Absent]
  /\ dropTmp(s, n)

(* The name is renamed, whosever file it is by now.                           *)
rename(s, n) ==
  /\ sweepAt(s, renames(n))
  /\ file[tmpOf(n)] # Absent
  /\ file' = [m \in Names |-> IF m = n THEN file[tmpOf(n)]
                             ELSE IF m = tmpOf(n) THEN Absent ELSE file[m]]
  /\ young' = (young \/ n = "md")
  /\ cut' = (cut /\ n = "md")
  /\ sweep' = following([sweep EXCEPT ![s].pc = IF n = "md" THEN "open sig" ELSE "record"],
                        tmpOf(n), n)
  /\ UNCHANGED <<lifeVars, prefVars, sweeping>>

(* The app-private filesystem renames over a file, so a rename fails only     *)
(* when there is no temporary file.  The fallback, meant for filesystems that *)
(* refuse, then deletes the target and fails all the same.                    *)
renameFails(s, n) ==
  /\ sweepAt(s, renames(n))
  /\ file[tmpOf(n)] = Absent
  /\ file' = [file EXCEPT ![n] = Absent]
  /\ dropTmp(s, n)

record(s) ==
  /\ sweepAt(s, "record")
  /\ accepted' = sweep[s].sig
  /\ finish(s)
  /\ UNCHANGED <<lifeVars, fileVars, saved>>

SweepStep(s) ==
  \/ throttle(s) \/ fetch(s)
  \/ \E n \in Targets : open(s, n) \/ write(s, n) \/ writeThrows(s, n)
                        \/ rename(s, n) \/ renameFails(s, n)
  \/ record(s)

------------------------------------------------------------------------------
(* apply() reaches the disk some time later.                                  *)
flush ==
  /\ saved # accepted /\ saved' = accepted
  /\ UNCHANGED <<lifeVars, fileVars, accepted, sweeping, sweep>>

(* REFRESH_INTERVAL_MS passes; a sweep does not take that long.               *)
ages ==
  /\ InFlight = {} /\ young /\ young' = FALSE
  /\ UNCHANGED <<lifeVars, file, cut, prefVars, sweeping, sweep>>

publishList ==
  /\ published < MaxVersion /\ published' = published + 1
  /\ UNCHANGED <<manager, sweepsMet, fileVars, prefVars, sweeping, sweep>>

(* The service scope ends and another begins: a new manager, while a sweep of *)
(* the old one goes on.                                                       *)
newScope ==
  /\ manager < MaxManagers /\ manager' = manager + 1
  /\ UNCHANGED <<published, sweepsMet, fileVars, prefVars, sweeping, sweep>>

BetweenFiles(s) == sweep[s].pc \in {"open sig", "write sig", "rename sig"}

kill ==
  /\ sweep' = [s \in Sweeps |-> NoSweep] /\ sweeping' = {} /\ manager' = 1
  /\ accepted' = saved
  /\ cut' = (cut \/ \E s \in Sweeps : BetweenFiles(s))
  /\ UNCHANGED <<published, file, young, saved, sweepsMet>>

ListNext ==
  \/ start \/ flush \/ ages \/ publishList \/ newScope \/ kill
  \/ \E s \in Sweeps : SweepStep(s)

ListSpec == ListInit /\ [][ListNext]_listVars

------------------------------------------------------------------------------
(* The list under its name is a genuine one, whole, wherever the process was  *)
(* killed or a write failed, unless sweeps of two managers overlapped         *)
(* (atomicWrite, VERIFY MINISIGN FIRST).                                      *)
ListGenuine ==
  ~sweepsMet => file["md"] \in Versions

(* The list is never older than the timestamp that was accepted for it, with  *)
(* the same exception (ANTI-ROLLBACK: the timestamp follows the files).       *)
NotBelowAccepted ==
  ~sweepsMet /\ file["md"] # Absent => file["md"] >= accepted

(* List and signature are of one version, unless a sweep is between the two   *)
(* files, or the last one ended there.                                        *)
PairAgrees ==
  ~sweepsMet /\ ~cut /\ file["sig"] # Absent /\ (\A s \in Sweeps : ~BetweenFiles(s)) =>
     file["md"] = file["sig"]

(* Does not hold: what refreshOne says of a failure, that the current list is *)
(* kept.                                                                      *)
ListKept == file["md"] # Absent

(* Does not hold: what the class comment says of a replayed list, that one    *)
(* older than the last accepted is rejected.                                  *)
NeverOlder == [][ file'["md"] # Absent /\ file["md"] # Absent =>
                  file'["md"] >= file["md"] ]_listVars
==============================================================================
