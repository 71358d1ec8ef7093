--------------------------- MODULE SourceListsProofs ---------------------------
(***************************************************************************)
(* Proofs about SourceLists: as long as the sweeps of two managers have    *)
(* not been in flight at once, the one sweep in flight owns the temporary  *)
(* files, and the list, its signature and the accepted timestamp agree.    *)
(***************************************************************************)
EXTENDS SourceLists, TLAPS

PCs == {"idle", "ready", "fetch", "open md", "write md", "rename md",
        "open sig", "write sig", "rename sig", "record"}
Sweep == [pc : PCs, owner : Nat, md : 0 .. MaxVersion, sig : 0 .. MaxVersion,
          fd : Names \cup {"none"}]

ListTypeOK ==
  /\ published \in Versions
  /\ file \in [Names -> Versions \cup {Absent, Empty, Torn}]
  /\ young \in BOOLEAN /\ sweepsMet \in BOOLEAN /\ cut \in BOOLEAN
  /\ accepted \in 0 .. MaxVersion /\ saved \in 0 .. MaxVersion
  /\ manager \in Nat
  /\ sweep \in [Sweeps -> Sweep]

(* One sweep at a time, under its manager's flag.                             *)
Alone == /\ \A s, r \in InFlight : s = r
         /\ \A s \in InFlight : sweep[s].owner \in sweeping

(* What the sweep in flight has fetched and written.                          *)
Holding(s) == sweep[s].pc \notin {"idle", "ready", "fetch"}
Written(s) == sweep[s].pc \in {"open sig", "write sig", "rename sig", "record"}

Working ==
  \A s \in Sweeps :
     /\ Holding(s) => /\ sweep[s].md \in Versions /\ sweep[s].sig = sweep[s].md
                      /\ accepted <= sweep[s].md
     /\ \A n \in Targets :
           /\ sweep[s].pc = writes(n) => sweep[s].fd = tmpOf(n) /\ file[tmpOf(n)] = Empty
           /\ sweep[s].pc = renames(n) => file[tmpOf(n)] = sweep[s].md
     /\ Written(s) => file["md"] = sweep[s].md
     /\ sweep[s].pc = "record" => file["sig"] = sweep[s].sig

(* The files and the timestamp.                                               *)
Between == \E s \in Sweeps : BetweenFiles(s)
Files ==
  /\ file["md"] \in Versions
  /\ saved <= accepted /\ accepted <= file["md"]
  /\ ~cut /\ file["sig"] # Absent /\ ~Between => file["md"] = file["sig"]

IInv == ListTypeOK /\ (~sweepsMet => Alone /\ Working /\ Files)

-------------------------------------------------------------------------------
LEMMA FollowingOK ==
  ASSUME NEW sw \in [Sweeps -> Sweep], NEW from \in Names, NEW to \in Names \cup {"none"}
  PROVE  /\ following(sw, from, to) \in [Sweeps -> Sweep]
         /\ \A r \in Sweeps :
               /\ following(sw, from, to)[r].pc = sw[r].pc
               /\ following(sw, from, to)[r].owner = sw[r].owner
               /\ following(sw, from, to)[r].md = sw[r].md
               /\ following(sw, from, to)[r].sig = sw[r].sig
<1>1. \A r \in Sweeps : follow(sw[r].fd, from, to) \in Names \cup {"none"}
  BY DEF follow, Sweep
<1>2. \A r \in Sweeps : [sw[r] EXCEPT !.fd = follow(sw[r].fd, from, to)] \in Sweep
  BY <1>1 DEF Sweep
<1>3. following(sw, from, to) = [r \in Sweeps |-> [sw[r] EXCEPT !.fd = follow(sw[r].fd, from, to)]]
  BY DEF following
<1>4. \A r \in Sweeps : sw[r] \in Sweep
  OBVIOUS
<1> QED
  BY <1>2, <1>3, <1>4 DEF Sweep

LEMMA TargetNames ==
  \A n \in Targets : /\ n \in Names /\ tmpOf(n) \in Names /\ tmpOf(n) \notin Targets
                     /\ opens(n) \in PCs /\ writes(n) \in PCs /\ renames(n) \in PCs
BY DEF Targets, Names, tmpOf, opens, writes, renames, PCs

LEMMA NoSweepOK == NoSweep \in Sweep
BY ListAssumption DEF NoSweep, Sweep, PCs, Absent

LEMMA OthersIdle ==
  ASSUME Alone, NEW s \in Sweeps, sweep[s].pc # "idle"
  PROVE  \A r \in Sweeps \ {s} : sweep[r].pc = "idle"
BY DEF Alone, InFlight

(* The invariant after a step of the only sweep.                              *)
LEMMA OneSweep ==
  ASSUME NEW s \in Sweeps, \A r \in Sweeps \ {s} : sweep'[r].pc = "idle",
         sweep'[s].pc # "idle" => sweep'[s].owner \in sweeping'
  PROVE  /\ Alone'
         /\ Between' <=> BetweenFiles(s)'
         /\ (/\ Holding(s) => /\ sweep[s].md \in Versions /\ sweep[s].sig = sweep[s].md
                              /\ accepted <= sweep[s].md
             /\ \A n \in Targets :
                   /\ sweep[s].pc = writes(n) =>
                         sweep[s].fd = tmpOf(n) /\ file[tmpOf(n)] = Empty
                   /\ sweep[s].pc = renames(n) => file[tmpOf(n)] = sweep[s].md
             /\ Written(s) => file["md"] = sweep[s].md
             /\ sweep[s].pc = "record" => file["sig"] = sweep[s].sig)'
            => Working'
<1>1. Alone'
  BY DEF Alone, InFlight
<1>2. Between' <=> BetweenFiles(s)'
  BY DEF Between, BetweenFiles
<1>3. \A r \in Sweeps \ {s} : /\ ~Holding(r)' /\ ~Written(r)' /\ sweep'[r].pc # "record"
                              /\ \A n \in Targets : sweep'[r].pc # writes(n)
                                                    /\ sweep'[r].pc # renames(n)
  BY DEF Holding, Written, writes, renames
<1> QED
  BY <1>1, <1>2, <1>3 DEF Working

LEMMA ListInitIInv == ListInit => IInv
<1> SUFFICES ASSUME ListInit PROVE IInv
  OBVIOUS
<1>1. ListTypeOK
  <2>1. young \in BOOLEAN /\ sweepsMet \in BOOLEAN /\ cut \in BOOLEAN
    BY Zenon DEF ListInit
  <2>2. sweep \in [Sweeps -> Sweep]
    BY NoSweepOK DEF ListInit
  <2>3. file \in [Names -> Versions \cup {Absent, Empty, Torn}]
    BY ListAssumption DEF ListInit, Versions
  <2>4. published \in Versions /\ accepted \in 0 .. MaxVersion /\ saved \in 0 .. MaxVersion
        /\ manager \in Nat
    BY ListAssumption DEF ListInit, Versions, Absent
  <2> QED
    BY <2>1, <2>2, <2>3, <2>4 DEF ListTypeOK
<1>2. \A s \in Sweeps : sweep[s].pc = "idle"
  BY DEF ListInit, NoSweep
<1>3. Alone /\ Working
  BY <1>2 DEF Alone, InFlight, Working, Holding, Written, writes, renames
<1>4. Files
  BY ListAssumption DEF ListInit, Files, Versions, Names, Absent
<1> QED
  BY <1>1, <1>3, <1>4 DEF IInv

(* A sweep that ends with the files as they are.                              *)
LEMMA FinishIInv ==
  ASSUME IInv, NEW s \in Sweeps, finish(s), sweep[s].pc # "idle",
         ~BetweenFiles(s),
         UNCHANGED <<published, file, young, cut, accepted, saved, manager, sweepsMet>>
  PROVE  IInv'
<1>1. ListTypeOK'
  BY NoSweepOK DEF finish, IInv, ListTypeOK
<1>2. ASSUME ~sweepsMet PROVE Alone' /\ Working' /\ Files'
  <2>1. Alone /\ Working /\ Files
    BY <1>2 DEF IInv
  <2>2. sweep'[s].pc = "idle" /\ \A r \in Sweeps \ {s} : sweep'[r].pc = "idle"
    BY <2>1, OthersIdle DEF finish, IInv, ListTypeOK, NoSweep
  <2>3. Alone' /\ Working' /\ ~Between'
    BY <2>2, OneSweep DEF Holding, Written, writes, renames, BetweenFiles
  <2>4. ~Between
    BY <2>1, OthersIdle DEF Between, BetweenFiles
  <2> QED
    BY <2>1, <2>3, <2>4 DEF Files
<1> QED
  BY <1>1, <1>2 DEF IInv

LEMMA StartIInv == ASSUME IInv, start PROVE IInv'
<1>1. PICK s \in Sweeps :
         /\ manager \notin sweeping /\ s \notin InFlight
         /\ sweeping' = sweeping \cup {manager}
         /\ sweep' = [sweep EXCEPT ![s] = NewSweep(manager)]
         /\ sweepsMet' = (sweepsMet \/ \E r \in InFlight : sweep[r].owner # manager)
  BY Zenon DEF start
<1>2. /\ published' = published /\ file' = file /\ young' = young /\ cut' = cut
      /\ accepted' = accepted /\ saved' = saved /\ manager' = manager
  BY DEF start, fileVars, prefVars
<1>3. NewSweep(manager) \in Sweep
  <2>1. manager \in Nat /\ 0 \in 0 .. MaxVersion
    BY ListAssumption DEF IInv, ListTypeOK
  <2> QED
    BY <2>1 DEF NewSweep, Sweep, PCs, Absent
<1>4. ListTypeOK'
  <2>1. sweepsMet' \in BOOLEAN
    BY <1>1
  <2> QED
    BY <1>1, <1>2, <1>3, <2>1 DEF IInv, ListTypeOK
<1>5. ASSUME ~sweepsMet' PROVE Alone' /\ Working' /\ Files'
  <2>1. ~sweepsMet /\ \A r \in InFlight : sweep[r].owner = manager
    BY Zenon, <1>1, <1>5
  <2>2. Alone /\ Working /\ Files
    BY <2>1 DEF IInv
  <2>3. InFlight = {}
    BY <1>1, <2>1, <2>2 DEF Alone
  <2>4. /\ sweep'[s].pc = "ready" /\ sweep'[s].owner \in sweeping'
        /\ \A r \in Sweeps \ {s} : sweep'[r].pc = "idle"
    BY <1>1, <2>3 DEF IInv, ListTypeOK, NewSweep, InFlight
  <2>5. Alone' /\ Working' /\ ~Between'
    BY <2>4, OneSweep DEF Holding, Written, writes, renames, BetweenFiles
  <2>6. ~Between
    BY <2>3 DEF Between, BetweenFiles, InFlight
  <2> QED
    BY <1>2, <2>2, <2>5, <2>6 DEF Files
<1> QED
  BY <1>4, <1>5 DEF IInv

(* A step of a sweep that changes its record and keeps the flags: what the     *)
(* record's new fields are, and that the others stay idle.                     *)
LEMMA ThrottleIInv == ASSUME IInv, NEW s \in Sweeps, throttle(s) PROVE IInv'
<1>1. /\ sweep[s].pc = "ready" /\ sweep[s] \in Sweep
      /\ published' = published /\ file' = file /\ young' = young /\ cut' = cut
      /\ accepted' = accepted /\ saved' = saved /\ manager' = manager
      /\ sweepsMet' = sweepsMet
  BY DEF throttle, sweepAt, lifeVars, fileVars, prefVars, IInv, ListTypeOK
<1>2. CASE finish(s)
  BY <1>1, <1>2, FinishIInv DEF BetweenFiles
<1>3. CASE stepTo(s, "fetch")
  <2>1. ListTypeOK'
    BY <1>1, <1>3 DEF stepTo, IInv, ListTypeOK, Sweep, PCs
  <2>2. ASSUME ~sweepsMet PROVE Alone' /\ Working' /\ Files'
    <3>1. Alone /\ Working /\ Files
      BY <2>2 DEF IInv
    <3>2. /\ sweep'[s].pc = "fetch" /\ sweep'[s].owner = sweep[s].owner
          /\ sweeping' = sweeping /\ \A r \in Sweeps \ {s} : sweep'[r] = sweep[r]
      BY <1>1, <1>3 DEF stepTo, IInv, ListTypeOK, Sweep
    <3>3. sweep'[s].owner \in sweeping' /\ \A r \in Sweeps \ {s} : sweep'[r].pc = "idle"
      BY <1>1, <3>1, <3>2, OthersIdle DEF Alone, InFlight
    <3>4. Alone' /\ Working' /\ ~Between'
      BY <3>2, <3>3, OneSweep DEF Holding, Written, writes, renames, BetweenFiles
    <3>5. ~Between
      BY Zenon, <1>1, <3>1, OthersIdle DEF Between, BetweenFiles
    <3> QED
      BY <1>1, <3>1, <3>4, <3>5 DEF Files
  <2> QED
    BY <1>1, <2>1, <2>2 DEF IInv
<1> QED
  BY <1>2, <1>3 DEF throttle

LEMMA FetchIInv == ASSUME IInv, NEW s \in Sweeps, fetch(s) PROVE IInv'
<1>1. /\ sweep[s].pc = "fetch" /\ sweep[s] \in Sweep
      /\ published' = published /\ file' = file /\ young' = young /\ cut' = cut
      /\ accepted' = accepted /\ saved' = saved /\ manager' = manager
      /\ sweepsMet' = sweepsMet
  BY Zenon DEF fetch, sweepAt, lifeVars, fileVars, prefVars, IInv, ListTypeOK
<1>2. CASE finish(s)
  BY <1>1, <1>2, FinishIInv DEF BetweenFiles
<1>3. ASSUME NEW md \in 1 .. published, NEW sig \in 1 .. published,
             verified(md, sig), ~rollback(sig),
             sweep' = [sweep EXCEPT ![s] = [@ EXCEPT !.pc = "open md", !.md = md, !.sig = sig]],
             UNCHANGED sweeping
      PROVE  IInv'
  <2>1. md \in Versions /\ sig = md /\ md \in 0 .. MaxVersion /\ accepted <= md
    BY <1>3, ListAssumption DEF verified, rollback, IInv, ListTypeOK, Versions
  <2> DEFINE c == [sweep[s] EXCEPT !.pc = "open md", !.md = md, !.sig = sig]
  <2>2. c \in Sweep
    BY <1>1, <2>1 DEF Sweep, PCs
  <2>3. sweep' = [sweep EXCEPT ![s] = c]
    BY <1>3
  <2>4. ListTypeOK'
    BY <1>1, <2>2, <2>3 DEF IInv, ListTypeOK
  <2>5. /\ sweep'[s].pc = "open md" /\ sweep'[s].owner = sweep[s].owner
        /\ sweep'[s].md = md /\ sweep'[s].sig = md
        /\ \A r \in Sweeps \ {s} : sweep'[r] = sweep[r]
    BY <1>1, <2>1, <2>3 DEF IInv, ListTypeOK, Sweep
  <2>6. ASSUME ~sweepsMet PROVE Alone' /\ Working' /\ Files'
    <3>1. Alone /\ Working /\ Files
      BY <2>6 DEF IInv
    <3>2. sweep'[s].owner \in sweeping' /\ \A r \in Sweeps \ {s} : sweep'[r].pc = "idle"
      <4>1. sweeping' = sweeping
        BY <1>3
      <4> QED
        BY <1>1, <2>5, <3>1, <4>1, OthersIdle DEF Alone, InFlight
    <3>3. Alone' /\ Working' /\ ~Between'
      <4>1. Alone' /\ ~Between'
        BY <2>5, <3>2, OneSweep DEF BetweenFiles
      <4>2. /\ ~Written(s)' /\ sweep'[s].pc # "record"
            /\ \A n \in Targets : sweep'[s].pc # writes(n) /\ sweep'[s].pc # renames(n)
        BY <2>5 DEF Written, writes, renames
      <4>3. sweep'[s].md \in Versions /\ sweep'[s].sig = sweep'[s].md /\ accepted' <= sweep'[s].md
        BY <1>1, <2>1, <2>5
      <4>4. Working'
        BY <2>5, <3>2, <4>2, <4>3, OneSweep
      <4> QED
        BY <4>1, <4>4
    <3>4. ~Between
      BY <1>1, <3>1, OthersIdle DEF Between, BetweenFiles
    <3> QED
      BY <1>1, <3>1, <3>3, <3>4 DEF Files
  <2> QED
    BY <1>1, <2>4, <2>6 DEF IInv
<1> QED
  BY Zenon, <1>2, <1>3 DEF fetch

LEMMA OpenIInv == ASSUME IInv, NEW s \in Sweeps, NEW n \in Targets, open(s, n) PROVE IInv'
<1>1. /\ sweep[s].pc = opens(n) /\ sweep[s] \in Sweep
      /\ published' = published /\ young' = young /\ cut' = cut
      /\ accepted' = accepted /\ saved' = saved /\ manager' = manager
      /\ sweepsMet' = sweepsMet /\ sweeping' = sweeping
      /\ file' = [file EXCEPT ![tmpOf(n)] = Empty]
  BY DEF open, sweepAt, lifeVars, prefVars, IInv, ListTypeOK
<1> DEFINE c == [sweep[s] EXCEPT !.pc = writes(n), !.fd = tmpOf(n)]
<1>2. c \in Sweep
  BY Zenon, <1>1, TargetNames DEF Sweep
<1>3. sweep' = [sweep EXCEPT ![s] = c]
  BY DEF open
<1>4. ListTypeOK'
  BY Zenon, <1>1, <1>2, <1>3 DEF IInv, ListTypeOK
<1>5. /\ sweep'[s].pc = writes(n) /\ sweep'[s].owner = sweep[s].owner
      /\ sweep'[s].md = sweep[s].md /\ sweep'[s].sig = sweep[s].sig
      /\ sweep'[s].fd = tmpOf(n)
      /\ \A r \in Sweeps \ {s} : sweep'[r] = sweep[r]
  BY <1>1, <1>3 DEF IInv, ListTypeOK, Sweep
<1>6. /\ file'["md"] = file["md"] /\ file'["sig"] = file["sig"] /\ file'[tmpOf(n)] = Empty
  BY <1>1, TargetNames DEF IInv, ListTypeOK, Targets, Names, tmpOf
<1>7. ASSUME ~sweepsMet PROVE Alone' /\ Working' /\ Files'
  <2>1. Alone /\ Working /\ Files
    BY <1>7 DEF IInv
  <2>2. sweep[s].pc # "idle"
    BY <1>1 DEF opens
  <2>3. sweep'[s].owner \in sweeping' /\ \A r \in Sweeps \ {s} : sweep'[r].pc = "idle"
    BY <1>1, <1>5, <2>1, <2>2, OthersIdle DEF Alone, InFlight
  <2>4. /\ sweep[s].md \in Versions /\ sweep[s].sig = sweep[s].md /\ accepted <= sweep[s].md
        /\ n = "sig" => file["md"] = sweep[s].md
    BY <1>1, <2>1 DEF Working, Holding, Written, opens
  <2>5. Alone' /\ (Between' <=> BetweenFiles(s)')
    BY <2>3, OneSweep
  <2>6. Working'
    BY Zenon, <1>1, <1>5, <1>6, <2>3, <2>4, OneSweep
       DEF Holding, Written, writes, renames, Targets, tmpOf
  <2>7. Between => Between'
    BY <1>1, <1>5, <2>1, <2>2, <2>5, OthersIdle
       DEF Between, BetweenFiles, opens, writes, Targets
  <2> QED
    BY <1>1, <1>6, <2>1, <2>5, <2>6, <2>7 DEF Files
<1> QED
  BY <1>1, <1>4, <1>7 DEF IInv

LEMMA OverlayOK ==
  ASSUME NEW old \in Versions \cup {Absent, Empty, Torn}, NEW v \in Versions \cup {Absent}
  PROVE  /\ overlay(old, v) \in Versions \cup {Absent, Empty, Torn}
         /\ old = Empty => overlay(old, v) = v
BY ListAssumption DEF overlay, Versions, Absent, Empty, Torn

LEMMA WriteIInv == ASSUME IInv, NEW s \in Sweeps, NEW n \in Targets, write(s, n) PROVE IInv'
<1> DEFINE v == IF n = "md" THEN sweep[s].md ELSE sweep[s].sig
           c == [sweep[s] EXCEPT !.pc = renames(n), !.fd = "none"]
<1>1. /\ sweep[s].pc = writes(n) /\ sweep[s] \in Sweep
      /\ published' = published /\ young' = young /\ cut' = cut
      /\ accepted' = accepted /\ saved' = saved /\ manager' = manager
      /\ sweepsMet' = sweepsMet /\ sweeping' = sweeping
      /\ file' = [m \in Names |-> IF m = sweep[s].fd THEN overlay(file[m], v) ELSE file[m]]
  BY DEF write, sweepAt, lifeVars, prefVars, IInv, ListTypeOK
<1>2. c \in Sweep
  BY Zenon, <1>1, TargetNames DEF Sweep
<1>3. sweep' = [sweep EXCEPT ![s] = c]
  BY DEF write
<1>4. v \in Versions \cup {Absent}
  BY <1>1, ListAssumption DEF Sweep, Versions, Absent
<1>5. file' \in [Names -> Versions \cup {Absent, Empty, Torn}]
  <2>1. \A m \in Names : file[m] \in Versions \cup {Absent, Empty, Torn}
    BY DEF IInv, ListTypeOK
  <2> HIDE DEF v
  <2> QED
    BY <1>1, <1>4, <2>1, OverlayOK
<1>6. ListTypeOK'
  BY <1>1, <1>2, <1>3, <1>5 DEF IInv, ListTypeOK
<1>7. /\ sweep'[s].pc = renames(n) /\ sweep'[s].owner = sweep[s].owner
      /\ sweep'[s].md = sweep[s].md /\ sweep'[s].sig = sweep[s].sig
      /\ \A r \in Sweeps \ {s} : sweep'[r] = sweep[r]
  BY <1>1, <1>3 DEF IInv, ListTypeOK, Sweep
<1>8. ASSUME ~sweepsMet PROVE Alone' /\ Working' /\ Files'
  <2>1. Alone /\ Working /\ Files
    BY <1>8 DEF IInv
  <2>2. sweep[s].pc # "idle"
    BY <1>1 DEF writes
  <2>3. sweep'[s].owner \in sweeping' /\ \A r \in Sweeps \ {s} : sweep'[r].pc = "idle"
    BY <1>1, <1>7, <2>1, <2>2, OthersIdle DEF Alone, InFlight
  <2>4. /\ sweep[s].md \in Versions /\ sweep[s].sig = sweep[s].md /\ accepted <= sweep[s].md
        /\ n = "sig" => file["md"] = sweep[s].md
    BY <1>1, <2>1 DEF Working, Holding, Written, writes
  <2>5. sweep[s].fd = tmpOf(n) /\ file[tmpOf(n)] = Empty
    BY <1>1, <2>1 DEF Working
  <2>6. file'[tmpOf(n)] = v
    <3>1. file[tmpOf(n)] \in Versions \cup {Absent, Empty, Torn}
      BY <2>5
    <3> HIDE DEF v
    <3> QED
      BY <1>1, <1>4, <2>5, <3>1, TargetNames, OverlayOK
  <2>7. file'[tmpOf(n)] = sweep[s].md
    BY <2>4, <2>6
  <2>8. file'["md"] = file["md"] /\ file'["sig"] = file["sig"]
    BY Zenon, <1>1, <2>5 DEF tmpOf, Names
  <2>9. Alone' /\ (Between' <=> BetweenFiles(s)')
    BY <2>3, OneSweep
  <2>10. Working'
    BY ZenonT(30), <1>1, <1>7, <2>3, <2>4, <2>7, <2>8, OneSweep
       DEF Holding, Written, writes, renames, Targets, tmpOf
  <2>11. Between => Between'
    BY <1>1, <1>7, <2>1, <2>2, <2>9, OthersIdle
       DEF Between, BetweenFiles, writes, renames, Targets
  <2> QED
    BY <1>1, <2>1, <2>8, <2>9, <2>10, <2>11 DEF Files
<1> QED
  BY <1>1, <1>6, <1>8 DEF IInv

(* A write that throws removes the temporary file alone.                      *)
LEMMA WriteThrowsIInv ==
  ASSUME IInv, NEW s \in Sweeps, NEW n \in Targets, writeThrows(s, n)
  PROVE  IInv'
<1> DEFINE sw == [sweep EXCEPT ![s] = NoSweep]
<1>1. /\ sweep[s].pc = writes(n)
      /\ published' = published /\ young' = young /\ cut' = (cut \/ n = "sig")
      /\ accepted' = accepted /\ saved' = saved /\ manager' = manager
      /\ sweepsMet' = sweepsMet /\ file' = [file EXCEPT ![tmpOf(n)] = Absent]
      /\ sweep' = following(sw, tmpOf(n), "none")
  BY DEF writeThrows, dropTmp, sweepAt, lifeVars, prefVars
<1>2. sw \in [Sweeps -> Sweep]
  BY NoSweepOK DEF IInv, ListTypeOK
<1>3. sweep' \in [Sweeps -> Sweep] /\ \A r \in Sweeps : sweep'[r].pc = sw[r].pc
  <2> HIDE DEF sw
  <2> QED
    BY <1>1, <1>2, FollowingOK, TargetNames
<1>4. ListTypeOK'
  <2>1. cut' \in BOOLEAN
    BY <1>1
  <2> QED
    BY Zenon, <1>1, <1>3, <2>1 DEF IInv, ListTypeOK
<1>5. file'["md"] = file["md"] /\ file'["sig"] = file["sig"]
  BY <1>1 DEF IInv, ListTypeOK, Names, tmpOf
<1>6. ASSUME ~sweepsMet PROVE Alone' /\ Working' /\ Files'
  <2>1. Alone /\ Working /\ Files
    BY <1>6 DEF IInv
  <2>2. \A r \in Sweeps : sweep'[r].pc = "idle"
    <3>1. sweep[s].pc # "idle"
      BY <1>1 DEF writes
    <3> QED
      BY <1>3, <2>1, <3>1, OthersIdle DEF IInv, ListTypeOK, NoSweep
  <2>3. Alone' /\ Working'
    BY <2>2 DEF Alone, InFlight, Working, Holding, Written, writes, renames
  <2>4. ~cut' => ~cut /\ ~Between
    <3>1. ~cut' => ~cut /\ n = "md"
      BY Zenon, <1>1 DEF Targets
    <3>2. n = "md" => ~Between
      BY <1>1, <2>1, OthersIdle DEF writes, Between, BetweenFiles
    <3> QED
      BY <3>1, <3>2
  <2> QED
    BY <1>1, <1>5, <2>1, <2>3, <2>4 DEF Files
<1> QED
  BY <1>1, <1>4, <1>6 DEF IInv

LEMMA RenameIInv == ASSUME IInv, NEW s \in Sweeps, NEW n \in Targets, rename(s, n) PROVE IInv'
<1> DEFINE next == IF n = "md" THEN "open sig" ELSE "record"
           sw == [sweep EXCEPT ![s].pc = next]
<1>1. /\ sweep[s].pc = renames(n) /\ sweep[s] \in Sweep
      /\ published' = published /\ young' = (young \/ n = "md") /\ cut' = (cut /\ n = "md")
      /\ accepted' = accepted /\ saved' = saved /\ manager' = manager
      /\ sweepsMet' = sweepsMet /\ sweeping' = sweeping
      /\ file' = [m \in Names |-> IF m = n THEN file[tmpOf(n)]
                                 ELSE IF m = tmpOf(n) THEN Absent ELSE file[m]]
      /\ sweep' = following(sw, tmpOf(n), n)
  BY DEF rename, sweepAt, lifeVars, prefVars, IInv, ListTypeOK
<1>2. sw \in [Sweeps -> Sweep]
  BY ZenonT(30) DEF IInv, ListTypeOK, Sweep, PCs
<1>3. /\ sweep' \in [Sweeps -> Sweep]
      /\ \A r \in Sweeps : /\ sweep'[r].pc = sw[r].pc /\ sweep'[r].owner = sw[r].owner
                           /\ sweep'[r].md = sw[r].md /\ sweep'[r].sig = sw[r].sig
  <2> HIDE DEF sw
  <2> QED
    BY <1>1, <1>2, FollowingOK, TargetNames
<1>4. /\ sw[s].pc = next /\ sw[s].owner = sweep[s].owner
      /\ sw[s].md = sweep[s].md /\ sw[s].sig = sweep[s].sig
      /\ \A r \in Sweeps \ {s} : sw[r].pc = sweep[r].pc
  BY <1>1 DEF IInv, ListTypeOK, Sweep
<1> HIDE DEF sw
<1>5. ListTypeOK'
  <2>1. cut' \in BOOLEAN /\ young' \in BOOLEAN
    BY <1>1
  <2>2. file' \in [Names -> Versions \cup {Absent, Empty, Torn}]
    BY <1>1, TargetNames DEF IInv, ListTypeOK
  <2> QED
    BY <1>1, <1>3, <2>1, <2>2 DEF IInv, ListTypeOK
<1>6. /\ file'[n] = file[tmpOf(n)]
      /\ n = "sig" => file'["md"] = file["md"]
  BY <1>1 DEF Targets, tmpOf, Names
<1>7. ASSUME ~sweepsMet PROVE Alone' /\ Working' /\ Files'
  <2>1. Alone /\ Working /\ Files
    BY <1>7 DEF IInv
  <2>2. sweep[s].pc # "idle"
    BY <1>1 DEF renames
  <2>3. sweep'[s].owner \in sweeping' /\ \A r \in Sweeps \ {s} : sweep'[r].pc = "idle"
    BY Zenon, <1>1, <1>3, <1>4, <2>1, <2>2, OthersIdle DEF Alone, InFlight
  <2>4. /\ sweep[s].md \in Versions /\ sweep[s].sig = sweep[s].md /\ accepted <= sweep[s].md
        /\ n = "sig" => file["md"] = sweep[s].md
        /\ file[tmpOf(n)] = sweep[s].md
    BY <1>1, <2>1 DEF Working, Holding, Written, renames
  <2>5. file'["md"] = sweep[s].md /\ (n = "sig" => file'["sig"] = sweep[s].md)
    BY <1>6, <2>4 DEF Targets
  <2>6. /\ sweep'[s].pc = next /\ sweep'[s].md = sweep[s].md /\ sweep'[s].sig = sweep[s].md
    BY Zenon, <1>3, <1>4, <2>4
  <2>7. Alone' /\ (Between' <=> BetweenFiles(s)')
    BY <2>3, OneSweep
  <2>8. Working'
    <3>1. \A m \in Targets : sweep'[s].pc # writes(m) /\ sweep'[s].pc # renames(m)
      BY <2>6 DEF writes, renames
    <3>2. sweep'[s].pc = "record" => file'["sig"] = sweep'[s].sig
      BY <2>5, <2>6 DEF Targets
    <3> QED
      BY <1>1, <2>3, <2>4, <2>5, <2>6, <3>1, <3>2, OneSweep
  <2>9. n = "md" => Between'
    BY <2>6, <2>7 DEF BetweenFiles
  <2>10. Files'
    <3>1. file'["md"] \in Versions /\ saved' <= accepted' /\ accepted' <= file'["md"]
      BY <1>1, <2>1, <2>4, <2>5 DEF Files
    <3>2. ~Between' => file'["md"] = file'["sig"]
      BY <2>5, <2>9 DEF Targets
    <3> QED
      BY <3>1, <3>2 DEF Files
  <2> QED
    BY <2>7, <2>8, <2>10
<1> QED
  BY <1>1, <1>5, <1>7 DEF IInv

(* The fallback of atomicWrite deletes the target, but only a sweep of         *)
(* another manager can have taken the temporary file away.                     *)
LEMMA RenameFailsIInv ==
  ASSUME IInv, NEW s \in Sweeps, NEW n \in Targets, renameFails(s, n)
  PROVE  IInv'
<1> DEFINE sw == [sweep EXCEPT ![s] = NoSweep]
<1>1. /\ sweep[s].pc = renames(n) /\ file[tmpOf(n)] = Absent
      /\ published' = published /\ young' = young /\ cut' = (cut \/ n = "sig")
      /\ accepted' = accepted /\ saved' = saved /\ manager' = manager
      /\ sweepsMet' = sweepsMet /\ file' = [file EXCEPT ![n] = Absent]
      /\ sweep' = following(sw, tmpOf(n), "none")
  BY DEF renameFails, dropTmp, sweepAt, lifeVars, prefVars
<1>2. sw \in [Sweeps -> Sweep]
  BY NoSweepOK DEF IInv, ListTypeOK
<1>3. sweep' \in [Sweeps -> Sweep]
  <2> HIDE DEF sw
  <2> QED
    BY <1>1, <1>2, FollowingOK, TargetNames
<1>4. ListTypeOK'
  <2>1. cut' \in BOOLEAN
    BY <1>1
  <2> QED
    BY Zenon, <1>1, <1>3, <2>1 DEF IInv, ListTypeOK
<1>5. sweepsMet
  <2> SUFFICES ASSUME ~sweepsMet PROVE FALSE
    OBVIOUS
  <2>1. Working
    BY DEF IInv
  <2>2. file[tmpOf(n)] = sweep[s].md /\ sweep[s].md \in Versions
    BY <1>1, <2>1 DEF Working, Holding, renames
  <2> QED
    BY <1>1, <2>2, ListAssumption DEF Versions, Absent
<1> QED
  BY <1>1, <1>4, <1>5 DEF IInv

LEMMA RecordIInv == ASSUME IInv, NEW s \in Sweeps, record(s) PROVE IInv'
<1>1. /\ sweep[s].pc = "record" /\ sweep[s] \in Sweep /\ accepted' = sweep[s].sig
      /\ published' = published /\ file' = file /\ young' = young /\ cut' = cut
      /\ saved' = saved /\ manager' = manager /\ sweepsMet' = sweepsMet
      /\ sweep' = [sweep EXCEPT ![s] = NoSweep]
  BY DEF record, finish, sweepAt, lifeVars, fileVars, IInv, ListTypeOK
<1>2. ListTypeOK'
  BY <1>1, NoSweepOK DEF IInv, ListTypeOK, Sweep
<1>3. ASSUME ~sweepsMet PROVE Alone' /\ Working' /\ Files'
  <2>1. Alone /\ Working /\ Files
    BY <1>3 DEF IInv
  <2>2. \A r \in Sweeps : sweep'[r].pc = "idle"
    BY <1>1, <2>1, OthersIdle DEF IInv, ListTypeOK, NoSweep
  <2>3. Alone' /\ Working'
    BY <2>2 DEF Alone, InFlight, Working, Holding, Written, writes, renames
  <2>4. /\ sweep[s].md \in Versions /\ sweep[s].sig = sweep[s].md /\ accepted <= sweep[s].md
        /\ file["md"] = sweep[s].md /\ file["sig"] = sweep[s].md
    BY <1>1, <2>1 DEF Working, Holding, Written
  <2>5. saved <= sweep[s].md
    BY <2>1, <2>4 DEF Files, IInv, ListTypeOK, Versions
  <2>6. sweep[s].md <= sweep[s].md
    BY <2>4, ListAssumption DEF Versions
  <2> QED
    BY <1>1, <2>3, <2>4, <2>5, <2>6 DEF Files
<1> QED
  BY <1>1, <1>2, <1>3 DEF IInv

LEMMA FlushIInv == ASSUME IInv, flush PROVE IInv'
<1>1. /\ saved' = accepted /\ accepted' = accepted /\ sweeping' = sweeping /\ sweep' = sweep
      /\ published' = published /\ file' = file /\ young' = young /\ cut' = cut
      /\ manager' = manager /\ sweepsMet' = sweepsMet /\ accepted \in 0 .. MaxVersion
  BY DEF flush, lifeVars, fileVars, IInv, ListTypeOK
<1>2. ListTypeOK'
  BY <1>1 DEF IInv, ListTypeOK
<1>3. Alone => Alone'
  BY <1>1 DEF Alone, InFlight
<1>4. Working => Working'
  BY <1>1 DEF Working, Holding, Written
<1>5. Files => Files'
  <2>1. Between' <=> Between
    BY <1>1 DEF Between, BetweenFiles
  <2>2. accepted <= accepted
    BY <1>1
  <2> QED
    BY <1>1, <2>1, <2>2 DEF Files
<1> QED
  BY <1>1, <1>2, <1>3, <1>4, <1>5 DEF IInv

(* Steps that leave the sweeps, the files and the timestamps alone.            *)
LEMMA KeptIInv ==
  ASSUME IInv, sweep' = sweep, sweeping' = sweeping, file' = file, cut' = cut,
         accepted' = accepted, saved' = saved, sweepsMet' = sweepsMet,
         published' \in Versions, young' \in BOOLEAN, manager' \in Nat
  PROVE  IInv'
BY DEF IInv, ListTypeOK, Alone, InFlight, Working, Holding, Written, Files, Between,
       BetweenFiles

LEMMA QuietIInv ==
  ASSUME IInv, ages \/ publishList \/ newScope \/ UNCHANGED listVars
  PROVE  IInv'
<1>1. published \in Versions /\ young \in BOOLEAN /\ manager \in Nat
  BY DEF IInv, ListTypeOK
<1>2. CASE ages
  BY Zenon, <1>1, <1>2, KeptIInv DEF ages, lifeVars, prefVars
<1>3. CASE publishList
  <2>1. published' \in Versions
    BY <1>1, <1>3, ListAssumption DEF publishList, Versions
  <2> QED
    BY <1>1, <1>3, <2>1, KeptIInv DEF publishList, fileVars, prefVars
<1>4. CASE newScope
  BY <1>1, <1>4, KeptIInv DEF newScope, fileVars, prefVars
<1>5. CASE UNCHANGED listVars
  BY <1>1, <1>5, KeptIInv DEF listVars
<1> QED
  BY <1>2, <1>3, <1>4, <1>5

(* The process dies anywhere, between the two files included.                  *)
LEMMA KillIInv == ASSUME IInv, kill PROVE IInv'
<1>1. /\ sweep' = [s \in Sweeps |-> NoSweep] /\ accepted' = saved /\ manager' = 1
      /\ cut' = (cut \/ Between)
      /\ published' = published /\ file' = file /\ young' = young /\ saved' = saved
      /\ sweepsMet' = sweepsMet
  BY DEF kill, Between
<1>2. ListTypeOK'
  <2>1. cut' \in BOOLEAN
    BY <1>1
  <2> QED
    BY <1>1, <2>1, NoSweepOK DEF IInv, ListTypeOK
<1>3. ASSUME ~sweepsMet PROVE Alone' /\ Working' /\ Files'
  <2>1. Files
    BY <1>3 DEF IInv
  <2>2. \A r \in Sweeps : sweep'[r].pc = "idle"
    BY <1>1 DEF NoSweep
  <2>3. Alone' /\ Working'
    BY <2>2 DEF Alone, InFlight, Working, Holding, Written, writes, renames
  <2>4. saved <= saved /\ saved <= file["md"]
    BY <2>1 DEF Files, IInv, ListTypeOK, Versions
  <2>5. ~cut' => ~cut /\ ~Between
    BY Zenon, <1>1
  <2> QED
    BY <1>1, <2>1, <2>3, <2>4, <2>5 DEF Files
<1> QED
  BY <1>1, <1>2, <1>3 DEF IInv

LEMMA ListNextIInv == IInv /\ [ListNext]_listVars => IInv'
<1> SUFFICES ASSUME IInv, [ListNext]_listVars PROVE IInv'
  OBVIOUS
<1>1. ASSUME NEW s \in Sweeps, SweepStep(s) PROVE IInv'
  BY <1>1, ThrottleIInv, FetchIInv, OpenIInv, WriteIInv, WriteThrowsIInv, RenameIInv,
     RenameFailsIInv, RecordIInv DEF SweepStep
<1> QED
  BY <1>1, StartIInv, FlushIInv, QuietIInv, KillIInv DEF ListNext

-------------------------------------------------------------------------------
(* The inductive invariant of the refresh, for any number of versions, of      *)
(* service scopes and of deaths.                                               *)
THEOREM ListInvariant == ListSpec => []IInv
BY ListInitIInv, ListNextIInv, PTL DEF ListSpec

(* Wherever refreshOne dies or fails, the list under its name is a whole,      *)
(* verified one, unless sweeps of two managers overlapped.                     *)
THEOREM ListIsGenuine == ListSpec => []ListGenuine
<1>1. IInv => ListGenuine
  BY DEF IInv, Files, ListGenuine
<1> QED
  BY <1>1, ListInvariant, PTL

(* With the same exception the list never falls below the timestamp accepted   *)
(* for it: the rollback check of refreshOne cannot lock the app out of the     *)
(* list it has.                                                                *)
THEOREM ListNotBelowAccepted == ListSpec => []NotBelowAccepted
<1>1. IInv => NotBelowAccepted
  <2> SUFFICES ASSUME IInv, ~sweepsMet PROVE file["md"] >= accepted
    BY DEF NotBelowAccepted
  <2> QED
    BY DEF IInv, ListTypeOK, Files, Versions
<1> QED
  BY <1>1, ListInvariant, PTL

(* List and signature on disk are a pair, unless a sweep is, or was cut,       *)
(* between its two calls of atomicWrite.                                       *)
THEOREM ListPairAgrees == ListSpec => []PairAgrees
<1>1. IInv => PairAgrees
  BY DEF IInv, Files, PairAgrees, Between
<1> QED
  BY <1>1, ListInvariant, PTL
=============================================================================
