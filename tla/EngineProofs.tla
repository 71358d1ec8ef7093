----------------------------- MODULE EngineProofs -----------------------------
(***************************************************************************)
(* Proofs about the parts of the engine that keep something across         *)
(* queries: the durable tier, the certificates of the upstreams and the    *)
(* block lists.                                                            *)
(***************************************************************************)
EXTENDS DurableTier, Certificates, Blocklists,
        FiniteSetTheorems, WellFoundedInduction, TLAPS

-----------------------------------------------------------------------------
(***************************************************************************)
(* Theorems about the durable tier, for any number of writers, any         *)
(* payloads and any frame sizes.                                           *)
(***************************************************************************)

(***************************************************************************)
(* The inductive invariant.  A call in progress has a payload that fits,   *)
(* and only a finished call has a result.  As long as no two calls have    *)
(* overlapped, the one that has opened the temporary file has it to        *)
(* itself: the file holds what that call has written so far, it is not the *)
(* record, and the record is a whole frame.                                *)
(***************************************************************************)
Written(v, k) == [i \in 1 .. k |-> <<v, i>>]

CallOK(w) ==
    /\ writer[w].pc = "idle" => writer[w].payload = NoRecord
    /\ writer[w].pc # "idle" => /\ writer[w].payload \in Payloads
                                /\ Blocks[writer[w].payload] <= MaxBlocks
                                /\ writer[w].at <= Blocks[writer[w].payload]
                                /\ writer[w].result = "none"
    /\ writer[w].pc = "open" => writer[w].at = 0

Alone(w) ==
    writer[w].pc \in {"write", "rename"} =>
        /\ tmp # 0
        /\ \A u \in Writers \ {w} : writer[u].pc \in {"idle", "open"}
        /\ writer[w].pc = "write" =>
              writer[w].fd = tmp /\ inode[tmp] = Written(writer[w].payload, writer[w].at)
        /\ writer[w].pc = "rename" => inode[tmp] = Frame(writer[w].payload)

RecordWhole ==
    final # 0 => \E v \in Payloads : Blocks[v] <= MaxBlocks /\ inode[final] = Frame(v)

IInv ==
    /\ TypeOK
    /\ tmp # 0 => tmp # final
    /\ \A w \in Writers : CallOK(w)
    /\ ~overlapped => RecordWhole /\ \A w \in Writers : Alone(w)

-----------------------------------------------------------------------------
(* Inodes, frames and blocks *)

\* One inode more than names and descriptors can hold: open always finds one.
LEMMA CountOK == Cardinality(Writers) \in Nat
  BY TierAssumption, FS_CardinalityType

LEMMA UnusedOK ==
  ASSUME TypeOK, tmp = 0
  PROVE  /\ Unused \in Inodes /\ Unused # final
         /\ \A w \in Writers : writer[w].fd # Unused
<1> DEFINE fd   == [w \in Writers |-> writer[w].fd]
           Open == {fd[w] : w \in Writers}
           used == Open \cup {final}
<1>1. fd \in Surjection(Writers, Open)
  BY DEF Surjection
<1>2. IsFiniteSet(Open) /\ Cardinality(Open) <= Cardinality(Writers)
  BY <1>1, FS_Surjection, TierAssumption
<1>3. IsFiniteSet(used) /\ Cardinality(used) <= Cardinality(Writers) + 1
  <2>1. ASSUME NEW S, NEW x, IsFiniteSet(S), Cardinality(S) <= Cardinality(Writers)
        PROVE  IsFiniteSet(S \cup {x}) /\ Cardinality(S \cup {x}) <= Cardinality(Writers) + 1
    <3>1. Cardinality(S) \in Nat
      BY <2>1, FS_CardinalityType
    <3>2. /\ IsFiniteSet(S \cup {x})
          /\ Cardinality(S \cup {x}) \in {Cardinality(S), Cardinality(S) + 1}
      BY <2>1, FS_AddElement, Zenon
    <3> QED  BY <2>1, <3>1, <3>2, CountOK
  <2> HIDE DEF Open
  <2> QED  BY <1>2, <2>1
<1>4. IsFiniteSet(Inodes) /\ Cardinality(Inodes) = Cardinality(Writers) + 2
  <2>1. ASSUME NEW n \in Nat PROVE IsFiniteSet(1 .. n) /\ Cardinality(1 .. n) = n
    BY FS_Interval
  <2>2. Cardinality(Writers) + 2 \in Nat
    BY CountOK
  <2> QED  BY <2>1, <2>2, Zenon DEF Inodes
<1>5. PICK i \in Inodes : i \notin used
  <2>1. ASSUME Inodes \subseteq used PROVE FALSE
    <3> HIDE DEF used
    <3> QED  BY <2>1, <1>3, <1>4, FS_Subset, FS_CardinalityType, CountOK
  <2> QED  BY <2>1
<1>6. i # tmp /\ i # final /\ \A w \in Writers : writer[w].fd # i
  BY <1>5, CountOK DEF Inodes
<1> QED  BY <1>6, CountOK DEF Unused, Inodes

\* A frame names its payload, so reading a whole frame back gives it.
LEMMA UnframeFrame ==
  ASSUME NEW v \in Payloads, Blocks[v] <= MaxBlocks
  PROVE  Unframe(Frame(v)) = v
<1>1. Blocks[v] \in Nat \ {0}
  BY TierAssumption
<1>2. ASSUME NEW u \in Payloads, Frame(u) = Frame(v) PROVE u = v
  <2>1. Blocks[u] \in Nat \ {0}
    BY TierAssumption
  <2>2. Frame(u)[1] = <<u, 1>> /\ Frame(v)[1] = <<v, 1>>
    BY <1>1, <2>1 DEF Frame
  <2> QED  BY <2>2, <1>2
<1>3. Len(Frame(v)) = Blocks[v]
  BY <1>1 DEF Frame
<1> QED  BY <1>2, <1>3 DEF Unframe

\* An empty file is no record.
LEMMA UnframeEmpty == Unframe(<<>>) = NoRecord
<1>1. ASSUME NEW v \in Payloads, <<>> = Frame(v) PROVE FALSE
  <2>1. Blocks[v] \in Nat \ {0}
    BY TierAssumption
  <2>2. 1 \in DOMAIN Frame(v)
    BY <2>1 DEF Frame
  <2> QED  BY <1>1, <2>2
<1> QED  BY <1>1 DEF Unframe

\* A write keeps a file within the bound, whatever another call did to it.
LEMMA PutBlockOK ==
  ASSUME NEW blocks \in Seq(Block), Len(blocks) <= MaxBlocks,
         NEW n \in 1 .. MaxBlocks, NEW b \in Block
  PROVE  PutBlock(blocks, n, b) \in Seq(Block) /\ Len(PutBlock(blocks, n, b)) <= MaxBlocks
<1> DEFINE m == IF n > Len(blocks) THEN n ELSE Len(blocks)
<1>1. MaxBlocks \in Nat /\ Len(blocks) \in Nat /\ m \in Nat /\ m <= MaxBlocks
  BY TierAssumption
<1>2. \A i \in 1 .. m : (IF i = n THEN b ELSE IF i <= Len(blocks) THEN blocks[i] ELSE Hole)
                        \in Block
  BY <1>1 DEF Block
<1>3. PutBlock(blocks, n, b) \in [1 .. m -> Block]
  BY <1>2 DEF PutBlock
<1> QED  BY <1>1, <1>3

\* The next block of a payload extends what is written of it.
LEMMA PutBlockNext ==
  ASSUME NEW v, NEW k \in Nat
  PROVE  PutBlock(Written(v, k), k + 1, <<v, k + 1>>) = Written(v, k + 1)
<1>1. Len(Written(v, k)) = k
  BY DEF Written
<1>2. PutBlock(Written(v, k), k + 1, <<v, k + 1>>)
        = [i \in 1 .. k + 1 |-> IF i = k + 1 THEN <<v, k + 1>>
                                ELSE IF i <= k THEN Written(v, k)[i] ELSE Hole]
  BY <1>1 DEF PutBlock
<1>3. \A i \in 1 .. k + 1 : (IF i = k + 1 THEN <<v, k + 1>>
                             ELSE IF i <= k THEN Written(v, k)[i] ELSE Hole) = <<v, i>>
  BY DEF Written
<1> QED  BY <1>2, <1>3 DEF Written

-----------------------------------------------------------------------------
(* The invariant is inductive *)

LEMMA InitIInv == Init => IInv
<1> SUFFICES ASSUME Init PROVE IInv
  OBVIOUS
<1> USE DEF Init
<1>1. TypeOK
  <2>1. inode \in [Inodes -> Seq(Block)] /\ \A i \in Inodes : Len(inode[i]) <= MaxBlocks
    BY TierAssumption
  <2>2. writer \in [Writers -> Call] /\ \A w \in Writers : writer[w].fd # 0 <=> writer[w].pc = "write"
    BY TierAssumption DEF Call, Idle
  <2> QED  BY <2>1, <2>2 DEF TypeOK
<1>2. \A w \in Writers : CallOK(w) /\ Alone(w)
  BY DEF CallOK, Alone, Idle
<1> QED  BY <1>1, <1>2 DEF IInv, RecordWhole

\* What concerns one call only, whoever else runs.
LEMMA BeginIInv ==
  ASSUME IInv, NEW w \in Writers, NEW v \in Payloads, Begin(w, v)
  PROVE  IInv'
<1> USE DEF Begin, Busy
<1>1. TypeOK'
  BY CountOK, TierAssumption DEF IInv, TypeOK, Call, Idle, Inodes
<1>2. \A u \in Writers : CallOK(u)'
  BY TierAssumption DEF IInv, TypeOK, CallOK, Idle, Call
<1>3. ~overlapped => \A u \in Writers : Alone(u)'
  BY DEF IInv, TypeOK, Alone, Idle, Call
<1> QED  BY <1>1, <1>2, <1>3 DEF IInv, RecordWhole

LEMMA OpenTmpIInv ==
  ASSUME IInv, NEW w \in Writers, OpenTmp(w)
  PROVE  IInv'
<1> DEFINE i == IF tmp = 0 THEN Unused ELSE tmp
<1> USE DEF OpenTmp
<1>1. i \in Inodes /\ i # 0 /\ i # final
  BY UnusedOK, CountOK DEF IInv, TypeOK, Inodes
<1>2. /\ tmp' = i /\ inode' = [inode EXCEPT ![i] = <<>>] /\ final' = final
      /\ writer' = [writer EXCEPT ![w].pc = "write", ![w].fd = i]
  OBVIOUS
<1> HIDE DEF i
<1>3. TypeOK'
  <2>1. inode' \in [Inodes -> Seq(Block)] /\ \A j \in Inodes : Len(inode'[j]) <= MaxBlocks
    BY <1>1, <1>2, TierAssumption DEF IInv, TypeOK
  <2>2. writer' \in [Writers -> Call]
    BY <1>1, <1>2 DEF IInv, TypeOK, Call
  <2>3. \A u \in Writers : writer'[u].fd # 0 <=> writer'[u].pc = "write"
    BY <1>1, <1>2 DEF IInv, TypeOK, Call
  <2>4. overlapped' \in BOOLEAN /\ cleared' \in BOOLEAN
    BY DEF IInv, TypeOK
  <2> QED  BY <1>1, <1>2, <2>1, <2>2, <2>3, <2>4 DEF IInv, TypeOK
<1>4. \A u \in Writers : CallOK(u)'
  BY <1>2 DEF IInv, TypeOK, CallOK, Call
<1>5. ASSUME ~overlapped' PROVE RecordWhole' /\ \A u \in Writers : Alone(u)'
  <2>1. ~overlapped /\ \A u \in Writers \ {w} : writer[u].pc = "idle"
    BY Zenon, <1>5 DEF Busy, IInv, TypeOK
  <2>2. RecordWhole'
    BY <1>1, <1>2, <2>1 DEF IInv, TypeOK, RecordWhole
  <2>3. inode'[i] = Written(writer[w].payload, 0) /\ writer[w].at = 0
    <3>1. <<>> = [j \in 1 .. 0 |-> <<writer[w].payload, j>>]
      OBVIOUS
    <3> QED  BY <1>1, <1>2, <3>1 DEF IInv, TypeOK, Written, CallOK
  <2>4. Alone(w)'
    BY <1>1, <1>2, <2>1, <2>3 DEF IInv, TypeOK, Alone, Call
  <2>5. \A u \in Writers \ {w} : Alone(u)'
    BY <1>2, <2>1 DEF IInv, TypeOK, Alone
  <2> QED  BY <2>2, <2>4, <2>5
<1> QED  BY <1>1, <1>2, <1>3, <1>4, <1>5 DEF IInv

LEMMA WriteBlockIInv ==
  ASSUME IInv, NEW w \in Writers, WriteBlock(w)
  PROVE  IInv'
<1> DEFINE v == writer[w].payload  n == writer[w].at + 1  f == writer[w].fd
<1>1. /\ writer[w].pc = "write" /\ n <= Blocks[v] /\ Blocks[v] <= MaxBlocks
      /\ v \in Payloads /\ n \in 1 .. MaxBlocks /\ f \in Inodes
      /\ inode' = [inode EXCEPT ![f] = PutBlock(@, n, <<v, n>>)]
      /\ writer' = [writer EXCEPT ![w].at = n]
      /\ UNCHANGED <<tmp, final, overlapped, cleared>>
  BY TierAssumption DEF WriteBlock, IInv, TypeOK, CallOK, Call
<1>2. TypeOK'
  <2>1. PutBlock(inode[f], n, <<v, n>>) \in Seq(Block)
        /\ Len(PutBlock(inode[f], n, <<v, n>>)) <= MaxBlocks
    <3>1. <<v, n>> \in Block
      BY <1>1 DEF Block
    <3> QED  BY <1>1, <3>1, PutBlockOK DEF IInv, TypeOK
  <2> HIDE DEF v, n, f
  <2>2. inode' \in [Inodes -> Seq(Block)] /\ \A j \in Inodes : Len(inode'[j]) <= MaxBlocks
    BY Zenon, <1>1, <2>1 DEF IInv, TypeOK
  <2>3. n \in 0 .. MaxBlocks
    BY <1>1, TierAssumption
  <2>4. writer' \in [Writers -> Call]
    <3>1. writer \in [Writers -> Call]
      BY DEF IInv, TypeOK
    <3>2. [writer[w] EXCEPT !.at = n] \in Call
      BY <2>3, <3>1 DEF Call
    <3> QED  BY <1>1, <3>1, <3>2
  <2>5. \A u \in Writers : writer'[u].fd # 0 <=> writer'[u].pc = "write"
    BY <1>1 DEF IInv, TypeOK, Call
  <2> QED  BY <1>1, <2>2, <2>4, <2>5 DEF IInv, TypeOK
<1>3. \A u \in Writers : CallOK(u)'
  BY <1>1 DEF IInv, TypeOK, CallOK, Call
<1>4. ASSUME ~overlapped PROVE RecordWhole' /\ \A u \in Writers : Alone(u)'
  <2>1. f = tmp /\ tmp # 0 /\ tmp # final /\ inode[tmp] = Written(v, writer[w].at)
        /\ \A u \in Writers \ {w} : writer[u].pc \in {"idle", "open"}
    BY <1>1, <1>4 DEF IInv, Alone
  <2>2. inode'[tmp] = Written(v, n)
    <3>1. writer[w].at \in Nat
      BY DEF IInv, TypeOK, Call
    <3> QED  BY <1>1, <2>1, <3>1, PutBlockNext DEF IInv, TypeOK
  <2>3. RecordWhole'
    BY <1>1, <1>4, <2>1 DEF IInv, TypeOK, RecordWhole
  <2>4. Alone(w)'
    BY <1>1, <2>1, <2>2 DEF IInv, TypeOK, Alone, Call
  <2>5. \A u \in Writers \ {w} : Alone(u)'
    BY Zenon, <1>1, <2>1 DEF IInv, TypeOK, Alone
  <2> QED  BY <2>3, <2>4, <2>5
<1> QED  BY <1>1, <1>2, <1>3, <1>4 DEF IInv

LEMMA CloseTmpIInv ==
  ASSUME IInv, NEW w \in Writers, CloseTmp(w)
  PROVE  IInv'
<1> USE DEF CloseTmp
<1>1. TypeOK'
  BY DEF IInv, TypeOK, Call
<1>2. \A u \in Writers : CallOK(u)'
  BY DEF IInv, TypeOK, CallOK, Call
<1>3. ASSUME ~overlapped PROVE \A u \in Writers : Alone(u)'
  <2>1. /\ tmp # 0 /\ inode[tmp] = Frame(writer[w].payload)
        /\ \A u \in Writers \ {w} : writer[u].pc \in {"idle", "open"}
    BY <1>3 DEF IInv, Alone, Written, Frame
  <2> QED  BY <2>1 DEF IInv, TypeOK, Alone, Call
<1> QED  BY <1>1, <1>2, <1>3 DEF IInv, RecordWhole

LEMMA WriteFailsIInv ==
  ASSUME IInv, NEW w \in Writers, WriteFails(w)
  PROVE  IInv'
<1> USE DEF WriteFails, Idle
<1>1. TypeOK'
  BY TierAssumption DEF IInv, TypeOK, Call
<1>2. \A u \in Writers : CallOK(u)'
  BY DEF IInv, TypeOK, CallOK, Call
<1>3. ~overlapped => \A u \in Writers : Alone(u)'
  BY DEF IInv, TypeOK, Alone, Call
<1> QED  BY <1>1, <1>2, <1>3 DEF IInv, RecordWhole

LEMMA RenameIInv ==
  ASSUME IInv, NEW w \in Writers, Rename(w)
  PROVE  IInv'
<1> USE DEF Rename, Idle
<1>1. TypeOK'
  BY TierAssumption DEF IInv, TypeOK, Call
<1>2. \A u \in Writers : CallOK(u)'
  BY DEF IInv, TypeOK, CallOK, Call
<1>3. ASSUME ~overlapped PROVE RecordWhole' /\ \A u \in Writers : Alone(u)'
  <2>1. inode[tmp] = Frame(writer[w].payload)
        /\ \A u \in Writers \ {w} : writer[u].pc \in {"idle", "open"}
    BY <1>3 DEF IInv, Alone
  <2>2. RecordWhole'
    BY <2>1 DEF IInv, CallOK, RecordWhole
  <2> QED  BY <2>1, <2>2 DEF IInv, TypeOK, Alone, Call
<1> QED  BY <1>1, <1>2, <1>3 DEF IInv

LEMMA RenameFailsIInv ==
  ASSUME IInv, NEW w \in Writers, RenameFails(w)
  PROVE  IInv'
<1> USE DEF RenameFails, Idle
<1>1. TypeOK'
  BY TierAssumption DEF IInv, TypeOK, Call
<1>2. \A u \in Writers : CallOK(u)'
  BY DEF IInv, TypeOK, CallOK, Call
<1>3. ~overlapped => \A u \in Writers : Alone(u)'
  BY DEF IInv, TypeOK, Alone, Call
<1> QED  BY <1>1, <1>2, <1>3 DEF IInv, RecordWhole

LEMMA NextIInv == IInv /\ [Next]_vars => IInv'
<1> SUFFICES ASSUME IInv, [Next]_vars PROVE IInv'
  OBVIOUS
<1>1. CASE Clear
  BY <1>1, CountOK DEF Clear, IInv, TypeOK, CallOK, Alone, RecordWhole, Inodes
<1>2. CASE Kill
  <2> USE <1>2 DEF Kill, Idle
  <2>1. TypeOK'
    BY TierAssumption DEF IInv, TypeOK, Call
  <2>2. \A u \in Writers : CallOK(u)' /\ Alone(u)'
    BY DEF CallOK, Alone
  <2> QED  BY <2>1, <2>2 DEF IInv, RecordWhole
<1>3. CASE UNCHANGED vars
  BY <1>3 DEF vars, IInv, TypeOK, CallOK, Alone, RecordWhole
<1> QED
  BY <1>1, <1>2, <1>3, BeginIInv, OpenTmpIInv, WriteBlockIInv, CloseTmpIInv, WriteFailsIInv,
     RenameIInv, RenameFailsIInv DEF Next

\* The inductive invariant above holds of the tier whoever writes and dies when.
THEOREM TierInvariant == Spec => []IInv
  BY InitIInv, NextIInv, PTL DEF Spec

\* Type correctness, for any number of writers: a file never outgrows the
\* bound, and a descriptor is open exactly while its call writes.
THEOREM TierTypeCorrect == Spec => []TypeOK
<1>1. IInv => TypeOK
  BY DEF IInv
<1> QED  BY <1>1, TierInvariant, PTL

-----------------------------------------------------------------------------
(* What the tier promises *)

\* A file under the record's name is readable unless calls overlapped.
LEMMA WholeRecordReads ==
  ASSUME IInv, ~overlapped, final # 0
  PROVE  Rehydrated \in Payloads
<1>1. PICK v \in Payloads : Blocks[v] <= MaxBlocks /\ inode[final] = Frame(v)
  BY DEF IInv, RecordWhole
<1>2. Rehydrated = v
  BY <1>1, UnframeFrame DEF Rehydrated, Content
<1> QED  BY <1>2

\* For any number of writers, payloads and frame sizes, a file under the final
\* name that does not rehydrate is the trace of two overlapping calls: no
\* crash, failed write or failed rename of write_through leaves one.
THEOREM RecordIsWhole == Spec => []HalfRecordOnlyIfOverlapped
<1>1. IInv => HalfRecordOnlyIfOverlapped
  BY WholeRecordReads, TierAssumption DEF HalfRecordOnlyIfOverlapped
<1> QED  BY <1>1, TierInvariant, PTL

\* The step in which an undisturbed call renames records its payload.
LEMMA RenameRecords ==
  ASSUME IInv, ~overlapped, NEW w \in Writers, Rename(w)
  PROVE  Rehydrated' = writer[w].payload
<1>1. inode[tmp] = Frame(writer[w].payload)
  BY DEF IInv, Alone, Rename
<1>2. writer[w].payload \in Payloads /\ Blocks[writer[w].payload] <= MaxBlocks
  BY DEF IInv, CallOK, Rename
<1>3. Rehydrated' = Unframe(Frame(writer[w].payload))
  BY Zenon, <1>1 DEF Rehydrated, Content, Rename, Unframe, Frame
<1> QED  BY <1>2, <1>3, UnframeFrame

\* write_through returns Ok only for a payload that rehydrate would return,
\* for any number of writers, unless their calls overlapped.
THEOREM OkIsRecorded == Spec => OkMeansRecorded
<1>1. IInv /\ [Next]_vars
      => [\A w \in Writers :
             writer[w].pc = "rename" /\ writer'[w].result = "Ok" /\ ~overlapped
             => Rehydrated' = writer[w].payload]_vars
  <2> SUFFICES ASSUME IInv, Next, NEW w \in Writers, ~overlapped,
                      writer[w].pc = "rename", writer'[w].result = "Ok"
               PROVE  Rehydrated' = writer[w].payload
    OBVIOUS
  <2>1. writer \in [Writers -> Call] /\ writer[w].result = "none"
    BY DEF IInv, TypeOK, CallOK
  <2>2. ~Clear /\ ~Kill
    BY <2>1 DEF Clear, Kill, Idle
  <2>3. \A u \in Writers : ~OpenTmp(u) /\ ~WriteBlock(u) /\ ~CloseTmp(u)
    BY Zenon, <2>1 DEF OpenTmp, WriteBlock, CloseTmp, Call
  <2>4. \A u \in Writers : ~WriteFails(u) /\ ~RenameFails(u) /\ \A v \in Payloads : ~Begin(u, v)
    BY <2>1 DEF WriteFails, RenameFails, Begin, Busy, Idle, Call
  <2>5. PICK u \in Writers : Rename(u)
    BY <2>2, <2>3, <2>4 DEF Next
  <2>6. u = w
    BY <2>1, <2>5 DEF Rename, Idle, Call
  <2> QED  BY <2>5, <2>6, RenameRecords
<1> QED  BY <1>1, TierInvariant, PTL DEF Spec, OkMeansRecorded

-----------------------------------------------------------------------------
(* The tier implements an atomic record *)

pending == [w \in Writers |-> writer[w].payload]

\* A step that leaves the record's inode and its name alone is not seen.
LEMMA SameRecord ==
  ASSUME final' = final, final # 0 => inode'[final] = inode[final]
  PROVE  Rehydrated' = Rehydrated
<1>1. Content(final)' = Content(final)
  BY DEF Content
<1> QED  BY <1>1 DEF Rehydrated, Unframe, Frame

\* As long as no two calls have overlapped, every step of the tier, a failed
\* write or a death in any place included, is one step of the atomic record or
\* none.
LEMMA StepIsAtomic ==
  ASSUME IInv, Next, ~overlapped'
  PROVE  [Record!Next]_<<Rehydrated, pending, cleared>>
<1> USE DEF pending
<1>0. ~overlapped /\ writer \in [Writers -> Call]
  BY Zenon DEF IInv, TypeOK, Next, Begin, OpenTmp, WriteBlock, CloseTmp, WriteFails, Rename,
         RenameFails, Clear, Kill
<1>1. ASSUME NEW w \in Writers, NEW v \in Payloads, Begin(w, v)
      PROVE  Record!Next \/ UNCHANGED <<Rehydrated, pending, cleared>>
  <2>1. Rehydrated' = Rehydrated /\ cleared' = cleared /\ writer[w].payload = NoRecord
    BY <1>1, SameRecord DEF Begin, Busy, IInv, CallOK
  <2>2. CASE Blocks[v] > MaxBlocks
    BY <1>0, <1>1, <2>1, <2>2 DEF Begin, Idle
  <2>3. CASE ~(Blocks[v] > MaxBlocks)
    <3>1. pending' = [pending EXCEPT ![w] = v]
      BY Zenon, <1>0, <1>1, <2>3 DEF Begin
    <3>2. Record!Ask(w, v)
      BY <2>1, <3>1 DEF Record!Ask
    <3> QED  BY <3>2 DEF Record!Next
  <2> QED  BY <2>2, <2>3
<1>2. ASSUME NEW w \in Writers, OpenTmp(w)
      PROVE  UNCHANGED <<Rehydrated, pending, cleared>>
  <2> DEFINE i == IF tmp = 0 THEN Unused ELSE tmp
  <2>1. i # final
    BY UnusedOK DEF IInv
  <2>2. final' = final /\ cleared' = cleared /\ inode' = [inode EXCEPT ![i] = <<>>]
        /\ writer' = [writer EXCEPT ![w].pc = "write", ![w].fd = i]
    BY <1>2 DEF OpenTmp
  <2> HIDE DEF i
  <2>3. Rehydrated' = Rehydrated
    BY <2>1, <2>2, SameRecord DEF IInv, TypeOK
  <2>4. pending' = pending
    BY <1>0, <2>2 DEF Call
  <2> QED  BY <2>2, <2>3, <2>4
<1>3. ASSUME NEW w \in Writers, WriteBlock(w)
      PROVE  UNCHANGED <<Rehydrated, pending, cleared>>
  <2>1. writer[w].fd = tmp /\ tmp # final
    BY <1>0, <1>3 DEF IInv, Alone, WriteBlock
  <2>2. Rehydrated' = Rehydrated
    <3>1. final # 0 => inode'[final] = inode[final]
      BY <1>3, <2>1 DEF WriteBlock, IInv, TypeOK
    <3> QED  BY <1>3, <3>1, SameRecord DEF WriteBlock
  <2>3. pending' = pending
    BY <1>0, <1>3 DEF WriteBlock, Call
  <2> QED  BY <1>3, <2>2, <2>3 DEF WriteBlock
<1>4. ASSUME NEW w \in Writers, CloseTmp(w)
      PROVE  UNCHANGED <<Rehydrated, pending, cleared>>
  <2>1. pending' = pending
    BY <1>0, <1>4 DEF CloseTmp, Call
  <2> QED  BY <1>4, <2>1, SameRecord DEF CloseTmp
<1>5. ASSUME NEW w \in Writers, WriteFails(w) \/ RenameFails(w)
      PROVE  Record!Next
  <2>1. Rehydrated' = Rehydrated /\ cleared' = cleared
    BY <1>5, SameRecord DEF WriteFails, RenameFails
  <2>2. pending' = [u \in Writers |-> IF u \in {w} THEN NoRecord ELSE pending[u]]
    BY <1>0, <1>5 DEF WriteFails, RenameFails, Idle
  <2>3. Record!Abort({w})
    BY <2>1, <2>2 DEF Record!Abort
  <2> QED  BY <2>3 DEF Record!Next
<1>6. ASSUME NEW w \in Writers, Rename(w)
      PROVE  Record!Next
  <2>1. pending[w] # NoRecord
    BY <1>6, TierAssumption DEF Rename, IInv, CallOK
  <2>2. Rehydrated' = pending[w]
    BY <1>0, <1>6, RenameRecords
  <2>3. pending' = [pending EXCEPT ![w] = NoRecord] /\ cleared' = cleared
    BY Zenon, <1>0, <1>6 DEF Rename, Idle
  <2>4. Record!Commit(w)
    BY <2>1, <2>2, <2>3 DEF Record!Commit
  <2> QED  BY <2>4 DEF Record!Next
<1>7. ASSUME Clear PROVE Record!Next
  <2>1. Rehydrated' = Unframe(<<>>)
    BY <1>7 DEF Clear, Rehydrated, Content, Unframe, Frame
  <2>2. Record!Clear
    BY <1>7, <2>1, UnframeEmpty DEF Clear, Record!Clear
  <2> QED  BY <2>2 DEF Record!Next
<1>8. ASSUME Kill PROVE Record!Next
  <2>1. Rehydrated' = Rehydrated
    BY <1>8, SameRecord DEF Kill
  <2>2. pending' = [u \in Writers |-> IF u \in Writers THEN NoRecord ELSE pending[u]]
    BY <1>8 DEF Kill, Idle
  <2>3. Record!Abort(Writers)
    BY <1>8, <2>1, <2>2 DEF Kill, Record!Abort
  <2> QED  BY <2>3 DEF Record!Next
<1> QED  BY <1>1, <1>2, <1>3, <1>4, <1>5, <1>6, <1>7, <1>8 DEF Next

\* Whoever writes, and wherever a call fails or the process dies: the tier
\* behaves as an atomic record up to the first overlap of two calls.
THEOREM AtomicUntilOverlap ==
  Spec => [][~overlapped' => [Record!Next]_<<Rehydrated, pending, cleared>>]_vars
<1>1. IInv /\ [Next]_vars
      => [~overlapped' => [Record!Next]_<<Rehydrated, pending, cleared>>]_vars
  BY StepIsAtomic
<1> QED  BY <1>1, TierInvariant, PTL DEF Spec

\* With a single writer the calls of write_through, rehydrate and clear
\* implement an atomic record, whatever the payloads and their sizes.
THEOREM OneWriterIsAtomic ==
  ASSUME \A u, w \in Writers : u = w
  PROVE  Spec => ImplementsAtomicRecord
<1>1. Init => ~overlapped
  BY DEF Init
<1>2. ~overlapped /\ [Next]_vars => ~overlapped'
  BY Zenon DEF Next, Begin, OpenTmp, WriteBlock, CloseTmp, WriteFails, Rename, RenameFails, Clear,
         Kill, vars
<1>3. Init => Record!Init
  <2> SUFFICES ASSUME Init PROVE Record!Init
    OBVIOUS
  <2>1. Rehydrated = NoRecord
    BY UnframeEmpty DEF Init, Rehydrated, Content
  <2>2. [w \in Writers |-> writer[w].payload] = [w \in Writers |-> NoRecord]
    BY DEF Init, Idle
  <2> QED  BY <2>1, <2>2 DEF Init, Record!Init
<1>4. IInv /\ ~overlapped' /\ [Next]_vars
      => [Record!Next]_<<Rehydrated, [w \in Writers |-> writer[w].payload], cleared>>
  <2>1. ASSUME UNCHANGED vars
        PROVE  UNCHANGED <<Rehydrated, [w \in Writers |-> writer[w].payload], cleared>>
    BY <2>1, SameRecord DEF vars
  <2> QED  BY <2>1, StepIsAtomic DEF pending
<1> QED  BY <1>1, <1>2, <1>3, <1>4, TierInvariant, PTL DEF Spec, ImplementsAtomicRecord, Record!Spec

-----------------------------------------------------------------------------
(***************************************************************************)
(* Proofs about Certificates: what select_best_cert returns, for any set   *)
(* of certificates, and what overlapping fetches can do to the cache.      *)
(***************************************************************************)

Query == [pc : {"idle", "asked", "answered", "use"}, since : Nat,
          certs : SUBSET Certs, cert : Certs \cup {NoCert}]

CertTypeOK ==
    /\ cert_cache \in Certs \cup {NoCert}
    /\ regressions \in Nat /\ fell \in Nat
    /\ serial \in Serials /\ now \in Nat
    /\ query \in [Queries -> Query]
    /\ fetchesMet \in BOOLEAN

\* The cached certificate has begun and is not of the oldest version.
CacheSound ==
    cert_cache # NoCert => cert_cache.ts_start <= now /\ cert_cache.es_version # ES_XSALSA

BegunBefore == \A q \in Queries : query[q].since <= now

CertIInv == /\ CertTypeOK /\ CacheSound /\ BegunBefore
        /\ NeverDowngraded /\ UsedInWindow /\ FallsCounted

\* The provider's certificates expire in the order of their serials.
RisingEnds == \A s, r \in Serials : s <= r => Published[s].ts_end <= Published[r].ts_end

\* While no two fetches have met, the one under way found the cache empty or
\* expired, and the cache has not changed since.
OneFetch ==
    ~fetchesMet =>
        /\ regressions = 0
        /\ \A p, q \in Queries : Fetching(p) /\ Fetching(q) => p = q
        /\ \A q \in Queries : Fetching(q) /\ cert_cache # NoCert =>
              cert_cache.ts_end <= query[q].since

-----------------------------------------------------------------------------
LEMMA LeastNat ==
    ASSUME NEW T, T \subseteq Nat, T # {}
    PROVE  \E x \in T : \A y \in T : x <= y
<1>1. PICK x \in T : \A y \in T : ~ (<<y, x>> \in OpToRel(<, Nat))
  BY WFMin, NatLessThanWellFounded, Zenon
<1>2. ASSUME NEW y \in T PROVE x <= y
  <2>1. y \in Nat /\ x \in Nat
    OBVIOUS
  <2>2. y < x => <<y, x>> \in OpToRel(<, Nat)
    BY <2>1 DEF OpToRel
  <2>3. ~ (y < x)
    BY <1>1, <2>2, Zenon
  <2> QED
    BY <2>1, <2>3
<1> QED
  BY <1>2

LEMMA CertFacts ==
    ASSUME NEW c \in Certs
    PROVE  /\ c.serial \in Serials /\ c.serial \in Nat /\ c.serial >= 1
           /\ c.serial <= Cardinality(Serials) /\ Cardinality(Serials) \in Nat
           /\ c.es_version \in 1 .. 3 /\ c.ts_start \in Nat /\ c.ts_end \in Nat
           /\ c.ts_end = Published[c.serial].ts_end
           /\ c # NoCert
<1>1. PICK s \in Serials, es \in 1 .. 3 : c = Arriving(s, es)
  BY CertAssumption DEF Certs, Classic, ES_XSALSA, ES_XCHACHA, ES_XWING_PQ
<1>2. /\ c.serial = s /\ c.es_version = es /\ c.ts_start = Published[s].ts_start
      /\ c.ts_end = Published[s].ts_end
  BY <1>1 DEF Arriving
<1>3. Cardinality(Serials) \in Nat
  BY CertAssumption, FS_CardinalityType
<1>4. s \in 1 .. Cardinality(Serials)
  BY Zenon, CertAssumption
<1>5. s \in Nat /\ s >= 1 /\ s <= Cardinality(Serials)
  BY <1>3, <1>4
<1>6. Published[s].ts_start \in Nat /\ Published[s].ts_end \in Nat
  BY CertAssumption
<1>7. c # NoCert
  BY <1>2, <1>5 DEF NoCert
<1> QED
  BY <1>2, <1>3, <1>5, <1>6, <1>7

\* The order of select_best_cert has a maximum in every non-empty set.
LEMMA BestExists ==
    ASSUME NEW fit, fit \subseteq Certs, fit # {}
    PROVE  \E c \in fit : \A d \in fit : ~Better(d, c)
<1> DEFINE E == {3 - c.es_version : c \in fit}
<1>1. E \subseteq Nat /\ E # {}
  BY CertFacts
<1>2. PICK e \in E : \A x \in E : e <= x
  BY Zenon, <1>1, LeastNat
<1>3. PICK c1 \in fit : e = 3 - c1.es_version
  OBVIOUS
<1>4. \A d \in fit : d.es_version <= c1.es_version
  <2> SUFFICES ASSUME NEW d \in fit PROVE d.es_version <= c1.es_version
    OBVIOUS
  <2>1. e <= 3 - d.es_version
    BY <1>2
  <2> QED
    BY <1>3, <2>1, CertFacts
<1> HIDE DEF E
<1> DEFINE top == {c \in fit : c.es_version = c1.es_version}
           N == Cardinality(Serials)
           D == {N - c.serial : c \in top}
<1>5. D \subseteq Nat /\ D # {}
  BY CertFacts
<1>6. PICK m \in D : \A x \in D : m <= x
  BY Zenon, <1>5, LeastNat
<1>7. PICK c2 \in top : m = N - c2.serial
  OBVIOUS
<1>8. ASSUME NEW d \in fit, Better(d, c2) PROVE FALSE
  <2>1. /\ d \in Certs /\ c2 \in Certs /\ c1 \in Certs
        /\ d.es_version \in 1 .. 3 /\ c2.es_version = c1.es_version
        /\ c1.es_version \in 1 .. 3 /\ d.es_version <= c1.es_version
    BY <1>4, CertFacts
  <2>2. d.es_version = c1.es_version
    BY <1>8, <2>1 DEF Better
  <2>3. d \in top
    BY <2>2
  <2>4. m <= N - d.serial
    BY <1>6, <2>3
  <2>5. d.serial <= c2.serial
    BY <1>7, <2>1, <2>4, CertFacts
  <2>6. d.serial = c2.serial
    BY <1>8, <2>1, <2>2, <2>5, CertFacts DEF Better
  <2>7. d.ts_end = c2.ts_end /\ d.ts_end \in Nat
    BY <2>1, <2>6, CertFacts
  <2>8. d.ts_end > c2.ts_end
    BY <1>8, <2>1, <2>2, <2>6, CertFacts DEF Better
  <2> QED
    BY <2>7, <2>8
<1> QED
  BY <1>8

\* What select_best_cert returns is one of the certificates offered, inside
\* its window, and never of the oldest version.
LEMMA SelectBest ==
    ASSUME NEW certs, certs \subseteq Certs, NEW t \in Nat,
           select_best_cert(certs, t) # NoCert
    PROVE  LET best == select_best_cert(certs, t) IN
           /\ best \in certs /\ best \in Certs
           /\ cert_in_window(best, t) /\ best.es_version # ES_XSALSA
<1> DEFINE verified == {c \in certs : spoken(c) /\ cert_in_window(c, t)}
           fit == {c \in verified :
                      \A d \in verified : d.key = c.key => d.es_version <= c.es_version}
           best == CHOOSE c \in fit : \A d \in fit : ~Better(d, c)
<1>1. select_best_cert(certs, t) = IF fit = {} \/ best.es_version = ES_XSALSA THEN NoCert ELSE best
  BY DEF select_best_cert
<1>2. fit # {} /\ best.es_version # ES_XSALSA /\ select_best_cert(certs, t) = best
  BY Zenon, <1>1
<1>3. fit \subseteq Certs
  OBVIOUS
<1>4. \E c \in fit : \A d \in fit : ~Better(d, c)
  <2> HIDE DEF fit
  <2> QED
    BY <1>2, <1>3, BestExists
<1>5. best \in fit
  <2> HIDE DEF fit
  <2> QED
    BY <1>4
<1>6. best \in certs /\ cert_in_window(best, t)
  <2> HIDE DEF best
  <2> QED
    BY <1>5
<1> HIDE DEF best
<1> QED
  BY <1>2, <1>6

-----------------------------------------------------------------------------
LEMMA RestingOK == Resting \in Query
BY DEF Resting, Query

LEMMA FetchedOK ==
    ASSUME NEW pc \in {"asked", "answered", "use"}, NEW t \in Nat,
           NEW certs \in SUBSET Certs, NEW c \in Certs \cup {NoCert}
    PROVE  [pc |-> pc, since |-> t, certs |-> certs, cert |-> c] \in Query
BY DEF Query

LEMMA CertInitIInv == CertInit => CertIInv /\ OneFetch
<1> SUFFICES ASSUME CertInit PROVE CertIInv /\ OneFetch
  OBVIOUS
<1>1. 1 \in Serials
  <2>1. Cardinality(Serials) \in Nat
    BY CertAssumption, FS_CardinalityType
  <2>2. Cardinality(Serials) # 0
    BY CertAssumption, FS_EmptySet
  <2>3. 1 \in 1 .. Cardinality(Serials)
    BY <2>1, <2>2
  <2> QED
    BY Zenon, <2>3, CertAssumption
<1>2. CertTypeOK
  BY Zenon, <1>1, RestingOK DEF CertInit, CertTypeOK
<1>3. \A q \in Queries : query[q].pc = "idle" /\ query[q].since = 0
  BY DEF CertInit, Resting
<1> QED
  BY <1>2, <1>3 DEF CertInit, CertIInv, CacheSound, BegunBefore, NeverDowngraded, UsedInWindow,
                    FallsCounted, OneFetch, Fetching

\* A query that goes back to rest.
LEMMA RestIInv ==
    ASSUME CertIInv, NEW q \in Queries, query' = [query EXCEPT ![q] = Resting],
           UNCHANGED <<cert_cache, regressions, serial, now, fell, fetchesMet>>
    PROVE  CertIInv'
<1>1. CertTypeOK'
  BY RestingOK DEF CertIInv, CertTypeOK
<1>2. \A p \in Queries : \/ query'[p] = query[p]
                         \/ query'[p].pc = "idle" /\ query'[p].since = 0
  BY DEF CertIInv, CertTypeOK, Resting
<1>3. BegunBefore' /\ NeverDowngraded' /\ UsedInWindow'
  BY <1>2 DEF CertIInv, CertTypeOK, BegunBefore, NeverDowngraded, UsedInWindow, cert_in_window
<1> QED
  BY <1>1, <1>3 DEF CertIInv, CacheSound, FallsCounted

LEMMA RestOneFetch ==
    ASSUME CertIInv, OneFetch, NEW q \in Queries, query' = [query EXCEPT ![q] = Resting],
           UNCHANGED <<cert_cache, regressions, fetchesMet>>
    PROVE  OneFetch'
<1>1. \A p \in Queries : query'[p] = query[p] \/ query'[p].pc = "idle"
  BY DEF CertIInv, CertTypeOK, Resting
<1> QED
  BY <1>1 DEF OneFetch, Fetching

LEMMA EnsureIInv == ASSUME CertIInv, NEW q \in Queries, ensure_cert(q) PROVE CertIInv'
<1>1. CASE cached(now)
  <2> DEFINE use == [pc |-> "use", since |-> now, certs |-> {}, cert |-> cert_cache]
  <2>1. /\ query' = [query EXCEPT ![q] = use]
        /\ cert_cache' = cert_cache /\ regressions' = regressions /\ serial' = serial
        /\ now' = now /\ fell' = fell
    BY <1>1 DEF ensure_cert
  <2>2. use \in Query
    BY FetchedOK DEF CertIInv, CertTypeOK
  <2>3. fetchesMet' \in BOOLEAN
    BY DEF ensure_cert
  <2>4. CertTypeOK'
    BY <2>1, <2>2, <2>3 DEF CertIInv, CertTypeOK
  <2>5. query'[q] = use /\ \A p \in Queries \ {q} : query'[p] = query[p]
    BY <2>1 DEF CertIInv, CertTypeOK
  <2>6. cert_in_window(cert_cache, now) /\ cert_cache.es_version # ES_XSALSA
    BY <1>1, CertFacts DEF cached, cert_in_window, CertIInv, CacheSound, CertTypeOK
  <2>7. BegunBefore' /\ NeverDowngraded' /\ UsedInWindow'
    BY <2>1, <2>5, <2>6 DEF CertIInv, CertTypeOK, BegunBefore, NeverDowngraded, UsedInWindow,
                            cert_in_window
  <2> QED
    BY <2>1, <2>4, <2>7 DEF CertIInv, CacheSound, FallsCounted
<1>2. CASE ~cached(now)
  <2> DEFINE asked == [pc |-> "asked", since |-> now, certs |-> {}, cert |-> NoCert]
  <2>1. /\ query' = [query EXCEPT ![q] = asked]
        /\ cert_cache' = cert_cache /\ regressions' = regressions /\ serial' = serial
        /\ now' = now /\ fell' = fell
    BY <1>2 DEF ensure_cert
  <2>2. asked \in Query
    BY FetchedOK DEF CertIInv, CertTypeOK
  <2>3. fetchesMet' \in BOOLEAN
    BY DEF ensure_cert
  <2>4. CertTypeOK'
    BY <2>1, <2>2, <2>3 DEF CertIInv, CertTypeOK
  <2>5. query'[q] = asked /\ \A p \in Queries \ {q} : query'[p] = query[p]
    BY <2>1, Zenon DEF CertIInv, CertTypeOK
  <2>6. BegunBefore' /\ NeverDowngraded' /\ UsedInWindow'
    BY <2>1, <2>5 DEF CertIInv, CertTypeOK, BegunBefore, NeverDowngraded, UsedInWindow,
                      cert_in_window
  <2> QED
    BY <2>1, <2>4, <2>6 DEF CertIInv, CacheSound, FallsCounted
<1> QED
  BY <1>1, <1>2

LEMMA EnsureOneFetch ==
    ASSUME CertIInv, OneFetch, NEW q \in Queries, ensure_cert(q)
    PROVE  OneFetch'
<1>1. /\ cert_cache' = cert_cache /\ regressions' = regressions
      /\ fetchesMet \in BOOLEAN /\ now \in Nat
  BY DEF ensure_cert, CertIInv, CertTypeOK
<1>2. CASE cached(now)
  <2>1. \A p \in Queries : query'[p] = query[p] \/ query'[p].pc = "use"
    BY <1>2, Zenon DEF ensure_cert, CertIInv, CertTypeOK
  <2>2. fetchesMet' = fetchesMet
    BY <1>1, <1>2, Zenon DEF ensure_cert
  <2> QED
    BY <1>1, <2>1, <2>2, Zenon DEF OneFetch, Fetching
<1>3. CASE ~cached(now)
  <2> SUFFICES ASSUME ~fetchesMet' PROVE OneFetch'
    BY DEF OneFetch
  <2>1. ~fetchesMet /\ \A p \in Queries : ~Fetching(p)
    BY Zenon, <1>3 DEF ensure_cert
  <2>2. query'[q].since = now /\ \A p \in Queries \ {q} : query'[p] = query[p]
    BY <1>3 DEF ensure_cert, CertIInv, CertTypeOK
  <2>3. cert_cache # NoCert => cert_cache.ts_end <= now
    BY <1>1, <1>3, CertFacts DEF cached, CertIInv, CertTypeOK
  <2> QED
    BY <1>1, <2>1, <2>2, <2>3 DEF OneFetch, Fetching
<1> QED
  BY <1>2, <1>3

LEMMA ServerAnswersIInv ==
    ASSUME CertIInv, NEW q \in Queries, NEW certs \in SUBSET Certs, serverAnswers(q, certs)
    PROVE  CertIInv'
<1> DEFINE got == [pc |-> "answered", since |-> query[q].since, certs |-> certs, cert |-> NoCert]
<1>1. query' = [query EXCEPT ![q] = got]
  BY DEF serverAnswers
<1>2. query[q].since \in Nat
  BY DEF CertIInv, CertTypeOK, Query
<1>3. got \in Query
  BY <1>2, FetchedOK
<1>4. CertTypeOK'
  BY <1>1, <1>3 DEF serverAnswers, CertIInv, CertTypeOK
<1>5. query'[q] = got /\ \A p \in Queries \ {q} : query'[p] = query[p]
  BY <1>1 DEF CertIInv, CertTypeOK
<1>6. BegunBefore' /\ NeverDowngraded' /\ UsedInWindow'
  BY <1>5 DEF serverAnswers, CertIInv, CertTypeOK, BegunBefore, NeverDowngraded, UsedInWindow,
              cert_in_window
<1> QED
  BY <1>4, <1>6 DEF serverAnswers, CertIInv, CacheSound, FallsCounted

LEMMA ServerAnswersOneFetch ==
    ASSUME CertIInv, OneFetch, NEW q \in Queries, NEW certs \in SUBSET Certs,
           serverAnswers(q, certs)
    PROVE  OneFetch'
<1>1. /\ query[q].pc = "asked" /\ query'[q].since = query[q].since
      /\ \A p \in Queries \ {q} : query'[p] = query[p]
  BY DEF serverAnswers, CertIInv, CertTypeOK
<1> QED
  BY <1>1 DEF serverAnswers, OneFetch, Fetching

LEMMA TakeAnswerIInv == ASSUME CertIInv, NEW q \in Queries, takeAnswer(q) PROVE CertIInv'
<1> DEFINE best == select_best_cert(query[q].certs, query[q].since)
<1>1. CASE best = NoCert
  BY <1>1, RestIInv DEF takeAnswer
<1>2. CASE best # NoCert
  <2> DEFINE use == [pc |-> "use", since |-> query[q].since, certs |-> {}, cert |-> best]
  <2>1. /\ query' = [query EXCEPT ![q] = use] /\ cert_cache' = best
        /\ countRegression(best)
        /\ fell' = IF cert_cache.serial > best.serial THEN fell + 1 ELSE fell
        /\ serial' = serial /\ now' = now /\ fetchesMet' = fetchesMet
    BY <1>2 DEF takeAnswer
  <2>2. query[q].since \in Nat /\ query[q].certs \subseteq Certs /\ query[q].since <= now
    BY DEF CertIInv, CertTypeOK, Query, BegunBefore
  <2>3. /\ best \in Certs /\ cert_in_window(best, query[q].since)
        /\ best.es_version # ES_XSALSA
    BY <1>2, <2>2, SelectBest
  <2>4. use \in Query
    BY <2>2, <2>3, FetchedOK
  <2> HIDE DEF best
  <2>5. regressions' \in Nat /\ fell' \in Nat /\ FallsCounted'
    <3>1. best.serial \in Nat /\ best.serial >= 1
      BY <2>3, CertFacts
    <3>2. cert_cache.serial > best.serial <=> Regresses(best)
      <4>1. CASE cert_cache = NoCert
        BY <3>1, <4>1 DEF Regresses, NoCert
      <4>2. CASE cert_cache # NoCert
        <5>1. cert_cache.serial \in Nat
          BY <4>2, CertFacts DEF CertIInv, CertTypeOK
        <5> QED
          BY <3>1, <4>2, <5>1 DEF Regresses
      <4> QED
        BY <4>1, <4>2
    <3> QED
      BY <2>1, <3>2 DEF countRegression, CertIInv, CertTypeOK, FallsCounted
  <2>6. CertTypeOK'
    BY <2>1, <2>3, <2>4, <2>5 DEF CertIInv, CertTypeOK
  <2>7. query'[q] = use /\ \A p \in Queries \ {q} : query'[p] = query[p]
    BY <2>1 DEF CertIInv, CertTypeOK
  <2>8. CacheSound'
    BY <2>1, <2>2, <2>3, CertFacts DEF CacheSound, cert_in_window, CertIInv, CertTypeOK
  <2>9. BegunBefore' /\ NeverDowngraded' /\ UsedInWindow'
    BY <2>1, <2>2, <2>3, <2>7
       DEF CertIInv, CertTypeOK, BegunBefore, NeverDowngraded, UsedInWindow, cert_in_window
  <2> QED
    BY <2>5, <2>6, <2>8, <2>9 DEF CertIInv
<1> QED
  BY <1>1, <1>2

\* The only fetch under way cannot bring an older certificate: it began when
\* the cached one had expired, and what it selects had not.
LEMMA TakeAnswerOneFetch ==
    ASSUME RisingEnds, CertIInv, OneFetch, NEW q \in Queries, takeAnswer(q)
    PROVE  OneFetch'
<1> DEFINE best == select_best_cert(query[q].certs, query[q].since)
<1>1. CASE best = NoCert
  BY <1>1, RestOneFetch DEF takeAnswer
<1>2. CASE best # NoCert
  <2> SUFFICES ASSUME ~fetchesMet' PROVE OneFetch'
    BY DEF OneFetch
  <2>1. /\ cert_cache' = best /\ countRegression(best) /\ ~fetchesMet
        /\ query[q].pc = "answered" /\ query'[q].pc = "use"
        /\ \A p \in Queries \ {q} : query'[p] = query[p]
    BY <1>2 DEF takeAnswer, CertIInv, CertTypeOK
  <2>2. \A p \in Queries : Fetching(p) => p = q
    BY <2>1 DEF OneFetch, Fetching
  <2>3. \A p \in Queries : ~Fetching(p)'
    BY <2>1, <2>2 DEF Fetching
  <2>4. query[q].since \in Nat /\ query[q].certs \subseteq Certs
    BY DEF CertIInv, CertTypeOK, Query
  <2>5. best \in Certs /\ cert_in_window(best, query[q].since)
    BY <1>2, <2>4, SelectBest
  <2> HIDE DEF best
  <2>6. ~Regresses(best)
    <3> SUFFICES ASSUME cert_cache # NoCert, best.serial < cert_cache.serial PROVE FALSE
      BY DEF Regresses
    <3>1. cert_cache \in Certs /\ cert_cache.ts_end <= query[q].since
      BY <2>1 DEF CertIInv, CertTypeOK, OneFetch, Fetching
    <3>2. /\ best.serial \in Serials /\ cert_cache.serial \in Serials
          /\ best.serial \in Nat /\ cert_cache.serial \in Nat
          /\ best.ts_end \in Nat /\ cert_cache.ts_end \in Nat
          /\ best.ts_end = Published[best.serial].ts_end
          /\ cert_cache.ts_end = Published[cert_cache.serial].ts_end
      BY <2>5, <3>1, CertFacts
    <3>3. best.ts_end <= cert_cache.ts_end
      BY <3>2 DEF RisingEnds
    <3>4. query[q].since < best.ts_end
      BY <2>4, <2>5, <3>2 DEF cert_in_window
    <3> QED
      BY <2>4, <3>1, <3>2, <3>3, <3>4
  <2>7. regressions' = 0
    BY <2>1, <2>6 DEF countRegression, OneFetch
  <2> QED
    BY <2>3, <2>7 DEF OneFetch
<1> QED
  BY <1>1, <1>2

LEMMA PublishIInv == ASSUME CertIInv, publish PROVE CertIInv'
BY DEF publish, CertIInv, CertTypeOK, CacheSound, BegunBefore, NeverDowngraded, UsedInWindow,
       cert_in_window, FallsCounted

LEMMA TimePassesIInv == ASSUME CertIInv, timePasses PROVE CertIInv'
<1>1. /\ now' = now + 1 /\ now \in Nat /\ query' = query /\ cert_cache' = cert_cache
      /\ regressions' = regressions /\ serial' = serial /\ fell' = fell
      /\ fetchesMet' = fetchesMet
  BY DEF timePasses, CertIInv, CertTypeOK
<1>2. CertTypeOK'
  BY <1>1 DEF CertIInv, CertTypeOK
<1>3. CacheSound'
  BY <1>1, CertFacts DEF CertIInv, CertTypeOK, CacheSound
<1>4. BegunBefore'
  <2>1. \A q \in Queries : query[q].since \in Nat /\ query[q].since <= now
    BY DEF CertIInv, CertTypeOK, Query, BegunBefore
  <2> QED
    BY <1>1, <2>1 DEF BegunBefore
<1>5. NeverDowngraded' /\ UsedInWindow' /\ FallsCounted'
  BY <1>1, Zenon DEF CertIInv, NeverDowngraded, UsedInWindow, cert_in_window, FallsCounted
<1> QED
  BY <1>2, <1>3, <1>4, <1>5 DEF CertIInv

LEMMA CertStutterIInv == ASSUME CertIInv, UNCHANGED certVars PROVE CertIInv'
BY DEF certVars, CertIInv, CertTypeOK, CacheSound, BegunBefore, NeverDowngraded, UsedInWindow,
       cert_in_window, FallsCounted

LEMMA CertNextIInv == CertIInv /\ [CertNext]_certVars => CertIInv'
<1> SUFFICES ASSUME CertIInv, [CertNext]_certVars PROVE CertIInv'
  OBVIOUS
<1>1. ASSUME NEW q \in Queries, fetchFails(q) \/ encrypted_exchange(q) PROVE CertIInv'
  BY <1>1, RestIInv DEF fetchFails, encrypted_exchange
<1> QED
  BY <1>1, EnsureIInv, TakeAnswerIInv, ServerAnswersIInv, PublishIInv, TimePassesIInv,
     CertStutterIInv DEF CertNext

LEMMA CertNextOneFetch ==
    ASSUME RisingEnds
    PROVE  CertIInv /\ OneFetch /\ [CertNext]_certVars => OneFetch'
<1> SUFFICES ASSUME CertIInv, OneFetch, [CertNext]_certVars PROVE OneFetch'
  OBVIOUS
<1>1. ASSUME NEW q \in Queries, fetchFails(q) \/ encrypted_exchange(q) PROVE OneFetch'
  BY <1>1, RestOneFetch DEF fetchFails, encrypted_exchange
<1>2. ASSUME publish \/ timePasses \/ UNCHANGED certVars PROVE OneFetch'
  BY <1>2 DEF publish, timePasses, certVars, OneFetch, Fetching
<1> QED
  BY <1>1, <1>2, EnsureOneFetch, TakeAnswerOneFetch, ServerAnswersOneFetch DEF CertNext

-----------------------------------------------------------------------------
\* The inductive invariant of the certificate cache, for any schedule of the
\* provider and any number of queries.
THEOREM CertInvariant == CertSpec => []CertIInv
BY CertInitIInv, CertNextIInv, PTL DEF CertSpec

\* Whatever the interleaving of fetches, the certificate an exchange is sealed
\* with was inside its window when that call of ensure_cert read the clock.
THEOREM CertIsInWindow == CertSpec => []UsedInWindow
<1>1. CertIInv => UsedInWindow
  BY DEF CertIInv
<1> QED
  BY <1>1, CertInvariant, PTL

\* select_best_cert and the cache never let a query out under the oldest
\* construction, whatever was lost or changed on the way.
THEOREM NeverTheOldest == CertSpec => []NeverDowngraded
<1>1. CertIInv => NeverDowngraded
  BY DEF CertIInv
<1> QED
  BY <1>1, CertInvariant, PTL

\* CERT_SERIAL_REGRESSIONS counts every fall of the cached serial, and nothing
\* else.
THEOREM FallsAreCounted == CertSpec => []FallsCounted
<1>1. CertIInv => FallsCounted
  BY DEF CertIInv
<1> QED
  BY <1>1, CertInvariant, PTL

\* With a provider whose certificates expire in the order of their serials,
\* CERT_SERIAL_REGRESSIONS moves only after two fetches overlapped.
THEOREM AlarmIsOverlap ==
    ASSUME RisingEnds
    PROVE  CertSpec => []AlarmNeedsOverlap
<1>1. CertIInv /\ OneFetch => AlarmNeedsOverlap
  BY DEF OneFetch, AlarmNeedsOverlap
<1>2. RisingEnds
  OBVIOUS
<1>3. CertIInv /\ OneFetch /\ [CertNext]_certVars => OneFetch'
  BY <1>2, CertNextOneFetch
<1> QED
  BY <1>1, <1>3, CertInitIInv, CertNextIInv, PTL DEF CertSpec

-----------------------------------------------------------------------------
(***************************************************************************)
(* The block lists, for any names, lists, lanes and number of ingests side *)
(* by side. A list goes in name by name, in whatever order: each name      *)
(* keeps what the matcher says of what went in before it.                  *)
(***************************************************************************)

-----------------------------------------------------------------------------
\* A matcher takes names to sets of tags.
Matcher(m) == m = [t \in DOMAIN m |-> m[t]] /\ DOMAIN m \subseteq Names

\* No terminal lies beneath another.
Flat(m) == \A t, u \in DOMAIN m : IsPrefix(t, u) => t = u

\* The matcher a blocks what m blocks and the names ns and all beneath them,
\* its terminals come from m and ns, and a tag on one of them was there in m
\* or is in the mask and has a name of ns at or under it.
BlocksBoth(a, m, ns) ==
    \A d \in Names : is_blocked(a, d) <=> \/ is_blocked(m, d)
                                         \/ \E n \in ns : IsPrefix(n, d)
Tagged(a, m, ns, mask) ==
    \A t \in DOMAIN a : \A b \in a[t] : \/ t \in DOMAIN m /\ b \in m[t]
                                        \/ b \in mask /\ \E n \in ns : IsPrefix(t, n)
Built(a, m, ns, mask) ==
    /\ Matcher(a) /\ Flat(a)
    /\ DOMAIN a \subseteq DOMAIN m \cup ns
    /\ BlocksBoth(a, m, ns) /\ Tagged(a, m, ns, mask)

LEMMA PrefixFacts ==
    /\ \A d \in Names : IsPrefix(d, d)
    /\ \A c, d, e \in Names : IsPrefix(c, d) /\ IsPrefix(d, e) => IsPrefix(c, e)
<1>1. ASSUME NEW d \in Names PROVE IsPrefix(d, d)
  BY BlocklistAssumption DEF IsPrefix
<1>2. ASSUME NEW c \in Names, NEW d \in Names, NEW e \in Names, IsPrefix(c, d), IsPrefix(d, e)
      PROVE  IsPrefix(c, e)
  <2>1. Len(c) \in Nat /\ Len(d) \in Nat /\ Len(e) \in Nat
    BY BlocklistAssumption
  <2>2. Len(c) <= Len(d) /\ Len(d) <= Len(e)
    BY <1>2 DEF IsPrefix
  <2>3. ASSUME NEW i \in 1..Len(c) PROVE c[i] = e[i]
    <3>1. i \in 1..Len(d)
      BY <2>1, <2>2
    <3> QED BY <1>2, <3>1, Zenon DEF IsPrefix
  <2>4. Len(c) <= Len(e)
    BY <2>1, <2>2
  <2> QED BY <2>3, <2>4, Zenon DEF IsPrefix
<1> QED BY <1>1, <1>2, Zenon

LEMMA BlockedIs ==
    ASSUME NEW m, NEW d
    PROVE  is_blocked(m, d) <=> \E t \in DOMAIN m : IsPrefix(t, d)
BY Zenon DEF is_blocked, Covering

\* One name goes in.
LEMMA InsertOne ==
    ASSUME NEW a, NEW m, NEW ns, NEW mask, NEW d \in Names,
           DOMAIN m \subseteq Names, ns \subseteq Names, Built(a, m, ns, mask)
    PROVE  Built(insert_with_source(a, d, mask), m, ns \cup {d}, mask)
<1> DEFINE r == insert_with_source(a, d, mask)
<1>0. DOMAIN a \subseteq Names /\ Flat(a) /\ BlocksBoth(a, m, ns) /\ Tagged(a, m, ns, mask)
      /\ DOMAIN a \subseteq DOMAIN m \cup ns
  BY Zenon DEF Built, Matcher
<1>1. CASE Covering(a, d) # {}
  <2> DEFINE t0 == CHOOSE t \in Covering(a, d) : TRUE
  <2>1. t0 \in DOMAIN a /\ IsPrefix(t0, d)
    BY <1>1, Zenon DEF Covering
  <2>2. r = [a EXCEPT ![t0] = @ \cup mask]
    BY <1>1, Zenon DEF insert_with_source
  <2> HIDE DEF t0, r
  <2>3. DOMAIN r = DOMAIN a /\ r = [t \in DOMAIN r |-> r[t]]
    BY <2>2, Zenon
  <2>4. r[t0] = a[t0] \cup mask /\ \A t \in DOMAIN a : t # t0 => r[t] = a[t]
    BY <2>1, <2>2, Zenon
  <2>5. BlocksBoth(r, m, ns \cup {d})
    <3> SUFFICES ASSUME NEW x \in Names
                 PROVE  is_blocked(r, x) <=> \/ is_blocked(m, x)
                                             \/ \E n \in ns \cup {d} : IsPrefix(n, x)
      BY Zenon DEF BlocksBoth
    <3>1. is_blocked(r, x) <=> is_blocked(a, x)
      BY <2>3, BlockedIs, Zenon
    <3>2. IsPrefix(d, x) => is_blocked(a, x)
      BY <2>1, <1>0, PrefixFacts, BlockedIs, Zenon
    <3> QED BY <3>1, <3>2, <1>0, Zenon DEF BlocksBoth
  <2>6. Tagged(r, m, ns \cup {d}, mask)
    <3> SUFFICES ASSUME NEW t \in DOMAIN a, NEW b \in r[t]
                 PROVE  \/ t \in DOMAIN m /\ b \in m[t]
                        \/ b \in mask /\ \E n \in ns \cup {d} : IsPrefix(t, n)
      BY <2>3, Zenon DEF Tagged
    <3>1. b \in a[t] \/ (b \in mask /\ t = t0)
      BY <2>4, Zenon
    <3> QED BY <3>1, <2>1, <1>0, Zenon DEF Tagged
  <2> QED BY <2>3, <2>5, <2>6, <1>0, Zenon DEF Built, Matcher, Flat, r
<1>2. CASE Covering(a, d) = {}
  <2> DEFINE D == {t \in DOMAIN a : ~IsPrefix(d, t)} \cup {d}
  <2>1. r = [t \in D |-> IF t = d THEN mask ELSE a[t]]
    BY <1>2, Zenon DEF insert_with_source
  <2> HIDE DEF r
  <2>2. DOMAIN r = D /\ r = [t \in DOMAIN r |-> r[t]]
    BY <2>1, Zenon
  <2>3. r[d] = mask /\ \A t \in D : t # d => r[t] = a[t]
    BY <2>1, Zenon
  <2>4. \A t \in DOMAIN a : ~IsPrefix(t, d)
    BY <1>2, Zenon DEF Covering
  <2>5. Flat(r)
    BY <2>2, <2>4, <1>0, Zenon DEF Flat
  <2>6. BlocksBoth(r, m, ns \cup {d})
    <3> SUFFICES ASSUME NEW x \in Names
                 PROVE  is_blocked(r, x) <=> \/ is_blocked(m, x)
                                             \/ \E n \in ns \cup {d} : IsPrefix(n, x)
      BY Zenon DEF BlocksBoth
    <3>1. is_blocked(r, x) => is_blocked(a, x) \/ IsPrefix(d, x)
      BY <2>2, BlockedIs, Zenon
    <3>2. is_blocked(a, x) => is_blocked(r, x)
      <4> SUFFICES ASSUME NEW t \in DOMAIN a, IsPrefix(t, x) PROVE \E u \in D : IsPrefix(u, x)
        BY <2>2, BlockedIs, Zenon
      <4>1. CASE IsPrefix(d, t)
        BY <4>1, <1>0, PrefixFacts, Zenon
      <4>2. CASE ~IsPrefix(d, t)
        BY <4>2, Zenon
      <4> QED BY <4>1, <4>2, Zenon
    <3>3. IsPrefix(d, x) => is_blocked(r, x)
      BY <2>2, BlockedIs, Zenon
    <3> QED BY <3>1, <3>2, <3>3, <1>0, Zenon DEF BlocksBoth
  <2>7. Tagged(r, m, ns \cup {d}, mask)
    <3> SUFFICES ASSUME NEW t \in D, NEW b \in r[t]
                 PROVE  \/ t \in DOMAIN m /\ b \in m[t]
                        \/ b \in mask /\ \E n \in ns \cup {d} : IsPrefix(t, n)
      BY <2>2, Zenon DEF Tagged
    <3>1. CASE t = d
      BY <3>1, <2>3, PrefixFacts, Zenon
    <3>2. CASE t # d
      <4>1. t \in DOMAIN a /\ b \in a[t]
        BY <3>2, <2>3, Zenon
      <4> QED BY <4>1, <1>0, Zenon DEF Tagged
    <3> QED BY <3>1, <3>2, Zenon
  <2>8. DOMAIN r \subseteq Names /\ DOMAIN r \subseteq DOMAIN m \cup (ns \cup {d})
    BY <2>2, <1>0, Zenon
  <2> QED BY <2>2, <2>5, <2>6, <2>7, <2>8, Zenon DEF Built, Matcher, r
<1> QED BY <1>1, <1>2, Zenon

LEMMA BuiltNothing ==
    ASSUME NEW m, NEW mask, Matcher(m), Flat(m) PROVE Built(m, m, {}, mask)
BY Zenon DEF Built, BlocksBoth, Tagged

\* The order a list is taken in has every name of it.
LEMMA OrderFacts ==
    ASSUME NEW names, IsFiniteSet(names)
    PROVE  /\ Cardinality(names) \in Nat
           /\ \A i \in 1..Cardinality(names) : Order(names)[i] \in names
           /\ \A d \in names : \E i \in 1..Cardinality(names) : Order(names)[i] = d
<1> DEFINE n == Cardinality(names)
<1>1. n \in Nat /\ ExistsBijection(1..n, names)
  BY FS_CardinalityType, Zenon
<1>2. \E f \in [1..n -> names] : \A d \in names : \E i \in 1..n : f[i] = d
  BY <1>1, Zenon DEF ExistsBijection, Bijection, Surjection
<1> HIDE DEF n
<1>3. /\ Order(names) \in [1..n -> names]
      /\ \A d \in names : \E i \in 1..n : Order(names)[i] = d
  BY <1>2, Zenon DEF Order, n
<1>4. \A i \in 1..n : Order(names)[i] \in names
  BY <1>3, Zenon
<1> QED BY <1>1, <1>3, <1>4, Zenon DEF n

\* insertAll, one name after the other.
Steps(m, names, mask, n, g) ==
    g = [i \in 0..n |-> IF i = 0 THEN m
                        ELSE insert_with_source(g[i - 1], Order(names)[i], mask)]

LEMMA StepsExist ==
    ASSUME NEW m, NEW names, NEW mask, NEW n \in Nat
    PROVE  \E g : Steps(m, names, mask, n, g)
<1> DEFINE P(k) == \E g : Steps(m, names, mask, k, g)
           Bad == {k \in Nat : ~P(k)}
<1> SUFFICES ASSUME Bad # {} PROVE FALSE
  BY Zenon
<1>1. Bad \subseteq Nat
  BY Zenon
<1>2. PICK k \in Bad : \A y \in Bad : k <= y
  BY <1>1, LeastNat, Zenon
<1>3. k \in Nat /\ ~P(k)
  BY <1>2, Zenon
<1>4. CASE k = 0
  <2> DEFINE g == [i \in 0..0 |-> m]
  <2>1. Steps(m, names, mask, 0, g)
    BY DEF Steps
  <2> QED BY <2>1, <1>3, <1>4, Zenon
<1>5. CASE k # 0
  <2>1. k - 1 \in Nat /\ ~ (k <= k - 1) /\ k \in 0..k /\ k - 1 \in 0..(k - 1)
    BY <1>3, <1>5
  <2>2. PICK g : Steps(m, names, mask, k - 1, g)
    BY <2>1, <1>2, Zenon
  <2> DEFINE I(x, i) == insert_with_source(x, Order(names)[i], mask)
             h == [i \in 0..k |-> IF i = k THEN I(g[k - 1], k) ELSE g[i]]
  <2>3. \A i \in 0..(k - 1) : g[i] = IF i = 0 THEN m ELSE I(g[i - 1], i)
    BY <2>2, Zenon DEF Steps
  <2>4. \A i \in 0..k : h[i] = IF i = 0 THEN m ELSE I(h[i - 1], i)
    <3> HIDE DEF I
    <3> SUFFICES ASSUME NEW i \in 0..k
                 PROVE  h[i] = IF i = 0 THEN m ELSE I(h[i - 1], i)
      BY Zenon
    <3>1. CASE i = k
      <4>1. i # 0 /\ i - 1 = k - 1 /\ k - 1 \in 0..k /\ k - 1 # k
        BY <3>1, <1>3, <1>5
      <4>2. h[i] = I(g[k - 1], k) /\ h[k - 1] = g[k - 1]
        BY <3>1, <4>1, Zenon
      <4> QED BY <3>1, <4>1, <4>2, Zenon
    <3>2. CASE i # k
      <4>1. i \in 0..(k - 1) /\ (i # 0 => i - 1 \in 0..k /\ i - 1 # k)
        BY <3>2, <1>3, <1>5
      <4>2. h[i] = g[i] /\ (i # 0 => h[i - 1] = g[i - 1])
        BY <3>2, <4>1, Zenon
      <4> QED BY <4>1, <4>2, <2>3, Zenon
    <3> QED BY <3>1, <3>2, Zenon
  <2>5. h = [i \in 0..k |-> h[i]]
    BY Zenon
  <2> HIDE DEF h
  <2>6. Steps(m, names, mask, k, h)
    BY <2>4, <2>5, Zenon DEF Steps
  <2> QED BY <2>6, <1>3, Zenon
<1> QED BY <1>4, <1>5, Zenon

LEMMA ZeroIn == \A n \in Nat : 0 \in 0..n
  OBVIOUS

LEMMA OneBack ==
    ASSUME NEW n \in Nat, NEW k \in 0..n, k # 0
    PROVE  /\ k - 1 \in Nat /\ k - 1 \in 0..n /\ ~ (k <= k - 1) /\ k \in 1..n
           /\ 1..k = (1..(k - 1)) \cup {k} /\ \A i \in 1..(k - 1) : i \in 1..n
<1>1. k \in Nat /\ k <= n /\ k >= 1
  OBVIOUS
<1> QED BY <1>1

\* A whole list goes in, in whatever order.
LEMMA InsertAllBuilt ==
    ASSUME NEW m, NEW names, NEW mask, Matcher(m), Flat(m),
           names \subseteq Names, IsFiniteSet(names)
    PROVE  Built(insertAll(m, names, mask), m, names, mask)
<1> DEFINE N == Cardinality(names)
           F(g) == [i \in 0..N |-> IF i = 0 THEN m
                                   ELSE insert_with_source(g[i - 1], Order(names)[i], mask)]
           f == CHOOSE g : g = F(g)
<1>0. /\ N \in Nat
      /\ \A i \in 1..N : Order(names)[i] \in names
      /\ \A d \in names : \E i \in 1..N : Order(names)[i] = d
  BY OrderFacts, Zenon
<1>1. PICK h : Steps(m, names, mask, N, h)
  BY <1>0, StepsExist, Zenon
<1>2. h = F(h)
  BY <1>1, Zenon DEF Steps
<1>3. f = F(f)
  BY <1>2, Zenon
<1>4. insertAll(m, names, mask) = f[N]
  BY DEF insertAll
<1> HIDE DEF f
<1>5. \A i \in 0..N : f[i] = IF i = 0 THEN m
                             ELSE insert_with_source(f[i - 1], Order(names)[i], mask)
  BY <1>3, Zenon
<1> HIDE DEF N, F
<1> DEFINE Some(k) == {Order(names)[i] : i \in 1..k}
           OK(k) == Built(f[k], m, Some(k), mask)
           Bad == {k \in Nat : k \in 0..N /\ ~OK(k)}
<1>6. ASSUME Bad # {} PROVE FALSE
  <2>1. Bad \subseteq Nat
    BY Zenon
  <2>2. PICK k \in Bad : \A y \in Bad : k <= y
    BY <2>1, <1>6, LeastNat, Zenon
  <2>3. k \in 0..N /\ ~OK(k) /\ k \in Nat
    BY <2>2, Zenon
  <2>4. k # 0
    <3>1. Some(0) = {}
      OBVIOUS
    <3>2. f[0] = m /\ 0 \in 0..N
      BY <1>0, <1>5, ZeroIn, Zenon
    <3>3. OK(0)
      BY <3>1, <3>2, BuiltNothing, Zenon
    <3> QED BY <3>3, <2>3, Zenon
  <2>5. /\ k - 1 \in Nat /\ k - 1 \in 0..N /\ ~ (k <= k - 1) /\ k \in 1..N
        /\ 1..k = (1..(k - 1)) \cup {k} /\ \A i \in 1..(k - 1) : i \in 1..N
    BY <2>3, <2>4, <1>0, OneBack, Zenon
  <2>6. OK(k - 1)
    BY <2>5, <2>2, Zenon
  <2>7. Some(k) = Some(k - 1) \cup {Order(names)[k]}
    BY <2>5, Zenon
  <2>8. f[k] = insert_with_source(f[k - 1], Order(names)[k], mask)
    BY <2>3, <2>4, <1>5, Zenon
  <2>9. Some(k - 1) \subseteq Names /\ Order(names)[k] \in Names
    BY <2>5, <1>0, Zenon
  <2>10. DOMAIN m \subseteq Names
    BY Zenon DEF Matcher
  <2>11. OK(k)
    <3> HIDE DEF Some
    <3>1. Built(f[k - 1], m, Some(k - 1), mask)
      BY <2>6, Zenon
    <3>2. Built(insert_with_source(f[k - 1], Order(names)[k], mask), m,
                Some(k - 1) \cup {Order(names)[k]}, mask)
      BY <3>1, <2>9, <2>10, InsertOne, Zenon
    <3> QED BY <3>2, <2>7, <2>8, Zenon
  <2> QED BY <2>3, <2>11, Zenon
<1>7. N \in 0..N
  BY <1>0
<1>8. OK(N)
  BY <1>0, <1>6, <1>7, Zenon
<1>9. Some(N) = names
  BY <1>0, Zenon
<1> QED BY <1>4, <1>8, <1>9, Zenon DEF N
-----------------------------------------------------------------------------
\* A list is compiled, then its terminals go into the matcher in force or
\* into an empty one: the outcome is that of the list's own names.
LEMMA EmptyMatcher == Matcher(Empty) /\ Flat(Empty) /\ DOMAIN Empty = {}
                      /\ \A d : ~is_blocked(Empty, d)
<1>1. DOMAIN Empty = {}
  BY Zenon DEF Empty
<1>2. Empty = [t \in DOMAIN Empty |-> Empty[t]]
  BY Zenon DEF Empty
<1> QED BY <1>1, <1>2, BlockedIs, Zenon DEF Matcher, Flat

LEMMA CompileFacts ==
    ASSUME NEW list, list \subseteq Names, IsFiniteSet(list)
    PROVE  /\ DOMAIN compile_text(list) \subseteq list
           /\ IsFiniteSet(DOMAIN compile_text(list))
           /\ \A d \in Names : (\E n \in DOMAIN compile_text(list) : IsPrefix(n, d))
                                 <=> \E n \in list : IsPrefix(n, d)
<1> DEFINE c == compile_text(list)
<1>1. Built(c, Empty, list, {})
  BY EmptyMatcher, InsertAllBuilt, Zenon DEF compile_text
<1> HIDE DEF c
<1>2. DOMAIN c \subseteq list
  BY <1>1, EmptyMatcher, Zenon DEF Built
<1>3. IsFiniteSet(DOMAIN c)
  BY <1>2, FS_Subset, Zenon
<1>4. ASSUME NEW d \in Names
      PROVE  (\E n \in DOMAIN c : IsPrefix(n, d)) <=> \E n \in list : IsPrefix(n, d)
  BY <1>1, EmptyMatcher, BlockedIs, Zenon DEF Built, BlocksBoth
<1> QED BY <1>2, <1>3, <1>4, Zenon DEF c

LEMMA InstallBuilt ==
    ASSUME NEW m, NEW list, NEW mask, Matcher(m), Flat(m),
           list \subseteq Names, IsFiniteSet(list)
    PROVE  Built(insertAll(m, DOMAIN compile_text(list), mask), m, list, mask)
<1> DEFINE K == DOMAIN compile_text(list)
           r == insertAll(m, K, mask)
<1>1. /\ K \subseteq list /\ IsFiniteSet(K)
      /\ \A d \in Names : (\E n \in K : IsPrefix(n, d)) <=> \E n \in list : IsPrefix(n, d)
  BY CompileFacts, Zenon
<1>2. K \subseteq Names
  BY <1>1, Zenon
<1> HIDE DEF K
<1>3. Built(r, m, K, mask)
  BY <1>1, <1>2, InsertAllBuilt, Zenon
<1> HIDE DEF r
<1>4. BlocksBoth(r, m, list)
  BY <1>1, <1>3, Zenon DEF Built, BlocksBoth
<1>5. Tagged(r, m, list, mask)
  BY <1>1, <1>3, Zenon DEF Built, Tagged
<1> QED BY <1>1, <1>3, <1>4, <1>5, Zenon DEF Built, K, r

-----------------------------------------------------------------------------
\* An ingest past its meta step has the bit and the row of its lane.
IngestOK(x, bits, rows) ==
    \/ x = Free
    \/ /\ {"pc", "lane", "list"} \subseteq DOMAIN x
       /\ x.pc \in {"meta", "note", "install"}
       /\ x.lane \in Lanes /\ x.list \in Catalogues[x.lane]
       /\ x.pc # "meta" => x.lane \in bits /\ x.lane \in rows
IngestsOK ==
    /\ DOMAIN ingest = Ingests
    /\ \A i \in Ingests : IngestOK(ingest[i], DOMAIN id_to_bit, DOMAIN first_seen)

\* A lane with bit b has its row and shipped a name at or under t.
Earned(t, b, bits, rows, ships) ==
    \E s \in Lanes : /\ s \in DOMAIN bits /\ bits[s] = b
                     /\ s \in DOMAIN rows
                     /\ \E d \in Names : <<s, d>> \in ships /\ IsPrefix(t, d)

\* The inductive invariant: the two properties, and that an ingest under way
\* has the bit and the row of its lane before it installs.
ListsInv == Matcher(terms) /\ IngestsOK /\ SetIsUnion /\ TagsEarned

\* The registry only grows: what a lane has, it keeps.
Grows(bits, rows, bits2, rows2) ==
    /\ \A s \in DOMAIN bits : s \in DOMAIN bits2 /\ bits2[s] = bits[s]
    /\ \A s \in DOMAIN rows : s \in DOMAIN rows2

LEMMA ListFacts ==
    /\ \A list \in Lists : list \subseteq Names /\ IsFiniteSet(list)
    /\ \A s \in Lanes : \A list \in Catalogues[s] : list \subseteq Names /\ IsFiniteSet(list)
BY BlocklistAssumption, Zenon DEF Lanes

LEMMA TagsEarnedIs ==
    TagsEarned <=> \A t \in DOMAIN terms : \A b \in terms[t] :
                       Earned(t, b, id_to_bit, first_seen, shipped)
BY Zenon DEF TagsEarned, Earned

LEMMA IngestKept ==
    ASSUME NEW x, NEW bits, NEW rows, NEW bits2, NEW rows2,
           IngestOK(x, DOMAIN bits, DOMAIN rows), Grows(bits, rows, bits2, rows2)
    PROVE  IngestOK(x, DOMAIN bits2, DOMAIN rows2)
BY Zenon DEF IngestOK, Grows

LEMMA EarnedKept ==
    ASSUME NEW t, NEW b, NEW bits, NEW rows, NEW ships, NEW bits2, NEW rows2, NEW ships2,
           Earned(t, b, bits, rows, ships), Grows(bits, rows, bits2, rows2),
           ships \subseteq ships2
    PROVE  Earned(t, b, bits2, rows2, ships2)
BY Zenon DEF Earned, Grows
-----------------------------------------------------------------------------
LEMMA InitLists == ASSUME BlocklistInit PROVE ListsInv
<1>1. /\ terms = Empty /\ listed = {} /\ DOMAIN ingest = Ingests
      /\ \A i \in Ingests : ingest[i] = Free
  BY Zenon DEF BlocklistInit
<1>2. IngestsOK
  BY <1>1, Zenon DEF IngestsOK, IngestOK
<1>3. SetIsUnion
  BY <1>1, EmptyMatcher, Zenon DEF SetIsUnion
<1>4. TagsEarned
  BY <1>1, EmptyMatcher, Zenon DEF TagsEarned
<1> QED BY <1>1, <1>2, <1>3, <1>4, EmptyMatcher, Zenon DEF ListsInv

\* The set after an installation, from what the matcher was built of.
LEMMA BuiltUnion ==
    ASSUME NEW m, NEW list, NEW mask, NEW before,
           Built(terms', m, list, mask),
           \A d \in Names : is_blocked(m, d) <=> \E l \in before : IsPrefix(l, d),
           listed' = before \cup list
    PROVE  Matcher(terms') /\ SetIsUnion'
<1>1. Matcher(terms') /\ Flat(terms') /\ BlocksBoth(terms', m, list)
  BY Zenon DEF Built
<1>2. ASSUME NEW d \in Names PROVE is_blocked(terms', d) <=> \E l \in listed' : IsPrefix(l, d)
  BY <1>1, Zenon DEF BlocksBoth
<1>3. \A t, u \in DOMAIN terms' : IsPrefix(t, u) => t = u
  BY <1>1, Zenon DEF Flat
<1>4. SetIsUnion'
  <2>1. \A d \in Names : is_blocked(terms, d)' <=> \E l \in listed' : IsPrefix(l, d)
    BY <1>2, Zenon DEF is_blocked, Covering
  <2> QED BY <2>1, <1>3, Zenon DEF SetIsUnion
<1> QED BY <1>1, <1>4

LEMMA ListInstall ==
    ASSUME ListsInv, NEW list \in Lists, NEW merge \in BOOLEAN, compile_and_install(list, merge)
    PROVE  ListsInv'
<1> DEFINE m == IF merge THEN terms ELSE Empty
<1>1. /\ terms' = insertAll(m, DOMAIN compile_text(list), {})
      /\ listed' = (IF merge THEN listed ELSE {}) \cup list
      /\ shipped' = IF merge THEN shipped ELSE {}
      /\ UNCHANGED <<id_to_bit, first_seen, ingest>>
  BY Zenon DEF compile_and_install, install_compiled
<1>2. list \subseteq Names /\ IsFiniteSet(list)
  BY ListFacts, Zenon
<1>3. Matcher(terms) /\ Flat(terms) /\ IngestsOK /\ SetIsUnion /\ TagsEarned
  BY Zenon DEF ListsInv, SetIsUnion, Flat
<1>4. IngestsOK'
  BY <1>1, <1>3, Zenon DEF IngestsOK
<1>5. CASE merge
  <2>1. Built(terms', terms, list, {})
    BY <1>1, <1>2, <1>3, <1>5, InstallBuilt, Zenon
  <2>2. Matcher(terms') /\ SetIsUnion'
    BY <2>1, <1>1, <1>3, <1>5, BuiltUnion, Zenon DEF SetIsUnion
  <2>3. TagsEarned'
    <3> SUFFICES ASSUME NEW t \in DOMAIN terms', NEW b \in terms'[t]
                 PROVE  Earned(t, b, id_to_bit', first_seen', shipped')
      BY Zenon DEF TagsEarned, Earned
    <3>1. t \in DOMAIN terms /\ b \in terms[t]
      BY <2>1, Zenon DEF Built, Tagged
    <3>2. Earned(t, b, id_to_bit, first_seen, shipped)
      BY <3>1, <1>3, TagsEarnedIs, Zenon
    <3> QED BY <3>2, <1>1, <1>5, Zenon
  <2> QED BY <2>2, <2>3, <1>4, Zenon DEF ListsInv
<1>6. CASE ~merge
  <2>1. Built(terms', Empty, list, {})
    BY <1>1, <1>2, <1>6, EmptyMatcher, InstallBuilt, Zenon
  <2>2. \A d \in Names : is_blocked(Empty, d) <=> \E l \in {} : IsPrefix(l, d)
    BY EmptyMatcher, Zenon
  <2>3. Matcher(terms') /\ SetIsUnion'
    BY <2>1, <2>2, <1>1, <1>6, BuiltUnion, Zenon
  <2>4. TagsEarned'
    BY <2>1, EmptyMatcher, Zenon DEF Built, Tagged, TagsEarned
  <2> QED BY <2>3, <2>4, <1>4, Zenon DEF ListsInv
<1> QED BY <1>5, <1>6, Zenon

\* A lane's catalogue is installed under the bit of its lane.
LEMMA LaneInstall ==
    ASSUME ListsInv, NEW i \in Ingests, install_with_source(i) PROVE ListsInv'
<1> DEFINE s == ingest[i].lane
           list == ingest[i].list
<1>1. /\ ingest[i].pc = "install"
      /\ terms' = insertAll(terms, DOMAIN compile_text(list), {id_to_bit[s]})
      /\ listed' = listed \cup list /\ shipped' = shipped \cup ({s} \X list)
      /\ ingest' = [ingest EXCEPT ![i] = Free]
      /\ UNCHANGED <<id_to_bit, first_seen>>
  BY Zenon DEF install_with_source, install_compiled
<1>2. Matcher(terms) /\ Flat(terms) /\ IngestsOK /\ SetIsUnion /\ TagsEarned
  BY Zenon DEF ListsInv, SetIsUnion, Flat
<1>3. ingest[i] # Free
  BY <1>1 DEF Free
<1>4. s \in Lanes /\ list \in Catalogues[s] /\ s \in DOMAIN id_to_bit /\ s \in DOMAIN first_seen
  BY <1>1, <1>2, <1>3 DEF IngestsOK, IngestOK
<1> HIDE DEF s, list
<1>5. list \subseteq Names /\ IsFiniteSet(list)
  BY <1>4, ListFacts, Zenon
<1>6. Built(terms', terms, list, {id_to_bit[s]})
  BY <1>1, <1>2, <1>5, InstallBuilt, Zenon
<1>7. Matcher(terms') /\ SetIsUnion'
  BY <1>6, <1>1, <1>2, BuiltUnion, Zenon DEF SetIsUnion
<1>8. IngestsOK'
  BY <1>1, <1>2, Zenon DEF IngestsOK, IngestOK
<1>9. TagsEarned'
  <2> SUFFICES ASSUME NEW t \in DOMAIN terms', NEW b \in terms'[t]
               PROVE  Earned(t, b, id_to_bit', first_seen', shipped')
    BY Zenon DEF TagsEarned, Earned
  <2>1. CASE t \in DOMAIN terms /\ b \in terms[t]
    <3>1. Earned(t, b, id_to_bit, first_seen, shipped)
      BY <2>1, <1>2, TagsEarnedIs, Zenon
    <3>2. Grows(id_to_bit, first_seen, id_to_bit', first_seen') /\ shipped \subseteq shipped'
      BY <1>1, Zenon DEF Grows
    <3> QED BY <3>1, <3>2, EarnedKept, Zenon
  <2>2. CASE b = id_to_bit[s] /\ \E n \in list : IsPrefix(t, n)
    <3>1. PICK n \in list : IsPrefix(t, n)
      BY <2>2, Zenon
    <3>2. <<s, n>> \in shipped' /\ n \in Names
      BY <1>1, <1>5, Zenon
    <3> QED BY <3>1, <3>2, <2>2, <1>1, <1>4, Zenon DEF Earned
  <2> QED BY <2>1, <2>2, <1>6, Zenon DEF Built, Tagged
<1> QED BY <1>7, <1>8, <1>9, Zenon DEF ListsInv

\* Steps that install nothing: the registry grows, one ingest moves.
LEMMA RegistryStep ==
    ASSUME ListsInv, UNCHANGED <<terms, listed, shipped>>,
           Grows(id_to_bit, first_seen, id_to_bit', first_seen'), IngestsOK'
    PROVE  ListsInv'
<1>1. terms' = terms /\ listed' = listed /\ shipped' = shipped
  BY Zenon
<1>2. SetIsUnion'
  <2>1. SetIsUnion
    BY Zenon DEF ListsInv
  <2> QED BY <2>1, <1>1, Zenon DEF SetIsUnion, is_blocked, Covering
<1>3. TagsEarned'
  <2> SUFFICES ASSUME NEW t \in DOMAIN terms, NEW b \in terms[t]
               PROVE  Earned(t, b, id_to_bit', first_seen', shipped')
    BY <1>1, Zenon DEF TagsEarned, Earned
  <2>1. Earned(t, b, id_to_bit, first_seen, shipped)
    BY TagsEarnedIs, Zenon DEF ListsInv
  <2>2. shipped \subseteq shipped'
    BY <1>1, Zenon
  <2> QED BY <2>1, <2>2, EarnedKept, Zenon
<1>4. Matcher(terms')
  BY <1>1, Zenon DEF ListsInv
<1> QED BY <1>2, <1>3, <1>4, Zenon DEF ListsInv

\* One ingest moves to x, the others are kept.
LEMMA IngestMoves ==
    ASSUME IngestsOK, NEW i \in Ingests, NEW x, ingest' = [ingest EXCEPT ![i] = x],
           Grows(id_to_bit, first_seen, id_to_bit', first_seen'),
           IngestOK(x, DOMAIN id_to_bit', DOMAIN first_seen')
    PROVE  IngestsOK'
<1>1. DOMAIN ingest' = Ingests
  BY Zenon DEF IngestsOK
<1>2. ASSUME NEW j \in Ingests PROVE IngestOK(ingest'[j], DOMAIN id_to_bit', DOMAIN first_seen')
  <2>1. CASE j = i
    BY <2>1, Zenon DEF IngestsOK
  <2>2. CASE j # i
    <3>1. ingest'[j] = ingest[j] /\ IngestOK(ingest[j], DOMAIN id_to_bit, DOMAIN first_seen)
      BY <2>2, Zenon DEF IngestsOK
    <3> QED BY <3>1, IngestKept, Zenon
  <2> QED BY <2>1, <2>2, Zenon
<1> QED BY <1>1, <1>2, Zenon DEF IngestsOK

\* bit_for never takes a bit away.
LEMMA BitForGrows ==
    ASSUME NEW s
    PROVE  /\ s \in DOMAIN bit_for(s)
           /\ \A x \in DOMAIN id_to_bit : x \in DOMAIN bit_for(s) /\ bit_for(s)[x] = id_to_bit[x]
<1>1. CASE s \in DOMAIN id_to_bit
  BY <1>1, Zenon DEF bit_for
<1>2. CASE s \notin DOMAIN id_to_bit
  <2> DEFINE f == [x \in DOMAIN id_to_bit \cup {s} |->
                     IF x = s THEN Cardinality(DOMAIN id_to_bit) + 1 ELSE id_to_bit[x]]
  <2>1. bit_for(s) = f
    BY <1>2, Zenon DEF bit_for
  <2>2. s \in DOMAIN f /\ \A x \in DOMAIN id_to_bit : x \in DOMAIN f /\ f[x] = id_to_bit[x]
    BY <1>2, Zenon
  <2> QED BY <2>1, <2>2, Zenon
<1> QED BY <1>1, <1>2, Zenon

LEMMA FirstSeenLists ==
    ASSUME ListsInv, NEW i \in Ingests, NEW s \in Lanes, NEW list \in Catalogues[s],
           source_first_seen(i, s, list)
    PROVE  ListsInv'
<1> DEFINE x == [pc |-> "meta", lane |-> s, list |-> list,
                 first |-> IF s \in DOMAIN first_seen THEN first_seen[s] ELSE day]
<1>1. /\ ingest' = [ingest EXCEPT ![i] = x]
      /\ UNCHANGED <<terms, id_to_bit, first_seen, listed, shipped>>
  BY Zenon DEF source_first_seen
<1>2. /\ x.pc = "meta" /\ x.lane = s /\ x.list = list
      /\ {"pc", "lane", "list"} \subseteq DOMAIN x
  OBVIOUS
<1> HIDE DEF x
<1>3. Grows(id_to_bit, first_seen, id_to_bit', first_seen')
  BY <1>1, Zenon DEF Grows
<1>4. IngestOK(x, DOMAIN id_to_bit', DOMAIN first_seen')
  BY <1>2, Zenon DEF IngestOK
<1>5. IngestsOK
  BY Zenon DEF ListsInv
<1>6. IngestsOK'
  BY <1>1, <1>3, <1>4, <1>5, IngestMoves, Zenon
<1> QED BY <1>1, <1>3, <1>6, RegistryStep, Zenon

LEMMA MetaLists ==
    ASSUME ListsInv, NEW i \in Ingests, register_source_meta(i) PROVE ListsInv'
<1> DEFINE y == ingest[i]
           x == [y EXCEPT !.pc = "note"]
<1>0. IngestsOK /\ y # Free
  BY DEF ListsInv, register_source_meta, Free
<1>1. IngestOK(y, DOMAIN id_to_bit, DOMAIN first_seen)
  BY <1>0, Zenon DEF IngestsOK
<1>2. /\ id_to_bit' = bit_for(y.lane)
      /\ first_seen' = [z \in DOMAIN first_seen \cup {y.lane} |->
                          IF z = y.lane THEN y.first ELSE first_seen[z]]
      /\ ingest' = [ingest EXCEPT ![i] = x]
      /\ UNCHANGED <<terms, listed, shipped>>
  BY Zenon DEF register_source_meta
<1>3. /\ y.lane \in Lanes /\ y.list \in Catalogues[y.lane]
      /\ {"pc", "lane", "list"} \subseteq DOMAIN y
  BY <1>0, <1>1, Zenon DEF IngestOK
<1>4. /\ x.pc = "note" /\ x.lane = y.lane /\ x.list = y.list
      /\ {"pc", "lane", "list"} \subseteq DOMAIN x
  BY <1>3
<1> HIDE DEF x, y
<1>5. /\ Grows(id_to_bit, first_seen, id_to_bit', first_seen')
      /\ y.lane \in DOMAIN id_to_bit' /\ y.lane \in DOMAIN first_seen'
  BY <1>2, BitForGrows, Zenon DEF Grows
<1>6. IngestOK(x, DOMAIN id_to_bit', DOMAIN first_seen')
  BY <1>3, <1>4, <1>5, Zenon DEF IngestOK
<1>7. IngestsOK'
  BY <1>0, <1>2, <1>5, <1>6, IngestMoves, Zenon
<1> QED BY <1>2, <1>5, <1>7, RegistryStep, Zenon

LEMMA NoteLists ==
    ASSUME ListsInv, NEW i \in Ingests, note(i) PROVE ListsInv'
<1> DEFINE y == ingest[i]
           x == [y EXCEPT !.pc = "install"]
<1>0. IngestsOK /\ y # Free /\ y.pc = "note"
  BY DEF ListsInv, note, Free
<1>1. IngestOK(y, DOMAIN id_to_bit, DOMAIN first_seen)
  BY <1>0, Zenon DEF IngestsOK
<1>2. /\ id_to_bit' = bit_for(y.lane) /\ ingest' = [ingest EXCEPT ![i] = x]
      /\ UNCHANGED <<terms, first_seen, listed, shipped>>
  BY Zenon DEF note
<1>3. /\ y.lane \in Lanes /\ y.list \in Catalogues[y.lane]
      /\ {"pc", "lane", "list"} \subseteq DOMAIN y
  BY <1>0, <1>1, Zenon DEF IngestOK
<1>8. y.lane \in DOMAIN first_seen
  BY <1>0, <1>1 DEF IngestOK
<1>4. /\ x.pc = "install" /\ x.lane = y.lane /\ x.list = y.list
      /\ {"pc", "lane", "list"} \subseteq DOMAIN x
  BY <1>3
<1> HIDE DEF x, y
<1>5. /\ Grows(id_to_bit, first_seen, id_to_bit', first_seen')
      /\ y.lane \in DOMAIN id_to_bit' /\ y.lane \in DOMAIN first_seen'
  BY <1>2, <1>8, BitForGrows, Zenon DEF Grows
<1>6. IngestOK(x, DOMAIN id_to_bit', DOMAIN first_seen')
  BY <1>3, <1>4, <1>5, Zenon DEF IngestOK
<1>7. IngestsOK'
  BY <1>0, <1>2, <1>5, <1>6, IngestMoves, Zenon
<1> QED BY <1>2, <1>5, <1>7, RegistryStep, Zenon

LEMMA StepLists ==
    ASSUME ListsInv, [BlocklistNext]_listVars PROVE ListsInv'
<1>1. ASSUME UNCHANGED <<terms, id_to_bit, first_seen, ingest, listed, shipped>> PROVE ListsInv'
  <2>1. Grows(id_to_bit, first_seen, id_to_bit', first_seen')
    BY <1>1, Zenon DEF Grows
  <2>2. IngestsOK'
    BY <1>1, Zenon DEF ListsInv, IngestsOK
  <2> QED BY <1>1, <2>1, <2>2, RegistryStep, Zenon
<1>2. CASE UNCHANGED listVars
  BY <1>1, <1>2, Zenon DEF listVars
<1>3. CASE dayPasses
  BY <1>1, <1>3, Zenon DEF dayPasses
<1>4. CASE \E list \in Lists, merge \in BOOLEAN : compile_and_install(list, merge)
  BY <1>4, ListInstall, Zenon
<1>5. ASSUME NEW i \in Ingests,
             \/ \E s \in Lanes : \E list \in Catalogues[s] : source_first_seen(i, s, list)
             \/ register_source_meta(i) \/ note(i) \/ install_with_source(i)
      PROVE  ListsInv'
  BY <1>5, FirstSeenLists, MetaLists, NoteLists, LaneInstall, Zenon
<1> QED BY <1>2, <1>3, <1>4, <1>5, Zenon DEF BlocklistNext

LEMMA ListsAlways == BlocklistSpec => []ListsInv
<1>1. BlocklistInit => ListsInv
  BY InitLists
<1>2. ListsInv /\ [BlocklistNext]_listVars => ListsInv'
  BY StepLists
<1> QED
  BY <1>1, <1>2, PTL DEF BlocklistSpec

\* For any names, lists, lanes and number of ingests side by side: a name is
\* blocked exactly when it or a parent was listed since the last
\* replacement, and no terminal lies beneath another.
THEOREM SetIsUnionAlways == BlocklistSpec => []SetIsUnion
<1>1. ListsInv => SetIsUnion
  BY DEF ListsInv
<1> QED
  BY <1>1, ListsAlways, PTL

\* ... and every tag on a terminal is the bit of a lane that has its row in
\* the registry and shipped a name at or under that terminal.
THEOREM TagsEarnedAlways == BlocklistSpec => []TagsEarned
<1>1. ListsInv => TagsEarned
  BY DEF ListsInv
<1> QED
  BY <1>1, ListsAlways, PTL
=============================================================================
