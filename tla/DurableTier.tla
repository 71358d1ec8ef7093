----------------------------- MODULE DurableTier -----------------------------
(***************************************************************************)
(* The durable runtime tier (runtime_tier.rs): one framed record of one    *)
(* pillar, written through a temporary file and a rename, and read back at *)
(* start.  Writers run concurrently and the process may die between any    *)
(* two system calls; what it wrote to the files survives it.               *)
(*                                                                         *)
(* A file is an inode that a name or an open descriptor refers to.  Its    *)
(* content is a sequence of blocks; block i of the frame of payload v is   *)
(* <<v, i>>.                                                               *)
(***************************************************************************)
EXTENDS Integers, Sequences, FiniteSets

CONSTANTS
    Writers,        \* threads that persist this record
    Payloads,       \* what they persist
    Blocks,         \* payload -> the number of blocks of its frame
    MaxBlocks,      \* MAX_BLOB_BYTES and the header, in blocks
    NoRecord        \* rehydrate's None

ASSUME TierAssumption ==
    /\ IsFiniteSet(Writers)
    /\ MaxBlocks \in Nat
    /\ Blocks \in [Payloads -> Nat \ {0}]
    /\ NoRecord \notin Payloads

VARIABLES
    inode,      \* inode number -> its blocks
    tmp,        \* the inode named .<name>.tmp, 0 for none
    final,      \* the inode named <name>, 0 for none
    writer,     \* writer -> its write_through call
    overlapped, \* history: a writer opened the temporary file during another's call
    cleared     \* history: changes with every call of clear

vars == <<inode, tmp, final, writer, overlapped, cleared>>

\* One inode for each open descriptor and one for the record suffice.
Inodes  == 1 .. Cardinality(Writers) + 2
Hole    == <<NoRecord, 0>>
Block   == {<<v, i>> : v \in Payloads, i \in 1 .. MaxBlocks} \cup {Hole}

Idle(result) == [pc |-> "idle", payload |-> NoRecord, fd |-> 0, at |-> 0, result |-> result]

Init == /\ inode = [i \in Inodes |-> <<>>]
        /\ tmp = 0
        /\ final = 0
        /\ writer = [w \in Writers |-> Idle("none")]
        /\ overlapped = FALSE
        /\ cleared = FALSE

Frame(v) == [i \in 1 .. Blocks[v] |-> <<v, i>>]

(***************************************************************************)
(* unframe: the header names the payload by its digest; the rest must be   *)
(* that payload, no more and no less, and within the bound.                *)
(***************************************************************************)
Unframe(blocks) ==
    IF Len(blocks) <= MaxBlocks /\ \E v \in Payloads : blocks = Frame(v)
    THEN CHOOSE v \in Payloads : blocks = Frame(v)
    ELSE NoRecord

Content(i) == IF i = 0 THEN <<>> ELSE inode[i]

\* What rehydrate returns: read the file, unframe it.
Rehydrated == Unframe(Content(final))

Busy(w) == writer[w].pc # "idle"

\* write_through refuses an oversized payload before any I/O.
Begin(w, v) ==
    /\ ~Busy(w)
    /\ writer' = [writer EXCEPT ![w] =
           IF Blocks[v] > MaxBlocks THEN Idle("TooLarge")
           ELSE [pc |-> "open", payload |-> v, fd |-> 0, at |-> 0, result |-> "none"]]
    /\ UNCHANGED <<inode, tmp, final, overlapped, cleared>>

\* An inode no name and no descriptor refers to.
Unused == CHOOSE i \in Inodes :
              i # tmp /\ i # final /\ \A w \in Writers : writer[w].fd # i

\* Slip: the record is written in place, without the temporary file.
OpenFinal(w) ==
    LET i == IF final = 0 THEN Unused ELSE final IN
    /\ writer[w].pc = "open"
    /\ final' = i
    /\ tmp' = i
    /\ inode' = [inode EXCEPT ![i] = <<>>]
    /\ writer' = [writer EXCEPT ![w].pc = "write", ![w].fd = i]
    /\ UNCHANGED <<overlapped, cleared>>

\* fs::write opens the temporary file: created, or truncated where it is.
OpenTmp(w) ==
    LET i == IF tmp = 0 THEN Unused ELSE tmp IN
    /\ writer[w].pc = "open"
    /\ tmp' = i
    /\ inode' = [inode EXCEPT ![i] = <<>>]
    /\ writer' = [writer EXCEPT ![w].pc = "write", ![w].fd = i]
    /\ overlapped' = (overlapped \/ \E u \in Writers \ {w} : Busy(u))
    /\ UNCHANGED <<final, cleared>>

\* write(2) puts the next block at the descriptor's offset; a file truncated
\* below that offset gets a hole.
PutBlock(blocks, at, b) ==
    [i \in 1 .. (IF at > Len(blocks) THEN at ELSE Len(blocks)) |->
        IF i = at THEN b ELSE IF i <= Len(blocks) THEN blocks[i] ELSE Hole]

WriteBlock(w) ==
    LET v == writer[w].payload  n == writer[w].at + 1 IN
    /\ writer[w].pc = "write"
    /\ n <= Blocks[v]
    /\ inode' = [inode EXCEPT ![writer[w].fd] = PutBlock(@, n, <<v, n>>)]
    /\ writer' = [writer EXCEPT ![w].at = n]
    /\ UNCHANGED <<tmp, final, overlapped, cleared>>

CloseTmp(w) ==
    /\ writer[w].pc = "write"
    /\ writer[w].at = Blocks[writer[w].payload]
    /\ writer' = [writer EXCEPT ![w].pc = "rename", ![w].fd = 0]
    /\ UNCHANGED <<inode, tmp, final, overlapped, cleared>>

\* Slip: a failed write is renamed all the same.
WriteFailsSilently(w) ==
    /\ writer[w].pc \in {"open", "write"}
    /\ writer' = [writer EXCEPT ![w].pc = "rename", ![w].fd = 0]
    /\ UNCHANGED <<inode, tmp, final, overlapped, cleared>>

\* The device is full: fs::write fails and its `?` leaves the temporary file.
WriteFails(w) ==
    /\ writer[w].pc \in {"open", "write"}
    /\ writer' = [writer EXCEPT ![w] = Idle("IoError")]
    /\ UNCHANGED <<inode, tmp, final, overlapped, cleared>>

\* rename moves whatever the temporary name refers to by now.
Rename(w) ==
    /\ writer[w].pc = "rename"
    /\ tmp # 0
    /\ final' = tmp
    /\ tmp' = 0
    /\ writer' = [writer EXCEPT ![w] = Idle("Ok")]
    /\ UNCHANGED <<inode, overlapped, cleared>>

\* rename fails, for want of a source or otherwise: the temporary file is
\* removed if it is there.
RenameFails(w) ==
    /\ writer[w].pc = "rename"
    /\ tmp' = 0
    /\ writer' = [writer EXCEPT ![w] = Idle("IoError")]
    /\ UNCHANGED <<inode, final, overlapped, cleared>>

Clear ==
    /\ final' = 0
    /\ cleared' = ~cleared
    /\ UNCHANGED <<inode, tmp, writer, overlapped>>

\* The process dies: descriptors close, files stay.
Kill ==
    /\ writer' = [w \in Writers |-> Idle("none")]
    /\ UNCHANGED <<inode, tmp, final, overlapped, cleared>>

Next == \/ \E w \in Writers : \/ \E v \in Payloads : Begin(w, v)
                              \/ OpenTmp(w) \/ WriteBlock(w) \/ CloseTmp(w)
                              \/ WriteFails(w) \/ Rename(w) \/ RenameFails(w)
        \/ Clear
        \/ Kill

Spec == Init /\ [][Next]_vars

-----------------------------------------------------------------------------
Call == [pc : {"idle", "open", "write", "rename"}, payload : Payloads \cup {NoRecord},
         fd : Inodes \cup {0}, at : 0 .. MaxBlocks,
         result : {"none", "Ok", "TooLarge", "IoError"}]

\* Every variable keeps its type; a descriptor is open exactly while writing.
TypeOK ==
    /\ inode \in [Inodes -> Seq(Block)]
    /\ \A i \in Inodes : Len(inode[i]) <= MaxBlocks
    /\ tmp \in Inodes \cup {0} /\ final \in Inodes \cup {0}
    /\ writer \in [Writers -> Call]
    /\ \A w \in Writers : writer[w].fd # 0 <=> writer[w].pc = "write"
    /\ overlapped \in BOOLEAN /\ cleared \in BOOLEAN

Record == INSTANCE AtomicRecord WITH
              record <- Rehydrated, pending <- [w \in Writers |-> writer[w].payload]

\* With one writer the tier is an atomic record: wherever write_through fails
\* or the process dies, what rehydrate returns is the record before the write
\* or the whole of the one asked for, and only clear removes it.
ImplementsAtomicRecord == Record!Spec

\* write_through returns Ok only when rehydrate would return its payload,
\* unless another writer opened the temporary file during the call.
OkMeansRecorded ==
    [][\A w \in Writers :
          writer[w].pc = "rename" /\ writer'[w].result = "Ok" /\ ~overlapped
          => Rehydrated' = writer[w].payload]_vars

\* A file under the record's name that does not rehydrate is the trace of two
\* writers that overlapped on the temporary file they share.
HalfRecordOnlyIfOverlapped == final # 0 /\ Rehydrated = NoRecord => overlapped

\* What write_through says of a crashed write: it never leaves a half-record
\* under the final name.
NoHalfRecord == final # 0 => Rehydrated # NoRecord
=============================================================================
