----------------------------- MODULE RecordFile -----------------------------
(***************************************************************************)
(* One file of a run directory and the processes that write it, one system *)
(* call at a time.  The program has three ways to write a file:            *)
(*   put      a sibling path.tmp is written and renamed over the path      *)
(*            (documents, agent records, meta.json by WriteDispatch);      *)
(*   update   the file is locked, read, truncated and written again        *)
(*            (meta.json by the claim operations);                         *)
(*   rewrite  the file is opened with O_TRUNC, locked and written          *)
(*            (manifest.json).                                             *)
(* Readers take no lock.  A write is a number; the text of a put is the    *)
(* set of its number alone, an update adds its number to what it read.     *)
(***************************************************************************)
EXTENDS Naturals, FiniteSets

CONSTANTS Proc,       \* the processes
          None,       \* no process
          MaxWrites,  \* bound on the writes that are begun
          MaxDeaths   \* bound on the processes that die in a write

ASSUME RecordFileAssumption ==
    /\ None \notin Proc
    /\ IsFiniteSet(Proc)
    /\ MaxWrites \in Nat
    /\ MaxDeaths \in Nat

VARIABLES
    file,      \* which kind of file it is
    entry,     \* the inode at the path, 0 for none
    tmp,       \* the inode at path.tmp
    data,      \* data[i]: what inode i holds
    lock,      \* lock[i]: the process with the flock of inode i
    pc, fd,    \* fd[p]: the inode p has open, 0 for none
    mine,      \* mine[p]: the text p is about to write
    alone,     \* alone[p]: nobody else was in a write during p's (history)
    spoiled,   \* two writes met, or one was cut short in place (history)
    expected,  \* the text the completed writes amount to (history)
    begun, deaths

filevars == <<file, entry, tmp, data, lock, pc, fd, mine, alone, spoiled,
              expected, begun, deaths>>

Files  == {"document", "meta", "manifest"}
Inode  == 1..(Cardinality(Proc) + 2)
Text   == SUBSET (1..MaxWrites)
Whole(t) == [state |-> "whole", text |-> t]
Empty    == [state |-> "empty", text |-> {}]
Torn     == [state |-> "torn", text |-> {}]
NoFile   == [state |-> "absent", text |-> {}]

FileInit ==
    /\ file \in Files
    /\ entry = 0 /\ tmp = 0
    /\ data = [i \in Inode |-> Empty]
    /\ lock = [i \in Inode |-> None]
    /\ pc = [p \in Proc |-> "idle"]
    /\ fd = [p \in Proc |-> 0]
    /\ mine = [p \in Proc |-> {}]
    /\ alone = [p \in Proc |-> FALSE]
    /\ spoiled = FALSE
    /\ expected = {}
    /\ begun = 0 /\ deaths = 0

-----------------------------------------------------------------------------

Writing == {p \in Proc : pc[p] # "idle"}
Visible == IF entry = 0 THEN NoFile ELSE data[entry]

\* An inode nobody refers to: the kernel has freed it.
FreeInode(i) == i \notin {entry, tmp} /\ \A p \in Proc : fd[p] # i
NewInode == CHOOSE i \in Inode : FreeInode(i)

\* write(2) at offset 0 of an inode: over a longer text it leaves the tail.
Overlay(c, t) == IF c = Empty THEN {Whole(t)} ELSE {Whole(t), Torn}

Goto(p, l) == pc' = [pc EXCEPT ![p] = l]

\* A write is begun by p; those under way are no longer alone.
Begin(p, l, t) ==
    /\ pc[p] = "idle"
    /\ begun < MaxWrites
    /\ begun' = begun + 1
    /\ mine' = [mine EXCEPT ![p] = t]
    /\ alone' = [q \in Proc |-> q = p /\ Writing = {}]
    /\ Goto(p, l)
    /\ UNCHANGED <<file, spoiled, expected, deaths>>

\* The descriptor of p is closed, and with it its lock.
Close(p) ==
    /\ Goto(p, "idle")
    /\ fd' = [fd EXCEPT ![p] = 0]
    /\ lock' = [i \in Inode |-> IF lock[i] = p THEN None ELSE lock[i]]
    /\ mine' = [mine EXCEPT ![p] = {}]
    /\ alone' = [alone EXCEPT ![p] = FALSE]
    /\ UNCHANGED <<file, begun>>

-----------------------------------------------------------------------------
(* put: writeFileSafe                                                      *)

\* os.WriteFile(path.tmp): O_CREATE|O_TRUNC.  The documents have one writer
\* at a time (the single-writer discipline of store.go); meta.json has not.
OpenTmp(p) ==
    /\ file \in {"document", "meta"}
    /\ file = "document" => Writing = {}
    /\ Begin(p, "put", {begun + 1})
    /\ LET i == IF tmp = 0 THEN NewInode ELSE tmp IN
       /\ tmp' = i
       /\ fd' = [fd EXCEPT ![p] = i]
       /\ data' = [data EXCEPT ![i] = Empty]
    /\ UNCHANGED <<entry, lock>>

WriteTmp(p) ==
    /\ pc[p] = "put"
    /\ \E c \in Overlay(data[fd[p]], mine[p]) : data' = [data EXCEPT ![fd[p]] = c]
    /\ Goto(p, "put written")
    /\ UNCHANGED <<file, entry, tmp, lock, fd, mine, alone, spoiled, expected,
                   begun, deaths>>

\* The rename comes before the write.
RenameFirst(p) ==
    /\ pc[p] = "put"
    /\ tmp # 0
    /\ entry' = tmp /\ tmp' = 0
    /\ expected' = mine[p]
    /\ spoiled' = ~ alone[p]
    /\ data' = [data EXCEPT ![tmp] = Empty]
    /\ Close(p)
    /\ UNCHANGED deaths

\* rename(path.tmp, path), of whatever is at path.tmp; without it an error.
Rename(p) ==
    /\ pc[p] = "put written"
    /\ IF tmp = 0
       THEN UNCHANGED <<entry, tmp, expected, spoiled>>
       ELSE /\ entry' = tmp /\ tmp' = 0
            /\ expected' = mine[p]
            /\ spoiled' = ~ alone[p]
    /\ Close(p)
    /\ UNCHANGED <<data, deaths>>

(* update: flockUpdateMeta                                                 *)

\* O_RDWR|O_CREATE: the lock will be on the inode that is at the path now.
OpenToUpdate(p) ==
    /\ file = "meta"
    /\ Begin(p, "update", {begun + 1})
    /\ LET i == IF entry = 0 THEN NewInode ELSE entry IN
       /\ entry' = i
       /\ fd' = [fd EXCEPT ![p] = i]
       /\ data' = IF entry = 0 THEN [data EXCEPT ![i] = Empty] ELSE data
    /\ UNCHANGED <<tmp, lock>>

\* A flock that does not exclude.
LockShared(p) ==
    /\ pc[p] \in {"update", "rewrite"}
    /\ Goto(p, IF pc[p] = "update" THEN "locked" ELSE "rewrite locked")
    /\ UNCHANGED <<file, entry, tmp, data, lock, fd, mine, alone, spoiled,
                   expected, begun, deaths>>

\* flock(LOCK_EX) waits for the holder to close.
Lock(p) ==
    /\ pc[p] \in {"update", "rewrite"}
    /\ lock[fd[p]] = None
    /\ lock' = [lock EXCEPT ![fd[p]] = p]
    /\ Goto(p, IF pc[p] = "update" THEN "locked" ELSE "rewrite locked")
    /\ UNCHANGED <<file, entry, tmp, data, fd, mine, alone, spoiled, expected,
                   begun, deaths>>

\* Decode and the callback.  An empty file is a dispatch without a status,
\* which every callback refuses; a torn one does not decode.
Decode(p) ==
    /\ pc[p] = "locked"
    /\ LET c == data[fd[p]] IN
       \/ /\ c.state = "whole"
          /\ mine' = [mine EXCEPT ![p] = @ \cup c.text]
          /\ Goto(p, "decoded")
          /\ UNCHANGED <<file, fd, lock, alone, begun>>
       \/ Close(p)
    /\ UNCHANGED <<entry, tmp, data, spoiled, expected, deaths>>

\* Truncate(0), Seek.
Truncate(p) ==
    /\ pc[p] = "decoded"
    /\ data' = [data EXCEPT ![fd[p]] = Empty]
    /\ Goto(p, "blank")
    /\ UNCHANGED <<file, entry, tmp, lock, fd, mine, alone, spoiled, expected,
                   begun, deaths>>

\* Encode, and the deferred Close.  When a put has replaced the file
\* meanwhile, the text goes to an inode no reader will open.
Encode(p) ==
    /\ pc[p] = "blank"
    /\ \E c \in Overlay(data[fd[p]], mine[p]) : data' = [data EXCEPT ![fd[p]] = c]
    /\ expected' = expected \cup mine[p]
    /\ spoiled' = (spoiled \/ fd[p] # entry)
    /\ Close(p)
    /\ UNCHANGED <<entry, tmp, deaths>>

(* rewrite: flockWrite                                                     *)

\* O_CREATE|O_TRUNC, before the lock is asked for.
OpenToRewrite(p) ==
    /\ file = "manifest"
    /\ Begin(p, "rewrite", {begun + 1})
    /\ LET i == IF entry = 0 THEN NewInode ELSE entry IN
       /\ entry' = i
       /\ fd' = [fd EXCEPT ![p] = i]
       /\ data' = [data EXCEPT ![i] = Empty]
    /\ UNCHANGED <<tmp, lock>>

Rewrite(p) ==
    /\ pc[p] = "rewrite locked"
    /\ \E c \in Overlay(data[fd[p]], mine[p]) : data' = [data EXCEPT ![fd[p]] = c]
    /\ expected' = mine[p]
    /\ spoiled' = ~ alone[p]
    /\ Close(p)
    /\ UNCHANGED <<entry, tmp, deaths>>

-----------------------------------------------------------------------------

\* A process dies in a write; the kernel closes its descriptors.
Die(p) ==
    /\ pc[p] # "idle"
    /\ deaths < MaxDeaths
    /\ deaths' = deaths + 1
    /\ spoiled' = (spoiled \/ pc[p] \in {"blank", "rewrite", "rewrite locked"})
    /\ Close(p)
    /\ UNCHANGED <<entry, tmp, data, expected>>

FileNext ==
    \E p \in Proc :
        \/ OpenTmp(p) \/ WriteTmp(p) \/ Rename(p)
        \/ OpenToUpdate(p) \/ Lock(p) \/ Decode(p) \/ Truncate(p) \/ Encode(p)
        \/ OpenToRewrite(p) \/ Rewrite(p)
        \/ Die(p)

FileSpec == FileInit /\ [][FileNext]_filevars

-----------------------------------------------------------------------------

\* When no write is under way, no put or rewrite has met another write, and
\* none was cut short in place, the file is whole and has the text of the last
\* put or rewrite and of every update since: no claim operation of meta.json
\* loses what another wrote.
RecordAsWritten ==
    Writing = {} /\ ~ spoiled =>
        IF expected = {} THEN Visible \in {NoFile, Empty}
                         ELSE Visible = Whole(expected)

\* A document written by a put is an atomic record, also when its writers die:
\* its readers see an old or a new text, never a part (fsstore.go:826).
Atomic == INSTANCE AtomicRecord WITH
    Writes <- {Whole({n}) : n \in 1..MaxWrites},
    Absent <- NoFile,
    text   <- IF file = "document" THEN Visible ELSE NoFile,
    asked  <- IF file = "document" THEN {Whole(mine[p]) : p \in Writing} ELSE {}

\* A document implements the atomic record.
DocumentsAtomic == Atomic!AtomicSpec
=============================================================================
