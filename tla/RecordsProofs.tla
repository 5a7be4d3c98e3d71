--------------------------- MODULE RecordsProofs ----------------------------
(* What is written of a run.  One file: a document is an atomic record,    *)
(* and a file of any kind says what the completed writes amount to, for    *)
(* any number of processes, writes and processes that die in a write.  The *)
(* stores: postgres behind the file store tells the same of a run once the *)
(* mirror has caught up, and its export at any time what postgres tells,   *)
(* for any number of dispatches and calls and any distance behind.         *)
EXTENDS RecordFile, RecordStores, FiniteSetTheorems, SequenceTheorems, TLAPS

(* One file that is put.                                                   *)

\* The only writer has path.tmp open, and it is not what readers open.
DocInv ==
    /\ entry \in Inode \cup {0}
    /\ tmp \in Inode \cup {0}
    /\ entry = tmp => tmp = 0
    /\ data \in [Inode -> {Empty, Torn} \cup {Whole(t) : t \in Text}]
    /\ pc \in [Proc -> {"idle", "put", "put written"}]
    /\ fd \in [Proc -> Inode \cup {0}]
    /\ mine \in [Proc -> Text]
    /\ begun \in 0..MaxWrites
    /\ \A p, q \in Writing : p = q
    /\ \A p \in Proc :
        /\ pc[p] = "idle" => fd[p] = 0
        /\ pc[p] # "idle" => /\ tmp # 0 /\ fd[p] = tmp
                             /\ \E n \in 1..MaxWrites : mine[p] = {n}
        /\ pc[p] = "put" => data[tmp] = Empty
        /\ pc[p] = "put written" => data[tmp] = Whole(mine[p])

FileInv == file \in Files /\ (file = "document" => DocInv)

-----------------------------------------------------------------------------

LEMMA InodeIsThree ==
    ASSUME NEW p \in Proc
    PROVE  1 \in Inode /\ 2 \in Inode /\ 3 \in Inode
<1>1. Cardinality(Proc) \in Nat /\ Cardinality(Proc) # 0
  BY RecordFileAssumption, FS_CardinalityType, FS_EmptySet
<1>2. QED
  BY <1>1 DEF Inode

\* An inode for path.tmp is found when nobody is in a write.
LEMMA NewInodeIsFree ==
    ASSUME DocInv, NEW p \in Proc, Writing = {}
    PROVE  NewInode \in Inode /\ NewInode \notin {entry, tmp}
<1>1. \A q \in Proc : fd[q] = 0
  BY DEF DocInv, Writing
<1>2. \E i \in Inode : i \notin {entry, tmp}
  <2>1. \E i \in {1, 2, 3} : i \notin {entry, tmp}
    OBVIOUS
  <2>2. QED
    BY <2>1, InodeIsThree
<1>3. \E i \in Inode : FreeInode(i)
  BY <1>1, <1>2 DEF FreeInode, Inode
<1>4. QED
  BY <1>3 DEF NewInode, FreeInode

LEMMA FileInitInv == FileInit => FileInv
BY RecordFileAssumption DEF FileInit, FileInv, DocInv, Writing, Text, Whole

LEMMA OpenTmpStep ==
    ASSUME FileInv, file = "document", NEW p \in Proc, OpenTmp(p)
    PROVE  /\ FileInv'
           /\ \E n \in 1..MaxWrites : mine'[p] = {n}
           /\ Writing = {} /\ Writing' = {p}
           /\ Visible' = Visible
<1> DEFINE i == IF tmp = 0 THEN NewInode ELSE tmp
<1>1. /\ Writing = {} /\ begun < MaxWrites /\ begun' = begun + 1
      /\ mine' = [mine EXCEPT ![p] = {begun + 1}]
      /\ pc' = [pc EXCEPT ![p] = "put"] /\ file' = file
      /\ tmp' = i /\ fd' = [fd EXCEPT ![p] = i]
      /\ data' = [data EXCEPT ![i] = Empty] /\ entry' = entry
  BY DEF OpenTmp, Begin, Goto
<1>2. DocInv
  BY DEF FileInv
<1>3. i \in Inode /\ i # entry /\ i # 0
  BY <1>1, <1>2, NewInodeIsFree DEF DocInv, Inode
<1> HIDE DEF i
<1>4. /\ begun + 1 \in 1..MaxWrites /\ begun' \in 0..MaxWrites
      /\ {begun + 1} \in Text
  <2>1. MaxWrites \in Nat /\ begun \in 0..MaxWrites
    BY <1>2, RecordFileAssumption DEF DocInv
  <2>2. begun + 1 \in 1..MaxWrites /\ begun' \in 0..MaxWrites
    BY <1>1, <2>1
  <2>3. QED
    BY <2>2 DEF Text
<1>5. \A q \in Proc : pc[q] = "idle" /\ fd[q] = 0
  BY <1>1, <1>2 DEF DocInv, Writing
<1>6. Writing' = {p}
  BY <1>1, <1>2, <1>5 DEF DocInv, Writing
<1>7. DocInv'
  BY <1>1, <1>2, <1>3, <1>4, <1>5, <1>6 DEF DocInv
<1>8. Visible' = Visible
  BY <1>1, <1>2, <1>3 DEF DocInv, Visible
<1>9. mine'[p] = {begun + 1}
  BY <1>1, <1>2 DEF DocInv
<1>10. QED
  BY <1>1, <1>4, <1>6, <1>7, <1>8, <1>9 DEF FileInv

LEMMA WriteTmpStep ==
    ASSUME FileInv, file = "document", NEW p \in Proc, WriteTmp(p)
    PROVE  FileInv' /\ Visible' = Visible /\ Writing' = Writing /\ mine' = mine
<1>1. DocInv /\ pc[p] = "put" /\ fd[p] = tmp /\ tmp # 0 /\ data[tmp] = Empty
  BY DEF FileInv, DocInv, WriteTmp
<1>2. /\ data' = [data EXCEPT ![tmp] = Whole(mine[p])]
      /\ pc' = [pc EXCEPT ![p] = "put written"]
      /\ UNCHANGED <<file, entry, tmp, fd, mine, begun>>
  BY <1>1 DEF WriteTmp, Overlay, Goto
<1>3. Writing' = Writing
  BY <1>1, <1>2 DEF DocInv, Writing
<1>4. \A q \in Proc : q # p => pc[q] = "idle"
  <2>1. p \in Writing /\ \A q \in Writing : q = p
    BY <1>1 DEF DocInv, Writing
  <2>2. QED
    BY <2>1 DEF Writing
<1>5. DocInv'
  BY <1>1, <1>2, <1>3, <1>4 DEF DocInv
<1>6. Visible' = Visible
  BY <1>1, <1>2 DEF DocInv, Visible
<1>7. QED
  BY <1>2, <1>3, <1>5, <1>6 DEF FileInv

LEMMA RenameStep ==
    ASSUME FileInv, file = "document", NEW p \in Proc, Rename(p)
    PROVE  /\ FileInv'
           /\ Writing = {p} /\ Writing' = {}
           /\ Visible' = Whole(mine[p])
<1>1. /\ DocInv /\ pc[p] = "put written" /\ tmp # 0
      /\ data[tmp] = Whole(mine[p])
  BY DEF FileInv, DocInv, Rename
<1>2. /\ entry' = tmp /\ tmp' = 0 /\ data' = data /\ begun' = begun /\ file' = file
      /\ pc' = [pc EXCEPT ![p] = "idle"]
      /\ fd' = [fd EXCEPT ![p] = 0] /\ mine' = [mine EXCEPT ![p] = {}]
  BY <1>1 DEF Rename, Close, Goto
<1>3. Writing = {p} /\ \A q \in Proc : q # p => pc[q] = "idle"
  <2>1. p \in Writing /\ \A q \in Writing : q = p
    BY <1>1 DEF DocInv, Writing
  <2>2. QED
    BY <2>1 DEF Writing
<1>4. Writing' = {} /\ \A q \in Proc : pc'[q] = "idle"
  BY <1>1, <1>2, <1>3 DEF DocInv, Writing
<1>5. DocInv'
  BY <1>1, <1>2, <1>4 DEF DocInv, Text
<1>6. Visible' = Whole(mine[p])
  BY <1>1, <1>2 DEF Visible
<1>7. QED
  BY <1>2, <1>3, <1>4, <1>5, <1>6 DEF FileInv

LEMMA DieStep ==
    ASSUME FileInv, file = "document", NEW p \in Proc, Die(p)
    PROVE  FileInv' /\ Writing = {p} /\ Writing' = {} /\ Visible' = Visible
<1>1. DocInv /\ pc[p] # "idle"
  BY DEF FileInv, Die
<1>2. /\ UNCHANGED <<entry, tmp, data, begun, file>>
      /\ pc' = [pc EXCEPT ![p] = "idle"]
      /\ fd' = [fd EXCEPT ![p] = 0] /\ mine' = [mine EXCEPT ![p] = {}]
  BY DEF Die, Close, Goto
<1>3. Writing = {p} /\ \A q \in Proc : q # p => pc[q] = "idle"
  <2>1. p \in Writing /\ \A q \in Writing : q = p
    BY <1>1 DEF DocInv, Writing
  <2>2. QED
    BY <2>1 DEF Writing
<1>4. Writing' = {} /\ \A q \in Proc : pc'[q] = "idle"
  BY <1>1, <1>2, <1>3 DEF DocInv, Writing
<1>5. DocInv'
  BY <1>1, <1>2, <1>4 DEF DocInv, Text
<1>6. Visible' = Visible
  BY <1>2 DEF Visible
<1>7. QED
  BY <1>2, <1>3, <1>4, <1>5, <1>6 DEF FileInv

-----------------------------------------------------------------------------

\* Neither updates nor rewrites are made of a document.
LEMMA DocumentSteps ==
    ASSUME FileInv, file = "document", [FileNext]_filevars
    PROVE  \/ \E p \in Proc : OpenTmp(p) \/ WriteTmp(p) \/ Rename(p) \/ Die(p)
           \/ UNCHANGED filevars
<1>1. \A p \in Proc : pc[p] \in {"idle", "put", "put written"}
  BY DEF FileInv, DocInv
<1>2. QED
  BY <1>1 DEF FileNext, OpenToUpdate, Lock, Decode, Truncate, Encode,
     OpenToRewrite, Rewrite

LEMMA FileStays == ASSUME [FileNext]_filevars PROVE file' = file
BY DEF FileNext, filevars, OpenTmp, WriteTmp, Rename, OpenToUpdate, Lock, Decode,
   Truncate, Encode, OpenToRewrite, Rewrite, Die, Begin, Close

LEMMA FileStep == ASSUME FileInv, [FileNext]_filevars PROVE FileInv'
<1>1. CASE file = "document" /\ UNCHANGED filevars
  <2>1. Writing' = Writing
    BY <1>1 DEF filevars, Writing
  <2>2. DocInv'
    BY <1>1, <2>1 DEF FileInv, DocInv, filevars
  <2>3. QED
    BY <1>1, <2>2 DEF FileInv, filevars
<1>2. CASE file = "document" /\ ~ UNCHANGED filevars
  BY <1>2, DocumentSteps, OpenTmpStep, WriteTmpStep, RenameStep, DieStep
<1>3. CASE file # "document"
  BY <1>3, FileStays DEF FileInv
<1>4. QED
  BY <1>1, <1>2, <1>3

LEMMA FileInvariant == FileSpec => []FileInv
BY FileInitInv, FileStep, PTL DEF FileSpec

-----------------------------------------------------------------------------

LEMMA StepIsAtomic ==
    ASSUME FileInv, [FileNext]_filevars
    PROVE  [Atomic!AtomicNext]_(Atomic!atomicvars)
<1>1. CASE file # "document"
  BY <1>1, FileStays DEF Atomic!atomicvars
<1>2. CASE file = "document" /\ UNCHANGED filevars
  BY <1>2 DEF filevars, Atomic!atomicvars, Visible, Writing
<1>3. ASSUME file = "document", NEW p \in Proc, OpenTmp(p)
      PROVE  Atomic!AtomicNext
  <2>1. PICK n \in 1..MaxWrites : mine'[p] = {n}
    BY <1>3, OpenTmpStep
  <2>2. Writing = {} /\ Writing' = {p} /\ Visible' = Visible /\ file' = file
    BY <1>3, OpenTmpStep, FileStays
  <2>3. Atomic!Ask(Whole({n}))
    BY <1>3, <2>1, <2>2 DEF Atomic!Ask
  <2>4. QED
    BY <2>3 DEF Atomic!AtomicNext
<1>4. ASSUME file = "document", NEW p \in Proc, WriteTmp(p)
      PROVE  UNCHANGED Atomic!atomicvars
  BY <1>4, WriteTmpStep, FileStays DEF Atomic!atomicvars
<1>5. ASSUME file = "document", NEW p \in Proc, Rename(p) \/ Die(p)
      PROVE  Atomic!AtomicNext
  <2>1. Writing = {p} /\ Writing' = {} /\ file' = file
    BY <1>5, RenameStep, DieStep, FileStays
  <2>2. PICK n \in 1..MaxWrites : mine[p] = {n}
    BY <1>5, <2>1 DEF FileInv, DocInv, Writing
  <2>3. Rename(p) => Atomic!TakeEffect(Whole({n}))
    BY <1>5, <2>1, <2>2, RenameStep DEF Atomic!TakeEffect
  <2>4. Die(p) => Atomic!GiveUp(Whole({n}))
    BY <1>5, <2>1, <2>2, DieStep DEF Atomic!GiveUp
  <2>5. QED
    BY <1>5, <2>3, <2>4 DEF Atomic!AtomicNext
<1>6. QED
  BY <1>1, <1>2, <1>3, <1>4, <1>5, DocumentSteps

\* Whoever writes a document with a sibling file and a rename, and dies where
\* it may: the readers see the text of one write, whole.
THEOREM DocumentIsAtomic == FileSpec => DocumentsAtomic
<1>1. FileInit => Atomic!AtomicInit
  BY DEF FileInit, Atomic!AtomicInit, Visible, Writing
<1>2. QED
  BY <1>1, StepIsAtomic, FileInvariant, PTL
  DEF FileSpec, DocumentsAtomic, Atomic!AtomicSpec

-----------------------------------------------------------------------------
(* Every kind of file: what the completed writes amount to is what the     *)
(* file says, unless a put or rewrite met another write or one was cut     *)
(* short in place.                                                         *)

Putting   == {"put", "put written"}
Holding   == {"locked", "decoded", "blank"}
Updating  == {"update"} \cup Holding
Rewriting == {"rewrite", "rewrite locked"}
Content   == {Empty, Torn} \cup {Whole(t) : t \in Text}

FileTypeOK ==
    /\ file \in Files
    /\ entry \in Inode \cup {0}
    /\ tmp \in Inode \cup {0}
    /\ data \in [Inode -> Content]
    /\ lock \in [Inode -> Proc \cup {None}]
    /\ pc \in [Proc -> {"idle"} \cup Putting \cup Updating \cup Rewriting]
    /\ fd \in [Proc -> Inode \cup {0}]
    /\ mine \in [Proc -> Text]
    /\ alone \in [Proc -> BOOLEAN]
    /\ spoiled \in BOOLEAN
    /\ expected \in Text
    /\ begun \in 0..MaxWrites
    /\ deaths \in 0..MaxDeaths

\* Who has what open, and who holds the lock of it.
Descriptors ==
    /\ tmp # 0 => tmp # entry
    /\ \A p \in Proc :
        /\ pc[p] = "idle" <=> fd[p] = 0
        /\ pc[p] # "idle" => mine[p] # {}
        /\ pc[p] \in Holding => lock[fd[p]] = p
        /\ pc[p] \in Rewriting => fd[p] = entry
        /\ pc[p] \in Rewriting <=> file = "manifest" /\ pc[p] # "idle"
    /\ \A i \in Inode : lock[i] # None => fd[lock[i]] = i

\* Nothing but its own write shows in what a lone writer has open.
LoneWriter ==
    \A p \in Proc : alone[p] =>
        /\ Writing = {p}
        /\ pc[p] \in Putting => fd[p] = tmp
        /\ pc[p] = "put" => data[tmp] = Empty
        /\ pc[p] = "put written" => data[tmp] = Whole(mine[p])
        /\ pc[p] \in Rewriting => data[entry] = Empty

Matches == IF expected = {} THEN Visible \in {NoFile, Empty}
                            ELSE Visible = Whole(expected)

\* As long as no two writes have met, the file matches unless somebody is
\* writing in place, and he knows what it held.
Unspoiled ==
    ~ spoiled =>
        /\ \A p \in Proc :
            /\ pc[p] \in Putting => fd[p] = tmp
            /\ pc[p] \in Updating => fd[p] = entry
            /\ pc[p] \in {"decoded", "blank"} => expected \subseteq mine[p]
            /\ pc[p] = "blank" => data[entry] = Empty
        /\ (\A p \in Proc : pc[p] \notin Rewriting \cup {"blank"}) => Matches

RecordInv == FileTypeOK /\ Descriptors /\ LoneWriter /\ Unspoiled

\* An element makes a finite set at most one larger.
LEMMA OneMore ==
    ASSUME NEW S, IsFiniteSet(S), NEW x
    PROVE  /\ IsFiniteSet(S \cup {x})
           /\ Cardinality(S \cup {x}) <= Cardinality(S) + 1
<1>1. Cardinality(S) \in Nat
  BY FS_CardinalityType
<1>2. /\ IsFiniteSet(S \cup {x})
      /\ Cardinality(S \cup {x})
           = IF x \in S THEN Cardinality(S) ELSE Cardinality(S) + 1
  BY FS_AddElement
<1>3. QED
  BY <1>1, <1>2

\* A process that begins a write finds an inode nobody refers to: all the
\* others together have fewer open than there are.
LEMMA FreeInodeExists ==
    ASSUME RecordInv, NEW p \in Proc, pc[p] = "idle"
    PROVE  NewInode \in Inode /\ FreeInode(NewInode)
<1> DEFINE Others == Proc \ {p}
           Open   == {fd[q] : q \in Others}
<1>1. fd[p] = 0
  BY DEF RecordInv, Descriptors
<1>2. /\ IsFiniteSet(Others) /\ Cardinality(Others) = Cardinality(Proc) - 1
      /\ Cardinality(Proc) \in Nat
  BY RecordFileAssumption, FS_RemoveElement, FS_CardinalityType
<1>3. IsFiniteSet(Open) /\ Cardinality(Open) <= Cardinality(Others)
  <2> DEFINE f == [q \in Others |-> fd[q]]
  <2>1. f \in Surjection(Others, Open)
    BY DEF Surjection
  <2> HIDE DEF f, Open, Others
  <2>2. QED
    BY <2>1, <1>2, FS_Surjection
<1>4. /\ IsFiniteSet(Open \cup {entry} \cup {tmp})
      /\ Cardinality(Open \cup {entry} \cup {tmp}) <= Cardinality(Proc) + 1
  <2> HIDE DEF Open, Others
  <2>1. /\ IsFiniteSet(Open \cup {entry})
        /\ Cardinality(Open \cup {entry}) <= Cardinality(Open) + 1
    BY <1>3, OneMore
  <2>2. /\ IsFiniteSet(Open \cup {entry} \cup {tmp})
        /\ Cardinality(Open \cup {entry} \cup {tmp})
             <= Cardinality(Open \cup {entry}) + 1
    BY <2>1, OneMore
  <2>3. Cardinality(Open) \in Nat /\ Cardinality(Open \cup {entry}) \in Nat
        /\ Cardinality(Open \cup {entry} \cup {tmp}) \in Nat
    BY <1>3, <2>1, <2>2, FS_CardinalityType
  <2>4. QED
    BY <1>2, <1>3, <2>1, <2>2, <2>3
<1>5. \E i \in Inode : i \notin Open \cup {entry} \cup {tmp}
  <2> HIDE DEF Open, Others
  <2>1. SUFFICES ASSUME Inode \subseteq Open \cup {entry} \cup {tmp} PROVE FALSE
    OBVIOUS
  <2>2. Cardinality(Inode) = Cardinality(Proc) + 2
    BY <1>2, FS_Interval DEF Inode
  <2>3. Cardinality(Inode) <= Cardinality(Open \cup {entry} \cup {tmp})
    BY <1>4, <2>1, FS_Subset
  <2>4. QED
    BY <1>2, <1>4, <2>2, <2>3, FS_CardinalityType
<1>6. \E i \in Inode : FreeInode(i)
  <2>1. PICK i \in Inode : i \notin Open \cup {entry} \cup {tmp}
    BY <1>5
  <2>2. i # 0
    BY DEF Inode
  <2>3. FreeInode(i)
    BY <1>1, <2>1, <2>2 DEF FreeInode
  <2>4. QED
    BY <2>3
<1>7. QED
  BY <1>6 DEF NewInode

LEMMA RecordInit == FileInit => RecordInv
<1> SUFFICES ASSUME FileInit PROVE RecordInv
  OBVIOUS
<1>1. FileTypeOK
  <2>1. 0 \in 0..MaxWrites /\ 0 \in 0..MaxDeaths /\ {} \in Text
    BY RecordFileAssumption DEF Text
  <2>2. alone \in [Proc -> BOOLEAN] /\ spoiled \in BOOLEAN
    BY DEF FileInit
  <2>3. data \in [Inode -> Content] /\ lock \in [Inode -> Proc \cup {None}]
    BY DEF FileInit, Content
  <2>4. QED
    BY <2>1, <2>2, <2>3 DEF FileInit, FileTypeOK
<1>2. Descriptors /\ LoneWriter
  BY DEF FileInit, Descriptors, LoneWriter, Holding, Rewriting
<1>3. Unspoiled
  BY DEF FileInit, Unspoiled, Putting, Updating, Holding, Rewriting, Matches, Visible
<1>4. QED
  BY <1>1, <1>2, <1>3 DEF RecordInv

\* What beginning a write changes, whatever its kind.
LEMMA BeginStep ==
    ASSUME RecordInv, NEW p \in Proc, NEW l, Begin(p, l, {begun + 1}), l # "idle"
    PROVE  /\ begun' \in 0..MaxWrites /\ {begun + 1} \in Text
           /\ mine' \in [Proc -> Text] /\ mine'[p] # {}
           /\ \A q \in Proc : q # p => mine'[q] = mine[q] /\ pc'[q] = pc[q]
           /\ pc'[p] = l /\ pc[p] = "idle" /\ fd[p] = 0
           /\ \A i \in Inode : lock[i] # p
           /\ alone' \in [Proc -> BOOLEAN]
           /\ \A q \in Proc : alone'[q] => q = p /\ Writing = {}
           /\ Writing' = Writing \cup {p}
           /\ UNCHANGED <<file, spoiled, expected, deaths>>
<1>1. /\ pc[p] = "idle" /\ begun < MaxWrites /\ begun' = begun + 1
      /\ mine' = [mine EXCEPT ![p] = {begun + 1}]
      /\ alone' = [q \in Proc |-> q = p /\ Writing = {}]
      /\ pc' = [pc EXCEPT ![p] = l]
      /\ UNCHANGED <<file, spoiled, expected, deaths>>
  BY DEF Begin, Goto
<1>2. begun' \in 0..MaxWrites /\ {begun + 1} \in Text
  <2>1. MaxWrites \in Nat /\ begun \in 0..MaxWrites
    BY RecordFileAssumption DEF RecordInv, FileTypeOK
  <2>2. begun + 1 \in 1..MaxWrites /\ begun' \in 0..MaxWrites
    BY <1>1, <2>1
  <2>3. QED
    BY <2>2 DEF Text
<1>3. mine \in [Proc -> Text] /\ DOMAIN pc = Proc
  BY DEF RecordInv, FileTypeOK
<1>4. fd[p] = 0 /\ \A i \in Inode : lock[i] # p
  BY <1>1, RecordFileAssumption DEF RecordInv, Descriptors, Inode
<1>5. Writing' = Writing \cup {p}
  BY <1>1, <1>3 DEF Writing
<1>6. alone' \in [Proc -> BOOLEAN] /\ \A q \in Proc : alone'[q] => q = p /\ Writing = {}
  BY <1>1
<1>7. QED
  BY <1>1, <1>2, <1>3, <1>4, <1>5, <1>6

LEMMA OpenTmpKeeps ==
    ASSUME RecordInv, NEW p \in Proc, OpenTmp(p)
    PROVE  RecordInv'
<1> DEFINE i == IF tmp = 0 THEN NewInode ELSE tmp
<1>1. /\ Begin(p, "put", {begun + 1}) /\ file # "manifest"
      /\ tmp' = i /\ fd' = [fd EXCEPT ![p] = i]
      /\ data' = [data EXCEPT ![i] = Empty]
      /\ entry' = entry /\ lock' = lock
  BY DEF OpenTmp
<1>2. FileTypeOK /\ Descriptors /\ LoneWriter /\ Unspoiled
  BY DEF RecordInv
<1>3. /\ begun' \in 0..MaxWrites /\ mine' \in [Proc -> Text] /\ mine'[p] # {}
      /\ \A q \in Proc : q # p => mine'[q] = mine[q] /\ pc'[q] = pc[q]
      /\ pc'[p] = "put" /\ pc[p] = "idle" /\ fd[p] = 0
      /\ \A j \in Inode : lock[j] # p
      /\ alone' \in [Proc -> BOOLEAN]
      /\ \A q \in Proc : alone'[q] => q = p /\ Writing = {}
      /\ Writing' = Writing \cup {p}
      /\ UNCHANGED <<file, spoiled, expected, deaths>>
  BY <1>1, BeginStep
<1>4. /\ i \in Inode /\ i # entry /\ i # 0
      /\ tmp = 0 => \A q \in Proc : fd[q] # i
      /\ tmp # 0 => i = tmp
  BY <1>2, <1>3, FreeInodeExists DEF FreeInode, FileTypeOK, Descriptors, Inode
<1> HIDE DEF i
<1>5. FileTypeOK'
  <2>1. pc' \in [Proc -> {"idle"} \cup Putting \cup Updating \cup Rewriting]
    BY <1>1, <1>2 DEF Begin, Goto, FileTypeOK, Putting
  <2>2. QED
    BY <1>1, <1>2, <1>3, <1>4, <2>1 DEF FileTypeOK, Content
<1>6. Descriptors'
  <2>1. \A q \in Proc \ {p} : pc'[q] = pc[q] /\ fd'[q] = fd[q] /\ mine'[q] = mine[q]
    BY <1>1, <1>3 DEF FileTypeOK
  <2>2. fd'[p] = i /\ pc'[p] = "put" /\ mine'[p] # {}
    BY <1>1, <1>2, <1>3 DEF FileTypeOK
  <2>3. ASSUME NEW q \in Proc
        PROVE  /\ pc'[q] = "idle" <=> fd'[q] = 0
               /\ pc'[q] # "idle" => mine'[q] # {}
               /\ pc'[q] \in Holding => lock'[fd'[q]] = q
               /\ pc'[q] \in Rewriting => fd'[q] = entry'
               /\ pc'[q] \in Rewriting <=> file' = "manifest" /\ pc'[q] # "idle"
    <3>1. CASE q = p
      BY <1>1, <1>3, <1>4, <2>2, <3>1 DEF Holding, Rewriting
    <3>2. CASE q # p
      BY <1>1, <1>2, <1>3, <2>1, <3>2 DEF Descriptors
    <3>3. QED
      BY <3>1, <3>2
  <2>4. \A j \in Inode : lock'[j] # None => fd'[lock'[j]] = j
    BY <1>1, <1>2, <1>3, <2>1 DEF Descriptors, FileTypeOK
  <2>5. QED
    BY <1>1, <1>4, <2>3, <2>4 DEF Descriptors
<1>7. LoneWriter'
  BY <1>1, <1>2, <1>3, <1>4 DEF LoneWriter, FileTypeOK, Putting, Rewriting
<1>8. Visible' = Visible
  BY <1>1, <1>2, <1>4 DEF Visible, FileTypeOK
<1>9. Unspoiled'
  <2> SUFFICES ASSUME ~ spoiled PROVE Unspoiled'
    BY <1>3 DEF Unspoiled
  <2>1. \A q \in Proc : pc'[q] \in Putting => fd'[q] = tmp'
    BY <1>1, <1>2, <1>3, <1>4 DEF Unspoiled, FileTypeOK, Descriptors, Putting
  <2>2. \A q \in Proc : pc'[q] \in Updating => fd'[q] = entry'
    BY <1>1, <1>2, <1>3 DEF Unspoiled, FileTypeOK, Updating, Holding
  <2>3. \A q \in Proc :
          /\ pc'[q] \in {"decoded", "blank"} => expected' \subseteq mine'[q]
          /\ pc'[q] = "blank" => data'[entry'] = Empty
    BY <1>1, <1>2, <1>3, <1>4 DEF Unspoiled, FileTypeOK
  <2>4. (\A q \in Proc : pc'[q] \notin Rewriting \cup {"blank"}) => Matches'
    BY <1>1, <1>2, <1>3, <1>8 DEF Unspoiled, Matches, Rewriting
  <2>5. QED
    BY <2>1, <2>2, <2>3, <2>4 DEF Unspoiled
<1>10. QED
  BY <1>5, <1>6, <1>7, <1>9 DEF RecordInv

LEMMA WriteTmpKeeps ==
    ASSUME RecordInv, NEW p \in Proc, WriteTmp(p)
    PROVE  RecordInv'
<1>1. PICK c \in Overlay(data[fd[p]], mine[p]) :
        data' = [data EXCEPT ![fd[p]] = c]
  BY DEF WriteTmp
<1>2. /\ pc[p] = "put" /\ pc' = [pc EXCEPT ![p] = "put written"]
      /\ UNCHANGED <<file, entry, tmp, lock, fd, mine, alone, spoiled, expected,
                     begun, deaths>>
  BY DEF WriteTmp, Goto
<1>3. FileTypeOK /\ Descriptors /\ LoneWriter /\ Unspoiled
  BY DEF RecordInv
<1>4. fd[p] \in Inode /\ fd[p] # 0
  BY <1>2, <1>3 DEF FileTypeOK, Descriptors
<1>5. c \in Content /\ (data[fd[p]] = Empty => c = Whole(mine[p]))
  BY <1>1, <1>3 DEF Overlay, Content, FileTypeOK
<1>6. Writing' = Writing
  BY <1>2, <1>3 DEF Writing, FileTypeOK
<1>7. FileTypeOK'
  BY <1>1, <1>2, <1>3, <1>4, <1>5 DEF FileTypeOK, Putting
<1>8. Descriptors'
  BY <1>2, <1>3 DEF Descriptors, FileTypeOK, Holding, Rewriting
<1>9. LoneWriter'
  BY <1>1, <1>2, <1>3, <1>4, <1>5, <1>6
  DEF LoneWriter, FileTypeOK, Putting, Rewriting, Writing
<1>10. Unspoiled'
  <2> SUFFICES ASSUME ~ spoiled PROVE Unspoiled'
    BY <1>2 DEF Unspoiled
  <2>1. fd[p] = tmp /\ tmp # entry
    BY <1>2, <1>3, <1>4 DEF Unspoiled, Putting, Descriptors
  <2>2. data'[entry] = data[entry]
    BY <1>1, <1>3, <2>1 DEF FileTypeOK
  <2>3. Matches' = Matches
    BY <1>2, <2>2 DEF Matches, Visible
  <2>4. QED
    BY <1>2, <1>3, <2>1, <2>2, <2>3
    DEF Unspoiled, FileTypeOK, Putting, Updating, Holding, Rewriting
<1>11. QED
  BY <1>7, <1>8, <1>9, <1>10 DEF RecordInv

\* What every end of a write changes.
LEMMA CloseStep ==
    ASSUME RecordInv, NEW p \in Proc, Close(p), pc[p] # "idle",
           tmp' # 0 => tmp' # entry', entry' = entry \/ file # "manifest",
           entry' \in Inode \cup {0}, tmp' \in Inode \cup {0},
           data' \in [Inode -> Content], expected' \in Text,
           spoiled' \in BOOLEAN, deaths' \in 0..MaxDeaths
    PROVE  /\ FileTypeOK' /\ Descriptors' /\ LoneWriter'
           /\ Writing' = Writing \ {p} /\ pc'[p] = "idle"
           /\ \A q \in Proc : q # p =>
                pc'[q] = pc[q] /\ fd'[q] = fd[q] /\ mine'[q] = mine[q]
<1>1. /\ pc' = [pc EXCEPT ![p] = "idle"] /\ fd' = [fd EXCEPT ![p] = 0]
      /\ lock' = [i \in Inode |-> IF lock[i] = p THEN None ELSE lock[i]]
      /\ mine' = [mine EXCEPT ![p] = {}] /\ alone' = [alone EXCEPT ![p] = FALSE]
      /\ UNCHANGED <<file, begun>>
  BY DEF Close, Goto
<1>2. FileTypeOK /\ Descriptors /\ LoneWriter
  BY DEF RecordInv
<1>3. FileTypeOK'
  BY <1>1, <1>2 DEF FileTypeOK, Text
<1>4. Writing' = Writing \ {p} /\ p \in Writing
  BY <1>1, <1>2 DEF Writing, FileTypeOK
<1>5. Descriptors'
  BY <1>1, <1>2 DEF Descriptors, FileTypeOK, Holding, Rewriting
<1>6. \A q \in Proc : ~ alone'[q]
  BY <1>1, <1>2, <1>4 DEF LoneWriter, FileTypeOK
<1>7. LoneWriter'
  BY <1>6 DEF LoneWriter
<1>8. QED
  BY <1>1, <1>2, <1>3, <1>4, <1>5, <1>7 DEF FileTypeOK

LEMMA RenameKeeps ==
    ASSUME RecordInv, NEW p \in Proc, Rename(p)
    PROVE  RecordInv'
<1>1. /\ pc[p] = "put written" /\ Close(p) /\ UNCHANGED <<data, deaths>>
      /\ tmp = 0 => UNCHANGED <<entry, tmp, expected, spoiled>>
      /\ tmp # 0 => /\ entry' = tmp /\ tmp' = 0
                    /\ expected' = mine[p] /\ spoiled' = ~ alone[p]
  BY DEF Rename
<1>2. FileTypeOK /\ Descriptors /\ LoneWriter /\ Unspoiled
  BY DEF RecordInv
<1>3. file # "manifest" /\ fd[p] # 0 /\ mine[p] # {}
  BY <1>1, <1>2 DEF Descriptors, Rewriting
<1>4. spoiled' \in BOOLEAN
  BY <1>1, <1>2 DEF FileTypeOK
<1>5. /\ FileTypeOK' /\ Descriptors' /\ LoneWriter'
      /\ Writing' = Writing \ {p} /\ pc'[p] = "idle"
  BY <1>1, <1>2, <1>3, <1>4, CloseStep DEF FileTypeOK
<1>6. Unspoiled'
  <2> SUFFICES ASSUME ~ spoiled' PROVE Unspoiled'
    BY DEF Unspoiled
  <2>1. tmp # 0
    BY <1>1, <1>2, <1>3 DEF Unspoiled, Putting
  <2>2. alone[p] /\ Writing = {p} /\ data[tmp] = Whole(mine[p])
    BY <1>1, <1>2, <2>1 DEF LoneWriter, FileTypeOK
  <2>3. \A q \in Proc : pc'[q] = "idle"
    BY <1>5, <2>2 DEF Writing
  <2>4. Matches'
    BY <1>1, <1>3, <2>1, <2>2 DEF Matches, Visible
  <2>5. QED
    BY <2>3, <2>4 DEF Unspoiled, Putting, Updating, Holding
<1>7. QED
  BY <1>5, <1>6 DEF RecordInv

LEMMA DieKeeps ==
    ASSUME RecordInv, NEW p \in Proc, Die(p)
    PROVE  RecordInv'
<1>1. /\ pc[p] # "idle" /\ Close(p) /\ UNCHANGED <<entry, tmp, data, expected>>
      /\ deaths < MaxDeaths /\ deaths' = deaths + 1
      /\ spoiled' = (spoiled \/ pc[p] \in {"blank", "rewrite", "rewrite locked"})
  BY DEF Die
<1>2. FileTypeOK /\ Descriptors /\ Unspoiled
  BY DEF RecordInv
<1>3. deaths' \in 0..MaxDeaths /\ spoiled' \in BOOLEAN
  <2>1. deaths \in 0..MaxDeaths /\ MaxDeaths \in Nat
    BY <1>2, RecordFileAssumption DEF FileTypeOK
  <2>2. deaths' \in 0..MaxDeaths
    <3>1. deaths < MaxDeaths /\ deaths' = deaths + 1
      BY DEF Die
    <3>2. QED
      BY <2>1, <3>1
  <2>3. spoiled' \in BOOLEAN
    BY <1>1
  <2>4. QED
    BY <2>2, <2>3
<1>4. /\ FileTypeOK' /\ Descriptors' /\ LoneWriter' /\ pc'[p] = "idle"
      /\ \A q \in Proc : q # p =>
            pc'[q] = pc[q] /\ fd'[q] = fd[q] /\ mine'[q] = mine[q]
  BY <1>1, <1>2, <1>3, CloseStep DEF FileTypeOK, Descriptors
<1>5. Unspoiled'
  <2> SUFFICES ASSUME ~ spoiled' PROVE Unspoiled'
    BY DEF Unspoiled
  <2>1. ~ spoiled /\ pc[p] \notin Rewriting \cup {"blank"}
    BY <1>1 DEF Rewriting
  <2>2. Matches' = Matches
    BY <1>1 DEF Matches, Visible
  <2>3. QED
    BY <1>1, <1>2, <1>4, <2>1, <2>2 DEF Unspoiled, Putting, Updating, Holding
<1>6. QED
  BY <1>4, <1>5 DEF RecordInv

LEMMA OpenToUpdateKeeps ==
    ASSUME RecordInv, NEW p \in Proc, OpenToUpdate(p)
    PROVE  RecordInv'
<1> DEFINE i == IF entry = 0 THEN NewInode ELSE entry
<1>1. /\ Begin(p, "update", {begun + 1}) /\ file = "meta"
      /\ entry' = i /\ fd' = [fd EXCEPT ![p] = i]
      /\ data' = IF entry = 0 THEN [data EXCEPT ![i] = Empty] ELSE data
      /\ UNCHANGED <<tmp, lock>>
  BY DEF OpenToUpdate
<1>2. FileTypeOK /\ Descriptors /\ LoneWriter /\ Unspoiled
  BY DEF RecordInv
<1>3. /\ begun' \in 0..MaxWrites /\ mine' \in [Proc -> Text] /\ mine'[p] # {}
      /\ \A q \in Proc : q # p => mine'[q] = mine[q] /\ pc'[q] = pc[q]
      /\ pc'[p] = "update" /\ pc[p] = "idle" /\ fd[p] = 0
      /\ \A j \in Inode : lock[j] # p
      /\ alone' \in [Proc -> BOOLEAN]
      /\ \A q \in Proc : alone'[q] => q = p /\ Writing = {}
      /\ Writing' = Writing \cup {p}
      /\ UNCHANGED <<file, spoiled, expected, deaths>>
  BY <1>1, BeginStep
<1>4. /\ i \in Inode /\ i # 0 /\ i # tmp
      /\ entry = 0 => \A q \in Proc : fd[q] # i
      /\ entry # 0 => i = entry
  BY <1>2, <1>3, FreeInodeExists DEF FreeInode, FileTypeOK, Descriptors, Inode
<1> HIDE DEF i
<1>5. FileTypeOK'
  <2>1. pc' \in [Proc -> {"idle"} \cup Putting \cup Updating \cup Rewriting]
    BY <1>1, <1>2 DEF Begin, Goto, FileTypeOK, Updating
  <2>2. QED
    BY <1>1, <1>2, <1>3, <1>4, <2>1 DEF FileTypeOK, Content
<1>6. Descriptors'
  BY <1>1, <1>2, <1>3, <1>4, ZenonT(30) DEF Descriptors, FileTypeOK, Holding, Rewriting
<1>7. LoneWriter'
  BY <1>1, <1>2, <1>3, <1>4 DEF LoneWriter, FileTypeOK, Putting, Rewriting
<1>8. ~ spoiled /\ Matches => Matches'
  BY <1>1, <1>2, <1>3, <1>4
  DEF Matches, Visible, FileTypeOK, Whole, Empty, NoFile
<1>9. Unspoiled'
  <2> SUFFICES ASSUME ~ spoiled PROVE Unspoiled'
    BY <1>3 DEF Unspoiled
  <2>1. \A q \in Proc : pc'[q] \in Putting => fd'[q] = tmp'
    BY <1>1, <1>2, <1>3 DEF Unspoiled, FileTypeOK, Putting
  <2>2. \A q \in Proc : pc'[q] \in Updating => fd'[q] = entry'
    BY <1>1, <1>2, <1>3, <1>4
    DEF Unspoiled, FileTypeOK, Descriptors, Updating, Holding
  <2>3. \A q \in Proc :
          /\ pc'[q] \in {"decoded", "blank"} => expected' \subseteq mine'[q]
          /\ pc'[q] = "blank" => data'[entry'] = Empty
    BY <1>1, <1>2, <1>3, <1>4 DEF Unspoiled, FileTypeOK
  <2>4. (\A q \in Proc : pc'[q] \notin Rewriting \cup {"blank"}) => Matches'
    BY <1>1, <1>2, <1>3, <1>8 DEF Unspoiled, Rewriting
  <2>5. QED
    BY <2>1, <2>2, <2>3, <2>4 DEF Unspoiled
<1>10. QED
  BY <1>5, <1>6, <1>7, <1>9 DEF RecordInv

LEMMA OpenToRewriteKeeps ==
    ASSUME RecordInv, NEW p \in Proc, OpenToRewrite(p)
    PROVE  RecordInv'
<1> DEFINE i == IF entry = 0 THEN NewInode ELSE entry
<1>1. /\ Begin(p, "rewrite", {begun + 1}) /\ file = "manifest"
      /\ entry' = i /\ fd' = [fd EXCEPT ![p] = i]
      /\ data' = [data EXCEPT ![i] = Empty]
      /\ UNCHANGED <<tmp, lock>>
  BY DEF OpenToRewrite
<1>2. FileTypeOK /\ Descriptors /\ LoneWriter /\ Unspoiled
  BY DEF RecordInv
<1>3. /\ begun' \in 0..MaxWrites /\ mine' \in [Proc -> Text] /\ mine'[p] # {}
      /\ \A q \in Proc : q # p => mine'[q] = mine[q] /\ pc'[q] = pc[q]
      /\ pc'[p] = "rewrite" /\ pc[p] = "idle" /\ fd[p] = 0
      /\ \A j \in Inode : lock[j] # p
      /\ alone' \in [Proc -> BOOLEAN]
      /\ \A q \in Proc : alone'[q] => q = p /\ Writing = {}
      /\ Writing' = Writing \cup {p}
      /\ UNCHANGED <<file, spoiled, expected, deaths>>
  BY <1>1, BeginStep
<1>4. /\ i \in Inode /\ i # 0 /\ i # tmp
      /\ entry # 0 => i = entry
  BY <1>2, <1>3, FreeInodeExists DEF FreeInode, FileTypeOK, Descriptors, Inode
<1> HIDE DEF i
<1>5. FileTypeOK'
  <2>1. pc' \in [Proc -> {"idle"} \cup Putting \cup Updating \cup Rewriting]
    BY <1>1, <1>2 DEF Begin, Goto, FileTypeOK, Rewriting
  <2>2. QED
    BY <1>1, <1>2, <1>3, <1>4, <2>1 DEF FileTypeOK, Content
<1>6. \A q \in Proc : pc'[q] # "idle" => pc'[q] \in Rewriting
  BY <1>1, <1>2, <1>3 DEF Descriptors, Rewriting
<1>7. Descriptors'
  <2>1. \A q \in Proc : q # p /\ pc[q] # "idle" => fd[q] = entry /\ entry # 0
    BY <1>1, <1>2 DEF Descriptors
  <2>2. QED
    BY <1>1, <1>2, <1>3, <1>4, <2>1, ZenonT(30) DEF Descriptors, FileTypeOK, Holding, Rewriting
<1>8. LoneWriter'
  BY <1>1, <1>2, <1>3, <1>4 DEF LoneWriter, FileTypeOK, Putting, Rewriting
<1>9. Unspoiled'
  BY <1>3, <1>6 DEF Unspoiled, Putting, Updating, Holding, Rewriting
<1>10. QED
  BY <1>5, <1>7, <1>8, <1>9 DEF RecordInv

LEMMA RewriteKeeps ==
    ASSUME RecordInv, NEW p \in Proc, Rewrite(p)
    PROVE  RecordInv'
<1>1. PICK c \in Overlay(data[fd[p]], mine[p]) :
        data' = [data EXCEPT ![fd[p]] = c]
  BY DEF Rewrite
<1>2. /\ pc[p] = "rewrite locked" /\ Close(p)
      /\ expected' = mine[p] /\ spoiled' = ~ alone[p]
      /\ UNCHANGED <<entry, tmp, deaths>>
  BY DEF Rewrite
<1>3. FileTypeOK /\ Descriptors /\ LoneWriter
  BY DEF RecordInv
<1>4. fd[p] = entry /\ entry \in Inode /\ entry # 0 /\ mine[p] # {}
  BY <1>2, <1>3 DEF FileTypeOK, Descriptors, Rewriting, Inode
<1>5. c \in Content /\ (data[fd[p]] = Empty => c = Whole(mine[p]))
  BY <1>1, <1>3 DEF Overlay, Content, FileTypeOK
<1>6. data' \in [Inode -> Content] /\ spoiled' \in BOOLEAN
  BY <1>1, <1>2, <1>3, <1>4, <1>5 DEF FileTypeOK
<1>7. /\ FileTypeOK' /\ Descriptors' /\ LoneWriter'
      /\ Writing' = Writing \ {p} /\ pc'[p] = "idle"
  BY <1>2, <1>3, <1>6, CloseStep DEF FileTypeOK, Descriptors
<1>8. Unspoiled'
  <2> SUFFICES ASSUME ~ spoiled' PROVE Unspoiled'
    BY DEF Unspoiled
  <2>1. Writing = {p} /\ data[entry] = Empty
    BY <1>2, <1>3 DEF LoneWriter, FileTypeOK, Rewriting
  <2>2. \A q \in Proc : pc'[q] = "idle"
    BY <1>7, <2>1 DEF Writing
  <2>3. Matches'
    BY <1>1, <1>2, <1>3, <1>4, <1>5, <2>1 DEF Matches, Visible, FileTypeOK
  <2>4. QED
    BY <2>2, <2>3 DEF Unspoiled, Putting, Updating, Holding
<1>9. QED
  BY <1>7, <1>8 DEF RecordInv

LEMMA LockKeeps ==
    ASSUME RecordInv, NEW p \in Proc, Lock(p)
    PROVE  RecordInv'
<1> DEFINE l == IF pc[p] = "update" THEN "locked" ELSE "rewrite locked"
<1>1. /\ pc[p] \in {"update", "rewrite"} /\ lock[fd[p]] = None
      /\ lock' = [lock EXCEPT ![fd[p]] = p] /\ pc' = [pc EXCEPT ![p] = l]
      /\ UNCHANGED <<file, entry, tmp, data, fd, mine, alone, spoiled, expected,
                     begun, deaths>>
  BY DEF Lock, Goto
<1>2. FileTypeOK /\ Descriptors /\ LoneWriter /\ Unspoiled
  BY DEF RecordInv
<1>3. fd[p] \in Inode
  BY <1>1, <1>2, ZenonT(30) DEF FileTypeOK, Descriptors
<1>4. Writing' = Writing
  BY <1>1, <1>2 DEF Writing, FileTypeOK
<1>5. FileTypeOK'
  BY <1>1, <1>2, <1>3 DEF FileTypeOK, Updating, Holding, Rewriting
<1>6. Descriptors'
  <2>1. \A q \in Proc : pc'[q] \in Holding => lock'[fd'[q]] = q
    <3>1. \A q \in Proc : q # p /\ pc[q] \in Holding =>
            lock[fd[q]] = q /\ q # None
      BY <1>2, RecordFileAssumption DEF Descriptors
    <3>2. QED
      BY <1>1, <1>2, <1>3, <3>1, ZenonT(30) DEF FileTypeOK, Descriptors, Holding
  <2>2. \A i \in Inode : lock'[i] # None => fd'[lock'[i]] = i
    BY <1>1, <1>2, <1>3 DEF FileTypeOK, Descriptors
  <2>3. QED
    BY <1>1, <1>2, <2>1, <2>2 DEF Descriptors, FileTypeOK, Rewriting
<1>7. LoneWriter'
  BY <1>1, <1>2, <1>4 DEF LoneWriter, FileTypeOK, Putting, Rewriting
<1>8. Unspoiled'
  <2> SUFFICES ASSUME ~ spoiled PROVE Unspoiled'
    BY <1>1 DEF Unspoiled
  <2>1. Matches' = Matches
    BY <1>1 DEF Matches, Visible
  <2>2. QED
    BY <1>1, <1>2, <2>1
    DEF Unspoiled, FileTypeOK, Putting, Updating, Holding, Rewriting
<1>9. QED
  BY <1>5, <1>6, <1>7, <1>8 DEF RecordInv

\* Only the holder of the lock may be decoding or rewriting in place.
LEMMA HoldsAlone ==
    ASSUME RecordInv, ~ spoiled, NEW p \in Proc, pc[p] \in Holding
    PROVE  /\ fd[p] = entry /\ entry \in Inode /\ entry # 0 /\ mine[p] # {}
           /\ \A q \in Proc : q # p => pc[q] \notin Holding \cup Rewriting
<1>1. FileTypeOK /\ Descriptors /\ Unspoiled
  BY DEF RecordInv
<1>2. fd[p] = entry /\ lock[entry] = p /\ entry # 0 /\ file # "manifest"
  BY <1>1 DEF Unspoiled, Descriptors, Updating, Holding, Rewriting
<1>3. \A q \in Proc : pc[q] \in Holding => fd[q] = entry /\ lock[entry] = q
  BY <1>1 DEF Unspoiled, Descriptors, Updating
<1>4. QED
  BY <1>1, <1>2, <1>3 DEF FileTypeOK, Descriptors, Holding

LEMMA DecodeKeeps ==
    ASSUME RecordInv, NEW p \in Proc, Decode(p)
    PROVE  RecordInv'
<1> DEFINE c == data[fd[p]]
<1>1. pc[p] = "locked" /\ UNCHANGED <<entry, tmp, data, spoiled, expected, deaths>>
  BY DEF Decode
<1>2. FileTypeOK /\ Descriptors /\ LoneWriter /\ Unspoiled
  BY DEF RecordInv
<1>3. fd[p] \in Inode /\ fd[p] # 0 /\ c \in Content
  BY <1>1, <1>2 DEF FileTypeOK, Descriptors, Inode
<1>4. Matches' = Matches
  BY <1>1 DEF Matches, Visible
<1>5. CASE Close(p)
  <2>1. /\ FileTypeOK' /\ Descriptors' /\ LoneWriter' /\ pc'[p] = "idle"
        /\ \A q \in Proc : q # p =>
            pc'[q] = pc[q] /\ fd'[q] = fd[q] /\ mine'[q] = mine[q]
    BY <1>1, <1>2, <1>5, CloseStep DEF FileTypeOK, Descriptors
  <2>2. Unspoiled'
    BY <1>1, <1>2, <1>4, <2>1 DEF Unspoiled, Putting, Updating, Holding, Rewriting
  <2>3. QED
    BY <2>1, <2>2 DEF RecordInv
<1>6. CASE /\ c.state = "whole" /\ mine' = [mine EXCEPT ![p] = @ \cup c.text]
           /\ pc' = [pc EXCEPT ![p] = "decoded"]
           /\ UNCHANGED <<file, fd, lock, alone, begun>>
  <2>1. c.text \in Text
    <3>1. c # Empty /\ c # Torn
      BY <1>6 DEF Empty, Torn
    <3>2. PICK t \in Text : c = Whole(t)
      BY <1>3, <3>1 DEF Content
    <3>3. QED
      BY <3>2 DEF Whole
  <2>2. FileTypeOK'
    <3>1. mine' \in [Proc -> Text]
      BY <1>2, <1>6, <2>1 DEF FileTypeOK, Text
    <3>2. QED
      BY <1>1, <1>2, <1>6, <3>1 DEF FileTypeOK, Updating, Holding
  <2>3. Descriptors'
    BY <1>1, <1>2, <1>6 DEF Descriptors, FileTypeOK, Holding, Rewriting
  <2>4. Writing' = Writing
    BY <1>1, <1>2, <1>6 DEF Writing, FileTypeOK
  <2>5. LoneWriter'
    BY <1>1, <1>2, <1>6, <2>4 DEF LoneWriter, FileTypeOK, Putting, Rewriting
  <2>6. Unspoiled'
    <3> SUFFICES ASSUME ~ spoiled PROVE Unspoiled'
      BY <1>1 DEF Unspoiled
    <3>1. /\ fd[p] = entry /\ entry # 0
          /\ \A q \in Proc : q # p => pc[q] \notin Holding \cup Rewriting
      BY <1>1, HoldsAlone DEF Holding
    <3>2. Matches
      BY <1>1, <1>2, <3>1 DEF Unspoiled, Holding, Rewriting
    <3>3. c = Whole(expected)
      BY <1>6, <3>1, <3>2 DEF Matches, Visible, NoFile, Empty
    <3>4. expected \subseteq mine'[p]
      BY <1>2, <1>6, <3>3 DEF Whole, FileTypeOK
    <3>5. QED
      BY <1>1, <1>2, <1>4, <1>6, <3>1, <3>2, <3>4
      DEF Unspoiled, FileTypeOK, Putting, Updating, Holding, Rewriting
  <2>7. QED
    BY <2>2, <2>3, <2>5, <2>6 DEF RecordInv
<1>7. QED
  BY <1>5, <1>6 DEF Decode, Goto

LEMMA TruncateKeeps ==
    ASSUME RecordInv, NEW p \in Proc, Truncate(p)
    PROVE  RecordInv'
<1>1. /\ pc[p] = "decoded" /\ data' = [data EXCEPT ![fd[p]] = Empty]
      /\ pc' = [pc EXCEPT ![p] = "blank"]
      /\ UNCHANGED <<file, entry, tmp, lock, fd, mine, alone, spoiled, expected,
                     begun, deaths>>
  BY DEF Truncate, Goto
<1>2. FileTypeOK /\ Descriptors /\ LoneWriter /\ Unspoiled
  BY DEF RecordInv
<1>3. FileTypeOK'
  BY <1>1, <1>2 DEF FileTypeOK, Content, Updating, Holding
<1>4. Descriptors'
  BY <1>1, <1>2 DEF Descriptors, FileTypeOK, Holding, Rewriting
<1>5. Writing' = Writing
  BY <1>1, <1>2 DEF Writing, FileTypeOK
<1>6. LoneWriter'
  BY <1>1, <1>2, <1>5 DEF LoneWriter, FileTypeOK, Writing, Putting, Rewriting
<1>7. Unspoiled'
  <2> SUFFICES ASSUME ~ spoiled PROVE Unspoiled'
    BY <1>1 DEF Unspoiled
  <2>1. /\ fd[p] = entry /\ entry \in Inode
        /\ \A q \in Proc : q # p => pc[q] \notin Holding \cup Rewriting
    BY <1>1, HoldsAlone DEF Holding
  <2>2. data'[entry] = Empty
    BY <1>1, <1>2, <2>1 DEF FileTypeOK
  <2>3. QED
    BY <1>1, <1>2, <2>1, <2>2
    DEF Unspoiled, FileTypeOK, Putting, Updating, Holding, Rewriting
<1>8. QED
  BY <1>3, <1>4, <1>6, <1>7 DEF RecordInv

LEMMA EncodeKeeps ==
    ASSUME RecordInv, NEW p \in Proc, Encode(p)
    PROVE  RecordInv'
<1>1. PICK c \in Overlay(data[fd[p]], mine[p]) :
        data' = [data EXCEPT ![fd[p]] = c]
  BY DEF Encode
<1>2. /\ pc[p] = "blank" /\ Close(p)
      /\ expected' = expected \cup mine[p]
      /\ spoiled' = (spoiled \/ fd[p] # entry)
      /\ UNCHANGED <<entry, tmp, deaths>>
  BY DEF Encode
<1>3. FileTypeOK /\ Descriptors /\ Unspoiled
  BY DEF RecordInv
<1>4. c \in Content /\ (data[fd[p]] = Empty => c = Whole(mine[p]))
  BY <1>1, <1>3 DEF Overlay, Content, FileTypeOK
<1>5. data' \in [Inode -> Content] /\ expected' \in Text /\ spoiled' \in BOOLEAN
  <2>1. data' \in [Inode -> Content] /\ expected' \in Text
    BY <1>1, <1>2, <1>3, <1>4 DEF FileTypeOK, Text
  <2>2. spoiled' \in BOOLEAN
    BY <1>2
  <2>3. QED
    BY <2>1, <2>2
<1>6. /\ FileTypeOK' /\ Descriptors' /\ LoneWriter' /\ pc'[p] = "idle"
      /\ \A q \in Proc : q # p =>
            pc'[q] = pc[q] /\ fd'[q] = fd[q] /\ mine'[q] = mine[q]
  BY <1>2, <1>3, <1>5, CloseStep DEF FileTypeOK, Descriptors
<1>7. Unspoiled'
  <2> SUFFICES ASSUME ~ spoiled' PROVE Unspoiled'
    BY DEF Unspoiled
  <2>1. ~ spoiled
    BY <1>2
  <2>2. /\ fd[p] = entry /\ entry \in Inode /\ entry # 0 /\ mine[p] # {}
        /\ \A q \in Proc : q # p => pc[q] \notin Holding \cup Rewriting
    BY <1>2, <2>1, HoldsAlone DEF Holding
  <2>3. data[entry] = Empty /\ expected \subseteq mine[p]
    BY <1>2, <1>3, <2>1 DEF Unspoiled
  <2>4. data'[entry] = Whole(mine[p]) /\ expected' = mine[p]
    BY <1>1, <1>2, <1>3, <1>4, <2>2, <2>3 DEF FileTypeOK
  <2>5. Matches'
    BY <1>2, <2>2, <2>4 DEF Matches, Visible
  <2>6. QED
    BY <1>2, <1>3, <1>6, <2>1, <2>2, <2>5
    DEF Unspoiled, Putting, Updating, Holding, Rewriting
<1>8. QED
  BY <1>6, <1>7 DEF RecordInv

LEMMA RecordStep == ASSUME RecordInv, [FileNext]_filevars PROVE RecordInv'
<1>1. CASE UNCHANGED filevars
  BY <1>1 DEF filevars, RecordInv, FileTypeOK, Descriptors, LoneWriter, Unspoiled,
     Matches, Visible, Writing
<1>2. CASE FileNext
  BY <1>2, OpenTmpKeeps, WriteTmpKeeps, RenameKeeps, OpenToUpdateKeeps, LockKeeps,
     DecodeKeeps, TruncateKeeps, EncodeKeeps, OpenToRewriteKeeps, RewriteKeeps,
     DieKeeps DEF FileNext
<1>3. QED
  BY <1>1, <1>2

LEMMA RecordInvariant == FileSpec => []RecordInv
BY RecordInit, RecordStep, PTL DEF FileSpec

\* No claim operation and no write of the manifest loses what another wrote,
\* for any number of processes, writes and deaths, and whichever of the three
\* ways of writing are in use.
THEOREM FileMatches == FileSpec => []RecordAsWritten
<1>1. RecordInv => RecordAsWritten
  BY DEF RecordInv, Unspoiled, Matches, RecordAsWritten, Writing, Rewriting
<1>2. QED
  BY <1>1, RecordInvariant, PTL
-----------------------------------------------------------------------------
(* The file store and postgres behind it: what is the same in a tree of    *)
(* files and in tables that have had the same calls.                       *)

Manifest == ManifestPath("r1")
Dir(d)   == DispatchDir("r1", d)
Meta(d)  == MetaPath("r1", d)
Ids(s)   == {d \in 1..MaxDispatch : Dir(d) \in s.dirs}
AgentId  == {"a1", "a2"}

\* What the session writes of a dispatch.
Writings(d) == {Written(d, parent, stage) : parent \in {NoParent} \cup DispatchId, stage \in Stages}

\* The directory of the run is there, and the manifest says what the row says.
RunSame(s, t) ==
    /\ Has(s, Manifest)
    /\ RunDir("r1") \in s.dirs /\ In(RunDir("r1"), "dispatches") \in s.dirs
    /\ DOMAIN t.run = {"r1"}
    /\ \E st \in {"running", "completed", "failed"} :
         /\ s.files[Manifest] = runToManifest([R1 EXCEPT !.status = st])
         /\ t.run["r1"] = RunRow([R1 EXCEPT !.status = st])

\* The ids are counted alike.
IdsSame(s, t) ==
    \E k \in 0..MaxDispatch : Ids(s) = 1..k /\ Get(t.seq, "r1", 1) = k + 1

\* An id has a row when it is allocated, the root when it is written; a
\* record that is written is the row.
RecordsSame(s, t) ==
    /\ \A k \in DOMAIN t.dispatch : \E d \in Ids(s) \cup {Root} : k = <<"r1", d>>
    /\ \A d \in Ids(s) : <<"r1", d>> \in DOMAIN t.dispatch
    /\ <<"r1", Root>> \in DOMAIN t.dispatch => Has(s, Meta(Root))
    /\ \A d \in DispatchId : Has(s, Meta(d)) =>
         /\ Dir(d) \in s.dirs
         /\ s.files[Meta(d)] \in Writings(d)
         /\ <<"r1", d>> \in DOMAIN t.dispatch
         /\ t.dispatch[<<"r1", d>>] = [s.files[Meta(d)] EXCEPT !.usage = UsageShown(@)]

IsText(v) == v # ""

\* The documents, none of them empty.
DocsSame(s, t) ==
    \A d \in DispatchId :
        /\ FsReadBrief(s, "r1", d) = PgReadBrief(t, "r1", d)
        /\ FsReadReport(s, "r1", d) = PgReadReport(t, "r1", d)
        /\ Ok("") \notin {PgReadBrief(t, "r1", d), PgReadReport(t, "r1", d)}

\* A configuration in a file is in the table, and none there is empty.  The
\* table may lack that of the root: it has a row only when it is written.
ConfigsSame(s, t) ==
    /\ \A k \in DOMAIN t.config : IsText(t.config[k])
    /\ \A d \in 1..MaxDispatch :
         Has(s, In(Dir(d), "settings.json")) =>
            /\ d \in Ids(s)
            /\ <<"r1", d>> \in DOMAIN t.config
            /\ t.config[<<"r1", d>>] = s.files[In(Dir(d), "settings.json")]

\* The agents, and below the lines and the names of the notes; a usage is
\* compared as it is shown.
AgentsSame(s, t) ==
    /\ \A k \in DOMAIN t.agent : \E a \in AgentId : k = <<"r1", a>>
    /\ \A a \in AgentId :
        /\ Has(s, <<"r1", "agents", a>>) <=> <<"r1", a>> \in DOMAIN t.agent
        /\ Has(s, <<"r1", "agents", a>>) =>
             t.agent[<<"r1", a>>] = [s.files[<<"r1", "agents", a>>] EXCEPT !.usage = UsageShown(@)]

Event == [kind : {"agent_started", "agent_completed"}, usage : {"zeros"}]
LinesSame(s, t) ==
    /\ FsListCheckpointCandidates(s, "r1") = PgListCheckpointCandidates(t, "r1")
    /\ FsListLedgerEvents(s, "r1") \in Seq(Event)
    /\ WithUsageShown(FsListLedgerEvents(s, "r1")) = PgListLedgerEvents(t, "r1")

NotesSame(s, t) == Notes(s, "r1") = Named(t, "r1")

\* What is named like a manifest or an agent is one of the run.
FilesOfRun(s) ==
    \A p \in DOMAIN s.files :
        /\ Len(p) = 2 /\ p[2] = "manifest.json" => p = Manifest
        /\ Len(p) = 3 /\ p[2] = "agents" => \E a \in AgentId : p = <<"r1", "agents", a>>

\* A tree of files and tables that have had the same calls.
IsTree(s)   == DOMAIN s = {"dirs", "files"}
IsTables(t) == DOMAIN t = DOMAIN PgEmpty

Same(s, t) ==
    /\ IsTree(s) /\ IsTables(t)
    /\ FilesOfRun(s)
    /\ RunSame(s, t) /\ IdsSame(s, t) /\ RecordsSame(s, t) /\ DocsSame(s, t)
    /\ ConfigsSame(s, t) /\ AgentsSame(s, t) /\ LinesSame(s, t) /\ NotesSame(s, t)

\* Before the first call both are empty.
Agree(s, t) == (s = FsEmpty /\ t = PgEmpty) \/ Same(s, t)

-----------------------------------------------------------------------------

\* A name under the directory of a run, or of a dispatch, is a tuple.
LEMMA AppendToOne == ASSUME NEW a, NEW b PROVE Append(<<a>>, b) = <<a, b>>
<1> DEFINE S == {a, b}
<1>1. <<a>> \in Seq(S) /\ b \in S /\ <<a, b>> \in Seq(S)
  OBVIOUS
<1>2. Len(Append(<<a>>, b)) = 2 /\ Append(<<a>>, b) \in Seq(S)
  BY <1>1
<1>3. \A i \in 1..2 : Append(<<a>>, b)[i] = <<a, b>>[i]
  BY <1>1
<1> HIDE DEF S
<1> QED BY <1>1, <1>2, <1>3, SeqEqual

LEMMA AppendToThree ==
    ASSUME NEW a, NEW b, NEW c, NEW d PROVE Append(<<a, b, c>>, d) = <<a, b, c, d>>
<1> DEFINE S == {a, b, c, d}
<1>1. <<a, b, c>> \in Seq(S) /\ d \in S /\ <<a, b, c, d>> \in Seq(S)
  OBVIOUS
<1>2. Len(Append(<<a, b, c>>, d)) = 4 /\ Append(<<a, b, c>>, d) \in Seq(S)
  BY <1>1
<1>3. \A i \in 1..4 : Append(<<a, b, c>>, d)[i] = <<a, b, c, d>>[i]
  BY <1>1
<1> HIDE DEF S
<1> QED BY <1>1, <1>2, <1>3, SeqEqual

\* The names in the directory of a run and in that of a dispatch.
LEMMA PathsSpelled ==
    ASSUME NEW r, NEW d, NEW n
    PROVE  /\ In(RunDir(r), n) = <<r, n>>
           /\ In(DispatchDir(r, d), n) = <<r, "dispatches", d, n>>
           /\ ManifestPath(r) = <<r, "manifest.json">>
           /\ MetaPath(r, d) = <<r, "dispatches", d, "meta.json">>
BY AppendToOne, AppendToThree DEF In, RunDir, DispatchDir, ManifestPath, MetaPath

LEMMA ManifestSpelled == Manifest = <<"r1", "manifest.json">>
BY PathsSpelled DEF Manifest

\* The directories above a path.
LEMMA AboveSpelled ==
    /\ \A a, b : Above(<<a, b>>) = {<<a>>}
    /\ \A a, b, c : Above(<<a, b, c>>) = {<<a>>, <<a, b>>}
    /\ \A a, b, c, d : Above(<<a, b, c, d>>) = {<<a>>, <<a, b>>, <<a, b, c>>}
BY DEF Above

\* Only a name in the directory of a dispatch has that directory above it.
LEMMA DirsAbove ==
    ASSUME NEW a, NEW b, NEW c, NEW n, NEW d
    PROVE  /\ Dir(d) \notin Above(<<a, b>>)
           /\ Dir(d) \notin Above(<<a, b, c>>)
           /\ Dir(d) \in Above(<<"r1", "dispatches", c, n>>) <=> c = d
<1>1. Len(Dir(d)) = 3 /\ Len(<<a>>) = 1 /\ Len(<<a, b>>) = 2
  BY DEF Dir, DispatchDir
<1>2. Dir(d) = <<"r1", "dispatches", c>> <=> c = d
  BY DEF Dir, DispatchDir
<1>3. Len(<<"r1">>) = 1 /\ Len(<<"r1", "dispatches">>) = 2
  OBVIOUS
<1>4. Above(<<a, b>>) = {<<a>>} /\ Above(<<a, b, c>>) = {<<a>>, <<a, b>>}
      /\ Above(<<"r1", "dispatches", c, n>>) = {<<"r1">>, <<"r1", "dispatches">>, <<"r1", "dispatches", c>>}
  BY AboveSpelled
<1>5. Dir(d) # <<a>> /\ Dir(d) # <<a, b>> /\ Dir(d) # <<"r1">> /\ Dir(d) # <<"r1", "dispatches">>
  BY <1>1, <1>3
<1> QED BY <1>2, <1>4, <1>5

\* What a file that is written changes of a tree.
LEMMA PutEffect ==
    ASSUME NEW s, NEW p, NEW v
    PROVE  /\ IsTree(Put(s, p, v))
           /\ Put(s, p, v).dirs = s.dirs \cup Above(p)
           /\ DOMAIN Put(s, p, v).files = DOMAIN s.files \cup {p}
           /\ \A q : Has(Put(s, p, v), q) <=> q = p \/ Has(s, q)
           /\ Put(s, p, v).files[p] = v
           /\ \A q : Has(s, q) /\ q # p => Put(s, p, v).files[q] = s.files[q]
           /\ \A q : q # p => ReadFile(Put(s, p, v), q) = ReadFile(s, q)
BY DEF Put, Set, IsTree, Has, ReadFile

\* The directories of a tree are set, or its files.
LEMMA TreeEffect ==
    ASSUME NEW d, NEW f, NEW x
    PROVE  /\ [[dirs |-> d, files |-> f] EXCEPT !.dirs = x] = [dirs |-> x, files |-> f]
           /\ [[dirs |-> d, files |-> f] EXCEPT !.files = x] = [dirs |-> d, files |-> x]
OBVIOUS

-----------------------------------------------------------------------------
(* The order of the ids.                                                   *)

\* Fewer numbers are below the smaller of two.
LEMMA RanksDiffer ==
    ASSUME NEW S \in SUBSET Nat, IsFiniteSet(S), NEW x \in S, NEW y \in S, x < y
    PROVE  Cardinality({z \in S : z < x}) # Cardinality({z \in S : z < y})
<1> DEFINE A == {z \in S : z < x}
           B == {z \in S : z < y}
<1>1. IsFiniteSet(B) /\ A \in SUBSET B
  <2>1. B \in SUBSET S
    OBVIOUS
  <2>2. A \in SUBSET B
    <3>1. \A z \in S : z < x => z < y
      OBVIOUS
    <3> QED BY <3>1
  <2> HIDE DEF A, B
  <2> QED BY <2>1, <2>2, FS_Subset
<1>2. x \in B /\ x \notin A
  OBVIOUS
<1>3. A # B
  BY <1>2
<1> HIDE DEF A, B
<1>4. Cardinality(A) # Cardinality(B)
  BY <1>1, <1>3, FS_Subset
<1> QED BY <1>4 DEF A, B

\* An ordered set has as many places as elements, and an element in each.
LEMMA AscElements ==
    ASSUME NEW S \in SUBSET Nat, IsFiniteSet(S)
    PROVE  /\ Cardinality(S) \in Nat
           /\ DOMAIN Asc(S) = 1..Cardinality(S)
           /\ \A i \in 1..Cardinality(S) : Asc(S)[i] \in S
<1> DEFINE n == Cardinality(S)
           Rank == [x \in S |-> Cardinality({y \in S : y < x})]
<1>1. n \in Nat
  BY FS_CardinalityType
<1>2. ASSUME NEW x \in S PROVE Rank[x] \in 0..(n - 1)
  <2> DEFINE A == {y \in S : y < x}
  <2>1. IsFiniteSet(A) /\ Cardinality(A) <= n /\ Cardinality(A) # n
    BY FS_Subset
  <2>2. Cardinality(A) \in Nat
    BY <2>1, FS_CardinalityType
  <2> QED BY <1>1, <2>1, <2>2
<1>3. Rank \in Injection(S, 0..(n - 1))
  <2>1. ASSUME NEW x \in S, NEW y \in S, Rank[x] = Rank[y] PROVE x = y
    BY <2>1, RanksDiffer
  <2>2. Rank \in [S -> 0..(n - 1)]
    BY <1>2
  <2> QED BY <2>1, <2>2 DEF Injection, IsInjective
<1>4. IsFiniteSet(0..(n - 1)) /\ Cardinality(0..(n - 1)) = n
  <2>1. 0 \in Int /\ n - 1 \in Int
    BY <1>1
  <2> HIDE DEF n
  <2>2. IsFiniteSet(0..(n - 1)) /\ Cardinality(0..(n - 1)) = IF 0 > n - 1 THEN 0 ELSE n - 1 - 0 + 1
    BY <2>1, FS_Interval
  <2> QED BY <1>1, <2>2
<1>5. Rank \in Surjection(S, 0..(n - 1))
  <2> HIDE DEF Rank
  <2> QED BY <1>3, <1>4, FS_Injection
<1>6. ASSUME NEW i \in 1..n
      PROVE  \E x \in S : Cardinality({y \in S : y < x}) = i - 1
  <2>1. i - 1 \in 0..(n - 1)
    BY <1>1
  <2> QED BY <1>5, <2>1 DEF Surjection
<1> QED BY <1>1, <1>6 DEF Asc

-----------------------------------------------------------------------------
(* What a write leaves alone.  Each part of what is the same reads a few   *)
(* files and tables; a write to another leaves it.                         *)

\* u is s with one file written, and perhaps directories.
Writes(s, u, p) ==
    /\ IsTree(u) /\ s.dirs \subseteq u.dirs
    /\ DOMAIN u.files = DOMAIN s.files \cup {p}
    /\ \A q \in DOMAIN s.files \ {p} : u.files[q] = s.files[q]

LEMMA PutWrites ==
    ASSUME NEW s, NEW p, NEW v
    PROVE  /\ Writes(s, Put(s, p, v), p)
           /\ Put(s, p, v).files[p] = v
           /\ p \in DOMAIN Put(s, p, v).files
BY PutEffect DEF Writes, Has

LEMMA WritesReads ==
    ASSUME NEW s, NEW u, NEW p, Writes(s, u, p)
    PROVE  \A q : q # p => /\ Has(u, q) <=> Has(s, q)
                           /\ ReadFile(u, q) = ReadFile(s, q)
                           /\ Has(s, q) => u.files[q] = s.files[q]
BY DEF Writes, Has, ReadFile

\* No id is added by a file of the run, or by one of a dispatch that has a
\* directory or is the root.
LEMMA PutIds ==
    ASSUME NEW s, NEW p, NEW v,
           \/ \E a, b : p = <<a, b>>
           \/ \E a, b, c : p = <<a, b, c>>
           \/ \E e \in Ids(s) \cup {Root} : \E n : p = <<"r1", "dispatches", e, n>>
    PROVE  Ids(Put(s, p, v)) = Ids(s)
<1>1. Put(s, p, v).dirs = s.dirs \cup Above(p)
  BY PutEffect
<1>2. Root \notin 1..MaxDispatch
  BY RecordsAssumption DEF Root
<1>3. \A d \in 1..MaxDispatch : Dir(d) \in Above(p) => d \in Ids(s)
  <2>1. CASE \E a, b : p = <<a, b>>
    BY <2>1, DirsAbove
  <2>2. CASE \E a, b, c : p = <<a, b, c>>
    BY <2>2, DirsAbove
  <2>3. CASE \E e \in Ids(s) \cup {Root} : \E n : p = <<"r1", "dispatches", e, n>>
    <3>1. PICK e \in Ids(s) \cup {Root} : \E n : p = <<"r1", "dispatches", e, n>>
      BY <2>3
    <3>2. PICK n : p = <<"r1", "dispatches", e, n>>
      BY <3>1
    <3>3. \A d : Dir(d) \in Above(p) => d = e
      BY <3>2, DirsAbove
    <3> QED BY <3>3, <1>2
  <2> QED BY <2>1, <2>2, <2>3
<1> QED BY <1>1, <1>3 DEF Ids

LEMMA RunKept ==
    ASSUME NEW s, NEW u, NEW p, NEW t, NEW t2, RunSame(s, t), Writes(s, u, p),
           p # Manifest, t2.run = t.run
    PROVE  RunSame(u, t2)
BY WritesReads DEF RunSame, Writes, Has

LEMMA IdsKept ==
    ASSUME NEW s, NEW u, NEW t, NEW t2, IdsSame(s, t), Ids(u) = Ids(s), t2.seq = t.seq
    PROVE  IdsSame(u, t2)
BY DEF IdsSame

LEMMA RecordsKept ==
    ASSUME NEW s, NEW u, NEW p, NEW t, NEW t2, RecordsSame(s, t), Writes(s, u, p),
           Ids(u) = Ids(s), \A d \in DispatchId : p # Meta(d), t2.dispatch = t.dispatch
    PROVE  RecordsSame(u, t2)
<1>1. \A d \in DispatchId :
        /\ Has(u, Meta(d)) <=> Has(s, Meta(d))
        /\ Has(s, Meta(d)) => u.files[Meta(d)] = s.files[Meta(d)]
  <2> TAKE d \in DispatchId
  <2>1. Meta(d) # p
    OBVIOUS
  <2> QED BY <2>1, WritesReads
<1>2. Root \in DispatchId
  BY RecordsAssumption DEF Root, DispatchId
<1>3. \A d : Dir(d) \in s.dirs => Dir(d) \in u.dirs
  BY DEF Writes
<1>4. /\ \A k \in DOMAIN t2.dispatch : \E d \in Ids(u) \cup {Root} : k = <<"r1", d>>
      /\ \A d \in Ids(u) : <<"r1", d>> \in DOMAIN t2.dispatch
      /\ <<"r1", Root>> \in DOMAIN t2.dispatch => Has(u, Meta(Root))
  BY <1>1, <1>2 DEF RecordsSame
<1>5. ASSUME NEW d \in DispatchId, Has(u, Meta(d))
      PROVE  /\ Dir(d) \in u.dirs
             /\ u.files[Meta(d)] \in Writings(d)
             /\ <<"r1", d>> \in DOMAIN t2.dispatch
             /\ t2.dispatch[<<"r1", d>>] = [u.files[Meta(d)] EXCEPT !.usage = UsageShown(@)]
  <2>1. Has(s, Meta(d)) /\ u.files[Meta(d)] = s.files[Meta(d)]
    BY <1>1, <1>5
  <2> QED BY <2>1, <1>3 DEF RecordsSame
<1> QED BY <1>4, <1>5 DEF RecordsSame

LEMMA DocsKept ==
    ASSUME NEW s, NEW u, NEW p, NEW t, NEW t2, DocsSame(s, t), Writes(s, u, p),
           \A d \in DispatchId :
              /\ p # In(Dir(d), "brief.md") /\ p # In(Dir(d), "report.md")
              /\ PgReadBrief(t2, "r1", d) = PgReadBrief(t, "r1", d)
              /\ PgReadReport(t2, "r1", d) = PgReadReport(t, "r1", d)
    PROVE  DocsSame(u, t2)
<1>1. \A d \in DispatchId : /\ FsReadBrief(u, "r1", d) = FsReadBrief(s, "r1", d)
                            /\ FsReadReport(u, "r1", d) = FsReadReport(s, "r1", d)
  BY WritesReads DEF FsReadBrief, FsReadReport, Dir
<1> QED BY <1>1 DEF DocsSame

LEMMA ConfigsKept ==
    ASSUME NEW s, NEW u, NEW p, NEW t, NEW t2, ConfigsSame(s, t), Writes(s, u, p),
           Ids(s) \subseteq Ids(u),
           \A d \in 1..MaxDispatch : p # In(Dir(d), "settings.json"), t2.config = t.config
    PROVE  ConfigsSame(u, t2)
BY WritesReads DEF ConfigsSame

LEMMA AgentsKept ==
    ASSUME NEW s, NEW u, NEW p, NEW t, NEW t2, AgentsSame(s, t), Writes(s, u, p),
           \A a \in AgentId : p # <<"r1", "agents", a>>, t2.agent = t.agent
    PROVE  AgentsSame(u, t2)
<1>1. \A a \in AgentId :
        /\ Has(u, <<"r1", "agents", a>>) <=> Has(s, <<"r1", "agents", a>>)
        /\ Has(s, <<"r1", "agents", a>>) =>
              u.files[<<"r1", "agents", a>>] = s.files[<<"r1", "agents", a>>]
  <2> TAKE a \in AgentId
  <2>1. <<"r1", "agents", a>> # p
    OBVIOUS
  <2> QED BY <2>1, WritesReads
<1>2. ASSUME NEW a \in AgentId, Has(u, <<"r1", "agents", a>>)
      PROVE  t2.agent[<<"r1", a>>] = [u.files[<<"r1", "agents", a>>] EXCEPT !.usage = UsageShown(@)]
  <2>1. Has(s, <<"r1", "agents", a>>)
        /\ u.files[<<"r1", "agents", a>>] = s.files[<<"r1", "agents", a>>]
    BY <1>1, <1>2
  <2> QED BY <2>1 DEF AgentsSame
<1> QED BY <1>1, <1>2 DEF AgentsSame

LEMMA LinesKept ==
    ASSUME NEW s, NEW u, NEW p, NEW t, NEW t2, LinesSame(s, t), Writes(s, u, p),
           p # <<"r1", "checkpoint_candidates.jsonl">>, p # <<"r1", "ledger.jsonl">>,
           t2.candidate = t.candidate, t2.ledger = t.ledger
    PROVE  LinesSame(u, t2)
<1>1. In(RunDir("r1"), "checkpoint_candidates.jsonl") = <<"r1", "checkpoint_candidates.jsonl">>
      /\ In(RunDir("r1"), "ledger.jsonl") = <<"r1", "ledger.jsonl">>
  BY PathsSpelled
<1>2. \A q : q # p => Get(u.files, q, << >>) = Get(s.files, q, << >>)
  BY DEF Writes, Get
<1>3. FsListCheckpointCandidates(u, "r1") = FsListCheckpointCandidates(s, "r1")
      /\ FsListLedgerEvents(u, "r1") = FsListLedgerEvents(s, "r1")
  BY <1>1, <1>2 DEF FsListCheckpointCandidates, FsListLedgerEvents
<1>4. PgListCheckpointCandidates(t2, "r1") = PgListCheckpointCandidates(t, "r1")
      /\ PgListLedgerEvents(t2, "r1") = PgListLedgerEvents(t, "r1")
  BY DEF PgListCheckpointCandidates, PgListLedgerEvents
<1> QED BY <1>3, <1>4 DEF LinesSame

LEMMA NotesKept ==
    ASSUME NEW s, NEW u, NEW p, NEW t, NEW t2, NotesSame(s, t), Writes(s, u, p),
           Len(p) # 3 \/ p[2] # "notes", Named(t2, "r1") = Named(t, "r1")
    PROVE  NotesSame(u, t2)
<1>1. Notes(u, "r1") = Notes(s, "r1")
  BY DEF Notes, Writes
<1> QED BY <1>1 DEF NotesSame

LEMMA FilesOfRunKept ==
    ASSUME NEW s, NEW u, NEW p, FilesOfRun(s), Writes(s, u, p),
           Len(p) = 2 /\ p[2] = "manifest.json" => p = Manifest,
           Len(p) = 3 /\ p[2] = "agents" => \E a \in AgentId : p = <<"r1", "agents", a>>
    PROVE  FilesOfRun(u)
BY DEF FilesOfRun, Writes

-----------------------------------------------------------------------------
(* What the calls do to both: after each call of the session the tree and  *)
(* the tables are the same again.                                          *)

LEMMA Answers ==
    ASSUME NEW x, NEW v
    PROVE  /\ Done(x).store = x /\ Done(x).ans # Err
           /\ Answer(x, v).store = x /\ Answer(x, v).ans # Err
           /\ Fail(x).store = x /\ Fail(x).ans = Err
BY DEF Done, Answer, Fail, Ok, Err

\* The root is no id that is allocated.
LEMMA RootIsNone == Root \notin 1..MaxDispatch /\ Root \in DispatchId /\ 1..MaxDispatch \subseteq DispatchId
BY RecordsAssumption DEF Root, DispatchId

LEMMA SameHasRun ==
    ASSUME NEW s, NEW t, Same(s, t)
    PROVE  RunExists(t, "r1") /\ IsTables(t) /\ IsTree(s)
BY DEF Same, RunSame, RunExists

\* t2 is t but for documents and the tables that are named.
SameButDocs(t, t2) ==
    /\ IsTables(t2) /\ t2.run = t.run /\ t2.seq = t.seq
    /\ t2.agent = t.agent /\ t2.candidate = t.candidate /\ t2.ledger = t.ledger
    /\ Named(t2, "r1") = Named(t, "r1")

DocsKeptIn(t, t2) ==
    \A d \in DispatchId : /\ PgReadBrief(t2, "r1", d) = PgReadBrief(t, "r1", d)
                          /\ PgReadReport(t2, "r1", d) = PgReadReport(t, "r1", d)

\* What a file in the directory of a dispatch leaves the same.
LEMMA DispatchFile ==
    ASSUME NEW s, NEW t, Same(s, t), NEW d \in Ids(s) \cup {Root}, NEW n, NEW v, NEW t2,
           SameButDocs(t, t2)
    PROVE  LET u == Put(s, <<"r1", "dispatches", d, n>>, v) IN
           /\ IsTree(u) /\ IsTables(t2) /\ FilesOfRun(u)
           /\ RunSame(u, t2) /\ IdsSame(u, t2) /\ AgentsSame(u, t2) /\ LinesSame(u, t2)
           /\ NotesSame(u, t2)
           /\ n # "meta.json" /\ t2.dispatch = t.dispatch => RecordsSame(u, t2)
           /\ n \notin {"brief.md", "report.md"} /\ DocsKeptIn(t, t2) => DocsSame(u, t2)
           /\ n # "settings.json" /\ t2.config = t.config => ConfigsSame(u, t2)
<1> DEFINE p == <<"r1", "dispatches", d, n>>
           u == Put(s, p, v)
<1>1. Len(p) = 4
  OBVIOUS
<1>2. Writes(s, u, p) /\ IsTree(u)
  BY PutWrites, PutEffect
<1>3. Ids(u) = Ids(s)
  BY PutIds
<1>4. /\ p # Manifest
      /\ \A a : p # <<"r1", "agents", a>>
      /\ p # <<"r1", "checkpoint_candidates.jsonl">> /\ p # <<"r1", "ledger.jsonl">>
  BY PathsSpelled DEF Manifest
<1>5. /\ n # "meta.json" => \A e : p # Meta(e)
      /\ n # "brief.md" => \A e : p # In(Dir(e), "brief.md")
      /\ n # "report.md" => \A e : p # In(Dir(e), "report.md")
      /\ n # "settings.json" => \A e : p # In(Dir(e), "settings.json")
  BY PathsSpelled DEF Meta, Dir
<1> HIDE DEF p, u
<1> USE DEF SameButDocs, Same
<1>6. FilesOfRun(u)
  BY <1>1, <1>2, FilesOfRunKept
<1>7. RunSame(u, t2)
  BY <1>2, <1>4, RunKept
<1>8. IdsSame(u, t2)
  BY <1>3, IdsKept
<1>9. AgentsSame(u, t2)
  BY <1>2, <1>4, AgentsKept
<1>10. LinesSame(u, t2)
  BY <1>2, <1>4, LinesKept
<1>11. NotesSame(u, t2)
  BY <1>1, <1>2, NotesKept
<1>12. ASSUME n # "meta.json", t2.dispatch = t.dispatch PROVE RecordsSame(u, t2)
  BY <1>2, <1>3, <1>5, <1>12, RecordsKept
<1>13. ASSUME n \notin {"brief.md", "report.md"}, DocsKeptIn(t, t2) PROVE DocsSame(u, t2)
  BY <1>2, <1>5, <1>13, DocsKept DEF DocsKeptIn
<1>14. ASSUME n # "settings.json", t2.config = t.config PROVE ConfigsSame(u, t2)
  BY <1>2, <1>3, <1>5, <1>14, ConfigsKept
<1> QED BY <1>2, <1>6, <1>7, <1>8, <1>9, <1>10, <1>11, <1>12, <1>13, <1>14 DEF p, u

\* What a file of the run, of an agent or a note leaves the same.
LEMMA RunFile ==
    ASSUME NEW s, NEW t, Same(s, t), NEW p, NEW v, NEW t2, p # Manifest,
           \/ \E a, b : p = <<a, b>>
           \/ \E a, b, c : p = <<a, b, c>>,
           t2.run = t.run, t2.seq = t.seq, t2.dispatch = t.dispatch, t2.config = t.config,
           DocsKeptIn(t, t2)
    PROVE  LET u == Put(s, p, v) IN
           /\ IsTree(u) /\ Writes(s, u, p) /\ u.files[p] = v /\ p \in DOMAIN u.files
           /\ RunSame(u, t2) /\ IdsSame(u, t2) /\ RecordsSame(u, t2) /\ DocsSame(u, t2)
           /\ ConfigsSame(u, t2)
<1> DEFINE u == Put(s, p, v)
<1>1. Writes(s, u, p) /\ IsTree(u) /\ u.files[p] = v /\ p \in DOMAIN u.files
  BY PutWrites, PutEffect
<1>2. Ids(u) = Ids(s)
  BY PutIds
<1>3. Len(p) = 2 \/ Len(p) = 3
  OBVIOUS
<1>4. \A e : /\ Len(Meta(e)) = 4 /\ Len(In(Dir(e), "brief.md")) = 4
             /\ Len(In(Dir(e), "report.md")) = 4 /\ Len(In(Dir(e), "settings.json")) = 4
  BY PathsSpelled DEF Meta, Dir
<1>5. \A e : /\ p # Meta(e) /\ p # In(Dir(e), "brief.md")
             /\ p # In(Dir(e), "report.md") /\ p # In(Dir(e), "settings.json")
  BY <1>3, <1>4
<1> HIDE DEF u
<1> USE DEF Same
<1>6. RunSame(u, t2)
  BY <1>1, RunKept
<1>7. IdsSame(u, t2)
  BY <1>2, IdsKept
<1>8. RecordsSame(u, t2)
  BY <1>1, <1>2, <1>5, RecordsKept
<1>9. DocsSame(u, t2)
  BY <1>1, <1>5, DocsKept DEF DocsKeptIn
<1>10. ConfigsSame(u, t2)
  BY <1>1, <1>2, <1>5, ConfigsKept
<1> QED BY <1>1, <1>6, <1>7, <1>8, <1>9, <1>10 DEF u

\* A document is one of its kind and dispatch.
LEMMA DocSet ==
    ASSUME NEW t, IsTables(t), RunExists(t, "r1"), NEW kind \in {"brief", "report"}, NEW d, NEW body
    PROVE  LET t2 == upsertDoc(t, "r1", d, kind, body).store IN
           /\ SameButDocs(t, t2)
           /\ t2.dispatch = t.dispatch /\ t2.config = t.config
           /\ \A e, k : readDoc(t2, "r1", e, k) =
                          IF e = d /\ k = kind THEN Ok(body) ELSE readDoc(t, "r1", e, k)
<1> DEFINE t2 == [t EXCEPT !.doc = Set(@, <<kind, "r1", d>>, body)]
<1>1. upsertDoc(t, "r1", d, kind, body).store = t2
  BY Answers DEF upsertDoc
<1>2. /\ IsTables(t2) /\ t2.run = t.run /\ t2.seq = t.seq /\ t2.dispatch = t.dispatch
      /\ t2.config = t.config /\ t2.agent = t.agent /\ t2.candidate = t.candidate
      /\ t2.ledger = t.ledger /\ t2.doc = Set(t.doc, <<kind, "r1", d>>, body)
  BY DEF IsTables, PgEmpty
<1> HIDE DEF t2
<1>3. Named(t2, "r1") = Named(t, "r1")
  BY <1>2 DEF Named, Set
<1>4. ASSUME NEW e, NEW k
      PROVE readDoc(t2, "r1", e, k) =
                          IF e = d /\ k = kind THEN Ok(body) ELSE readDoc(t, "r1", e, k)
  <2>1. <<k, "r1", e>> = <<kind, "r1", d>> <=> e = d /\ k = kind
    OBVIOUS
  <2>2. CASE e = d /\ k = kind
    BY <2>2, <1>2 DEF readDoc, Set
  <2>3. CASE ~ (e = d /\ k = kind)
    <3>1. /\ <<k, "r1", e>> \in DOMAIN t2.doc <=> <<k, "r1", e>> \in DOMAIN t.doc
          /\ <<k, "r1", e>> \in DOMAIN t.doc => t2.doc[<<k, "r1", e>>] = t.doc[<<k, "r1", e>>]
      BY <2>1, <2>3, <1>2 DEF Set
    <3> QED BY <3>1, <2>3 DEF readDoc
  <2> QED BY <2>2, <2>3
<1> QED BY <1>1, <1>2, <1>3, <1>4 DEF SameButDocs

\* A document keeps the stores the same.
LEMMA BriefKeepsSame ==
    ASSUME NEW s, NEW t, Same(s, t), NEW d \in Ids(s), NEW v, IsText(v)
    PROVE  LET got == FsWriteBrief(s, "r1", d, v) IN
           got.ans # Err /\ Same(got.store, PgWriteBrief(t, "r1", d, v).store)
<1> DEFINE p == <<"r1", "dispatches", d, "brief.md">>
           u == Put(s, p, v)
           t2 == upsertDoc(t, "r1", d, "brief", v).store
<1>1. FsWriteBrief(s, "r1", d, v) = Done(u) /\ PgWriteBrief(t, "r1", d, v).store = t2
  BY PathsSpelled DEF FsWriteBrief, PgWriteBrief
<1>2. /\ SameButDocs(t, t2) /\ t2.dispatch = t.dispatch /\ t2.config = t.config
      /\ \A e, k : readDoc(t2, "r1", e, k) =
                    IF e = d /\ k = "brief" THEN Ok(v) ELSE readDoc(t, "r1", e, k)
  BY SameHasRun, DocSet
<1>3. \A q : ReadFile(u, q) = IF q = p THEN Ok(v) ELSE ReadFile(s, q)
  BY PutEffect DEF ReadFile, Has
<1> HIDE DEF t2
<1>4. ASSUME NEW e \in DispatchId
      PROVE  /\ FsReadBrief(u, "r1", e) = PgReadBrief(t2, "r1", e)
             /\ FsReadReport(u, "r1", e) = PgReadReport(t2, "r1", e)
             /\ Ok("") \notin {PgReadBrief(t2, "r1", e), PgReadReport(t2, "r1", e)}
  <2>1. /\ FsReadBrief(s, "r1", e) = PgReadBrief(t, "r1", e)
        /\ FsReadReport(s, "r1", e) = PgReadReport(t, "r1", e)
        /\ Ok("") \notin {PgReadBrief(t, "r1", e), PgReadReport(t, "r1", e)}
    BY DEF Same, DocsSame
  <2>2. /\ In(DispatchDir("r1", e), "brief.md") = p <=> e = d
        /\ In(DispatchDir("r1", e), "report.md") # p
    BY PathsSpelled
  <2>3. Ok(v) # Ok("")
    BY DEF Ok, IsText
  <2> HIDE DEF u, p
  <2> QED BY <2>1, <2>2, <2>3, <1>2, <1>3 DEF FsReadBrief, FsReadReport, PgReadBrief, PgReadReport
<1>5. DocsSame(u, t2)
  BY <1>4 DEF DocsSame
<1>6. Same(u, t2)
  BY <1>2, <1>5, DispatchFile DEF Same
<1> QED BY <1>1, <1>6, Answers

LEMMA ReportKeepsSame ==
    ASSUME NEW s, NEW t, Same(s, t), NEW d \in Ids(s), NEW v, IsText(v)
    PROVE  LET got == FsWriteReport(s, "r1", d, v) IN
           got.ans # Err /\ Same(got.store, PgWriteReport(t, "r1", d, v).store)
<1> DEFINE p == <<"r1", "dispatches", d, "report.md">>
           u == Put(s, p, v)
           t2 == upsertDoc(t, "r1", d, "report", v).store
<1>1. FsWriteReport(s, "r1", d, v) = Done(u) /\ PgWriteReport(t, "r1", d, v).store = t2
  BY PathsSpelled DEF FsWriteReport, PgWriteReport
<1>2. /\ SameButDocs(t, t2) /\ t2.dispatch = t.dispatch /\ t2.config = t.config
      /\ \A e, k : readDoc(t2, "r1", e, k) =
                    IF e = d /\ k = "report" THEN Ok(v) ELSE readDoc(t, "r1", e, k)
  BY SameHasRun, DocSet
<1>3. \A q : ReadFile(u, q) = IF q = p THEN Ok(v) ELSE ReadFile(s, q)
  BY PutEffect DEF ReadFile, Has
<1> HIDE DEF t2
<1>4. ASSUME NEW e \in DispatchId
      PROVE  /\ FsReadBrief(u, "r1", e) = PgReadBrief(t2, "r1", e)
             /\ FsReadReport(u, "r1", e) = PgReadReport(t2, "r1", e)
             /\ Ok("") \notin {PgReadBrief(t2, "r1", e), PgReadReport(t2, "r1", e)}
  <2>1. /\ FsReadBrief(s, "r1", e) = PgReadBrief(t, "r1", e)
        /\ FsReadReport(s, "r1", e) = PgReadReport(t, "r1", e)
        /\ Ok("") \notin {PgReadBrief(t, "r1", e), PgReadReport(t, "r1", e)}
    BY DEF Same, DocsSame
  <2>2. /\ In(DispatchDir("r1", e), "report.md") = p <=> e = d
        /\ In(DispatchDir("r1", e), "brief.md") # p
    BY PathsSpelled
  <2>3. Ok(v) # Ok("")
    BY DEF Ok, IsText
  <2> HIDE DEF u, p
  <2> QED BY <2>1, <2>2, <2>3, <1>2, <1>3 DEF FsReadBrief, FsReadReport, PgReadBrief, PgReadReport
<1>5. DocsSame(u, t2)
  BY <1>4 DEF DocsSame
<1>6. Same(u, t2)
  BY <1>2, <1>5, DispatchFile DEF Same
<1> QED BY <1>1, <1>6, Answers

\* A configuration keeps them the same; for a root without a record, postgres
\* has none.
LEMMA ConfigKeepsSame ==
    ASSUME NEW s, NEW t, Same(s, t), NEW d \in Ids(s) \cup {Root}, NEW v, IsText(v)
    PROVE  LET got == FsWriteAdapterConfig(s, "r1", d, v) IN
           got.ans # Err /\ Same(got.store, PgWriteAdapterConfig(t, "r1", d, v).store)
<1> DEFINE p == <<"r1", "dispatches", d, "settings.json">>
           u == Put(s, p, v)
           t2 == IF <<"r1", d>> \in DOMAIN t.dispatch
                 THEN [t EXCEPT !.config = Set(@, <<"r1", d>>, v)] ELSE t
<1>1. FsWriteAdapterConfig(s, "r1", d, v) = Done(u) /\ PgWriteAdapterConfig(t, "r1", d, v).store = t2
  BY PathsSpelled, Answers DEF FsWriteAdapterConfig, PgWriteAdapterConfig
<1>2. /\ IsTables(t2) /\ t2.run = t.run /\ t2.seq = t.seq /\ t2.dispatch = t.dispatch
      /\ t2.agent = t.agent /\ t2.candidate = t.candidate
      /\ t2.ledger = t.ledger /\ t2.doc = t.doc
      /\ <<"r1", d>> \in DOMAIN t.dispatch => t2.config = Set(t.config, <<"r1", d>>, v)
      /\ <<"r1", d>> \notin DOMAIN t.dispatch => t2.config = t.config
  BY SameHasRun DEF IsTables, PgEmpty
<1> HIDE DEF t2
<1>3. SameButDocs(t, t2) /\ DocsKeptIn(t, t2)
  BY <1>2 DEF SameButDocs, DocsKeptIn, Named, PgReadBrief, PgReadReport, readDoc
<1>4. \A q : /\ Has(u, q) <=> q = p \/ Has(s, q)
             /\ Has(s, q) /\ q # p => u.files[q] = s.files[q]
      /\ u.files[p] = v
  BY PutEffect
<1>5. Ids(u) = Ids(s)
  BY PutIds
<1>6. ASSUME NEW e \in 1..MaxDispatch, Has(u, In(Dir(e), "settings.json"))
      PROVE  /\ e \in Ids(u)
             /\ <<"r1", e>> \in DOMAIN t2.config
             /\ t2.config[<<"r1", e>>] = u.files[In(Dir(e), "settings.json")]
  <2>1. In(Dir(e), "settings.json") = p <=> e = d
    BY PathsSpelled DEF Dir
  <2>2. CASE e = d
    <3>1. d \in Ids(s)
      BY <2>2, RootIsNone
    <3>2. <<"r1", d>> \in DOMAIN t.dispatch
      BY <3>1 DEF Same, RecordsSame
    <3>3. <<"r1", e>> \in DOMAIN t2.config /\ t2.config[<<"r1", e>>] = v
      BY <2>2, <3>2, <1>2 DEF Set
    <3> HIDE DEF u, p
    <3> QED BY <2>1, <2>2, <3>1, <3>3, <1>4, <1>5
  <2>3. CASE e # d
    <3> HIDE DEF u, p
    <3>1. /\ Has(s, In(Dir(e), "settings.json"))
          /\ u.files[In(Dir(e), "settings.json")] = s.files[In(Dir(e), "settings.json")]
      BY <2>1, <2>3, <1>4, <1>6
    <3>2. /\ e \in Ids(s) /\ <<"r1", e>> \in DOMAIN t.config
          /\ t.config[<<"r1", e>>] = s.files[In(Dir(e), "settings.json")]
      BY <3>1 DEF Same, ConfigsSame
    <3>3. <<"r1", e>> \in DOMAIN t2.config /\ t2.config[<<"r1", e>>] = t.config[<<"r1", e>>]
      <4>1. <<"r1", e>> # <<"r1", d>>
        BY <2>3
      <4> QED BY <4>1, <3>2, <1>2 DEF Set
    <3> QED BY <3>1, <3>2, <3>3, <1>5
  <2> QED BY <2>2, <2>3
<1>7. ConfigsSame(u, t2)
  <2>1. \A k \in DOMAIN t.config : IsText(t.config[k])
    BY DEF Same, ConfigsSame
  <2>2. \A k \in DOMAIN t2.config : IsText(t2.config[k])
    BY <1>2, <2>1 DEF Set
  <2> QED BY <1>6, <2>2 DEF ConfigsSame
<1>8. Same(u, t2)
  BY <1>2, <1>3, <1>7, DispatchFile DEF Same
<1> QED BY <1>1, <1>8, Answers

\* A trace event of the root.
LEMMA TraceKeepsSame ==
    ASSUME NEW s, NEW t, Same(s, t), NEW e
    PROVE  LET got == FsAppendTraceEvent(s, "r1", Root, e) IN
           got.ans # Err /\ Same(got.store, PgAppendTraceEvent(t, "r1", Root, e).store)
<1> DEFINE n == IF e.kind \in {"read", "dispatch", "report"}
                THEN "context_trace.jsonl" ELSE "tool_trace.jsonl"
           t2 == [t EXCEPT !.trace = Added(@, "r1", e)]
<1>1. PICK v : FsAppendTraceEvent(s, "r1", Root, e) = Done(Put(s, <<"r1", "dispatches", Root, n>>, v))
  BY PathsSpelled DEF FsAppendTraceEvent, AppendLine
<1>2. PgAppendTraceEvent(t, "r1", Root, e).store = t2
  BY SameHasRun, Answers DEF PgAppendTraceEvent
<1>3. /\ IsTables(t2) /\ t2.run = t.run /\ t2.seq = t.seq /\ t2.dispatch = t.dispatch
      /\ t2.config = t.config /\ t2.agent = t.agent /\ t2.candidate = t.candidate
      /\ t2.ledger = t.ledger /\ t2.doc = t.doc
  BY SameHasRun DEF IsTables, PgEmpty
<1>4. n \notin {"meta.json", "settings.json", "brief.md", "report.md"}
  OBVIOUS
<1> HIDE DEF t2, n
<1>5. SameButDocs(t, t2) /\ DocsKeptIn(t, t2)
  BY <1>3 DEF SameButDocs, DocsKeptIn, Named, PgReadBrief, PgReadReport, readDoc
<1>6. Same(Put(s, <<"r1", "dispatches", Root, n>>, v), t2)
  BY <1>3, <1>4, <1>5, DispatchFile DEF Same
<1> QED BY <1>1, <1>2, <1>6, Answers
\* A record as it is written, and as the row has it.
Fields == {"id", "parent", "model", "tier", "status", "enforcement", "cost", "pid", "usage",
           "sandbox", "owner", "lease"}

LEMMA WritingFields ==
    ASSUME NEW d \in DispatchId, NEW x \in Writings(d)
    PROVE  DOMAIN x = Fields /\ x.id = d /\ x.sandbox = "none"
<1>1. PICK parent, stage : x = Written(d, parent, stage)
  BY DEF Writings
<1> DEFINE b == Placeholder(d)
<1>2. DOMAIN b = Fields /\ b.id = d /\ b.sandbox = "none"
  BY DEF Placeholder, Fields
<1> HIDE DEF b
<1>3. DOMAIN x = DOMAIN b
  BY <1>1 DEF Written, b
<1>4. x.id = b.id /\ x.sandbox = b.sandbox
  BY <1>1, <1>2 DEF Written, b, Fields
<1> QED BY <1>2, <1>3, <1>4

\* The record of a dispatch, of the root too: the row is made or replaced.
LEMMA DispatchKeepsSame ==
    ASSUME NEW s, NEW t, Same(s, t), NEW d \in Ids(s) \cup {Root}, NEW x \in Writings(d)
    PROVE  LET got == FsWriteDispatch(s, "r1", x) IN
           got.ans # Err /\ Same(got.store, PgWriteDispatch(t, "r1", x).store)
<1> DEFINE p == <<"r1", "dispatches", d, "meta.json">>
           u == Put(s, p, x)
           row == [x EXCEPT !.usage = UsageShown(@)]
           t2 == [t EXCEPT !.dispatch = Set(@, <<"r1", d>>, row)]
<1>1. d \in DispatchId /\ x.id = d /\ x.sandbox # "invalid"
  BY RootIsNone, WritingFields DEF Ids
<1>2. FsWriteDispatch(s, "r1", x) = Done(u)
  BY <1>1, PathsSpelled DEF FsWriteDispatch
<1>3. PgWriteDispatch(t, "r1", x).store = t2
  BY <1>1, SameHasRun, Answers DEF PgWriteDispatch
<1>4. /\ IsTables(t2) /\ t2.run = t.run /\ t2.seq = t.seq
      /\ t2.dispatch = Set(t.dispatch, <<"r1", d>>, row)
      /\ t2.config = t.config /\ t2.agent = t.agent /\ t2.candidate = t.candidate
      /\ t2.ledger = t.ledger /\ t2.doc = t.doc
  BY SameHasRun DEF IsTables, PgEmpty
<1>5. Ids(u) = Ids(s)
  BY PutIds
<1>6. /\ \A q : Has(u, q) <=> q = p \/ Has(s, q)
      /\ u.files[p] = x
      /\ \A q : Has(s, q) /\ q # p => u.files[q] = s.files[q]
      /\ u.dirs = s.dirs \cup Above(p)
  BY PutEffect
<1>7. \A e : Meta(e) = p <=> e = d
  BY PathsSpelled DEF Meta
<1>8. Dir(d) \in u.dirs
  BY <1>6, DirsAbove
<1>9. /\ DOMAIN t2.dispatch = DOMAIN t.dispatch \cup {<<"r1", d>>}
      /\ t2.dispatch[<<"r1", d>>] = row
      /\ \A k \in DOMAIN t.dispatch : k # <<"r1", d>> => t2.dispatch[k] = t.dispatch[k]
  BY <1>4 DEF Set
<1>10. \A e, f : <<"r1", e>> = <<"r1", f>> <=> e = f
  OBVIOUS
<1> HIDE DEF t2, u, p, row
<1>11. SameButDocs(t, t2) /\ DocsKeptIn(t, t2)
  BY <1>4 DEF SameButDocs, DocsKeptIn, Named, PgReadBrief, PgReadReport, readDoc
<1>12. /\ \A k \in DOMAIN t2.dispatch : \E e \in Ids(u) \cup {Root} : k = <<"r1", e>>
       /\ \A e \in Ids(u) : <<"r1", e>> \in DOMAIN t2.dispatch
  BY <1>5, <1>9 DEF Same, RecordsSame
<1>13. ASSUME <<"r1", Root>> \in DOMAIN t2.dispatch PROVE Has(u, Meta(Root))
  <2>1. CASE d = Root
    BY <2>1, <1>6, <1>7
  <2>2. CASE d # Root
    BY <2>2, <1>6, <1>9, <1>10, <1>13 DEF Same, RecordsSame
  <2> QED BY <2>1, <2>2
<1>14. ASSUME NEW e \in DispatchId, Has(u, Meta(e))
       PROVE  /\ Dir(e) \in u.dirs
              /\ u.files[Meta(e)] \in Writings(e)
              /\ <<"r1", e>> \in DOMAIN t2.dispatch
              /\ t2.dispatch[<<"r1", e>>] = [u.files[Meta(e)] EXCEPT !.usage = UsageShown(@)]
  <2>1. CASE e = d
    BY <2>1, <1>6, <1>7, <1>8, <1>9 DEF row
  <2>2. CASE e # d
    <3>1. Has(s, Meta(e)) /\ u.files[Meta(e)] = s.files[Meta(e)]
      BY <2>2, <1>6, <1>7, <1>14
    <3>2. /\ Dir(e) \in s.dirs /\ s.files[Meta(e)] \in Writings(e)
          /\ <<"r1", e>> \in DOMAIN t.dispatch
          /\ t.dispatch[<<"r1", e>>] = [s.files[Meta(e)] EXCEPT !.usage = UsageShown(@)]
      BY <3>1 DEF Same, RecordsSame
    <3>3. Dir(e) \in u.dirs
      BY <3>2, <1>6
    <3>4. <<"r1", e>> \in DOMAIN t2.dispatch /\ t2.dispatch[<<"r1", e>>] = t.dispatch[<<"r1", e>>]
      BY <2>2, <3>2, <1>9, <1>10
    <3> QED BY <3>1, <3>2, <3>3, <3>4
  <2> QED BY <2>1, <2>2
<1>15. RecordsSame(u, t2)
  BY <1>12, <1>13, <1>14 DEF RecordsSame
<1>16. Same(u, t2)
  BY <1>4, <1>11, <1>15, DispatchFile DEF Same, u, p
<1> QED BY <1>2, <1>3, <1>16, Answers

\* The manifest and the row of the run.
LEMMA RunKeepsSame ==
    ASSUME NEW s, NEW t, Same(s, t), NEW st \in {"completed", "failed"}
    PROVE  LET got == FsWriteRun(s, [R1 EXCEPT !.status = st]) IN
           got.ans # Err /\ Same(got.store, PgWriteRun(t, [R1 EXCEPT !.status = st]).store)
<1> DEFINE x == [R1 EXCEPT !.status = st]
           u == Overwrite(s, Manifest, runToManifest(x))
           t2 == [t EXCEPT !.run = Set(@, "r1", RunRow(x))]
<1>1. x.id = "r1"
  BY DEF R1
<1>2. FsWriteRun(s, x) = Done(u)
  BY <1>1 DEF FsWriteRun, WriteManifest, Same, RunSame, Manifest
<1>3. PgWriteRun(t, x).store = t2
  BY <1>1, SameHasRun, Answers DEF PgWriteRun
<1>4. /\ IsTables(t2) /\ t2.run = Set(t.run, "r1", RunRow(x)) /\ t2.seq = t.seq
      /\ t2.dispatch = t.dispatch
      /\ t2.config = t.config /\ t2.agent = t.agent /\ t2.candidate = t.candidate
      /\ t2.ledger = t.ledger /\ t2.doc = t.doc
  BY SameHasRun DEF IsTables, PgEmpty
<1>5. /\ Writes(s, u, Manifest) /\ u.dirs = s.dirs /\ u.files[Manifest] = runToManifest(x)
      /\ Manifest \in DOMAIN u.files
  BY SameHasRun DEF Overwrite, Set, Writes, IsTree
<1>6. Manifest = <<"r1", "manifest.json">>
  BY PathsSpelled DEF Manifest
<1> HIDE DEF t2, u
<1>7. RunSame(u, t2)
  <2>1. DOMAIN t2.run = {"r1"} /\ t2.run["r1"] = RunRow(x)
    BY <1>4 DEF Set, Same, RunSame
  <2> QED BY <2>1, <1>5 DEF Same, RunSame, Has
<1>8. Ids(u) = Ids(s)
  BY <1>5 DEF Ids
<1>9. \A e : /\ Manifest # Meta(e) /\ Manifest # In(Dir(e), "brief.md")
             /\ Manifest # In(Dir(e), "report.md") /\ Manifest # In(Dir(e), "settings.json")
             /\ Manifest # <<"r1", "agents", e>>
  BY <1>6, PathsSpelled DEF Meta, Dir
<1>10. Len(Manifest) = 2 /\ Manifest # <<"r1", "checkpoint_candidates.jsonl">>
       /\ Manifest # <<"r1", "ledger.jsonl">>
  BY <1>6
<1>11. Named(t2, "r1") = Named(t, "r1") /\ DocsKeptIn(t, t2)
  BY <1>4 DEF Named, DocsKeptIn, PgReadBrief, PgReadReport, readDoc
<1> HIDE DEF Manifest
<1> USE DEF Same
<1>12. IdsSame(u, t2)
  BY <1>4, <1>8, IdsKept
<1>13. RecordsSame(u, t2)
  BY <1>4, <1>5, <1>8, <1>9, RecordsKept
<1>14. DocsSame(u, t2)
  BY <1>4, <1>5, <1>9, <1>11, DocsKept DEF DocsKeptIn
<1>15. ConfigsSame(u, t2)
  BY <1>4, <1>5, <1>8, <1>9, ConfigsKept
<1>16. AgentsSame(u, t2)
  BY <1>4, <1>5, <1>9, AgentsKept
<1>17. LinesSame(u, t2)
  BY <1>4, <1>5, <1>10, LinesKept
<1>18. NotesSame(u, t2)
  BY <1>5, <1>10, <1>11, NotesKept
<1>19. FilesOfRun(u)
  BY <1>5, <1>10, FilesOfRunKept
<1>20. Same(u, t2)
  BY <1>4, <1>5, <1>7, <1>12, <1>13, <1>14, <1>15, <1>16, <1>17, <1>18, <1>19 DEF Writes
<1> QED BY <1>2, <1>3, <1>20, Answers

\* The next id is the same in both, or there is none.
LEMMA AllocKeepsSame ==
    ASSUME NEW s, NEW t, Same(s, t)
    PROVE  LET got == FsAllocDispatch(s, "r1") IN
           IF got.ans = Err THEN got.store = s ELSE Same(got.store, PgAllocDispatch(t, "r1").store)
<1>1. PICK k \in 0..MaxDispatch : Ids(s) = 1..k /\ Get(t.seq, "r1", 1) = k + 1
  BY DEF Same, IdsSame
<1>2. MaxDispatch \in Nat /\ k \in Nat
  BY RecordsAssumption
<1> DEFINE n == k + 1
<1>3. Cardinality({d \in 1..MaxDispatch : DispatchDir("r1", d) \in s.dirs}) + 1 = n
  <2>1. {d \in 1..MaxDispatch : DispatchDir("r1", d) \in s.dirs} = 1..k
    BY <1>1 DEF Ids, Dir
  <2>2. Cardinality(1..k) = k
    BY <1>2, FS_Interval
  <2> QED BY <2>1, <2>2
<1>4. CASE k = MaxDispatch
  <2>1. n > MaxDispatch
    BY <1>2, <1>4
  <2>2. FsAllocDispatch(s, "r1") = Fail(s)
    BY <1>3, <2>1 DEF FsAllocDispatch
  <2> QED BY <2>2, Answers
<1>5. CASE k # MaxDispatch
  <2>1. n \in 1..MaxDispatch /\ n \notin 1..k /\ ~ (n > MaxDispatch) /\ 1..n = (1..k) \cup {n}
        /\ n \in 0..MaxDispatch
    BY <1>2, <1>5
  <2>2. Dir(n) \notin s.dirs
    BY <1>1, <2>1 DEF Ids
  <2> DEFINE u == [s EXCEPT !.dirs = @ \cup {Dir(n)}]
             t2 == [t EXCEPT !.seq = Set(@, "r1", n + 1),
                             !.dispatch = SetOnce(@, <<"r1", n>>, Placeholder(n))]
  <2>3. FsAllocDispatch(s, "r1") = Answer(u, n)
    BY <1>3, <2>1, <2>2 DEF FsAllocDispatch, Same, RunSame, Dir
  <2>4. PgAllocDispatch(t, "r1").store = t2
    <3>1. Get(t.seq, "r1", 1) = n /\ ~ (n > MaxDispatch) /\ RunExists(t, "r1")
      BY <1>1, <2>1, SameHasRun
    <3> HIDE DEF n
    <3>2. PgAllocDispatch(t, "r1") = Answer(t2, n)
      BY <3>1 DEF PgAllocDispatch
    <3> QED BY <3>2, Answers
  <2>5. /\ IsTables(t2) /\ t2.run = t.run /\ t2.seq = Set(t.seq, "r1", n + 1)
        /\ t2.dispatch = SetOnce(t.dispatch, <<"r1", n>>, Placeholder(n))
        /\ t2.config = t.config /\ t2.agent = t.agent /\ t2.candidate = t.candidate
        /\ t2.ledger = t.ledger /\ t2.doc = t.doc
    BY SameHasRun DEF IsTables, PgEmpty
  <2>6. IsTree(u) /\ u.dirs = s.dirs \cup {Dir(n)} /\ u.files = s.files
    BY SameHasRun DEF IsTree
  <2>7. Manifest \in DOMAIN s.files
    BY DEF Same, RunSame, Has
  <2>8. Manifest = <<"r1", "manifest.json">>
    BY PathsSpelled DEF Manifest
  <2> HIDE DEF n, u, t2
  <2>9. Writes(s, u, Manifest)
    BY <2>6, <2>7 DEF Writes
  <2>10. Ids(u) = Ids(s) \cup {n}
    <3>1. \A d : Dir(d) = Dir(n) <=> d = n
      BY DEF Dir, DispatchDir
    <3> QED BY <2>1, <2>6, <3>1 DEF Ids
  <2>11. RunSame(u, t2)
    BY <2>5, <2>6 DEF Same, RunSame, Has
  <2>12. IdsSame(u, t2)
    <3>1. Get(t2.seq, "r1", 1) = n + 1
      BY <2>5 DEF Get, Set
    <3>2. Ids(u) = 1..n
      BY <1>1, <2>1, <2>10
    <3> QED BY <2>1, <3>1, <3>2 DEF IdsSame
  <2>13. /\ DOMAIN t2.dispatch = DOMAIN t.dispatch \cup {<<"r1", n>>}
         /\ \A x \in DOMAIN t.dispatch : t2.dispatch[x] = t.dispatch[x]
    BY <2>5 DEF SetOnce, Set
  <2>14. /\ \A x \in DOMAIN t2.dispatch : \E d \in Ids(u) \cup {Root} : x = <<"r1", d>>
         /\ \A d \in Ids(u) : <<"r1", d>> \in DOMAIN t2.dispatch
    BY <2>10, <2>13 DEF Same, RecordsSame
  <2>15. ASSUME <<"r1", Root>> \in DOMAIN t2.dispatch PROVE Has(u, Meta(Root))
    <3>1. n # Root
      BY <2>1, RootIsNone
    <3>2. <<"r1", Root>> \in DOMAIN t.dispatch
      BY <2>13, <2>15, <3>1
    <3> QED BY <3>2, <2>6 DEF Same, RecordsSame, Has
  <2>16. ASSUME NEW d \in DispatchId, Has(u, Meta(d))
         PROVE  /\ Dir(d) \in u.dirs
                /\ u.files[Meta(d)] \in Writings(d)
                /\ <<"r1", d>> \in DOMAIN t2.dispatch
                /\ t2.dispatch[<<"r1", d>>] = [u.files[Meta(d)] EXCEPT !.usage = UsageShown(@)]
    <3>1. Has(s, Meta(d)) /\ u.files[Meta(d)] = s.files[Meta(d)]
      BY <2>6, <2>16 DEF Has
    <3>2. /\ Dir(d) \in s.dirs /\ s.files[Meta(d)] \in Writings(d)
          /\ <<"r1", d>> \in DOMAIN t.dispatch
          /\ t.dispatch[<<"r1", d>>] = [s.files[Meta(d)] EXCEPT !.usage = UsageShown(@)]
      BY <3>1 DEF Same, RecordsSame
    <3> QED BY <3>1, <3>2, <2>6, <2>13
  <2>17. RecordsSame(u, t2)
    BY <2>14, <2>15, <2>16 DEF RecordsSame
  <2>18. \A e : /\ Manifest # In(Dir(e), "brief.md")
                /\ Manifest # In(Dir(e), "report.md") /\ Manifest # In(Dir(e), "settings.json")
                /\ Manifest # <<"r1", "agents", e>>
    BY <2>8, PathsSpelled DEF Dir
  <2>19. Len(Manifest) = 2 /\ Manifest # <<"r1", "checkpoint_candidates.jsonl">>
         /\ Manifest # <<"r1", "ledger.jsonl">>
    BY <2>8
  <2>20. Named(t2, "r1") = Named(t, "r1") /\ DocsKeptIn(t, t2)
    BY <2>5 DEF Named, DocsKeptIn, PgReadBrief, PgReadReport, readDoc
  <2> HIDE DEF Manifest
  <2> USE DEF Same
  <2>21. DocsSame(u, t2)
    BY <2>9, <2>18, <2>20, DocsKept DEF DocsKeptIn
  <2>22. ConfigsSame(u, t2)
    BY <2>5, <2>9, <2>10, <2>18, ConfigsKept
  <2>23. AgentsSame(u, t2)
    BY <2>5, <2>9, <2>18, AgentsKept
  <2>24. LinesSame(u, t2)
    BY <2>5, <2>9, <2>19, LinesKept
  <2>25. NotesSame(u, t2)
    BY <2>9, <2>19, <2>20, NotesKept
  <2>26. FilesOfRun(u)
    BY <2>9, <2>19, FilesOfRunKept
  <2>27. Same(u, t2)
    BY <2>5, <2>6, <2>11, <2>12, <2>17, <2>21, <2>22, <2>23, <2>24, <2>25, <2>26
  <2> QED BY <2>3, <2>4, <2>27, Answers
<1> QED BY <1>4, <1>5

\* The first call of a session makes the run in both.
LEMMA CreateKeepsSame ==
    LET got == FsCreateRun(FsEmpty, R1) IN
    got.ans # Err /\ Same(got.store, PgCreateRun(PgEmpty, R1).store)
<1> DEFINE u == [dirs |-> {<<"r1">>, <<"r1", "audit">>, <<"r1", "notes">>, <<"r1", "dispatches">>},
                 files |-> Set(<< >>, Manifest, runToManifest(R1))]
           t2 == [PgEmpty EXCEPT !.run = Set(<< >>, "r1", RunRow(R1))]
<1>1. R1.id = "r1" /\ R1.status = "running" /\ [R1 EXCEPT !.status = "running"] = R1
  <2>1. R1.id = "r1" /\ R1.status = "running"
    BY DEF R1
  <2> DEFINE x == [R1 EXCEPT !.status = "running"]
  <2>2. DOMAIN x = DOMAIN R1 /\ \A f \in DOMAIN R1 : x[f] = R1[f]
    BY <2>1
  <2>3. x = [f \in DOMAIN R1 |-> R1[f]] /\ R1 = [f \in DOMAIN R1 |-> R1[f]]
    BY <2>2 DEF R1
  <2> QED BY <2>1, <2>3
<1>2. RunDir("r1") = <<"r1">> /\ \A n : In(RunDir("r1"), n) = <<"r1", n>>
  BY PathsSpelled DEF RunDir
<1> DEFINE made == {<<"r1">>, <<"r1", "audit">>, <<"r1", "notes">>, <<"r1", "dispatches">>}
           c == [dirs |-> made, files |-> << >>]
<1>3. CreateRunWithID(FsEmpty, "r1") = c
  <2>1. {} \cup {RunDir("r1")} \cup {In(RunDir("r1"), n) : n \in {"audit", "notes", "dispatches"}} = made
    BY <1>2
  <2>2. CreateRunWithID(FsEmpty, "r1") = [FsEmpty EXCEPT !.dirs = made]
    <3> HIDE DEF made
    <3> QED BY <2>1 DEF CreateRunWithID, FsEmpty
  <2> HIDE DEF made
  <2> QED BY <2>2, TreeEffect DEF FsEmpty
<1>4. FsCreateRun(FsEmpty, R1) = Done(u)
  <2>1. RunDir(R1.id) \in c.dirs
    BY <1>1, <1>2
  <2>2. Overwrite(c, Manifest, runToManifest(R1)) = u
    <3>1. u = [dirs |-> made, files |-> Set(<< >>, Manifest, runToManifest(R1))]
      OBVIOUS
    <3> HIDE DEF made, u
    <3> QED BY <3>1, TreeEffect DEF Overwrite
  <2> QED BY <1>1, <1>3, <2>1, <2>2 DEF FsCreateRun, WriteManifest, Manifest
<1>5. PgCreateRun(PgEmpty, R1).store = t2
  BY <1>1, Answers DEF PgCreateRun, RunExists, PgEmpty
<1>6. /\ IsTree(u) /\ DOMAIN u.files = {Manifest} /\ u.files[Manifest] = runToManifest(R1)
      /\ u.dirs = {<<"r1">>, <<"r1", "audit">>, <<"r1", "notes">>, <<"r1", "dispatches">>}
  BY DEF IsTree, Set
<1>7. /\ IsTables(t2) /\ DOMAIN t2.run = {"r1"} /\ t2.run["r1"] = RunRow(R1)
      /\ t2.seq = << >> /\ t2.dispatch = << >> /\ t2.config = << >> /\ t2.agent = << >>
      /\ t2.candidate = << >> /\ t2.ledger = << >> /\ t2.doc = << >>
  BY DEF IsTables, PgEmpty, Set
<1>8. Manifest = <<"r1", "manifest.json">> /\ DOMAIN << >> = {} /\ "r1" \notin DOMAIN << >>
  BY PathsSpelled DEF Manifest
<1> HIDE DEF u, t2
<1>9. RunSame(u, t2)
  BY <1>1, <1>2, <1>6, <1>7 DEF RunSame, Has
<1>10. Ids(u) = {}
  <2>1. \A d : Len(Dir(d)) = 3
    BY DEF Dir, DispatchDir
  <2>2. Len(<<"r1">>) = 1 /\ \A n : Len(<<"r1", n>>) = 2
    OBVIOUS
  <2>3. \A d : Dir(d) \notin u.dirs
    BY <1>6, <2>1, <2>2
  <2> QED BY <2>3 DEF Ids
<1>11. IdsSame(u, t2)
  <2>1. Get(t2.seq, "r1", 1) = 0 + 1
    BY <1>7, <1>8 DEF Get
  <2>2. 0 \in 0..MaxDispatch /\ 1..0 = {}
    BY RecordsAssumption
  <2> QED BY <1>10, <2>1, <2>2 DEF IdsSame
<1>12. \A d, n : ~ Has(u, In(Dir(d), n)) /\ ~ Has(u, Meta(d))
  BY <1>6, <1>8, PathsSpelled DEF Has, Dir, Meta
<1>13. RecordsSame(u, t2)
  BY <1>7, <1>8, <1>10, <1>12 DEF RecordsSame
<1>14. DocsSame(u, t2)
  BY <1>7, <1>8, <1>12 DEF DocsSame, FsReadBrief, FsReadReport, ReadFile, PgReadBrief,
     PgReadReport, readDoc, Dir, Ok, Err
<1>15. ConfigsSame(u, t2)
  BY <1>7, <1>8, <1>12 DEF ConfigsSame
<1>16. AgentsSame(u, t2)
  BY <1>6, <1>7, <1>8 DEF AgentsSame, Has
<1>17. LinesSame(u, t2)
  <2>1. In(RunDir("r1"), "checkpoint_candidates.jsonl") # Manifest /\ In(RunDir("r1"), "ledger.jsonl") # Manifest
    BY <1>2, <1>8
  <2>2. FsListCheckpointCandidates(u, "r1") = << >> /\ FsListLedgerEvents(u, "r1") = << >>
    BY <1>6, <2>1 DEF FsListCheckpointCandidates, FsListLedgerEvents, Get
  <2>3. PgListCheckpointCandidates(t2, "r1") = << >> /\ PgListLedgerEvents(t2, "r1") = << >>
    BY <1>7, <1>8 DEF PgListCheckpointCandidates, PgListLedgerEvents, LinesOf, Get
  <2>4. WithUsageShown(<< >>) = << >> /\ << >> \in Seq(Event)
    BY DEF WithUsageShown
  <2> QED BY <2>2, <2>3, <2>4 DEF LinesSame
<1>18. NotesSame(u, t2)
  BY <1>6, <1>7, <1>8 DEF NotesSame, Notes, Named
<1>19. FilesOfRun(u)
  BY <1>6, <1>8 DEF FilesOfRun
<1> QED BY <1>4, <1>5, <1>6, <1>7, <1>9, <1>11, <1>13, <1>14, <1>15, <1>16, <1>17, <1>18, <1>19, Answers
        DEF Same
AgentRunOf(id, st) == [id |-> id, status |-> st, usage |-> IF st = "" THEN "zeros" ELSE "counts"]

\* An agent, new or again, a status that is not given is the same default.
LEMMA AgentKeepsSame ==
    ASSUME NEW s, NEW t, Same(s, t), NEW id \in AgentId, NEW st \in {"", "completed"}
    PROVE  LET got == FsWriteAgentRun(s, "r1", AgentRunOf(id, st)) IN
           got.ans # Err /\ Same(got.store, PgWriteAgentRun(t, "r1", AgentRunOf(id, st)).store)
<1> DEFINE a == AgentRunOf(id, st)
           status == IF st = "" THEN "spawned" ELSE st
           v == [a EXCEPT !.status = status]
           row == [a EXCEPT !.status = status, !.usage = UsageShown(@)]
           p == <<"r1", "agents", id>>
           u == Put(s, p, v)
           t2 == [t EXCEPT !.agent = Set(@, <<"r1", id>>, row)]
<1>1. a.id = id /\ id # "" /\ a.status = st /\ ValidAgentRunStatus(status)
  BY DEF AgentRunOf, AgentId, ValidAgentRunStatus
<1>2. row = [v EXCEPT !.usage = UsageShown(@)]
  BY DEF AgentRunOf
<1> HIDE DEF a, v, row
<1>3. FsWriteAgentRun(s, "r1", a) = Done(u)
  BY <1>1 DEF FsWriteAgentRun, v
<1>4. PgWriteAgentRun(t, "r1", a).store = t2
  BY <1>1, SameHasRun, Answers DEF PgWriteAgentRun, row
<1>5. /\ IsTables(t2) /\ t2.run = t.run /\ t2.seq = t.seq /\ t2.dispatch = t.dispatch
      /\ t2.config = t.config /\ t2.agent = Set(t.agent, <<"r1", id>>, row)
      /\ t2.candidate = t.candidate
      /\ t2.ledger = t.ledger /\ t2.doc = t.doc
  BY SameHasRun DEF IsTables, PgEmpty
<1>6. p # Manifest /\ Len(p) = 3 /\ p[2] = "agents"
      /\ p # <<"r1", "checkpoint_candidates.jsonl">> /\ p # <<"r1", "ledger.jsonl">>
  BY ManifestSpelled
<1>7. \A b \in AgentId : (p = <<"r1", "agents", b>> <=> b = id) /\ (<<"r1", b>> = <<"r1", id>> <=> b = id)
  OBVIOUS
<1> HIDE DEF t2
<1>8. DocsKeptIn(t, t2) /\ Named(t2, "r1") = Named(t, "r1")
  BY <1>5 DEF Named, DocsKeptIn, PgReadBrief, PgReadReport, readDoc
<1>9. /\ IsTree(u) /\ Writes(s, u, p) /\ u.files[p] = v /\ p \in DOMAIN u.files
      /\ RunSame(u, t2) /\ IdsSame(u, t2) /\ RecordsSame(u, t2) /\ DocsSame(u, t2)
      /\ ConfigsSame(u, t2)
  BY <1>5, <1>6, <1>8, RunFile
<1>10. FilesOfRun(u)
  BY <1>6, <1>9, FilesOfRunKept DEF Same
<1>11. NotesSame(u, t2)
  BY <1>6, <1>8, <1>9, NotesKept DEF Same
<1>12. LinesSame(u, t2)
  BY <1>5, <1>6, <1>9, LinesKept DEF Same
<1>13. ASSUME NEW b \in AgentId
       PROVE  /\ Has(u, <<"r1", "agents", b>>) <=> <<"r1", b>> \in DOMAIN t2.agent
              /\ Has(u, <<"r1", "agents", b>>) =>
                  t2.agent[<<"r1", b>>] = [u.files[<<"r1", "agents", b>>] EXCEPT !.usage = UsageShown(@)]
  <2>1. CASE b = id
    BY <2>1, <1>2, <1>5, <1>9 DEF Has, Set
  <2>2. CASE b # id
    <3>1. /\ Has(u, <<"r1", "agents", b>>) <=> Has(s, <<"r1", "agents", b>>)
          /\ Has(s, <<"r1", "agents", b>>) =>
                u.files[<<"r1", "agents", b>>] = s.files[<<"r1", "agents", b>>]
      BY <2>2, <1>7, <1>9 DEF Writes, Has
    <3>2. /\ <<"r1", b>> \in DOMAIN t2.agent <=> <<"r1", b>> \in DOMAIN t.agent
          /\ <<"r1", b>> \in DOMAIN t.agent => t2.agent[<<"r1", b>>] = t.agent[<<"r1", b>>]
      BY <2>2, <1>5, <1>7 DEF Set
    <3>3. /\ Has(s, <<"r1", "agents", b>>) <=> <<"r1", b>> \in DOMAIN t.agent
          /\ Has(s, <<"r1", "agents", b>>) =>
                t.agent[<<"r1", b>>] = [s.files[<<"r1", "agents", b>>] EXCEPT !.usage = UsageShown(@)]
      BY DEF Same, AgentsSame
    <3>4. CASE Has(s, <<"r1", "agents", b>>)
      BY <3>1, <3>2, <3>3, <3>4
    <3>5. CASE ~ Has(s, <<"r1", "agents", b>>)
      BY <3>1, <3>2, <3>3, <3>5
    <3> QED BY <3>4, <3>5
  <2> QED BY <2>1, <2>2
<1>14. \A k \in DOMAIN t2.agent : \E b \in AgentId : k = <<"r1", b>>
  BY <1>5 DEF Set, Same, AgentsSame
<1>15. AgentsSame(u, t2)
  BY <1>13, <1>14 DEF AgentsSame
<1>16. Same(u, t2)
  BY <1>5, <1>9, <1>10, <1>11, <1>12, <1>15 DEF Same
<1> QED BY <1>3, <1>4, <1>16, Answers DEF a

\* A row is added to the lines of a run.
LEMMA LineAdded ==
    ASSUME NEW f, NEW k, NEW v
    PROVE  LinesOf(Added(f, k, v), k) = Append(LinesOf(f, k), v)
BY DEF LinesOf, Added, Get, Set

\* A candidate, likewise.
LEMMA CandidateKeepsSame ==
    ASSUME NEW s, NEW t, Same(s, t), NEW st \in {"", "fresh"}
    PROVE  LET c   == [id |-> "c", status |-> st]
               got == FsAppendCheckpointCandidate(s, "r1", c) IN
           got.ans # Err /\ Same(got.store, PgAppendCheckpointCandidate(t, "r1", c).store)
<1> DEFINE c == [id |-> "c", status |-> st]
           status == IF st = "" THEN "proposed" ELSE st
           v == [c EXCEPT !.status = status]
           p == <<"r1", "checkpoint_candidates.jsonl">>
           lines == Get(s.files, p, << >>)
           u == Put(s, p, Append(lines, v))
           t2 == [t EXCEPT !.candidate = Added(@, "r1", v)]
<1>1. c.status = st /\ ValidCheckpointStatus(status)
  BY DEF ValidCheckpointStatus
<1>2. In(RunDir("r1"), "checkpoint_candidates.jsonl") = p /\ In(RunDir("r1"), "ledger.jsonl") = <<"r1", "ledger.jsonl">>
  BY PathsSpelled
<1> HIDE DEF c, v
<1>3. FsAppendCheckpointCandidate(s, "r1", c) = Done(u)
  BY <1>1, <1>2 DEF FsAppendCheckpointCandidate, AppendLine, v
<1>4. PgAppendCheckpointCandidate(t, "r1", c).store = t2
  BY <1>1, SameHasRun, Answers DEF PgAppendCheckpointCandidate, v
<1>5. /\ IsTables(t2) /\ t2.run = t.run /\ t2.seq = t.seq /\ t2.dispatch = t.dispatch
      /\ t2.config = t.config /\ t2.agent = t.agent
      /\ t2.candidate = Added(t.candidate, "r1", v)
      /\ t2.ledger = t.ledger /\ t2.doc = t.doc
  BY SameHasRun DEF IsTables, PgEmpty
<1>6. p # Manifest /\ Len(p) = 2 /\ p[2] # "manifest.json" /\ p # <<"r1", "ledger.jsonl">>
      /\ \A b : p # <<"r1", "agents", b>>
  BY ManifestSpelled
<1> HIDE DEF t2, lines
<1>7. DocsKeptIn(t, t2) /\ Named(t2, "r1") = Named(t, "r1")
  BY <1>5 DEF Named, DocsKeptIn, PgReadBrief, PgReadReport, readDoc
<1>8. /\ IsTree(u) /\ Writes(s, u, p) /\ u.files[p] = Append(lines, v) /\ p \in DOMAIN u.files
      /\ RunSame(u, t2) /\ IdsSame(u, t2) /\ RecordsSame(u, t2) /\ DocsSame(u, t2)
      /\ ConfigsSame(u, t2)
  BY <1>5, <1>6, <1>7, RunFile
<1>9. FilesOfRun(u)
  BY <1>6, <1>8, FilesOfRunKept DEF Same
<1>10. NotesSame(u, t2)
  BY <1>6, <1>7, <1>8, NotesKept DEF Same
<1>11. AgentsSame(u, t2)
  BY <1>5, <1>6, <1>8, AgentsKept DEF Same
<1>12. FsListCheckpointCandidates(u, "r1") = Append(FsListCheckpointCandidates(s, "r1"), v)
  BY <1>2, <1>8 DEF FsListCheckpointCandidates, Get, lines
<1>13. PgListCheckpointCandidates(t2, "r1") = Append(PgListCheckpointCandidates(t, "r1"), v)
  <2>1. LinesOf(Added(t.candidate, "r1", v), "r1") = Append(LinesOf(t.candidate, "r1"), v)
    BY LineAdded
  <2> QED BY <1>5, <2>1 DEF PgListCheckpointCandidates
<1>14. FsListLedgerEvents(u, "r1") = FsListLedgerEvents(s, "r1")
       /\ PgListLedgerEvents(t2, "r1") = PgListLedgerEvents(t, "r1")
  BY <1>2, <1>5, <1>6, <1>8 DEF FsListLedgerEvents, PgListLedgerEvents, Writes, Get
<1>15. LinesSame(u, t2)
  BY <1>12, <1>13, <1>14 DEF Same, LinesSame
<1>16. Same(u, t2)
  BY <1>5, <1>8, <1>9, <1>10, <1>11, <1>15 DEF Same
<1> QED BY <1>3, <1>4, <1>16, Answers DEF c

\* An event is shown the same before and after it is added.
LEMMA ShownAppended ==
    ASSUME NEW l \in Seq(Event), NEW e \in Event
    PROVE  /\ Append(l, e) \in Seq(Event)
           /\ WithUsageShown(Append(l, e))
                = Append(WithUsageShown(l), [e EXCEPT !.usage = UsageShown(@)])
<1> DEFINE S == [kind : {"agent_started", "agent_completed"}, usage : {"nil", "counts"}]
           Shows(x) == [x EXCEPT !.usage = UsageShown(@)]
           a == Append(l, e)
           left == WithUsageShown(a)
           right == Append(WithUsageShown(l), Shows(e))
<1>1. \A x \in Event : Shows(x) \in S
  BY DEF Event, UsageShown
<1> HIDE DEF Shows, S
<1>2. a \in Seq(Event) /\ Len(a) = Len(l) + 1 /\ Len(l) \in Nat /\ DOMAIN a = 1..Len(a)
      /\ DOMAIN l = 1..Len(l)
  OBVIOUS
<1>3. \A i \in 1..Len(a) : a[i] \in Event /\ a[i] = IF i <= Len(l) THEN l[i] ELSE e
  <2>1. \A i \in 1..(Len(l) + 1) : a[i] = IF i <= Len(l) THEN l[i] ELSE e
    BY AppendProperties
  <2>2. \A i \in 1..Len(a) : a[i] \in Event
    BY <1>2, ElementOfSeq
  <2> QED BY <1>2, <2>1, <2>2
<1>4. WithUsageShown(l) = [i \in 1..Len(l) |-> Shows(l[i])] /\ left = [i \in 1..Len(a) |-> Shows(a[i])]
  BY <1>2 DEF WithUsageShown, Shows
<1>5. \A i \in 1..Len(l) : l[i] \in Event
  BY ElementOfSeq
<1>6. WithUsageShown(l) \in Seq(S) /\ left \in Seq(S)
      /\ Len(WithUsageShown(l)) = Len(l) /\ Len(left) = Len(l) + 1
  BY <1>1, <1>2, <1>3, <1>4, <1>5
<1>7. right \in Seq(S) /\ Len(right) = Len(l) + 1
      /\ \A i \in 1..(Len(l) + 1) :
            right[i] = IF i <= Len(l) THEN WithUsageShown(l)[i] ELSE Shows(e)
  <2>1. Shows(e) \in S
    BY <1>1
  <2> QED BY <1>6, <2>1, AppendProperties
<1>8. \A i \in 1..(Len(l) + 1) : left[i] = right[i]
  BY <1>2, <1>3, <1>4, <1>7
<1> HIDE DEF left, right
<1>9. left = right
  BY <1>6, <1>7, <1>8, SeqEqual
<1> QED BY <1>2, <1>9 DEF left, right, Shows

\* An event of the ledger.
LEMMA EventKeepsSame ==
    ASSUME NEW s, NEW t, Same(s, t), NEW e \in Event
    PROVE  LET got == FsAppendLedgerEvent(s, "r1", e) IN
           got.ans # Err /\ Same(got.store, PgAppendLedgerEvent(t, "r1", e).store)
<1> DEFINE shown == [e EXCEPT !.usage = UsageShown(@)]
           p == <<"r1", "ledger.jsonl">>
           lines == Get(s.files, p, << >>)
           u == Put(s, p, Append(lines, e))
           t2 == [t EXCEPT !.ledger = Added(@, "r1", shown)]
<1>1. e.kind # ""
  BY DEF Event
<1>2. In(RunDir("r1"), "ledger.jsonl") = p
      /\ In(RunDir("r1"), "checkpoint_candidates.jsonl") = <<"r1", "checkpoint_candidates.jsonl">>
  BY PathsSpelled
<1>3. FsAppendLedgerEvent(s, "r1", e) = Done(u)
  BY <1>1, <1>2 DEF FsAppendLedgerEvent, AppendLine
<1>4. PgAppendLedgerEvent(t, "r1", e).store = t2
  BY <1>1, SameHasRun, Answers DEF PgAppendLedgerEvent
<1>5. /\ IsTables(t2) /\ t2.run = t.run /\ t2.seq = t.seq /\ t2.dispatch = t.dispatch
      /\ t2.config = t.config /\ t2.agent = t.agent /\ t2.candidate = t.candidate
      /\ t2.ledger = Added(t.ledger, "r1", shown) /\ t2.doc = t.doc
  BY SameHasRun DEF IsTables, PgEmpty
<1>6. p # Manifest /\ Len(p) = 2 /\ p[2] # "manifest.json"
      /\ p # <<"r1", "checkpoint_candidates.jsonl">> /\ \A b : p # <<"r1", "agents", b>>
  BY ManifestSpelled
<1> HIDE DEF t2, lines, shown
<1>7. DocsKeptIn(t, t2) /\ Named(t2, "r1") = Named(t, "r1")
  BY <1>5 DEF Named, DocsKeptIn, PgReadBrief, PgReadReport, readDoc
<1>8. /\ IsTree(u) /\ Writes(s, u, p) /\ u.files[p] = Append(lines, e) /\ p \in DOMAIN u.files
      /\ RunSame(u, t2) /\ IdsSame(u, t2) /\ RecordsSame(u, t2) /\ DocsSame(u, t2)
      /\ ConfigsSame(u, t2)
  BY <1>5, <1>6, <1>7, RunFile
<1>9. FilesOfRun(u)
  BY <1>6, <1>8, FilesOfRunKept DEF Same
<1>10. NotesSame(u, t2)
  BY <1>6, <1>7, <1>8, NotesKept DEF Same
<1>11. AgentsSame(u, t2)
  BY <1>5, <1>6, <1>8, AgentsKept DEF Same
<1>12. FsListLedgerEvents(u, "r1") = Append(FsListLedgerEvents(s, "r1"), e)
  BY <1>2, <1>8 DEF FsListLedgerEvents, Get, lines
<1>13. PgListLedgerEvents(t2, "r1") = Append(PgListLedgerEvents(t, "r1"), shown)
  <2>1. LinesOf(Added(t.ledger, "r1", shown), "r1") = Append(LinesOf(t.ledger, "r1"), shown)
    BY LineAdded
  <2> QED BY <1>5, <2>1 DEF PgListLedgerEvents
<1>14. FsListCheckpointCandidates(u, "r1") = FsListCheckpointCandidates(s, "r1")
       /\ PgListCheckpointCandidates(t2, "r1") = PgListCheckpointCandidates(t, "r1")
  BY <1>2, <1>5, <1>6, <1>8 DEF FsListCheckpointCandidates, PgListCheckpointCandidates, Writes, Get
<1>15. LinesSame(u, t2)
  BY <1>12, <1>13, <1>14, ShownAppended DEF Same, LinesSame, shown
<1>16. Same(u, t2)
  BY <1>5, <1>8, <1>9, <1>10, <1>11, <1>15 DEF Same
<1> QED BY <1>3, <1>4, <1>16, Answers

\* A note has the same place among the notes of both.
LEMMA NoteKeepsSame ==
    ASSUME NEW s, NEW t, Same(s, t), NEW author, NEW body
    PROVE  LET got == FsAppendNote(s, "r1", author, body) IN
           got.ans # Err /\ Same(got.store, PgAppendNote(t, "r1", author, body).store)
<1>1. PICK n : n = [at |-> Cardinality(Notes(s, "r1")) + 1, author |-> author]
  OBVIOUS
<1>2. n = [at |-> Cardinality(Named(t, "r1")) + 1, author |-> author]
  BY <1>1 DEF Same, NotesSame
<1> DEFINE p == <<"r1", "notes", n>>
           u == Put(s, p, body)
           t2 == [t EXCEPT !.doc = Set(@, <<"note", "r1", n>>, body)]
<1>3. FsAppendNote(s, "r1", author, body) = Done(u)
  BY <1>1 DEF FsAppendNote
<1>4. PgAppendNote(t, "r1", author, body).store = t2
  BY <1>2, SameHasRun, Answers DEF PgAppendNote, upsertDoc
<1>5. /\ IsTables(t2) /\ t2.run = t.run /\ t2.seq = t.seq /\ t2.dispatch = t.dispatch
      /\ t2.config = t.config /\ t2.agent = t.agent /\ t2.candidate = t.candidate
      /\ t2.ledger = t.ledger /\ t2.doc = Set(t.doc, <<"note", "r1", n>>, body)
  BY SameHasRun DEF IsTables, PgEmpty
<1>6. /\ p # Manifest /\ Len(p) = 3 /\ p[1] = "r1" /\ p[2] = "notes" /\ p[3] = n
      /\ p # <<"r1", "checkpoint_candidates.jsonl">> /\ p # <<"r1", "ledger.jsonl">>
      /\ \A b : p # <<"r1", "agents", b>>
  BY ManifestSpelled
<1> HIDE DEF t2
<1>7. DocsKeptIn(t, t2)
  BY <1>5 DEF DocsKeptIn, PgReadBrief, PgReadReport, readDoc, Set
<1>8. /\ IsTree(u) /\ Writes(s, u, p) /\ p \in DOMAIN u.files
      /\ RunSame(u, t2) /\ IdsSame(u, t2) /\ RecordsSame(u, t2) /\ DocsSame(u, t2)
      /\ ConfigsSame(u, t2)
  BY <1>5, <1>6, <1>7, RunFile
<1> HIDE DEF u, p
<1>9. FilesOfRun(u)
  BY <1>6, <1>8, FilesOfRunKept DEF Same
<1>10. Notes(u, "r1") = Notes(s, "r1") \cup {n}
  BY <1>6, <1>8 DEF Notes, Writes
<1>11. Named(t2, "r1") = Named(t, "r1") \cup {n}
  <2>1. DOMAIN t2.doc = DOMAIN t.doc \cup {<<"note", "r1", n>>}
    BY <1>5 DEF Set
  <2>2. \A k : k = <<"note", "r1", n>> => k[1] = "note" /\ k[2] = "r1" /\ k[3] = n
    OBVIOUS
  <2> QED BY <2>1, <2>2 DEF Named
<1>12. NotesSame(u, t2)
  BY <1>10, <1>11 DEF Same, NotesSame
<1>13. AgentsSame(u, t2)
  BY <1>5, <1>6, <1>8, AgentsKept DEF Same
<1>14. LinesSame(u, t2)
  BY <1>5, <1>6, <1>8, LinesKept DEF Same
<1>15. Same(u, t2)
  BY <1>5, <1>8, <1>9, <1>12, <1>13, <1>14 DEF Same
<1> QED BY <1>3, <1>4, <1>15, Answers

-----------------------------------------------------------------------------
(* What is told of two lists of dispatches that differ in how a usage of   *)
(* zeros is stored, and so of a tree and tables that are the same.         *)

Alike(a, b) ==
    /\ a = [i \in DOMAIN a |-> a[i]] /\ b = [i \in DOMAIN b |-> b[i]]
    /\ \E n \in Nat : DOMAIN a = 1..n /\ DOMAIN b = 1..n
    /\ \A i \in DOMAIN a : /\ DOMAIN a[i] = Fields
                          /\ b[i] = [a[i] EXCEPT !.usage = UsageShown(@)]

LEMMA AlikeFields ==
    ASSUME NEW a, NEW b, Alike(a, b)
    PROVE  /\ DOMAIN b = DOMAIN a
           /\ \A i \in DOMAIN a :
                /\ b[i].id = a[i].id /\ b[i].parent = a[i].parent /\ b[i].status = a[i].status
                /\ b[i].tier = a[i].tier /\ b[i].model = a[i].model /\ b[i].cost = a[i].cost
BY DEF Alike, Fields

\* The tree is built of ids and parents.
LEMMA AlikeTree ==
    ASSUME NEW a, NEW b, Alike(a, b)
    PROVE  BuildTree(a) = BuildTree(b)
<1>1. DOMAIN b = DOMAIN a
      /\ \A i \in DOMAIN a : b[i].id = a[i].id /\ b[i].parent = a[i].parent
  BY AlikeFields
<1>2. {d.id : d \in ToSet(a)} = {d.id : d \in ToSet(b)}
  BY <1>1 DEF ToSet
<1>3. Tops(a) = Tops(b)
  <2>1. PICK ids : ids = {d.id : d \in ToSet(a)}
    OBVIOUS
  <2>2. {d.id : d \in {e \in ToSet(a) : e.parent \notin ids}}
          = {d.id : d \in {e \in ToSet(b) : e.parent \notin ids}}
    BY <1>1 DEF ToSet
  <2> QED BY <1>2, <2>1, <2>2 DEF Tops
<1>4. \A id \in DispatchId : Kids(a, id) = Kids(b, id)
  BY <1>1 DEF Kids, ToSet
<1>5. [id \in DispatchId |-> Asc(Kids(a, id))] = [id \in DispatchId |-> Asc(Kids(b, id))]
  BY <1>4
<1> QED BY <1>3, <1>5 DEF BuildTree

\* What else is told of the two lists.
LEMMA AlikeTold ==
    ASSUME NEW a, NEW b, Alike(a, b)
    PROVE  /\ WithUsageShown(a) = b
           /\ Len(a) = Len(b)
           /\ Facts(a) = Facts(b)
           /\ TotalCost(a) = TotalCost(b)
<1>1. DOMAIN b = DOMAIN a
      /\ \A i \in DOMAIN a :
            /\ b[i].status = a[i].status /\ b[i].cost = a[i].cost
            /\ b[i].tier = a[i].tier /\ b[i].model = a[i].model
  BY AlikeFields
<1>2. WithUsageShown(a) = b
  BY <1>1 DEF WithUsageShown, Alike
<1>3. Len(a) = Len(b)
  BY DEF Alike
<1>4. /\ {i \in DOMAIN a : IsActive(a[i])} = {i \in DOMAIN b : IsActive(b[i])}
      /\ {i \in DOMAIN a : IsReasonTier(a[i])} = {i \in DOMAIN b : IsReasonTier(b[i])}
  BY <1>1 DEF IsActive, IsReasonTier
<1>5. [i \in DOMAIN a |-> a[i].cost] = [i \in DOMAIN b |-> b[i].cost]
  BY <1>1
<1> QED BY <1>2, <1>3, <1>4, <1>5 DEF Facts, TotalCost

\* The dispatches that are listed, when every id has a record.
LEMMA ListsAlike ==
    ASSUME NEW s, NEW t, Agree(s, t), \A d \in Ids(s) : Has(s, Meta(d))
    PROVE  Alike(FsListDispatches(s, "r1"), PgListDispatches(t, "r1"))
<1> DEFINE S == {d \in DispatchId : Dir(d) \in s.dirs /\ Has(s, Meta(d))}
           T == {k[2] : k \in {l \in DOMAIN t.dispatch : l[1] = "r1"}}
           a == FsListDispatches(s, "r1")
           b == PgListDispatches(t, "r1")
<1>1. /\ S = T
      /\ \A d \in S : /\ DOMAIN s.files[Meta(d)] = Fields
                      /\ t.dispatch[<<"r1", d>>] = [s.files[Meta(d)] EXCEPT !.usage = UsageShown(@)]
  <2>1. CASE s = FsEmpty /\ t = PgEmpty
    BY <2>1 DEF FsEmpty, PgEmpty
  <2>2. CASE Same(s, t)
    <3>1. \A d \in S : /\ s.files[Meta(d)] \in Writings(d)
                       /\ <<"r1", d>> \in DOMAIN t.dispatch
                       /\ t.dispatch[<<"r1", d>>] = [s.files[Meta(d)] EXCEPT !.usage = UsageShown(@)]
      BY <2>2 DEF Same, RecordsSame
    <3>2. \A d \in S : DOMAIN s.files[Meta(d)] = Fields
      BY <3>1, WritingFields
    <3>3. S \subseteq T
      <4> SUFFICES ASSUME NEW d \in S PROVE d \in T
        OBVIOUS
      <4>1. <<"r1", d>> \in DOMAIN t.dispatch /\ <<"r1", d>>[1] = "r1" /\ <<"r1", d>>[2] = d
        BY <3>1
      <4> QED BY <4>1
    <3>4. T \subseteq S
      <4>1. SUFFICES ASSUME NEW k \in DOMAIN t.dispatch PROVE k[2] \in S
        OBVIOUS
      <4>2. PICK d \in Ids(s) \cup {Root} : k = <<"r1", d>>
        BY <2>2 DEF Same, RecordsSame
      <4>3. Has(s, Meta(d)) /\ d \in DispatchId
        <5>1. CASE d = Root
          BY <2>2, <4>2, <5>1, RootIsNone DEF Same, RecordsSame
        <5>2. CASE d # Root
          BY <4>2, <5>2, RootIsNone DEF Ids
        <5> QED BY <5>1, <5>2
      <4>4. Dir(d) \in s.dirs
        BY <2>2, <4>3 DEF Same, RecordsSame
      <4> QED BY <4>2, <4>3, <4>4
    <3> QED BY <3>1, <3>2, <3>3, <3>4
  <2> QED BY <2>1, <2>2 DEF Agree
<1>2. S \in SUBSET Nat /\ IsFiniteSet(S)
  <2>1. DispatchId \in SUBSET Nat /\ IsFiniteSet(DispatchId)
    BY RecordsAssumption, FS_Interval DEF DispatchId, Root
  <2> QED BY <2>1, FS_Subset
<1> HIDE DEF S, T
<1>3. PICK keys : keys = Asc(S)
  OBVIOUS
<1>4. /\ Cardinality(S) \in Nat
      /\ DOMAIN keys = 1..Cardinality(S)
      /\ \A i \in 1..Cardinality(S) : keys[i] \in S
  BY <1>2, <1>3, AscElements
<1>5. a = [i \in DOMAIN keys |-> s.files[Meta(keys[i])]]
  BY <1>3 DEF FsListDispatches, S, Dir, Meta
<1>6. b = [i \in DOMAIN keys |-> t.dispatch[<<"r1", keys[i]>>]]
  <2>1. keys = Asc(T)
    BY <1>1, <1>3
  <2> QED BY <2>1 DEF PgListDispatches, RowsOf, T
<1> HIDE DEF a, b
<1>7. /\ DOMAIN a = 1..Cardinality(S) /\ DOMAIN b = 1..Cardinality(S)
      /\ a = [i \in DOMAIN a |-> a[i]] /\ b = [i \in DOMAIN b |-> b[i]]
  BY <1>4, <1>5, <1>6
<1>8. \A i \in DOMAIN a : /\ DOMAIN a[i] = Fields
                         /\ b[i] = [a[i] EXCEPT !.usage = UsageShown(@)]
  <2> TAKE i \in DOMAIN a
  <2>1. keys[i] \in S /\ a[i] = s.files[Meta(keys[i])] /\ b[i] = t.dispatch[<<"r1", keys[i]>>]
    BY <1>4, <1>5, <1>6, <1>7
  <2> QED BY <2>1, <1>1
<1>9. Alike(a, b)
  BY <1>4, <1>7, <1>8 DEF Alike
<1> QED BY <1>9 DEF a, b
\* Records of a run.
RunFields == {"id", "task", "status", "budget", "depth", "mode"}
IsRun(f) == f = [k \in RunFields |-> f[k]]

\* Two records of a run with the same fields are one.
LEMMA RunEqual ==
    ASSUME NEW f, NEW g, IsRun(f), IsRun(g), f.id = g.id, f.task = g.task,
           f.status = g.status, f.budget = g.budget, f.depth = g.depth, f.mode = g.mode
    PROVE  f = g
<1>1. \A k \in RunFields : f[k] = g[k]
  BY DEF RunFields
<1> QED BY <1>1 DEF IsRun

\* What an assignment to a record of a run leaves of its fields.
LEMMA RunEffect ==
    ASSUME NEW f, IsRun(f), NEW x
    PROVE  /\ LET g == [f EXCEPT !.status = x] IN
              /\ IsRun(g) /\ g.status = x
              /\ g.id = f.id /\ g.task = f.task /\ g.budget = f.budget /\ g.depth = f.depth
              /\ g.mode = f.mode
           /\ LET g == RunRow(f) IN
              /\ IsRun(g) /\ g.mode = "" /\ g.depth = IF f.depth = 0 THEN DefaultMaxDepth ELSE f.depth
              /\ g.id = f.id /\ g.task = f.task /\ g.budget = f.budget
              /\ g.status = f.status
<1>1. DOMAIN f = RunFields
  BY DEF IsRun
<1> QED BY <1>1 DEF IsRun, RunFields, RunRow

LEMMA StatusEffect ==
    ASSUME NEW f, IsRun(f), NEW x, NEW g, g = [f EXCEPT !.status = x]
    PROVE  /\ IsRun(g) /\ g.status = x
           /\ g.id = f.id /\ g.budget = f.budget /\ g.depth = f.depth
BY RunEffect

LEMMA ModeEffect ==
    ASSUME NEW f, IsRun(f)
    PROVE  LET g == [f EXCEPT !.mode = ""] IN
           /\ IsRun(g) /\ g.mode = ""
           /\ g.id = f.id /\ g.task = f.task /\ g.budget = f.budget /\ g.depth = f.depth
           /\ g.status = f.status
<1>1. DOMAIN f = RunFields
  BY DEF IsRun
<1> QED BY <1>1 DEF IsRun, RunFields

LEMMA R1IsRun == IsRun(R1)
BY DEF R1, IsRun, RunFields

\* What a reader takes from a manifest that has all keys of today.
LEMMA ManifestRead ==
    ASSUME NEW x,
           DOMAIN x = {"run_id", "task", "status", "reason_budget", "max_depth", "store"},
           x.reason_budget = 3, x.max_depth = 0
    PROVE  LET m == ReadManifest(x) IN
           /\ IsRun(m) /\ m.id = x.run_id /\ m.task = x.task /\ m.status = x.status
           /\ m.budget = 3 /\ m.depth = DefaultMaxDepth /\ m.mode = x.store
<1>1. /\ Get(x, "run_id", "") = x.run_id /\ Get(x, "task", << >>) = x.task
      /\ Get(x, "status", "") = x.status
      /\ Get(x, "reason_budget", 0) = 3 /\ Get(x, "max_depth", 0) = 0
      /\ Get(x, "store", "") = x.store
  BY DEF Get
<1>2. IsRun(ReadManifest(x))
  BY DEF ReadManifest, IsRun, RunFields
<1>3. PICK m : m = ReadManifest(x)
  OBVIOUS
<1>4. /\ m.id = Get(x, "run_id", "") /\ m.task = Get(x, "task", << >>)
      /\ m.status = Get(x, "status", "") /\ m.mode = Get(x, "store", "")
  BY <1>3 DEF ReadManifest
<1>5. m.budget = IF Get(x, "reason_budget", 0) = 0 THEN Get(x, "fable_budget", 0)
                 ELSE Get(x, "reason_budget", 0)
  BY <1>3 DEF ReadManifest
<1>6. m.depth = IF Get(x, "max_depth", 0) = 0 THEN DefaultMaxDepth ELSE Get(x, "max_depth", 0)
  BY <1>3 DEF ReadManifest
<1>7. 3 # 0
  OBVIOUS
<1>8. m.budget = 3 /\ m.depth = DefaultMaxDepth
  BY <1>1, <1>5, <1>6, <1>7
<1> QED BY <1>1, <1>2, <1>3, <1>4, <1>8

\* The run, and the list of runs.
LEMMA RunsAlike ==
    ASSUME NEW s, NEW t, Agree(s, t)
    PROVE  /\ LET a == FsReadRun(s, "r1")  b == PgReadRun(t, "r1") IN
              IF a = Err THEN b = Err ELSE b = Ok([a[1] EXCEPT !.mode = ""])
           /\ Alike(FsListDispatches(s, "r1"), PgListDispatches(t, "r1")) =>
                FsListRuns(s) = PgListRuns(t)
<1>1. CASE s = FsEmpty /\ t = PgEmpty
  <2>1. DOMAIN s.files = {} /\ DOMAIN t.run = {}
    BY <1>1 DEF FsEmpty, PgEmpty
  <2>2. FsReadRun(s, "r1") = Err /\ PgReadRun(t, "r1") = Err
    BY <2>1 DEF FsReadRun, PgReadRun, Has, RunExists
  <2>3. FsListRuns(s) = {} /\ PgListRuns(t) = {}
    BY <2>1 DEF FsListRuns, PgListRuns
  <2> QED BY <2>2, <2>3
<1>2. CASE Same(s, t)
  <2>1. PICK st \in {"running", "completed", "failed"} :
          /\ s.files[Manifest] = runToManifest([R1 EXCEPT !.status = st])
          /\ t.run["r1"] = RunRow([R1 EXCEPT !.status = st])
    BY <1>2 DEF Same, RunSame
  <2>2. Manifest \in DOMAIN s.files /\ DOMAIN t.run = {"r1"}
    BY <1>2 DEF Same, RunSame, Has
  <2>3. PICK r : r = [R1 EXCEPT !.status = st]
    OBVIOUS
  <2>4. IsRun(r) /\ r.id = "r1" /\ r.status = st /\ r.budget = 3 /\ r.depth = 0
    <3>1. R1.id = "r1" /\ R1.budget = 3 /\ R1.depth = 0
      BY DEF R1
    <3>2. /\ IsRun(r) /\ r.status = st
          /\ r.id = R1.id /\ r.budget = R1.budget /\ r.depth = R1.depth
      BY <2>3, R1IsRun, StatusEffect
    <3> QED BY <3>1, <3>2
  <2>5. PICK m : m = ReadManifest(s.files[Manifest])
    OBVIOUS
  <2>10. /\ IsRun(m) /\ m.id = "r1" /\ m.task = r.task /\ m.status = st
         /\ m.budget = 3 /\ m.depth = DefaultMaxDepth
    <3>1. PICK x : x = s.files[Manifest]
      OBVIOUS
    <3>2. x = [run_id |-> r.id, task |-> r.task, status |-> r.status, reason_budget |-> r.budget,
               max_depth |-> r.depth, store |-> r.mode]
      BY <2>1, <2>3, <3>1 DEF runToManifest
    <3>3. /\ DOMAIN x = {"run_id", "task", "status", "reason_budget", "max_depth", "store"}
          /\ x.run_id = r.id /\ x.task = r.task /\ x.status = r.status
          /\ x.reason_budget = r.budget /\ x.max_depth = r.depth
      BY <3>2
    <3> QED BY <2>4, <2>5, <3>1, <3>3, ManifestRead
  <2>6. FsReadRun(s, "r1") = Ok(m) /\ Ok(m)[1] = m /\ Ok(m) # Err
    BY <2>2, <2>5 DEF FsReadRun, Has, Manifest, Ok, Err
  <2>7. t.run["r1"] = [m EXCEPT !.mode = ""]
    <3>1. PICK g : g = RunRow(r)
      OBVIOUS
    <3>2. PICK h : h = [m EXCEPT !.mode = ""]
      OBVIOUS
    <3>3. /\ IsRun(g) /\ g.mode = "" /\ g.depth = DefaultMaxDepth /\ g.id = "r1"
          /\ g.task = r.task /\ g.budget = 3 /\ g.status = st
      BY <2>4, <3>1, RunEffect
    <3>4. /\ IsRun(h) /\ h.mode = "" /\ h.depth = DefaultMaxDepth /\ h.id = "r1"
          /\ h.task = r.task /\ h.budget = 3 /\ h.status = st
      <4>1. /\ IsRun(h) /\ h.mode = "" /\ h.depth = m.depth /\ h.id = m.id
            /\ h.task = m.task /\ h.budget = m.budget /\ h.status = m.status
        BY <2>10, <3>2, ModeEffect
      <4> QED BY <2>10, <4>1
    <3>5. g = h
      BY <3>3, <3>4, RunEqual
    <3> QED BY <2>1, <2>3, <3>1, <3>2, <3>5
  <2>8. PgReadRun(t, "r1") = Ok(t.run["r1"])
    BY <2>2 DEF PgReadRun, RunExists
  <2>9. ASSUME Alike(FsListDispatches(s, "r1"), PgListDispatches(t, "r1"))
        PROVE  FsListRuns(s) = PgListRuns(t)
    <3>1. {q[1] : q \in {p \in DOMAIN s.files : Len(p) = 2 /\ p[2] = "manifest.json"}} = {"r1"}
      <4>1. \A p \in DOMAIN s.files : Len(p) = 2 /\ p[2] = "manifest.json" <=> p = Manifest
        BY <1>2, ManifestSpelled DEF Same, FilesOfRun
      <4>2. Manifest[1] = "r1"
        BY ManifestSpelled
      <4> QED BY <2>2, <4>1, <4>2
    <3>2. FsListRuns(s) =
            {[run |-> FsReadRun(s, "r1")[1].id, status |-> FsReadRun(s, "r1")[1].status,
              task |-> FirstLine(FsReadRun(s, "r1")[1].task),
              count |-> Len(FsListDispatches(s, "r1")),
              cost |-> TotalCost(FsListDispatches(s, "r1"))]}
      BY <3>1 DEF FsListRuns
    <3>3. PgListRuns(t) =
            {[run |-> "r1", status |-> t.run["r1"].status, task |-> FirstLine(t.run["r1"].task),
              count |-> Len(PgListDispatches(t, "r1")),
              cost |-> TotalCost(PgListDispatches(t, "r1"))]}
      BY <2>2 DEF PgListRuns
    <3>4. /\ FsReadRun(s, "r1")[1].id = "r1" /\ FsReadRun(s, "r1")[1].status = t.run["r1"].status
          /\ FsReadRun(s, "r1")[1].task = t.run["r1"].task
      <4>1. PICK h : h = [m EXCEPT !.mode = ""]
        OBVIOUS
      <4>2. h.status = m.status /\ h.task = m.task
        BY <2>10, <4>1, ModeEffect
      <4> QED BY <2>6, <2>7, <2>10, <4>1, <4>2
    <3> QED BY <2>9, <3>2, <3>3, <3>4, AlikeTold
  <2> QED BY <2>6, <2>7, <2>8, <2>9
<1> QED BY <1>1, <1>2 DEF Agree

\* The documents and configurations of the ids.
LEMMA DocsAlike ==
    ASSUME NEW s, NEW t, Agree(s, t), NEW d \in Ids(s)
    PROVE  /\ FsReadBrief(s, "r1", d) = PgReadBrief(t, "r1", d)
           /\ FsReadReport(s, "r1", d) = PgReadReport(t, "r1", d)
           /\ FsReadAdapterConfig(s, "r1", d) # Err =>
                 FsReadAdapterConfig(s, "r1", d) = PgReadAdapterConfig(t, "r1", d)
<1>1. CASE s = FsEmpty /\ t = PgEmpty
  BY <1>1 DEF Ids, FsEmpty
<1>2. CASE Same(s, t)
  <2>1. d \in 1..MaxDispatch /\ d \in DispatchId
    BY RootIsNone DEF Ids
  <2>2. ASSUME FsReadAdapterConfig(s, "r1", d) # Err
        PROVE  FsReadAdapterConfig(s, "r1", d) = PgReadAdapterConfig(t, "r1", d)
    <3>1. /\ Has(s, In(Dir(d), "settings.json"))
          /\ FsReadAdapterConfig(s, "r1", d) = Ok(s.files[In(Dir(d), "settings.json")])
      BY <2>2 DEF FsReadAdapterConfig, ReadFile, Dir
    <3>2. /\ <<"r1", d>> \in DOMAIN t.config
          /\ t.config[<<"r1", d>>] = s.files[In(Dir(d), "settings.json")]
      BY <1>2, <2>1, <3>1 DEF Same, ConfigsSame
    <3>3. <<"r1", d>> \in DOMAIN t.dispatch
      BY <1>2 DEF Same, RecordsSame
    <3> QED BY <3>1, <3>2, <3>3 DEF PgReadAdapterConfig, Get
  <2> QED BY <1>2, <2>1, <2>2 DEF Same, DocsSame
<1> QED BY <1>1, <1>2 DEF Agree

\* Agents, candidates, events and notes.
LEMMA AgentsAlike ==
    ASSUME NEW s, NEW t, Agree(s, t)
    PROVE  /\ {[a EXCEPT !.usage = UsageShown(@)] : a \in FsListAgentRuns(s, "r1")}
                 = PgListAgentRuns(t, "r1")
           /\ FsListCheckpointCandidates(s, "r1") = PgListCheckpointCandidates(t, "r1")
           /\ WithUsageShown(FsListLedgerEvents(s, "r1")) = PgListLedgerEvents(t, "r1")
           /\ Notes(s, "r1") = Named(t, "r1")
<1>1. CASE s = FsEmpty /\ t = PgEmpty
  <2>1. /\ s.files = << >> /\ t.agent = << >> /\ t.candidate = << >> /\ t.ledger = << >>
        /\ t.doc = << >> /\ DOMAIN << >> = {} /\ \A k : k \notin DOMAIN << >>
    BY <1>1 DEF FsEmpty, PgEmpty
  <2>2. FsListAgentRuns(s, "r1") = {} /\ PgListAgentRuns(t, "r1") = {}
    BY <2>1 DEF FsListAgentRuns, PgListAgentRuns
  <2>3. /\ FsListCheckpointCandidates(s, "r1") = << >> /\ PgListCheckpointCandidates(t, "r1") = << >>
        /\ FsListLedgerEvents(s, "r1") = << >> /\ PgListLedgerEvents(t, "r1") = << >>
    BY <2>1 DEF FsListCheckpointCandidates, PgListCheckpointCandidates, FsListLedgerEvents,
       PgListLedgerEvents, LinesOf, Get
  <2>4. WithUsageShown(<< >>) = << >>
    BY DEF WithUsageShown
  <2>5. Notes(s, "r1") = {} /\ Named(t, "r1") = {}
    BY <2>1 DEF Notes, Named
  <2> QED BY <2>2, <2>3, <2>4, <2>5
<1>2. CASE Same(s, t)
  <2> DEFINE F == {<<"r1", "agents", a>> : a \in {b \in AgentId : Has(s, <<"r1", "agents", b>>)}}
             K == {<<"r1", a>> : a \in {b \in AgentId : Has(s, <<"r1", "agents", b>>)}}
             Shows(x) == [x EXCEPT !.usage = UsageShown(@)]
  <2>1. {q \in DOMAIN s.files : Len(q) = 3 /\ q[1] = "r1" /\ q[2] = "agents"} = F
    <3>1. \A a : /\ Len(<<"r1", "agents", a>>) = 3 /\ <<"r1", "agents", a>>[1] = "r1"
                 /\ <<"r1", "agents", a>>[2] = "agents"
      OBVIOUS
    <3>2. ASSUME NEW q \in DOMAIN s.files, Len(q) = 3, q[2] = "agents" PROVE q \in F
      <4>1. PICK a \in AgentId : q = <<"r1", "agents", a>>
        BY <1>2, <3>2 DEF Same, FilesOfRun
      <4>2. Has(s, <<"r1", "agents", a>>)
        BY <4>1 DEF Has
      <4> QED BY <4>1, <4>2
    <3>3. ASSUME NEW q \in F
          PROVE  q \in DOMAIN s.files /\ Len(q) = 3 /\ q[1] = "r1" /\ q[2] = "agents"
      <4>1. PICK a \in AgentId : q = <<"r1", "agents", a>> /\ Has(s, q)
        OBVIOUS
      <4> QED BY <4>1, <3>1 DEF Has
    <3> HIDE DEF F
    <3> QED BY <3>2, <3>3
  <2>2. {l \in DOMAIN t.agent : l[1] = "r1"} = K
    <3>1. \A a \in AgentId : Has(s, <<"r1", "agents", a>>) <=> <<"r1", a>> \in DOMAIN t.agent
      BY <1>2 DEF Same, AgentsSame
    <3>2. \A k \in DOMAIN t.agent : \E a \in AgentId : k = <<"r1", a>>
      BY <1>2 DEF Same, AgentsSame
    <3>3. \A a : <<"r1", a>>[1] = "r1"
      OBVIOUS
    <3>4. ASSUME NEW k \in DOMAIN t.agent PROVE k \in K
      <4>1. PICK a \in AgentId : k = <<"r1", a>>
        BY <3>2
      <4>2. Has(s, <<"r1", "agents", a>>)
        BY <3>1, <4>1
      <4> QED BY <4>1, <4>2
    <3>5. ASSUME NEW k \in K PROVE k \in DOMAIN t.agent /\ k[1] = "r1"
      <4>1. PICK a \in AgentId : k = <<"r1", a>> /\ Has(s, <<"r1", "agents", a>>)
        OBVIOUS
      <4> QED BY <4>1, <3>1, <3>3
    <3> HIDE DEF K
    <3> QED BY <3>4, <3>5
  <2>3. \A a \in AgentId : Has(s, <<"r1", "agents", a>>) =>
          t.agent[<<"r1", a>>] = Shows(s.files[<<"r1", "agents", a>>])
    BY <1>2 DEF Same, AgentsSame
  <2> HIDE DEF Shows
  <2>4. {Shows(s.files[p]) : p \in F} = {t.agent[k] : k \in K}
    BY <2>3
  <2> HIDE DEF F, K
  <2>5. FsListAgentRuns(s, "r1") = {s.files[p] : p \in F} /\ PgListAgentRuns(t, "r1") = {t.agent[k] : k \in K}
    BY <2>1, <2>2 DEF FsListAgentRuns, PgListAgentRuns
  <2>6. {Shows(a) : a \in FsListAgentRuns(s, "r1")} = PgListAgentRuns(t, "r1")
    BY <2>4, <2>5
  <2> QED BY <1>2, <2>6 DEF Same, LinesSame, NotesSame, Shows
<1> QED BY <1>1, <1>2 DEF Agree

\* When the tables agree with the tree, they tell the same of it.
LEMMA AgreeTellsSame == Agree(fs, pg) => MirrorTellsSame
<1> SUFFICES ASSUME Agree(fs, pg), Settled PROVE MirrorTellsSame
  BY DEF MirrorTellsSame
<1>1. Allocated = Ids(fs)
  BY DEF Allocated, Ids, Dir
<1>2. \A d \in Ids(fs) : Has(fs, Meta(d))
  BY <1>1 DEF Settled, Meta
<1>3. PICK a : a = FsListDispatches(fs, "r1")
  OBVIOUS
<1>4. PICK b : b = PgListDispatches(pg, "r1")
  OBVIOUS
<1>5. Alike(a, b)
  BY <1>2, <1>3, <1>4, ListsAlike
<1>6. FsListRuns(fs) = PgListRuns(pg)
  BY <1>3, <1>4, <1>5, RunsAlike
<1>7. WithUsageShown(a) = b /\ Facts(a) = Facts(b) /\ BuildTree(a) = BuildTree(b)
  BY <1>5, AlikeTold, AlikeTree
<1>8. FsDispatchFacts(fs, "r1") = PgDispatchFacts(pg, "r1")
  BY <1>3, <1>4, <1>7 DEF FsDispatchFacts, PgDispatchFacts
<1>9. Lines(FsBuildDispatchTree(fs, "r1")) = Lines(PgBuildDispatchTree(pg, "r1"))
  <2>1. ASSUME NEW ds, NEW view PROVE Lines(Shown(ds, view)) = [i \in DOMAIN BuildTree(ds) |-> BuildTree(ds)[i]]
    BY DEF Lines, Shown
  <2>2. Lines(FsBuildDispatchTree(fs, "r1")) = [i \in DOMAIN BuildTree(a) |-> BuildTree(a)[i]]
    BY <1>3, <2>1 DEF FsBuildDispatchTree
  <2>3. Lines(PgBuildDispatchTree(pg, "r1")) = [i \in DOMAIN BuildTree(b) |-> BuildTree(b)[i]]
    BY <1>4, <2>1 DEF PgBuildDispatchTree
  <2> QED BY <1>7, <2>2, <2>3
<1>10. Authors(FsListNotes(fs, "r1")) = Authors(PgListNotes(pg, "r1"))
  BY AgentsAlike DEF FsListNotes, PgListNotes
<1>11. LET x == FsReadRun(fs, "r1")  y == PgReadRun(pg, "r1") IN
       IF x = Err THEN y = Err ELSE y = Ok([x[1] EXCEPT !.mode = ""])
  BY RunsAlike
<1>12. \A d \in Allocated :
         /\ FsReadBrief(fs, "r1", d) = PgReadBrief(pg, "r1", d)
         /\ FsReadReport(fs, "r1", d) = PgReadReport(pg, "r1", d)
         /\ FsReadAdapterConfig(fs, "r1", d) # Err =>
              FsReadAdapterConfig(fs, "r1", d) = PgReadAdapterConfig(pg, "r1", d)
  BY <1>1, DocsAlike
<1>13. /\ {[x EXCEPT !.usage = UsageShown(@)] : x \in FsListAgentRuns(fs, "r1")}
                 = PgListAgentRuns(pg, "r1")
       /\ FsListCheckpointCandidates(fs, "r1") = PgListCheckpointCandidates(pg, "r1")
       /\ WithUsageShown(FsListLedgerEvents(fs, "r1")) = PgListLedgerEvents(pg, "r1")
  BY AgentsAlike
<1> QED BY <1>3, <1>4, <1>6, <1>7, <1>8, <1>9, <1>10, <1>11, <1>12, <1>13 DEF MirrorTellsSame

-----------------------------------------------------------------------------
(* The session.  What the mirror has yet to do is in the queue, so the     *)
(* tables are behind the tree; the invariant is about the tables that the  *)
(* queue will have made.                                                   *)

\* The queue makes of the tables, call after call, w[0], w[1], ...  Each of
\* them agrees with a tree of files, the last with the tree there is.
StoresInv ==
    \E w : /\ w[0] = pg
           /\ \E S : queue \in Seq(S)
           /\ \A i \in 1..Len(queue) : w[i] = PgDo(w[i - 1], queue[i]).store
           /\ \A i \in 0..Len(queue) : \E s : Agree(s, w[i])
           /\ Agree(fs, w[Len(queue)])

\* What a call does to the tree it does to tables that are the same.
KeepsAgreed(s, t, o) ==
    LET got == FsDo(s, o) IN
    IF got.ans = Err THEN got.store = s
    ELSE Agree(got.store, PgDo(t, o).store)

\* A call is put at the end of the queue, and the tables it makes at the end
\* of the sequence.
LEMMA TeeStep ==
    ASSUME StoresInv, NEW o, Tee(o),
           \A t : Agree(fs, t) => KeepsAgreed(fs, t, o)
    PROVE  StoresInv'
<1>1. PICK w : /\ w[0] = pg
               /\ \E S : queue \in Seq(S)
               /\ \A i \in 1..Len(queue) : w[i] = PgDo(w[i - 1], queue[i]).store
               /\ \A i \in 0..Len(queue) : \E s : Agree(s, w[i])
               /\ Agree(fs, w[Len(queue)])
  BY DEF StoresInv
<1>2. PICK S : queue \in Seq(S)
  BY <1>1
<1> DEFINE n == Len(queue)
           got == FsDo(fs, o)
<1>3. n \in Nat /\ n \in 0..n
  BY <1>2
<1>4. KeepsAgreed(fs, w[n], o)
  BY <1>1, <1>3
<1>5. pg' = pg /\ fs' = got.store /\ queue' = IF got.ans = Err THEN queue ELSE Append(queue, o)
  BY DEF Tee
<1>6. CASE got.ans = Err
  <2>1. fs' = fs /\ queue' = queue
    BY <1>4, <1>5, <1>6 DEF KeepsAgreed
  <2> QED BY <1>1, <1>5, <2>1 DEF StoresInv
<1>7. CASE got.ans # Err
  <2> DEFINE last == PgDo(w[n], o).store
             v == [i \in 0..(n + 1) |-> IF i <= n THEN w[i] ELSE last]
  <2>1. Agree(fs', last)
    BY <1>4, <1>5, <1>7 DEF KeepsAgreed
  <2>2. /\ queue' \in Seq(S \cup {o}) /\ Len(queue') = n + 1
        /\ \A i \in 1..n : queue'[i] = queue[i]
        /\ queue'[n + 1] = o
    BY <1>2, <1>5, <1>7
  <2>3. v[n + 1] = last /\ \A i \in 0..n : v[i] = w[i]
    BY <1>3
  <2> HIDE DEF v, last, n
  <2>4. \A i \in 1..(n + 1) : v[i] = PgDo(v[i - 1], queue'[i]).store
    <3> SUFFICES ASSUME NEW i \in 1..(n + 1) PROVE v[i] = PgDo(v[i - 1], queue'[i]).store
      OBVIOUS
    <3>1. CASE i = n + 1
      <4>1. i - 1 = n /\ v[i - 1] = w[n]
        BY <1>3, <2>3, <3>1
      <4> QED BY <2>2, <2>3, <3>1, <4>1 DEF last
    <3>2. CASE i # n + 1
      <4>1. i \in 1..n /\ i \in 0..n /\ i - 1 \in 0..n
        BY <1>3, <3>2
      <4>2. v[i] = w[i] /\ v[i - 1] = w[i - 1] /\ queue'[i] = queue[i]
        BY <2>2, <2>3, <4>1
      <4> QED BY <1>1, <4>1, <4>2 DEF n
    <3> QED BY <3>1, <3>2
  <2>5. \A i \in 0..(n + 1) : \E s : Agree(s, v[i])
    <3> SUFFICES ASSUME NEW i \in 0..(n + 1) PROVE \E s : Agree(s, v[i])
      OBVIOUS
    <3>1. CASE i = n + 1
      BY <2>1, <2>3, <3>1
    <3>2. CASE i # n + 1
      <4>1. i \in 0..n
        BY <1>3, <3>2
      <4> QED BY <1>1, <2>3, <4>1 DEF n
    <3> QED BY <3>1, <3>2
  <2>6. v[0] = pg' /\ v[n + 1] = last
    <3>1. 0 \in 0..n
      BY <1>3
    <3> QED BY <1>1, <1>5, <2>3, <3>1
  <2> QED BY <2>1, <2>2, <2>4, <2>5, <2>6 DEF StoresInv
<1> QED BY <1>6, <1>7

\* The mirror makes the first call: the sequence begins one later.
LEMMA MirrorStep == StoresInv /\ Mirror => StoresInv'
<1> SUFFICES ASSUME StoresInv, Mirror PROVE StoresInv'
  OBVIOUS
<1>1. PICK w : /\ w[0] = pg
               /\ \E S : queue \in Seq(S)
               /\ \A i \in 1..Len(queue) : w[i] = PgDo(w[i - 1], queue[i]).store
               /\ \A i \in 0..Len(queue) : \E s : Agree(s, w[i])
               /\ Agree(fs, w[Len(queue)])
  BY DEF StoresInv
<1>2. PICK S : queue \in Seq(S)
  BY <1>1
<1>3. queue # << >> /\ pg' = PgDo(pg, Head(queue)).store /\ queue' = Tail(queue) /\ fs' = fs
  BY DEF Mirror
<1> DEFINE n == Len(queue)
           v == [i \in 0..(n - 1) |-> w[i + 1]]
<1>4. /\ n \in Nat \ {0} /\ queue' \in Seq(S) /\ Len(queue') = n - 1
      /\ Head(queue) = queue[1]
      /\ \A i \in 1..(n - 1) : queue'[i] = queue[i + 1]
  BY <1>2, <1>3
<1>5. \A i \in 0..(n - 1) : v[i] = w[i + 1]
  OBVIOUS
<1> HIDE DEF n, v
<1>6. v[0] = pg' /\ v[n - 1] = w[n]
  <2>1. 1 \in 1..n /\ 0 \in 0..(n - 1) /\ n - 1 \in 0..(n - 1) /\ 0 + 1 = 1 /\ n - 1 + 1 = n /\ 1 - 1 = 0
    BY <1>4
  <2>2. w[1] = PgDo(w[0], queue[1]).store
    BY <1>1, <2>1 DEF n
  <2> QED BY <1>1, <1>3, <1>4, <1>5, <2>1, <2>2
<1>7. \A i \in 1..(n - 1) : v[i] = PgDo(v[i - 1], queue'[i]).store
  <2> SUFFICES ASSUME NEW i \in 1..(n - 1) PROVE v[i] = PgDo(v[i - 1], queue'[i]).store
    OBVIOUS
  <2>1. i + 1 \in 1..n /\ i \in 0..(n - 1) /\ i - 1 \in 0..(n - 1) /\ i - 1 + 1 = i /\ i + 1 - 1 = i
    BY <1>4
  <2>2. w[i + 1] = PgDo(w[i], queue[i + 1]).store
    BY <1>1, <2>1 DEF n
  <2> QED BY <1>4, <1>5, <2>1, <2>2
<1>8. \A i \in 0..(n - 1) : \E s : Agree(s, v[i])
  <2> SUFFICES ASSUME NEW i \in 0..(n - 1) PROVE \E s : Agree(s, v[i])
    OBVIOUS
  <2>1. i + 1 \in 0..n
    BY <1>4
  <2> QED BY <1>1, <1>5, <2>1 DEF n
<1> QED BY <1>1, <1>3, <1>4, <1>6, <1>7, <1>8 DEF StoresInv, n

\* A call of a run that has begun.
LEMMA TeeInRunStep ==
    ASSUME StoresInv, NEW o, TeeInRun(o),
           \A t : Same(fs, t) => KeepsAgreed(fs, t, o)
    PROVE  StoresInv'
<1>1. Has(fs, Manifest) /\ Tee(o)
  BY DEF TeeInRun, Manifest
<1>2. fs # FsEmpty
  BY <1>1 DEF Has, FsEmpty
<1> QED BY <1>1, <1>2, TeeStep DEF Agree

\* The first call finds neither run.
LEMMA FirstCall == ASSUME NEW t, Agree(fs, t), ~ Has(fs, Manifest)
                   PROVE  fs = FsEmpty /\ t = PgEmpty
BY DEF Agree, Same, RunSame

\* The tree and the tables agree once the queue is done: in every state the
\* session reaches, whatever the number of dispatches and calls.
THEOREM StoresInvariant == StoresSpec => []StoresInv
<1>1. StoresInit => StoresInv
  <2> SUFFICES ASSUME StoresInit PROVE StoresInv
    OBVIOUS
  <2> DEFINE w == [i \in {0} |-> pg]
  <2>1. w[0] = pg /\ queue = << >> /\ queue \in Seq({}) /\ Len(queue) = 0 /\ 1..0 = {} /\ 0..0 = {0}
    BY DEF StoresInit
  <2>2. Agree(fs, w[0])
    BY DEF StoresInit, Agree
  <2> HIDE DEF w
  <2> QED BY <2>1, <2>2 DEF StoresInv
<1>2. StoresInv /\ [StoresNext]_storevars => StoresInv'
  <2> SUFFICES ASSUME StoresInv, [StoresNext]_storevars PROVE StoresInv'
    OBVIOUS
  <2>1. CASE CreateRun
    <3>1. Tee(Call("CreateRun", "r1", 0, R1)) /\ ~ Has(fs, Manifest)
      BY <2>1 DEF CreateRun, Manifest
    <3>2. ASSUME NEW t, Agree(fs, t) PROVE KeepsAgreed(fs, t, Call("CreateRun", "r1", 0, R1))
      <4>1. fs = FsEmpty /\ t = PgEmpty
        BY <3>1, <3>2, FirstCall
      <4>2. /\ FsDo(fs, Call("CreateRun", "r1", 0, R1)) = FsCreateRun(fs, R1)
            /\ PgDo(t, Call("CreateRun", "r1", 0, R1)) = PgCreateRun(t, R1)
        BY DEF FsDo, PgDo, Call
      <4> QED BY <4>1, <4>2, CreateKeepsSame DEF KeepsAgreed, Agree
    <3> QED BY <3>1, <3>2, TeeStep
  <2>2. CASE WriteRun
    <3>1. PICK st \in {"completed", "failed"} :
            TeeInRun(Call("WriteRun", "r1", 0, [R1 EXCEPT !.status = st]))
      BY <2>2 DEF WriteRun
    <3>2. PICK x : x = [R1 EXCEPT !.status = st]
      OBVIOUS
    <3>3. ASSUME NEW t, Same(fs, t) PROVE KeepsAgreed(fs, t, Call("WriteRun", "r1", 0, x))
      <4>1. /\ FsDo(fs, Call("WriteRun", "r1", 0, x)) = FsWriteRun(fs, x)
            /\ PgDo(t, Call("WriteRun", "r1", 0, x)) = PgWriteRun(t, x)
        BY DEF FsDo, PgDo, Call
      <4> QED BY <3>2, <3>3, <4>1, RunKeepsSame DEF KeepsAgreed, Agree
    <3> QED BY <3>1, <3>2, <3>3, TeeInRunStep
  <2>3. CASE AllocDispatch
    <3>1. ASSUME NEW t, Same(fs, t) PROVE KeepsAgreed(fs, t, Call("AllocDispatch", "r1", 0, 0))
      <4>1. /\ FsDo(fs, Call("AllocDispatch", "r1", 0, 0)) = FsAllocDispatch(fs, "r1")
            /\ PgDo(t, Call("AllocDispatch", "r1", 0, 0)) = PgAllocDispatch(t, "r1")
        BY DEF FsDo, PgDo, Call
      <4> QED BY <3>1, <4>1, AllocKeepsSame DEF KeepsAgreed, Agree
    <3> QED BY <2>3, <3>1, TeeInRunStep DEF AllocDispatch
  <2>4. CASE WriteDispatch
    <3>1. PICK d \in Allocated \cup {Root}, stage \in Stages :
            \E parent \in IF d = Root THEN {NoParent} ELSE {Root} \cup {e \in Allocated : e < d} :
              TeeInRun(Call("WriteDispatch", "r1", d, Written(d, parent, stage)))
      BY <2>4 DEF WriteDispatch
    <3>2. PICK parent \in {NoParent, Root} \cup Allocated :
            TeeInRun(Call("WriteDispatch", "r1", d, Written(d, parent, stage)))
      BY <3>1
    <3>3. PICK x : x = Written(d, parent, stage)
      OBVIOUS
    <3>4. Allocated = Ids(fs) /\ Allocated \subseteq DispatchId /\ Root \in DispatchId
      BY RootIsNone DEF Allocated, Ids, Dir
    <3>5. x \in Writings(d) /\ d \in Ids(fs) \cup {Root}
      BY <3>3, <3>4 DEF Writings
    <3>6. ASSUME NEW t, Same(fs, t) PROVE KeepsAgreed(fs, t, Call("WriteDispatch", "r1", d, x))
      <4>1. /\ FsDo(fs, Call("WriteDispatch", "r1", d, x)) = FsWriteDispatch(fs, "r1", x)
            /\ PgDo(t, Call("WriteDispatch", "r1", d, x)) = PgWriteDispatch(t, "r1", x)
        BY DEF FsDo, PgDo, Call
      <4> QED BY <3>5, <3>6, <4>1, DispatchKeepsSame DEF KeepsAgreed, Agree
    <3> QED BY <3>2, <3>3, <3>6, TeeInRunStep
  <2>5. CASE WriteBrief
    <3>1. PICK d \in Allocated : TeeInRun(Call("WriteBrief", "r1", d, "brief"))
      BY <2>5 DEF WriteBrief
    <3>2. d \in Ids(fs) /\ IsText("brief")
      BY DEF Allocated, Ids, Dir, IsText
    <3>3. ASSUME NEW t, Same(fs, t) PROVE KeepsAgreed(fs, t, Call("WriteBrief", "r1", d, "brief"))
      <4>1. /\ FsDo(fs, Call("WriteBrief", "r1", d, "brief")) = FsWriteBrief(fs, "r1", d, "brief")
            /\ PgDo(t, Call("WriteBrief", "r1", d, "brief")) = PgWriteBrief(t, "r1", d, "brief")
        BY DEF FsDo, PgDo, Call
      <4> QED BY <3>2, <3>3, <4>1, BriefKeepsSame DEF KeepsAgreed, Agree
    <3> QED BY <3>1, <3>3, TeeInRunStep
  <2>6. CASE WriteReport
    <3>1. PICK d \in Allocated : TeeInRun(Call("WriteReport", "r1", d, "report"))
      BY <2>6 DEF WriteReport
    <3>2. d \in Ids(fs) /\ IsText("report")
      BY DEF Allocated, Ids, Dir, IsText
    <3>3. ASSUME NEW t, Same(fs, t) PROVE KeepsAgreed(fs, t, Call("WriteReport", "r1", d, "report"))
      <4>1. /\ FsDo(fs, Call("WriteReport", "r1", d, "report")) = FsWriteReport(fs, "r1", d, "report")
            /\ PgDo(t, Call("WriteReport", "r1", d, "report")) = PgWriteReport(t, "r1", d, "report")
        BY DEF FsDo, PgDo, Call
      <4> QED BY <3>2, <3>3, <4>1, ReportKeepsSame DEF KeepsAgreed, Agree
    <3> QED BY <3>1, <3>3, TeeInRunStep
  <2>7. CASE WriteAdapterConfig
    <3>1. PICK d \in Allocated \cup {Root} : TeeInRun(Call("WriteAdapterConfig", "r1", d, "config"))
      BY <2>7 DEF WriteAdapterConfig
    <3>2. d \in Ids(fs) \cup {Root} /\ IsText("config")
      BY DEF Allocated, Ids, Dir, IsText
    <3>3. ASSUME NEW t, Same(fs, t) PROVE KeepsAgreed(fs, t, Call("WriteAdapterConfig", "r1", d, "config"))
      <4>1. /\ FsDo(fs, Call("WriteAdapterConfig", "r1", d, "config"))
                 = FsWriteAdapterConfig(fs, "r1", d, "config")
            /\ PgDo(t, Call("WriteAdapterConfig", "r1", d, "config"))
                 = PgWriteAdapterConfig(t, "r1", d, "config")
        BY DEF FsDo, PgDo, Call
      <4> QED BY <3>2, <3>3, <4>1, ConfigKeepsSame DEF KeepsAgreed, Agree
    <3> QED BY <3>1, <3>3, TeeInRunStep
  <2>8. CASE WriteAgentRun
    <3>1. PICK id \in AgentId, st \in {"", "completed"} :
            TeeInRun(Call("WriteAgentRun", "r1", 0, AgentRunOf(id, st)))
      BY <2>8 DEF WriteAgentRun, AgentId, AgentRunOf
    <3>2. PICK x : x = AgentRunOf(id, st)
      OBVIOUS
    <3>3. ASSUME NEW t, Same(fs, t) PROVE KeepsAgreed(fs, t, Call("WriteAgentRun", "r1", 0, x))
      <4>1. /\ FsDo(fs, Call("WriteAgentRun", "r1", 0, x)) = FsWriteAgentRun(fs, "r1", x)
            /\ PgDo(t, Call("WriteAgentRun", "r1", 0, x)) = PgWriteAgentRun(t, "r1", x)
        BY DEF FsDo, PgDo, Call
      <4> QED BY <3>2, <3>3, <4>1, AgentKeepsSame DEF KeepsAgreed, Agree
    <3> QED BY <3>1, <3>2, <3>3, TeeInRunStep
  <2>9. CASE AppendCheckpointCandidate
    <3>1. PICK st \in {"", "fresh"} : TeeInRun(Call("AppendCandidate", "r1", 0, [id |-> "c", status |-> st]))
      BY <2>9 DEF AppendCheckpointCandidate
    <3>2. PICK x : x = [id |-> "c", status |-> st]
      OBVIOUS
    <3>3. ASSUME NEW t, Same(fs, t) PROVE KeepsAgreed(fs, t, Call("AppendCandidate", "r1", 0, x))
      <4>1. /\ FsDo(fs, Call("AppendCandidate", "r1", 0, x)) = FsAppendCheckpointCandidate(fs, "r1", x)
            /\ PgDo(t, Call("AppendCandidate", "r1", 0, x)) = PgAppendCheckpointCandidate(t, "r1", x)
        BY DEF FsDo, PgDo, Call
      <4> QED BY <3>2, <3>3, <4>1, CandidateKeepsSame DEF KeepsAgreed, Agree
    <3> QED BY <3>1, <3>2, <3>3, TeeInRunStep
  <2>10. CASE AppendLedgerEvent
    <3>1. PICK kind \in {"agent_started", "agent_completed"} :
            TeeInRun(Call("AppendLedgerEvent", "r1", 0, [kind |-> kind, usage |-> "zeros"]))
      BY <2>10 DEF AppendLedgerEvent
    <3>2. PICK x : x = [kind |-> kind, usage |-> "zeros"]
      OBVIOUS
    <3>3. x \in Event
      BY <3>2 DEF Event
    <3>4. ASSUME NEW t, Same(fs, t) PROVE KeepsAgreed(fs, t, Call("AppendLedgerEvent", "r1", 0, x))
      <4>1. /\ FsDo(fs, Call("AppendLedgerEvent", "r1", 0, x)) = FsAppendLedgerEvent(fs, "r1", x)
            /\ PgDo(t, Call("AppendLedgerEvent", "r1", 0, x)) = PgAppendLedgerEvent(t, "r1", x)
        BY DEF FsDo, PgDo, Call
      <4> QED BY <3>3, <3>4, <4>1, EventKeepsSame DEF KeepsAgreed, Agree
    <3> QED BY <3>1, <3>2, <3>4, TeeInRunStep
  <2>11. CASE AppendNote
    <3>1. PICK author \in {"root", "worker"} :
            TeeInRun(Call("AppendNote", "r1", 0, [author |-> author, body |-> "note"]))
      BY <2>11 DEF AppendNote
    <3>2. PICK x : x = [author |-> author, body |-> "note"]
      OBVIOUS
    <3>3. ASSUME NEW t, Same(fs, t) PROVE KeepsAgreed(fs, t, Call("AppendNote", "r1", 0, x))
      <4>1. /\ FsDo(fs, Call("AppendNote", "r1", 0, x)) = FsAppendNote(fs, "r1", x.author, x.body)
            /\ PgDo(t, Call("AppendNote", "r1", 0, x)) = PgAppendNote(t, "r1", x.author, x.body)
        BY DEF FsDo, PgDo, Call
      <4> QED BY <3>3, <4>1, NoteKeepsSame DEF KeepsAgreed, Agree
    <3> QED BY <3>1, <3>2, <3>3, TeeInRunStep
  <2>12. CASE AppendTraceEvent
    <3>1. PICK kind \in {"tool", "read"} : TeeInRun(Call("AppendTraceEvent", "r1", Root, [kind |-> kind]))
      BY <2>12 DEF AppendTraceEvent
    <3>2. PICK x : x = [kind |-> kind]
      OBVIOUS
    <3>3. ASSUME NEW t, Same(fs, t) PROVE KeepsAgreed(fs, t, Call("AppendTraceEvent", "r1", Root, x))
      <4>1. /\ FsDo(fs, Call("AppendTraceEvent", "r1", Root, x)) = FsAppendTraceEvent(fs, "r1", Root, x)
            /\ PgDo(t, Call("AppendTraceEvent", "r1", Root, x)) = PgAppendTraceEvent(t, "r1", Root, x)
        BY DEF FsDo, PgDo, Call
      <4> QED BY <3>3, <4>1, TraceKeepsSame DEF KeepsAgreed, Agree
    <3> QED BY <3>1, <3>2, <3>3, TeeInRunStep
  <2>13. CASE Mirror
    BY <2>13, MirrorStep
  <2>14. CASE UNCHANGED storevars
    BY <2>14 DEF storevars, StoresInv
  <2> QED BY <2>1, <2>2, <2>3, <2>4, <2>5, <2>6, <2>7, <2>8, <2>9, <2>10, <2>11, <2>12, <2>13,
             <2>14 DEF StoresNext
<1> QED BY <1>1, <1>2, PTL DEF StoresSpec

\* When the mirror has caught up and every id has a record, postgres answers
\* every question about the run as the file store does.
THEOREM MirrorTells == StoresSpec => []MirrorTellsSame
<1>1. StoresInv => MirrorTellsSame
  <2> SUFFICES ASSUME StoresInv, Settled PROVE MirrorTellsSame
    BY DEF MirrorTellsSame
  <2>1. Agree(fs, pg)
    BY DEF StoresInv, Settled
  <2> QED BY <2>1, AgreeTellsSame
<1> QED BY <1>1, StoresInvariant, PTL

-----------------------------------------------------------------------------
(* The export.                                                             *)

\* A file of the export is what the store answers, if that is something.
LEMMA CopiedEffect ==
    ASSUME NEW dest, NEW p, NEW ans, ans = Err \/ ans = Ok(ans[1]), ReadFile(dest, p) = Err
    PROVE  LET u == Copied(dest, p, ans) IN
           /\ ReadFile(u, p) = IF ans = Ok("") THEN Err ELSE ans
           /\ \A q : q # p => ReadFile(u, q) = ReadFile(dest, q)
           /\ DOMAIN u.files \subseteq DOMAIN dest.files \cup {p}
           /\ dest.dirs \subseteq u.dirs
<1>1. PICK v : v = ans[1]
  OBVIOUS
<1>2. CASE ans \in {Err, Ok("")}
  BY <1>2 DEF Copied
<1>3. CASE ans \notin {Err, Ok("")}
  <2>1. Copied(dest, p, ans) = Put(dest, p, v) /\ ans = Ok(v)
    BY <1>1, <1>3 DEF Copied
  <2>2. ReadFile(Put(dest, p, v), p) = Ok(v)
    BY PutEffect DEF ReadFile
  <2>3. ReadFile(Copied(dest, p, ans), p) = ans /\ ans # Ok("")
    BY <1>3, <2>1, <2>2
  <2>4. LET u == Copied(dest, p, ans) IN
        /\ \A q : q # p => ReadFile(u, q) = ReadFile(dest, q)
        /\ DOMAIN u.files \subseteq DOMAIN dest.files \cup {p}
        /\ dest.dirs \subseteq u.dirs
    BY <2>1, PutEffect
  <2> QED BY <2>3, <2>4
<1> QED BY <1>2, <1>3

\* What postgres answers is a value or an error.
LEMMA AnswersShaped ==
    ASSUME NEW t, NEW d
    PROVE  /\ LET a == PgReadBrief(t, "r1", d) IN a = Err \/ a = Ok(a[1])
           /\ LET a == PgReadReport(t, "r1", d) IN a = Err \/ a = Ok(a[1])
           /\ LET a == PgReadAdapterConfig(t, "r1", d) IN a = Err \/ a = Ok(a[1])
<1>1. \A v : Ok(v) = Ok(Ok(v)[1])
  BY DEF Ok
<1> QED BY <1>1 DEF PgReadBrief, PgReadReport, PgReadAdapterConfig, readDoc

\* The directory that is made of a dispatch.
LEMMA DispatchExported ==
    ASSUME NEW t, NEW d
    PROVE  LET m == ExportDispatch(t, "r1", d, FsEmpty)
               Read(n) == ReadFile(m, <<"r1", "dispatches", d, n>>) IN
           /\ Dir(d) \in m.dirs
           /\ \A p \in DOMAIN m.files : p[3] = d
           /\ Read("meta.json") = Ok(t.dispatch[<<"r1", d>>])
           /\ Read("brief.md") = IF PgReadBrief(t, "r1", d) = Ok("") THEN Err
                                 ELSE PgReadBrief(t, "r1", d)
           /\ Read("report.md") = IF PgReadReport(t, "r1", d) = Ok("") THEN Err
                                  ELSE PgReadReport(t, "r1", d)
           /\ Read("settings.json") = IF PgReadAdapterConfig(t, "r1", d) = Ok("") THEN Err
                                      ELSE PgReadAdapterConfig(t, "r1", d)
<1> DEFINE Path(n) == <<"r1", "dispatches", d, n>>
           row    == t.dispatch[<<"r1", d>>]
           brief  == PgReadBrief(t, "r1", d)
           config == PgReadAdapterConfig(t, "r1", d)
           report == PgReadReport(t, "r1", d)
           m1 == Put(FsEmpty, Path("meta.json"), row)
           m2 == Copied(m1, Path("brief.md"), brief)
           m3 == Copied(m2, Path("settings.json"), config)
           m4 == Copied(m3, Path("report.md"), report)
<1>1. ExportDispatch(t, "r1", d, FsEmpty) = m4
  BY PathsSpelled DEF ExportDispatch, PgMaterialize
<1>2. /\ Path("meta.json") # Path("brief.md") /\ Path("meta.json") # Path("settings.json")
      /\ Path("meta.json") # Path("report.md") /\ Path("brief.md") # Path("settings.json")
      /\ Path("brief.md") # Path("report.md") /\ Path("settings.json") # Path("report.md")
  OBVIOUS
<1>3. \A n : Path(n)[3] = d
  OBVIOUS
<1>4. Dir(d) \in Above(Path("meta.json"))
  BY DirsAbove
<1>5. \A q : ReadFile(FsEmpty, q) = Err
  BY DEF ReadFile, Has, FsEmpty
<1>6. /\ brief = Err \/ brief = Ok(brief[1])
      /\ config = Err \/ config = Ok(config[1])
      /\ report = Err \/ report = Ok(report[1])
  BY AnswersShaped
<1> HIDE DEF Path, row, brief, config, report, m2, m3, m4
<1>7. /\ ReadFile(m1, Path("meta.json")) = Ok(row)
      /\ \A q : q # Path("meta.json") => ReadFile(m1, q) = Err
      /\ DOMAIN m1.files \subseteq {Path("meta.json")} /\ Dir(d) \in m1.dirs
  <2>1. ReadFile(m1, Path("meta.json")) = Ok(row)
    BY PutEffect DEF ReadFile
  <2>2. DOMAIN FsEmpty.files = {}
    BY DEF FsEmpty
  <2> QED BY <1>4, <1>5, <2>1, <2>2, PutEffect
<1> HIDE DEF m1
<1>8. /\ ReadFile(m2, Path("brief.md")) = IF brief = Ok("") THEN Err ELSE brief
      /\ \A q : q # Path("brief.md") => ReadFile(m2, q) = ReadFile(m1, q)
      /\ DOMAIN m2.files \subseteq DOMAIN m1.files \cup {Path("brief.md")} /\ m1.dirs \subseteq m2.dirs
  <2>1. ReadFile(m1, Path("brief.md")) = Err
    BY <1>2, <1>7
  <2> QED BY <1>6, <2>1, CopiedEffect DEF m2
<1>9. /\ ReadFile(m3, Path("settings.json")) = IF config = Ok("") THEN Err ELSE config
      /\ \A q : q # Path("settings.json") => ReadFile(m3, q) = ReadFile(m2, q)
      /\ DOMAIN m3.files \subseteq DOMAIN m2.files \cup {Path("settings.json")} /\ m2.dirs \subseteq m3.dirs
  <2>1. ReadFile(m2, Path("settings.json")) = Err
    BY <1>2, <1>7, <1>8
  <2> QED BY <1>6, <2>1, CopiedEffect DEF m3
<1>10. /\ ReadFile(m4, Path("report.md")) = IF report = Ok("") THEN Err ELSE report
       /\ \A q : q # Path("report.md") => ReadFile(m4, q) = ReadFile(m3, q)
       /\ DOMAIN m4.files \subseteq DOMAIN m3.files \cup {Path("report.md")} /\ m3.dirs \subseteq m4.dirs
  <2>1. ReadFile(m3, Path("report.md")) = Err
    BY <1>2, <1>7, <1>8, <1>9
  <2> QED BY <1>6, <2>1, CopiedEffect DEF m4
<1>11. /\ ReadFile(m4, Path("meta.json")) = Ok(row)
       /\ ReadFile(m4, Path("brief.md")) = IF brief = Ok("") THEN Err ELSE brief
       /\ ReadFile(m4, Path("settings.json")) = IF config = Ok("") THEN Err ELSE config
  BY <1>2, <1>7, <1>8, <1>9, <1>10
<1>12. Dir(d) \in m4.dirs /\ \A p \in DOMAIN m4.files : p[3] = d
  BY <1>3, <1>7, <1>8, <1>9, <1>10
<1> QED BY <1>1, <1>10, <1>11, <1>12 DEF Path, row, brief, config, report

\* What is exported of a run is that of its dispatches, no more.
LEMMA RunExported ==
    ASSUME NEW t, RunExists(t, "r1")
    PROVE  LET u == ExportRun(t, "r1", FsEmpty).store
               T == {k[2] : k \in {l \in DOMAIN t.dispatch : l[1] = "r1"}} IN
           \A d, n :
             LET p == <<"r1", "dispatches", d, n>> IN
             /\ d \in T => Dir(d) \in u.dirs
             /\ ReadFile(u, p) = IF d \in T THEN ReadFile(ExportDispatch(t, "r1", d, FsEmpty), p)
                                 ELSE Err
<1> DEFINE T == {k[2] : k \in {l \in DOMAIN t.dispatch : l[1] = "r1"}}
           made == [d \in T |-> ExportDispatch(t, "r1", d, FsEmpty)]
           base == Put(FsEmpty, Manifest, ExportedManifest(PgReadRun(t, "r1")[1]))
           u1 == ExportDispatches(t, "r1", base)
           u2 == [u1 EXCEPT !.dirs = @ \cup {In(RunDir("r1"), "dispatches")}]
           u3 == exportAuditKind(t, "r1", "dispatch", u2)
           u4 == exportAuditKind(t, "r1", "toolgate", u3)
           all == UNION {DOMAIN made[d].files : d \in T}
           dirs == UNION {made[d].dirs : d \in T}
<1>1. ExportRun(t, "r1", FsEmpty).store = u4
  <2>1. PgReadRun(t, "r1") # Err
    BY DEF PgReadRun, Ok, Err
  <2> HIDE DEF u1
  <2> QED BY <2>1, Answers DEF ExportRun, Manifest, u1
<1>2. /\ u1.dirs = base.dirs \cup dirs
      /\ DOMAIN u1.files = DOMAIN base.files \cup all
      /\ \A p \in DOMAIN u1.files : u1.files[p] = IF p \in all THEN made[p[3]].files[p] ELSE base.files[p]
      /\ IsTree(u1)
  <2> DEFINE kept == [p \in DOMAIN base.files \cup all |->
                        IF p \in all THEN made[p[3]].files[p] ELSE base.files[p]]
  <2>1. DOMAIN made = T
    OBVIOUS
  <2>2. u1 = [dirs |-> base.dirs \cup dirs, files |-> kept]
    <3> HIDE DEF base
    <3> QED BY <2>1 DEF ExportDispatches
  <2> HIDE DEF u1, base, all, dirs, made
  <2> QED BY <2>2 DEF IsTree
<1>3. DOMAIN base.files = {Manifest}
  BY PutEffect DEF FsEmpty
<1>4. ASSUME NEW d \in T
      PROVE  /\ made[d] = ExportDispatch(t, "r1", d, FsEmpty)
             /\ Dir(d) \in made[d].dirs
             /\ \A p \in DOMAIN made[d].files : p[3] = d
  <2> HIDE DEF T
  <2> QED BY DispatchExported
<1> HIDE DEF T, made, base, u1, all
<1>5. /\ u1.dirs \subseteq u2.dirs
      /\ \A q : ReadFile(u2, q) = ReadFile(u1, q)
  BY <1>2 DEF ReadFile, Has, IsTree
<1> HIDE DEF u2
<1>6. /\ u2.dirs \subseteq u4.dirs
      /\ \A q : Len(q) = 4 => ReadFile(u4, q) = ReadFile(u2, q)
  <2>1. \A k : Len(FsAuditPath("r1", k)) = 3
    BY DEF FsAuditPath
  <2>2. /\ u2.dirs \subseteq u3.dirs
        /\ \A q : Len(q) = 4 => ReadFile(u3, q) = ReadFile(u2, q)
    BY <2>1, PutEffect DEF exportAuditKind
  <2> HIDE DEF u3, u4
  <2>3. /\ u3.dirs \subseteq u4.dirs
        /\ \A q : Len(q) = 4 => ReadFile(u4, q) = ReadFile(u3, q)
    <3>1. PICK v : u4 = Put(u3, FsAuditPath("r1", "toolgate"), v)
      BY DEF exportAuditKind, u4
    <3> QED BY <2>1, <3>1, PutEffect
  <2> QED BY <2>2, <2>3
<1> HIDE DEF u4
<1>7. ASSUME NEW d, NEW n
      PROVE  LET p == <<"r1", "dispatches", d, n>> IN
             /\ d \in T => Dir(d) \in u4.dirs
             /\ ReadFile(u4, p) = IF d \in T THEN ReadFile(made[d], p) ELSE Err
  <2>1. PICK p : p = <<"r1", "dispatches", d, n>>
    OBVIOUS
  <2>2. Len(p) = 4 /\ p[3] = d /\ p # Manifest
    <3>1. Len(Manifest) = 2
      BY ManifestSpelled
    <3> QED BY <2>1, <3>1
  <2>3. d \in T => Dir(d) \in u4.dirs
    BY <1>2, <1>4, <1>5, <1>6
  <2>4. ReadFile(u4, p) = ReadFile(u1, p)
    BY <1>5, <1>6, <2>2
  <2>5. p \in all <=> d \in T /\ p \in DOMAIN made[d].files
    BY <1>4, <2>2 DEF all
  <2>6. p \in DOMAIN u1.files <=> p \in all
    BY <1>2, <1>3, <2>2
  <2>7. p \in all => u1.files[p] = made[d].files[p]
    BY <1>2, <2>2, <2>6
  <2>8. ReadFile(u1, p) = IF d \in T THEN ReadFile(made[d], p) ELSE Err
    BY <2>5, <2>6, <2>7 DEF ReadFile, Has
  <2> QED BY <2>1, <2>3, <2>4, <2>8
<1> QED BY <1>1, <1>4, <1>7 DEF T

\* An export of tables that agree with some tree tells the same of the run.
LEMMA AgreeExportsSame == ASSUME NEW s, Agree(s, pg) PROVE ExportTellsSame
<1> DEFINE T == {k[2] : k \in {l \in DOMAIN pg.dispatch : l[1] = "r1"}}
           S == {d \in DispatchId : DispatchDir("r1", d) \in Exported.dirs
                                    /\ Has(Exported, MetaPath("r1", d))}
           Read(d, n) == ReadFile(Exported, <<"r1", "dispatches", d, n>>)
<1>1. \A d : <<"r1", d>> \in DOMAIN pg.dispatch => d \in T
  <2> SUFFICES ASSUME NEW d, <<"r1", d>> \in DOMAIN pg.dispatch PROVE d \in T
    OBVIOUS
  <2>1. <<"r1", d>>[1] = "r1" /\ <<"r1", d>>[2] = d
    OBVIOUS
  <2> QED BY <2>1
<1>2. \A d \in T : d \in DispatchId /\ <<"r1", d>> \in DOMAIN pg.dispatch
  <2>1. CASE s = FsEmpty /\ pg = PgEmpty
    BY <2>1 DEF PgEmpty
  <2>2. CASE Same(s, pg)
    <3>1. SUFFICES ASSUME NEW k \in DOMAIN pg.dispatch
                   PROVE  k[2] \in DispatchId /\ <<"r1", k[2]>> \in DOMAIN pg.dispatch
      OBVIOUS
    <3>2. PICK d \in Ids(s) \cup {Root} : k = <<"r1", d>>
      BY <2>2 DEF Same, RecordsSame
    <3>3. k[2] = d
      BY <3>2
    <3> QED BY <3>2, <3>3, RootIsNone DEF Ids
  <2> QED BY <2>1, <2>2 DEF Agree
<1>3. ASSUME NEW d
      PROVE  /\ d \in T => /\ Dir(d) \in Exported.dirs
                           /\ Read(d, "meta.json") = Ok(pg.dispatch[<<"r1", d>>])
                           /\ Read(d, "brief.md") = PgReadBrief(pg, "r1", d)
                           /\ Read(d, "report.md") = PgReadReport(pg, "r1", d)
                           /\ <<"r1", d>> \in DOMAIN pg.config =>
                                Read(d, "settings.json") = PgReadAdapterConfig(pg, "r1", d)
             /\ d \notin T => \A n : Read(d, n) = Err
  <2>1. CASE s = FsEmpty /\ pg = PgEmpty
    <3>1. DOMAIN pg.dispatch = {} /\ DOMAIN pg.run = {}
      BY <2>1 DEF PgEmpty
    <3>2. T = {}
      BY <3>1
    <3>3. Exported = FsEmpty
      BY <3>1, Answers DEF Exported, ExportRun, PgReadRun, RunExists
    <3>4. \A q : ReadFile(FsEmpty, q) = Err
      BY DEF ReadFile, Has, FsEmpty
    <3> QED BY <3>2, <3>3, <3>4
  <2>2. CASE Same(s, pg)
    <3>1. RunExists(pg, "r1")
      BY <2>2, SameHasRun
    <3>2. \A n : /\ d \in T => Dir(d) \in Exported.dirs
                 /\ Read(d, n) = IF d \in T
                                 THEN ReadFile(ExportDispatch(pg, "r1", d, FsEmpty),
                                               <<"r1", "dispatches", d, n>>)
                                 ELSE Err
      BY <3>1, RunExported DEF Exported
    <3> HIDE DEF Read, T
    <3>3. ASSUME d \in T
          PROVE  /\ Read(d, "meta.json") = Ok(pg.dispatch[<<"r1", d>>])
                 /\ Read(d, "brief.md") = PgReadBrief(pg, "r1", d)
                 /\ Read(d, "report.md") = PgReadReport(pg, "r1", d)
                 /\ <<"r1", d>> \in DOMAIN pg.config =>
                      Read(d, "settings.json") = PgReadAdapterConfig(pg, "r1", d)
      <4>1. d \in DispatchId
        BY <1>2, <3>3
      <4>2. PgReadBrief(pg, "r1", d) # Ok("") /\ PgReadReport(pg, "r1", d) # Ok("")
        BY <2>2, <4>1 DEF Same, DocsSame
      <4>3. ASSUME <<"r1", d>> \in DOMAIN pg.config PROVE PgReadAdapterConfig(pg, "r1", d) # Ok("")
        <5>1. IsText(pg.config[<<"r1", d>>])
          BY <2>2, <4>3 DEF Same, ConfigsSame
        <5>2. \A v : IsText(v) => Ok(v) # Ok("")
          BY DEF IsText, Ok
        <5>3. Err # Ok("")
          BY DEF Err, Ok
        <5> QED BY <4>3, <5>1, <5>2, <5>3 DEF PgReadAdapterConfig, Get
      <4> QED BY <3>2, <3>3, <4>2, <4>3, DispatchExported
    <3> QED BY <3>2, <3>3
  <2> QED BY <2>1, <2>2 DEF Agree
<1>4. \A d, n : Ok(d) # Err
  BY DEF Ok, Err
<1>5. S = T
  <2>1. \A d : Has(Exported, MetaPath("r1", d)) <=> Read(d, "meta.json") # Err
    BY <1>4, PathsSpelled DEF ReadFile
  <2> HIDE DEF Read, T
  <2> QED BY <1>2, <1>3, <1>4, <2>1 DEF Dir
<1> HIDE DEF S
<1>6. \A d \in T : Exported.files[MetaPath("r1", d)] = pg.dispatch[<<"r1", d>>]
  <2>1. \A x, y : Ok(x) = Ok(y) => x = y
    BY DEF Ok
  <2>2. \A d \in T : Read(d, "meta.json") = Ok(Exported.files[MetaPath("r1", d)])
    BY <1>3, <1>4, PathsSpelled DEF ReadFile
  <2>3. \A d \in T : Read(d, "meta.json") = Ok(pg.dispatch[<<"r1", d>>])
    BY <1>3
  <2> HIDE DEF Read, T
  <2> QED BY <2>1, <2>2, <2>3
<1>7. FsListDispatches(Exported, "r1") = PgListDispatches(pg, "r1")
  <2>1. S \in SUBSET Nat /\ IsFiniteSet(S)
    <3>1. DispatchId \in SUBSET Nat /\ IsFiniteSet(DispatchId)
      BY RecordsAssumption, FS_Interval DEF DispatchId, Root
    <3>2. S \in SUBSET DispatchId
      BY DEF S
    <3> QED BY <3>1, <3>2, FS_Subset
  <2>2. PICK keys : keys = Asc(S)
    OBVIOUS
  <2> HIDE DEF S
  <2>3. \A i \in DOMAIN keys : keys[i] \in T
    BY <1>5, <2>1, <2>2, AscElements
  <2>4. FsListDispatches(Exported, "r1") = [i \in DOMAIN keys |-> Exported.files[MetaPath("r1", keys[i])]]
    BY <2>2 DEF FsListDispatches, S
  <2>5. PgListDispatches(pg, "r1") = [i \in DOMAIN keys |-> pg.dispatch[<<"r1", keys[i]>>]]
    <3>1. keys = Asc(T)
      BY <1>5, <2>2
    <3> QED BY <3>1 DEF PgListDispatches, RowsOf
  <2> HIDE DEF T
  <2> QED BY <1>6, <2>3, <2>4, <2>5
<1>8. \A d : /\ Read(d, "brief.md") = FsReadBrief(Exported, "r1", d)
             /\ Read(d, "report.md") = FsReadReport(Exported, "r1", d)
             /\ Read(d, "settings.json") = FsReadAdapterConfig(Exported, "r1", d)
  BY PathsSpelled DEF FsReadBrief, FsReadReport, FsReadAdapterConfig
<1>9. \A d : d \notin T => PgReadAdapterConfig(pg, "r1", d) = Err
  BY <1>1 DEF PgReadAdapterConfig
<1> HIDE DEF T, S, Read
<1> QED BY <1>1, <1>3, <1>7, <1>8, <1>9 DEF ExportTellsSame

\* At every moment, however far the mirror is behind, an export of what
\* postgres has is read back as what postgres has.
THEOREM ExportTells == StoresSpec => []ExportTellsSame
<1>1. StoresInv => ExportTellsSame
  <2> SUFFICES ASSUME StoresInv PROVE ExportTellsSame
    OBVIOUS
  <2>1. PICK w : /\ w[0] = pg
                 /\ \E S : queue \in Seq(S)
                 /\ \A i \in 0..Len(queue) : \E s : Agree(s, w[i])
    BY DEF StoresInv
  <2>2. 0 \in 0..Len(queue)
    BY <2>1
  <2>3. PICK s : Agree(s, pg)
    BY <2>1, <2>2
  <2> QED BY <2>3, AgreeExportsSame
<1> QED BY <1>1, StoresInvariant, PTL
=============================================================================
