-------------------------- MODULE StatusFileProofs --------------------------
(***************************************************************************)
(* Status files for any number of readers and cleaners, any payload and    *)
(* any number of files, writes and crashes: what the last write left, and  *)
(* what a read returns.                                                    *)
(***************************************************************************)
EXTENDS StatusFile, TLAPS

LEMMA StatusSizes ==
    /\ Size \in Nat /\ Size >= 1 /\ MaxInodes \in Nat /\ MaxInodes >= 1
    /\ MaxWrites \in Nat /\ MaxCrashes \in Nat /\ MAGIC # 0 /\ VERSION # 0
    /\ "magic" \notin Payload /\ "version" \notin Payload
BY StatusAssumption

FileRecord == [len : Nat, words : Record]

WriteRecord(n) ==
    [pc : {"idle", "panicked"} \cup Writing \cup Refusals, bytes : Record,
     ino : 0..n, todo : SUBSET Words]

ReadRecord(n) ==
    [pc : {"idle", "map", "words"} \cup Ended, ino : 0..n, buf : Record,
     todo : SUBSET Words, began : SUBSET Held]

(* What the record type's bytes look like.                                 *)
LEMMA BytesForm ==
    ASSUME NEW magic \in {0, MAGIC}, NEW v \in Held
    PROVE  /\ Bytes(magic, v) \in Record
           /\ Bytes(magic, v)["magic"] = magic
           /\ version_matches(Bytes(magic, v))
           /\ \A k \in Payload : Bytes(magic, v)[k] = v
<1>1. \A k \in Words : Bytes(magic, v)[k] \in Held \cup {0, MAGIC, VERSION}
    BY DEF Bytes, Words
<1>2. Bytes(magic, v) \in Record
    BY <1>1 DEF Bytes, Record
<1>3. \A k \in Payload : Bytes(magic, v)[k] = v
    BY StatusSizes DEF Bytes, Words
<1> QED
    BY <1>2, <1>3 DEF Bytes, Words, version_matches

LEMMA BlankForm == Blank \in Record
BY DEF Blank, Record

LEMMA StatusTyped ==
    ASSUME StatusInv
    PROVE  /\ inodes \in Nat /\ inodes <= MaxInodes /\ dir \in Nat /\ dir <= inodes
           /\ file \in [Inodes -> FileRecord] /\ wr \in WriteRecord(inodes)
           /\ rd \in [Readers -> ReadRecord(inodes)]
           /\ stands \subseteq Held
           /\ \A i \in Nat : i # 0 /\ i <= inodes => i \in Inodes
           /\ \A i \in Inodes : /\ file[i] \in FileRecord
                                /\ file[i].len \in Nat /\ file[i].words \in Record
BY StatusSizes DEF StatusInv, StatusTypeOK, FileRecord, WriteRecord, ReadRecord, Inodes

-----------------------------------------------------------------------------
LEMMA StatusInit == Init => StatusInv
<1> SUFFICES ASSUME Init PROVE StatusInv
    OBVIOUS
<1>w. wr = NoWrite /\ wr.pc = "idle"
    BY DEF Init, NoWrite
<1>r. \A r \in Readers : rd[r] = NoRead /\ rd[r].pc = "idle"
    BY DEF Init, NoRead
<1>o. Old \in Held /\ MAGIC \in {0, MAGIC} /\ 0 \in {0, MAGIC}
    BY DEF Held
<1>1. StatusTypeOK
  <2>1. inodes \in 0..MaxInodes /\ dir \in 0..inodes
      BY StatusSizes DEF Init
  <2>2. file \in [Inodes -> [len : Nat, words : Record]]
    <3>1. Empty \in [len : Nat, words : Record]
        BY BlankForm DEF Empty
    <3>2. ASSUME NEW f \in Leftover PROVE f \in [len : Nat, words : Record]
      <4>1. f.len \in Nat /\ f = [len |-> f.len, words |-> f.words]
          BY <3>2, StatusSizes DEF Leftover
      <4>2. [Bytes(MAGIC, Old) EXCEPT !["version"] = 0] \in Record
          BY <1>o, BytesForm DEF Record
      <4>3. f.words \in Record
          BY <3>2, <4>2, <1>o, BytesForm DEF Leftover
      <4> QED
          BY <4>1, <4>3
    <3> QED
        BY <3>1, <3>2 DEF Init
  <2>3. wr \in [pc : {"idle", "panicked"} \cup Writing \cup Refusals,
                bytes : Record, ino : 0..inodes, todo : SUBSET Words]
      BY <1>w, <2>1, BlankForm, StatusSizes DEF NoWrite
  <2>4. rd \in [Readers -> [pc : {"idle", "map", "words"} \cup Ended,
                            ino : 0..inodes, buf : Record, todo : SUBSET Words,
                            began : SUBSET Held]]
    <3>1. NoRead \in [pc : {"idle", "map", "words"} \cup Ended,
                      ino : 0..inodes, buf : Record, todo : SUBSET Words,
                      began : SUBSET Held]
        BY <2>1, BlankForm, StatusSizes DEF NoRead
    <3> QED
        BY <3>1 DEF Init
  <2>5. kpc \in [Cleaners -> {"idle", "remove", "failed"}]
      BY DEF Init
  <2>6. writes \in 0..MaxWrites /\ crashes \in 0..MaxCrashes /\ stands \in SUBSET Held
      BY StatusSizes, <1>o DEF Init
  <2> QED
      BY <2>1, <2>2, <2>3, <2>4, <2>5, <2>6 DEF StatusTypeOK
<1>2. LastWriteStands
  <2> SUFFICES ASSUME stands # {}, dir # 0
               PROVE  file[dir].len >= Size /\ RecordOf(file[dir].words, stands)
      BY DEF LastWriteStands
  <2>1. dir = 1 /\ stands = {Old} /\ Readable(file[1])
      BY DEF Init
  <2>2. PICK f \in Leftover : file = [i \in Inodes |-> IF i = 1 THEN f ELSE Empty]
      BY <2>1 DEF Init
  <2>3. file[1] = f
      BY <2>2, StatusSizes DEF Inodes
  <2>4. f.words \in {Bytes(MAGIC, Old), Bytes(0, Old)}
    <3>1. [Bytes(MAGIC, Old) EXCEPT !["version"] = 0]["version"] = 0
        BY DEF Bytes, Words
    <3>2. f.words["version"] # 0
        BY <2>1, <2>3, StatusSizes DEF Readable, version_matches
    <3> QED
        BY <3>1, <3>2, <2>2 DEF Leftover
  <2>5. \A k \in Payload : f.words[k] = Old
      BY <2>4, <1>o, BytesForm
  <2> QED
      BY <2>1, <2>3, <2>5 DEF Readable, RecordOf
<1>3. WriterKnows /\ \A r \in Readers : ReaderKnows(r)
    BY <1>w, <1>r DEF WriterKnows, ReaderKnows, Writing
<1>4. ReadIdentified /\ UndisturbedReadExact
    BY <1>r DEF ReadIdentified, UndisturbedReadExact, Ended, Refusals
<1> QED
    BY <1>1, <1>2, <1>3, <1>4 DEF StatusInv

-----------------------------------------------------------------------------
(* The readers while others act: a read is spoilt, or its inode is as it   *)
(* was.                                                                    *)
LEMMA ReadersGoOn ==
    ASSUME StatusInv,
           \A r \in Readers :
               /\ rd'[r].pc = rd[r].pc /\ rd'[r].ino = rd[r].ino
               /\ rd'[r].buf = rd[r].buf /\ rd'[r].todo = rd[r].todo
               /\ rd[r].pc # "idle" =>
                     \/ rd'[r].began = {}
                     \/ /\ rd'[r].began = rd[r].began
                        /\ file'[rd[r].ino].words = file[rd[r].ino].words
                        /\ file[rd[r].ino].len >= Size => file'[rd[r].ino].len >= Size
    PROVE  /\ (\A r \in Readers : ReaderKnows(r))'
           /\ ReadIdentified' /\ UndisturbedReadExact'
<1>1. ASSUME NEW r \in Readers PROVE ReaderKnows(r)'
  <2>1. ReaderKnows(r)
      BY DEF StatusInv
  <2> QED
      BY <2>1 DEF ReaderKnows
<1>2. ReadIdentified'
    BY DEF StatusInv, ReadIdentified
<1>3. UndisturbedReadExact'
    BY DEF StatusInv, UndisturbedReadExact, Ended, Refusals
<1> QED
    BY <1>1, <1>2, <1>3

LEMMA ReadersUntouched ==
    ASSUME StatusInv, UNCHANGED <<rd, file>>
    PROVE  /\ (\A r \in Readers : ReaderKnows(r))'
           /\ ReadIdentified' /\ UndisturbedReadExact'
BY ReadersGoOn

(* What Touches does to the readers.                                       *)
LEMMA TouchedReads ==
    ASSUME StatusInv, NEW i, Touches(i), NEW n \in Nat, inodes <= n
    PROVE  /\ rd' \in [Readers -> ReadRecord(n)]
           /\ \A r \in Readers :
               /\ rd'[r].pc = rd[r].pc /\ rd'[r].ino = rd[r].ino
               /\ rd'[r].buf = rd[r].buf /\ rd'[r].todo = rd[r].todo
               /\ rd'[r].began = IF rd[r].ino = i THEN {} ELSE rd[r].began
<1>1. ASSUME NEW r \in Readers
      PROVE  /\ rd'[r] \in ReadRecord(n)
             /\ rd'[r].pc = rd[r].pc /\ rd'[r].ino = rd[r].ino
             /\ rd'[r].buf = rd[r].buf /\ rd'[r].todo = rd[r].todo
             /\ rd'[r].began = IF rd[r].ino = i THEN {} ELSE rd[r].began
  <2>1. rd[r] \in ReadRecord(inodes) /\ inodes \in Nat
      BY StatusTyped
  <2>2. rd[r] \in ReadRecord(n)
      BY <2>1 DEF ReadRecord
  <2>3. rd'[r] = IF rd[r].ino = i THEN [rd[r] EXCEPT !.began = {}] ELSE rd[r]
      BY DEF Touches
  <2> QED
      BY <2>2, <2>3 DEF ReadRecord
<1>2. rd' = [r \in Readers |-> rd'[r]]
    BY DEF Touches
<1> QED
    BY <1>1, <1>2

-----------------------------------------------------------------------------
(* The writer.                                                             *)

(* A step of the writer, from what it does to the file and to itself.      *)
LEMMA WriterFrame ==
    ASSUME StatusInv, UNCHANGED kpc, inodes' \in Nat, inodes' <= MaxInodes, dir' \in Nat, dir' <= inodes',
           file' \in [Inodes -> FileRecord], wr' \in WriteRecord(inodes'),
           rd' \in [Readers -> ReadRecord(inodes')],
           writes' \in 0..MaxWrites, crashes' \in 0..MaxCrashes, stands' \subseteq Held,
           WriterKnows', LastWriteStands',
           (\A r \in Readers : ReaderKnows(r))', ReadIdentified', UndisturbedReadExact'
    PROVE  StatusInv'
<1>1. inodes' \in 0..MaxInodes /\ dir' \in 0..inodes'
    BY StatusSizes
<1>2. StatusTypeOK'
    BY <1>1 DEF StatusInv, StatusTypeOK, FileRecord, WriteRecord, ReadRecord
<1> QED
    BY <1>2 DEF StatusInv

LEMMA CreateOpenInd ==
    ASSUME StatusInv, NEW v \in Values, NEW magic \in {0, MAGIC},
           CreateOpen(Bytes(magic, v))
    PROVE  StatusInv'
<1> DEFINE b == Bytes(magic, v)
           i == CreatedInode
<1>t. /\ inodes \in Nat /\ inodes <= MaxInodes /\ dir \in Nat /\ dir <= inodes
      /\ file \in [Inodes -> FileRecord] /\ stands \subseteq Held
      /\ rd \in [Readers -> ReadRecord(inodes)]
    BY StatusTyped
<1>b. b \in Record /\ version_matches(b) /\ \A k \in Payload : b[k] \in Values
    BY BytesForm DEF Held
<1>i. /\ i \in Nat /\ i # 0 /\ i <= inodes' /\ inodes <= inodes'
      /\ inodes' \in Nat /\ inodes' <= MaxInodes /\ dir' = i /\ i \in Inodes
    BY <1>t, StatusSizes DEF CreateOpen, CreatedInode, Inodes
<1>w. wr' = [pc |-> "setLen", bytes |-> b, ino |-> i, todo |-> {}]
    BY DEF CreateOpen
<1>f. file' = [file EXCEPT ![i] = Empty] /\ stands' = {} /\ Touches(i)
    BY DEF CreateOpen
<1>c. UNCHANGED <<kpc, crashes>> /\ writes' = writes + 1 /\ writes < MaxWrites
    BY DEF CreateOpen
<1> HIDE DEF i, b
<1>1. wr' \in WriteRecord(inodes')
    BY <1>w, <1>b, <1>i DEF WriteRecord, Writing
<1>2. file' \in [Inodes -> FileRecord]
  <2>1. Empty \in FileRecord
      BY BlankForm DEF Empty, FileRecord
  <2> QED
      BY <2>1, <1>f, <1>t
<1>3. writes' \in 0..MaxWrites /\ crashes' \in 0..MaxCrashes
    BY <1>c, StatusSizes DEF StatusInv, StatusTypeOK
<1>4. WriterKnows' /\ LastWriteStands'
    BY <1>w, <1>i, <1>f, <1>b DEF WriterKnows, LastWriteStands
<1>5. /\ rd' \in [Readers -> ReadRecord(inodes')]
      /\ \A r \in Readers :
            /\ rd'[r].pc = rd[r].pc /\ rd'[r].ino = rd[r].ino
            /\ rd'[r].buf = rd[r].buf /\ rd'[r].todo = rd[r].todo
            /\ rd'[r].began = IF rd[r].ino = i THEN {} ELSE rd[r].began
    BY <1>f, <1>i, TouchedReads
<1>6. ASSUME NEW r \in Readers, rd[r].pc # "idle", rd[r].ino # i
      PROVE  file'[rd[r].ino] = file[rd[r].ino]
  <2>1. rd[r].ino \in Inodes
      BY <1>6, StatusTyped DEF StatusInv, ReaderKnows, ReadRecord
  <2> QED
      BY <2>1, <1>6, <1>f, <1>t
<1>7. (\A r \in Readers : ReaderKnows(r))' /\ ReadIdentified' /\ UndisturbedReadExact'
    BY <1>5, <1>6, ReadersGoOn
<1> QED
    BY <1>1, <1>2, <1>3, <1>4, <1>5, <1>7, <1>i, <1>f, <1>c, WriterFrame

(* The writer at work.                                                     *)
LEMMA WriterTyped ==
    ASSUME StatusInv, wr.pc \in Writing
    PROVE  /\ wr \in WriteRecord(inodes) /\ wr.bytes \in Record /\ wr.ino \in Inodes
           /\ wr.todo \subseteq Words /\ version_matches(wr.bytes)
           /\ \A k \in Payload : wr.bytes[k] \in Values /\ wr.bytes[k] \in Held
           /\ dir \in {0, wr.ino}
           /\ file[wr.ino] \in FileRecord /\ file[wr.ino].words \in Record
<1>1. wr \in WriteRecord(inodes) /\ wr.ino # 0 /\ dir \in {0, wr.ino}
    BY StatusTyped DEF StatusInv, WriterKnows
<1>2. wr.bytes \in Record /\ wr.ino \in Inodes /\ wr.todo \subseteq Words
    BY <1>1, StatusTyped DEF WriteRecord
<1>3. version_matches(wr.bytes) /\ \A k \in Payload : wr.bytes[k] \in Values
    BY DEF StatusInv, WriterKnows
<1> QED
    BY <1>1, <1>2, <1>3, StatusTyped DEF Held

LEMMA CreateSetLenInd ==
    ASSUME StatusInv, CreateSetLen
    PROVE  StatusInv'
<1>t. /\ inodes \in Nat /\ inodes <= MaxInodes /\ dir \in Nat /\ dir <= inodes
      /\ file \in [Inodes -> FileRecord] /\ stands \subseteq Held
      /\ rd \in [Readers -> ReadRecord(inodes)]
    BY StatusTyped
<1>w. /\ wr \in WriteRecord(inodes) /\ wr.ino \in Inodes /\ dir \in {0, wr.ino}
      /\ version_matches(wr.bytes) /\ \A k \in Payload : wr.bytes[k] \in Values
      /\ wr.pc = "setLen" /\ stands = {}
    BY WriterTyped DEF CreateSetLen, StatusInv, WriterKnows, Writing
<1>u. /\ UNCHANGED <<dir, inodes, rd, writes, crashes, stands>> /\ UNCHANGED kpc
      /\ file' = [file EXCEPT ![wr.ino].len = Size]
      /\ wr' = [wr EXCEPT !.pc = "copy", !.todo = Words]
    BY DEF CreateSetLen, countVars
<1>1. /\ wr' \in WriteRecord(inodes) /\ wr'.ino = wr.ino /\ wr'.bytes = wr.bytes
      /\ wr'.todo = Words
    BY <1>u, <1>w DEF WriteRecord, Writing
<1>2. /\ file' \in [Inodes -> FileRecord] /\ file'[wr.ino].len = Size
      /\ \A j \in Inodes : /\ file'[j].words = file[j].words
                           /\ file[j].len >= Size => file'[j].len >= Size
    BY <1>t, <1>u, <1>w, StatusSizes DEF FileRecord
<1>3. WriterKnows' /\ LastWriteStands'
  <2>1. wr.ino # 0
      BY <1>w DEF Inodes
  <2> QED
      BY <2>1, <1>1, <1>2, <1>u, <1>w DEF WriterKnows, LastWriteStands
<1>4. \A r \in Readers : rd[r].pc # "idle" => rd[r].ino \in Inodes
    BY StatusTyped DEF StatusInv, ReaderKnows, ReadRecord
<1>5. (\A r \in Readers : ReaderKnows(r))' /\ ReadIdentified' /\ UndisturbedReadExact'
    BY <1>2, <1>4, <1>u, ReadersGoOn
<1>6. writes' \in 0..MaxWrites /\ crashes' \in 0..MaxCrashes
    BY <1>u DEF StatusInv, StatusTypeOK
<1> QED
    BY <1>1, <1>2, <1>3, <1>5, <1>6, <1>u, <1>t, WriterFrame

LEMMA UpdateOpenInd ==
    ASSUME StatusInv, NEW v \in Values, NEW magic \in {0, MAGIC},
           UpdateOpen(Bytes(magic, v))
    PROVE  StatusInv'
<1> DEFINE b == Bytes(magic, v)
<1>t. /\ inodes \in Nat /\ inodes <= MaxInodes /\ dir \in Nat /\ dir <= inodes
      /\ file \in [Inodes -> FileRecord] /\ stands \subseteq Held
      /\ rd \in [Readers -> ReadRecord(inodes)]
    BY StatusTyped
<1>b. b \in Record /\ version_matches(b) /\ \A k \in Payload : b[k] \in Values
    BY BytesForm DEF Held
<1>u. /\ UNCHANGED <<dir, inodes, file, rd, crashes, stands>> /\ UNCHANGED kpc
      /\ writes < MaxWrites /\ writes' = writes + 1 /\ dir # 0
      /\ wr' = [pc |-> "check", bytes |-> b, ino |-> dir, todo |-> {}]
    BY DEF UpdateOpen, dirVars
<1> HIDE DEF b
<1>1. wr' \in WriteRecord(inodes)
    BY <1>u, <1>b, <1>t DEF WriteRecord, Writing
<1>2. WriterKnows' /\ LastWriteStands'
    BY <1>u, <1>b DEF WriterKnows, LastWriteStands, StatusInv
<1>3. writes' \in 0..MaxWrites /\ crashes' \in 0..MaxCrashes
    BY <1>u, StatusSizes DEF StatusInv, StatusTypeOK
<1> QED
    BY <1>1, <1>2, <1>3, <1>u, <1>t, ReadersUntouched, WriterFrame

(* A file that update copies into has the record's length.                 *)
LEMMA AcceptedLength ==
    ASSUME NEW f, Verdict(f) = "copy"
    PROVE  f.len = Size
BY DEF Verdict

LEMMA UpdateAcceptedInd ==
    ASSUME StatusInv, UpdateAccepted
    PROVE  StatusInv'
<1>t. /\ inodes \in Nat /\ inodes <= MaxInodes /\ dir \in Nat /\ dir <= inodes
      /\ file \in [Inodes -> FileRecord] /\ stands \subseteq Held
      /\ rd \in [Readers -> ReadRecord(inodes)]
    BY StatusTyped
<1> DEFINE s == {wr.bytes[k] : k \in Payload}
<1>w. /\ wr \in WriteRecord(inodes) /\ wr.ino \in Inodes /\ dir \in {0, wr.ino}
      /\ version_matches(wr.bytes) /\ \A k \in Payload : wr.bytes[k] \in Values
      /\ s \subseteq Held /\ \A k \in Payload : wr.bytes[k] \in s
    BY WriterTyped DEF UpdateAccepted, Writing
<1> HIDE DEF s
<1>u. /\ UNCHANGED <<dir, inodes, file, rd, writes, crashes>> /\ UNCHANGED kpc
      /\ file[wr.ino].len = Size
      /\ wr' = [wr EXCEPT !.pc = "copy", !.todo = Words]
      /\ stands' = IF magic_matches(wr.bytes) /\ stands # {} THEN stands \cup s ELSE {}
    BY AcceptedLength DEF UpdateAccepted, dirVars, countVars, s
<1>1. /\ wr' \in WriteRecord(inodes) /\ wr'.ino = wr.ino /\ wr'.bytes = wr.bytes
      /\ wr'.todo = Words /\ wr'.pc = "copy"
    BY <1>u, <1>w DEF WriteRecord, Writing
<1>2. stands' \subseteq Held
    BY <1>u, <1>w, <1>t
<1>3. ASSUME stands' # {}
      PROVE  /\ stands # {} /\ stands' = stands \cup s
             /\ RecordOf(wr.bytes, stands')
    BY <1>3, <1>u, <1>w DEF RecordOf
<1>4. WriterKnows'
  <2>1. wr.ino # 0
      BY <1>w DEF Inodes
  <2> QED
      BY <2>1, <1>1, <1>3, <1>u, <1>w DEF WriterKnows
<1>5. LastWriteStands'
    BY <1>3, <1>u DEF StatusInv, LastWriteStands, RecordOf
<1>6. writes' \in 0..MaxWrites /\ crashes' \in 0..MaxCrashes
    BY <1>u DEF StatusInv, StatusTypeOK
<1> QED
    BY <1>1, <1>2, <1>4, <1>5, <1>6, <1>u, <1>t, ReadersUntouched, WriterFrame

LEMMA CopyWordInd ==
    ASSUME StatusInv, NEW k \in Words, CopyWord(k)
    PROVE  StatusInv'
<1>t. /\ inodes \in Nat /\ inodes <= MaxInodes /\ dir \in Nat /\ dir <= inodes
      /\ file \in [Inodes -> FileRecord] /\ stands \subseteq Held
      /\ rd \in [Readers -> ReadRecord(inodes)]
    BY StatusTyped
<1>w. /\ wr \in WriteRecord(inodes) /\ wr.ino \in Inodes /\ dir \in {0, wr.ino}
      /\ version_matches(wr.bytes) /\ wr.bytes \in Record
      /\ \A j \in Payload : wr.bytes[j] \in Values
      /\ wr.pc = "copy" /\ k \in wr.todo /\ wr.todo \subseteq Words
      /\ file[wr.ino] \in FileRecord /\ file[wr.ino].words \in Record
    BY WriterTyped DEF CopyWord, Writing
<1>x. /\ file[wr.ino].len = Size
      /\ \A j \in Words \ wr.todo : file[wr.ino].words[j] = wr.bytes[j]
      /\ stands # {} => RecordOf(wr.bytes, stands)
    BY <1>w DEF StatusInv, WriterKnows, Writing
<1> DEFINE ws == [file[wr.ino].words EXCEPT ![k] = wr.bytes[k]]
           t  == wr.todo \ {k}
<1>u. /\ UNCHANGED <<dir, inodes, writes, crashes, stands>> /\ UNCHANGED kpc
      /\ file' = [file EXCEPT ![wr.ino].words = ws]
      /\ wr' = [wr EXCEPT !.todo = t] /\ Touches(wr.ino)
    BY DEF CopyWord, countVars, SharedCopy
<1>v. /\ ws \in Record /\ ws[k] = wr.bytes[k]
      /\ \A j \in Words : j # k => ws[j] = file[wr.ino].words[j]
    BY <1>w DEF Record
<1>s. t \subseteq Words /\ \A j \in Words : j \notin t => j = k \/ j \notin wr.todo
    BY <1>w
<1> HIDE DEF ws, t
<1>1. /\ wr' \in WriteRecord(inodes) /\ wr'.ino = wr.ino /\ wr'.bytes = wr.bytes
      /\ wr'.todo = t /\ wr'.pc = "copy"
    BY <1>u, <1>w, <1>s DEF WriteRecord
<1>2. /\ file' \in [Inodes -> FileRecord]
      /\ file'[wr.ino].words = ws /\ file'[wr.ino].len = file[wr.ino].len
      /\ \A j \in Inodes : j # wr.ino => file'[j] = file[j]
    BY <1>t, <1>u, <1>w, <1>v DEF FileRecord
<1>3. WriterKnows'
  <2>1. wr.ino # 0
      BY <1>w DEF Inodes
  <2>2. \A j \in Words \ t : ws[j] = wr.bytes[j]
      BY <1>s, <1>v, <1>x
  <2> QED
      BY <2>1, <2>2, <1>1, <1>2, <1>x, <1>u, <1>w DEF WriterKnows
<1>4. LastWriteStands'
  <2> SUFFICES ASSUME stands # {}, dir # 0
               PROVE  file'[dir].len >= Size /\ RecordOf(file'[dir].words, stands)
      BY <1>u DEF LastWriteStands
  <2>1. dir = wr.ino
      BY <1>w
  <2>2. RecordOf(wr.bytes, stands) /\ RecordOf(file[wr.ino].words, stands)
      BY <2>1, <1>x DEF StatusInv, LastWriteStands
  <2>3. RecordOf(ws, stands)
      BY <2>2, <1>v DEF RecordOf, magic_matches, version_matches, Words
  <2> QED
      BY <2>1, <2>3, <1>2, <1>x, StatusSizes
<1>5. /\ rd' \in [Readers -> ReadRecord(inodes)]
      /\ \A r \in Readers :
            /\ rd'[r].pc = rd[r].pc /\ rd'[r].ino = rd[r].ino
            /\ rd'[r].buf = rd[r].buf /\ rd'[r].todo = rd[r].todo
            /\ rd'[r].began = IF rd[r].ino = wr.ino THEN {} ELSE rd[r].began
    BY <1>u, <1>t, TouchedReads
<1>6. ASSUME NEW r \in Readers, rd[r].pc # "idle", rd[r].ino # wr.ino
      PROVE  file'[rd[r].ino] = file[rd[r].ino]
  <2>1. rd[r].ino \in Inodes
      BY <1>6, StatusTyped DEF StatusInv, ReaderKnows, ReadRecord
  <2> QED
      BY <2>1, <1>6, <1>2
<1>7. (\A r \in Readers : ReaderKnows(r))' /\ ReadIdentified' /\ UndisturbedReadExact'
    BY <1>5, <1>6, ReadersGoOn
<1>8. writes' \in 0..MaxWrites /\ crashes' \in 0..MaxCrashes
    BY <1>u DEF StatusInv, StatusTypeOK
<1> QED
    BY <1>1, <1>2, <1>3, <1>4, <1>5, <1>7, <1>8, <1>u, <1>t, WriterFrame

(* create or update returns, is refused, panics, or its process dies.      *)
LEMMA WriteEndsInd ==
    ASSUME StatusInv, WriteDone \/ UpdateRefused \/ UpdatePanics \/ WriterDies
    PROVE  StatusInv'
<1>t. /\ inodes \in Nat /\ inodes <= MaxInodes /\ dir \in Nat /\ dir <= inodes
      /\ file \in [Inodes -> FileRecord] /\ stands \subseteq Held
      /\ rd \in [Readers -> ReadRecord(inodes)]
    BY StatusTyped
<1>u. UNCHANGED <<dir, inodes, file, rd, writes>> /\ UNCHANGED kpc
    BY DEF WriteDone, UpdateRefused, UpdatePanics, WriterDies, dirVars, countVars
<1>1. wr' \in WriteRecord(inodes) /\ wr'.pc \notin Writing
  <2>1. PICK pc \in {"idle", "panicked"} \cup Refusals : wr' = [NoWrite EXCEPT !.pc = pc]
    <3>1. NoWrite = [NoWrite EXCEPT !.pc = "idle"]
        BY DEF NoWrite
    <3> QED
        BY <3>1 DEF WriteDone, UpdateRefused, UpdatePanics, WriterDies
  <2> QED
      BY <2>1, <1>t, BlankForm DEF NoWrite, WriteRecord, Writing, Refusals
<1>2. writes' \in 0..MaxWrites /\ crashes' \in 0..MaxCrashes
    BY <1>u, StatusSizes
       DEF WriteDone, UpdateRefused, UpdatePanics, WriterDies, countVars, StatusInv, StatusTypeOK
<1>3. stands' \subseteq Held /\ LastWriteStands'
  <2>1. CASE WriteDone
    <3> DEFINE s == {wr.bytes[k] : k \in {j \in Payload : magic_matches(wr.bytes)}}
    <3>w. /\ dir \in {0, wr.ino} /\ version_matches(wr.bytes) /\ s \subseteq Held
          /\ \A k \in Payload : magic_matches(wr.bytes) => wr.bytes[k] \in s
          /\ s # {} => magic_matches(wr.bytes)
        BY <2>1, WriterTyped DEF WriteDone, Writing
    <3>x. /\ file[wr.ino].len = Size
          /\ \A j \in Words : file[wr.ino].words[j] = wr.bytes[j]
        BY <2>1 DEF WriteDone, StatusInv, WriterKnows, Writing
    <3>s. stands' = s
        BY <2>1 DEF WriteDone
    <3> HIDE DEF s
    <3>1. s # {} => RecordOf(file[wr.ino].words, s)
        BY <3>w, <3>x DEF RecordOf, magic_matches, version_matches, Words
    <3> QED
        BY <3>1, <3>w, <3>x, <3>s, <1>u, StatusSizes DEF LastWriteStands
  <2>2. CASE UpdateRefused \/ UpdatePanics \/ WriterDies
    <3>1. UNCHANGED stands
        BY <2>2 DEF UpdateRefused, UpdatePanics, WriterDies
    <3> QED
        BY <3>1, <1>u, <1>t DEF StatusInv, LastWriteStands
  <2> QED
      BY <2>1, <2>2
<1>4. WriterKnows'
    BY <1>1 DEF WriterKnows
<1> QED
    BY <1>1, <1>2, <1>3, <1>4, <1>u, <1>t, ReadersUntouched, WriterFrame


-----------------------------------------------------------------------------
(* The readers.                                                            *)

(* A step of r has only its own read to answer for.                        *)
LEMMA ReaderFrame ==
    ASSUME StatusInv, NEW r \in Readers, NEW x \in ReadRecord(inodes),
           rd' = [rd EXCEPT ![r] = x],
           UNCHANGED <<dirVars, wr, kpc, countVars, stands>>,
           ReaderKnows(r)',
           x.pc = "ok" => magic_matches(x.buf) /\ version_matches(x.buf),
           (x.pc \in Ended /\ x.began # {}) => x.pc = "ok" /\ RecordOf(x.buf, x.began)
    PROVE  StatusInv'
<1>u. UNCHANGED <<dir, inodes, file, wr, kpc, writes, crashes, stands>>
    BY DEF dirVars, countVars
<1>t. rd \in [Readers -> ReadRecord(inodes)]
    BY StatusTyped
<1>s. rd'[r] = x /\ \A q \in Readers : q # r => rd'[q] = rd[q]
    BY <1>t
<1>1. StatusTypeOK'
  <2>1. rd' \in [Readers -> ReadRecord(inodes)]
      BY <1>t
  <2>2. StatusTypeOK
      BY DEF StatusInv
  <2> QED
      BY ONLY <2>1, <2>2, <1>u DEF StatusTypeOK, ReadRecord
<1>2. ASSUME NEW q \in Readers PROVE ReaderKnows(q)'
  <2>1. CASE q # r
    <3>1. ReaderKnows(q) /\ rd'[q] = rd[q]
        BY <2>1, <1>s DEF StatusInv
    <3> QED
        BY ONLY <3>1, <1>u DEF ReaderKnows
  <2> QED
      BY <2>1
<1>3. WriterKnows' /\ LastWriteStands'
    BY <1>u DEF StatusInv, WriterKnows, LastWriteStands
<1>4. ReadIdentified'
    BY <1>s DEF StatusInv, ReadIdentified
<1>5. UndisturbedReadExact'
    BY <1>s DEF StatusInv, UndisturbedReadExact
<1> QED
    BY <1>1, <1>2, <1>3, <1>4, <1>5 DEF StatusInv

LEMMA ReadInd ==
    ASSUME StatusInv, NEW r \in Readers, ReadStep(r)
    PROVE  StatusInv'
<1>t. /\ rd \in [Readers -> ReadRecord(inodes)] /\ rd[r] \in ReadRecord(inodes)
      /\ file \in [Inodes -> FileRecord] /\ inodes \in Nat /\ dir \in Nat /\ dir <= inodes
      /\ stands \subseteq Held /\ rd[r].began \subseteq Held
    BY StatusTyped DEF ReadRecord
<1>k. ReaderKnows(r)
    BY DEF StatusInv
<1>u. /\ UNCHANGED <<dirVars, wr, kpc, countVars, stands>>
      /\ UNCHANGED <<dir, inodes, file, stands>>
    BY DEF ReadStep, ReadOpen, ReadMap, ReadWord, ReadKilled, ReadValidate, ReadAgain, dirVars
<1>i. rd[r].pc # "idle" => rd[r].ino \in Inodes
    BY StatusTyped DEF StatusInv, ReaderKnows, ReadRecord
<1>1. CASE ReadOpen(r)
  <2> DEFINE x == [NoRead EXCEPT !.pc = "map", !.ino = dir, !.began = stands]
  <2>1. rd' = [rd EXCEPT ![r] = x] /\ dir # 0
      BY <1>1 DEF ReadOpen
  <2>2. /\ x \in ReadRecord(inodes) /\ x.pc = "map" /\ x.ino = dir /\ x.began = stands
    <3>1. dir \in 0..inodes
        BY <1>t
    <3>2. NoRead \in ReadRecord(inodes)
        BY <1>t, BlankForm DEF NoRead, ReadRecord
    <3> QED
        BY <3>1, <3>2, <1>t DEF ReadRecord
  <2> HIDE DEF x
  <2>3. rd'[r] = x
      BY <2>1, <1>t
  <2>4. ReaderKnows(r)'
      BY <2>1, <2>2, <2>3, <1>u DEF ReaderKnows, StatusInv, LastWriteStands
  <2> QED
      BY <2>1, <2>2, <2>4, <1>u, ReaderFrame DEF Ended, Refusals
<1>2. CASE ReadMap(r)
  <2> DEFINE short == file[rd[r].ino].len < Size
             pc == IF short THEN "FileTooShort" ELSE "words"
             x  == [rd[r] EXCEPT !.pc = pc, !.todo = Words]
  <2>1. rd' = [rd EXCEPT ![r] = x] /\ rd[r].pc = "map"
      BY <1>2, <1>t DEF ReadMap, ReadRecord
  <2>2. pc \in {"FileTooShort", "words"} /\ (pc = "FileTooShort" => short)
      OBVIOUS
  <2>3. rd[r].began # {} => ~short
    <3>1. file[rd[r].ino].len \in Nat
        BY <2>1, <1>i, StatusTyped
    <3> QED
        BY <3>1, <2>1, <1>k, StatusSizes DEF ReaderKnows
  <2> HIDE DEF pc, short
  <2>4. /\ x \in ReadRecord(inodes) /\ x.pc = pc /\ x.ino = rd[r].ino
        /\ x.began = rd[r].began /\ x.todo = Words
      BY <1>t, <2>2 DEF ReadRecord, Ended, Refusals
  <2> HIDE DEF x
  <2>5. rd'[r] = x
      BY <2>1, <1>t
  <2>6. ReaderKnows(r)'
      BY <2>1, <2>4, <2>5, <1>u, <1>k DEF ReaderKnows
  <2> QED
      BY <2>1, <2>2, <2>3, <2>4, <2>6, <1>u, ReaderFrame DEF Ended, Refusals
<1>3. ASSUME NEW k \in Words, ReadWord(r, k) PROVE StatusInv'
  <2> DEFINE buf == [rd[r].buf EXCEPT ![k] = file[rd[r].ino].words[k]]
             t   == rd[r].todo \ {k}
             x   == [rd[r] EXCEPT !.buf = buf, !.todo = t]
  <2>1. rd' = [rd EXCEPT ![r] = x] /\ rd[r].pc = "words" /\ k \in rd[r].todo
      BY <1>3, <1>t DEF ReadWord, ReadRecord, MappedWord
  <2>2. file[rd[r].ino].words \in Record /\ rd[r].buf \in Record /\ rd[r].todo \subseteq Words
      BY <2>1, <1>i, <1>t, StatusTyped DEF ReadRecord
  <2>3. /\ buf \in Record /\ buf[k] = file[rd[r].ino].words[k]
        /\ \A j \in Words : j # k => buf[j] = rd[r].buf[j]
      BY <2>2 DEF Record
  <2>4. t \subseteq Words /\ \A j \in Words : j \notin t => j = k \/ j \notin rd[r].todo
      BY <2>2
  <2> HIDE DEF buf, t
  <2>5. /\ x \in ReadRecord(inodes) /\ x.pc = "words" /\ x.ino = rd[r].ino
        /\ x.began = rd[r].began /\ x.todo = t /\ x.buf = buf
      BY <1>t, <2>1, <2>3, <2>4 DEF ReadRecord
  <2> HIDE DEF x
  <2>6. rd'[r] = x
      BY <2>1, <1>t
  <2>7. ReaderKnows(r)'
      BY <2>1, <2>3, <2>4, <2>5, <2>6, <1>u, <1>k DEF ReaderKnows
  <2> QED
      BY <2>1, <2>5, <2>7, <1>u, ReaderFrame DEF Ended, Refusals
<1>4. CASE ReadKilled(r)
  <2> DEFINE x == [rd[r] EXCEPT !.pc = "killed"]
  <2>1. rd' = [rd EXCEPT ![r] = x] /\ rd[r].pc = "words" /\ file[rd[r].ino].len = 0
      BY <1>4, <1>t DEF ReadKilled
  <2>2. rd[r].began = {}
      BY <2>1, <1>k, StatusSizes DEF ReaderKnows
  <2>3. /\ x \in ReadRecord(inodes) /\ x.pc = "killed" /\ x.ino = rd[r].ino
        /\ x.began = rd[r].began
      BY <1>t DEF ReadRecord, Ended
  <2> HIDE DEF x
  <2>4. rd'[r] = x
      BY <2>1, <1>t
  <2>5. ReaderKnows(r)'
      BY <2>1, <2>3, <2>4, <1>k DEF ReaderKnows
  <2> QED
      BY <2>1, <2>2, <2>3, <2>5, <1>u, ReaderFrame
<1>5. CASE ReadValidate(r)
  <2> DEFINE mg == magic_matches(rd[r].buf)
             vr == version_matches(rd[r].buf)
             pc == CASE ~mg -> "HeaderCorruption"
                     [] ~vr -> "VersionMismatch"
                     [] OTHER -> "ok"
             x  == [rd[r] EXCEPT !.pc = pc]
  <2>1. rd' = [rd EXCEPT ![r] = x] /\ rd[r].pc = "words" /\ rd[r].todo = {}
      BY <1>5, <1>t DEF ReadValidate, CheckedCopy
  <2>2. /\ pc \in {"HeaderCorruption", "VersionMismatch", "ok"}
        /\ pc = "ok" => mg /\ vr
        /\ mg /\ vr => pc = "ok"
      OBVIOUS
  <2>3. rd[r].began # {} => RecordOf(rd[r].buf, rd[r].began)
      BY <2>1, <1>k DEF ReaderKnows, RecordOf, magic_matches, version_matches, Words
  <2>4. rd[r].began # {} => mg /\ vr
      BY <2>3 DEF RecordOf
  <2>5. /\ mg => magic_matches(rd[r].buf)
        /\ vr => version_matches(rd[r].buf)
      OBVIOUS
  <2> HIDE DEF pc, mg, vr
  <2>6. /\ x \in ReadRecord(inodes) /\ x.pc = pc /\ x.ino = rd[r].ino
        /\ x.began = rd[r].began /\ x.buf = rd[r].buf
      BY <1>t, <2>2 DEF ReadRecord, Ended, Refusals
  <2> HIDE DEF x
  <2>7. rd'[r] = x
      BY <2>1, <1>t
  <2>8. ReaderKnows(r)'
      BY <2>1, <2>2, <2>6, <2>7, <1>k DEF ReaderKnows
  <2> QED
      BY <2>1, <2>2, <2>3, <2>4, <2>5, <2>6, <2>8, <1>u, ReaderFrame
<1>6. CASE ReadAgain(r)
  <2>1. rd' = [rd EXCEPT ![r] = NoRead] /\ rd'[r] = NoRead
      BY <1>6, <1>t DEF ReadAgain
  <2>2. NoRead \in ReadRecord(inodes) /\ NoRead.pc = "idle"
      BY <1>t, BlankForm DEF NoRead, ReadRecord
  <2>3. ReaderKnows(r)'
      BY <2>1, <2>2 DEF ReaderKnows
  <2> QED
      BY <2>1, <2>2, <2>3, <1>u, ReaderFrame DEF Ended, Refusals
<1> QED
    BY <1>1, <1>2, <1>3, <1>4, <1>5, <1>6 DEF ReadStep

-----------------------------------------------------------------------------
LEMMA CleanInd ==
    ASSUME StatusInv, NEW k \in Cleaners, CleanStep(k)
    PROVE  StatusInv'
<1>u. UNCHANGED <<inodes, file, wr, rd, writes, crashes, stands>>
    BY DEF CleanStep, CleanLook, CleanRemove, CleanFails, dirVars, countVars
<1>t. /\ kpc \in [Cleaners -> {"idle", "remove", "failed"}]
      /\ dir \in 0..inodes /\ inodes \in Nat
    BY StatusTyped DEF StatusInv, StatusTypeOK
<1>d. dir' = 0 \/ dir' = dir
    BY DEF CleanStep, CleanLook, CleanRemove, CleanFails, dirVars
<1>1. kpc' \in [Cleaners -> {"idle", "remove", "failed"}]
    BY <1>t DEF CleanStep, CleanLook, CleanRemove, CleanFails
<1>2. StatusTypeOK'
  <2>1. StatusTypeOK
      BY DEF StatusInv
  <2>2. dir' \in 0..inodes
      BY <1>d, <1>t
  <2> QED
      BY ONLY <2>1, <2>2, <1>1, <1>u DEF StatusTypeOK
<1>3. WriterKnows' /\ LastWriteStands'
    BY <1>u, <1>d DEF StatusInv, WriterKnows, LastWriteStands
<1>4. (\A r \in Readers : ReaderKnows(r))' /\ ReadIdentified' /\ UndisturbedReadExact'
    BY <1>u, ReadersUntouched
<1> QED
    BY <1>1, <1>2, <1>3, <1>4 DEF StatusInv

LEMMA StatusNext == StatusInv /\ [Next]_vars => StatusInv'
<1> SUFFICES ASSUME StatusInv, [Next]_vars PROVE StatusInv'
    OBVIOUS
<1>1. ASSUME WriterStep PROVE StatusInv'
    BY <1>1, CreateOpenInd, UpdateOpenInd, CreateSetLenInd, UpdateAcceptedInd, CopyWordInd,
       WriteEndsInd DEF WriterStep
<1>2. CASE UNCHANGED vars
  <2>1. UNCHANGED <<dir, inodes, file, wr, rd, kpc, writes, crashes, stands>>
      BY <1>2 DEF vars, dirVars, countVars
  <2>2. StatusTypeOK' /\ WriterKnows' /\ LastWriteStands'
      BY <2>1 DEF StatusInv, StatusTypeOK, WriterKnows, LastWriteStands
  <2> QED
      BY <2>1, <2>2, ReadersUntouched DEF StatusInv
<1> QED
    BY <1>1, <1>2, ReadInd, CleanInd DEF Next

(* The state keeps its types, and what writer and readers know between two *)
(* file-system calls of status.rs stays true.                              *)
THEOREM StatusInvHolds == Spec => []StatusInv
BY StatusInit, StatusNext, PTL DEF Spec

(* What create or update returned Ok for is what the path shows, as long   *)
(* as it shows anything; an update cut short leaves a valid record whose   *)
(* words are old or new.                                                   *)
THEOREM LastWriteLasts == Spec => []LastWriteStands
<1>1. StatusInv => LastWriteStands
    BY DEF StatusInv
<1> QED
    BY <1>1, StatusInvHolds, PTL

(* read never returns a value without magic and version, whatever create   *)
(* does to the file meanwhile.                                             *)
THEOREM ReadsAreIdentified == Spec => []ReadIdentified
<1>1. StatusInv => ReadIdentified
    BY DEF StatusInv
<1> QED
    BY <1>1, StatusInvHolds, PTL

(* A read that no write overlaps returns exactly the record that stood     *)
(* when it was called.                                                     *)
THEOREM UndisturbedReads == Spec => []UndisturbedReadExact
<1>1. StatusInv => UndisturbedReadExact
    BY DEF StatusInv
<1> QED
    BY <1>1, StatusInvHolds, PTL
=============================================================================
