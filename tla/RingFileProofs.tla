--------------------------- MODULE RingFileProofs ---------------------------
(***************************************************************************)
(* The life of a ring file for any number of creators and openers, any     *)
(* capacities and record types, those included whose size wraps around,    *)
(* and any file found at the path: creation is exclusive, the slots of a   *)
(* handle lie in the file if their size did not wrap, and a finished ring  *)
(* of two slots or more opens and keeps what is pushed.                    *)
(***************************************************************************)
EXTENDS RingFile, Remainders, TLAPS

LEMMA FileSizes ==
    /\ \A n \in Capacities : n \in Nat /\ n < USIZE
    /\ \A s \in RecordSizes : s \in Nat /\ s > 0
    /\ \A n \in ForeignMasks : n \in Nat
    /\ \A n \in ForeignLens : n \in Nat
    /\ MaxReaders \in Nat /\ HeaderSize \in Nat /\ HeaderSize > 0
    /\ USIZE \in Nat /\ USIZE > 0
    /\ MAGIC \in Nat /\ VERSION \in Nat
BY FileAssumption

LEMMA LayoutIsNat ==
    ASSUME NEW n \in Nat, NEW s \in Nat
    PROVE  Layout(n, s) \in Nat /\ HeaderSize <= Layout(n, s)
<1>1. n * s \in Nat
    OBVIOUS
<1> QED
    BY <1>1, FileSizes DEF Layout

(* The computed length is the layout's size if that is a usize, and never  *)
(* more than it.                                                           *)
LEMMA LengthIsNat ==
    ASSUME NEW n \in Nat, NEW s \in Nat
    PROVE  /\ FileLen(n, s) \in Nat /\ FileLen(n, s) <= Layout(n, s)
           /\ Layout(n, s) < USIZE => FileLen(n, s) = Layout(n, s)
<1> DEFINE x == Layout(n, s)
<1>1. x \in Nat /\ USIZE \in Nat /\ USIZE > 0
    BY LayoutIsNat, FileSizes
<1>2. FileLen(n, s) = x % USIZE
    BY DEF FileLen
<1> HIDE DEF x
<1>3. /\ x % USIZE \in Nat /\ x % USIZE < USIZE
      /\ x < USIZE => x % USIZE = x
    BY <1>1, Remainder
<1>4. x % USIZE <= x
    BY <1>1, <1>3
<1> QED
    BY <1>2, <1>3, <1>4 DEF x

(* What a call of create can ask for.                                      *)
LEMMA CreatedLength ==
    ASSUME NEW a \in Args
    PROVE  /\ a.capacity \in Nat /\ a.size \in Nat /\ a.readers \in 1..MaxReaders
           /\ FileLen(a.capacity, a.size) \in Nat
           /\ a.capacity < USIZE
<1>1. /\ a.capacity \in Nat /\ a.capacity < USIZE
      /\ a.size \in Nat /\ a.readers \in 1..MaxReaders
    BY FileSizes DEF Args
<1> QED
    BY <1>1, LengthIsNat

(* RingHeader::new for a capacity that create accepts.                     *)
LEMMA CreatedHeader ==
    ASSUME NEW a \in Args, IsPowerOfTwo(a.capacity)
    PROVE  /\ \A f \in Fields : NewHeader(a)[f] \in Nat
           /\ NewHeader(a)["magic"] = MAGIC /\ NewHeader(a)["version"] = VERSION
           /\ NewHeader(a)["num_readers"] = a.readers
           /\ NewHeader(a)["capacity_mask"] = a.capacity - 1
           /\ NewHeader(a)["write_idx"] = 0
<1>1. a.capacity \in Nat /\ a.capacity # 0 /\ a.readers \in Nat
    BY CreatedLength, FileSizes DEF IsPowerOfTwo
<1> QED
    BY <1>1, FileSizes DEF NewHeader, ReaderCount, Mask, Fields

LEMMA MaskOfZero == ~ValidMask(0)
BY DEF ValidMask

-----------------------------------------------------------------------------
LEMMA FileInit == Init => FileInv
<1> SUFFICES ASSUME Init PROVE FileInv
    OBVIOUS
<1>m. \A c \in Creators : make[c] = NotMade /\ make[c].pc = "idle"
    BY DEF Init, NotMade
<1>c. \A o \in Openers : call[o] = NotOpened /\ call[o].pc = "idle" /\ call[o].settled = FALSE
    BY DEF Init, NotOpened
<1>1. FileTypeOK
  <2>1. exists \in BOOLEAN
      BY DEF Init, Found
  <2>2. len \in Nat
      BY FileSizes DEF Init, Found
  <2>3. header \in [Fields -> Nat]
      BY FileSizes DEF Init, Found, Blank, Fields
  <2>4. NotMade \in [pc : {"idle", "InvalidCapacity", "AlreadyExists", "open", "setLen",
                          "header", "ok", "Io"},
                     args : Args \cup {NoArgs}, todo : SUBSET Fields]
      BY DEF NotMade
  <2>5. NotOpened \in [pc : {"idle", "stat", "magic", "version", "mask", "loadMask", "ok",
                             "pushed", "panicked"} \cup Refusals,
                       size : Nat, len : Nat, mask : Nat, settled : BOOLEAN]
      BY DEF NotOpened
  <2> QED
      BY <2>1, <2>2, <2>3, <2>4, <2>5 DEF FileTypeOK, Init
<1>2. MakerKnows
    BY <1>m DEF MakerKnows, Maker
<1>3. \A o \in Openers : OpenerKnows(o)
    BY <1>c DEF OpenerKnows, HasHandle
<1>4. LargerRingsOpen /\ SettledPushStays
    BY <1>c DEF LargerRingsOpen, SettledPushStays, Refusals
<1> QED
    BY <1>1, <1>2, <1>3, <1>4 DEF FileInv

-----------------------------------------------------------------------------
(* open_existing                                                           *)

MakeRecord ==
    [pc : {"idle", "InvalidCapacity", "AlreadyExists", "open", "setLen",
           "header", "ok", "Io"},
     args : Args \cup {NoArgs}, todo : SUBSET Fields]

CallRecord ==
    [pc : {"idle", "stat", "magic", "version", "mask", "loadMask", "ok",
           "pushed", "panicked"} \cup Refusals,
     size : Nat, len : Nat, mask : Nat, settled : BOOLEAN]

(* Everything validate looks at is in order once a creation has returned.  *)
LEMMA FinishedFile ==
    ASSUME FileInv, NEW c \in Creators, Finished(c)
    PROVE  /\ make[c].args \in Args /\ make[c].args.capacity \in Nat
           /\ exists
           /\ len = FileLen(make[c].args.capacity, make[c].args.size)
           /\ header["magic"] = MAGIC /\ header["version"] = VERSION
           /\ header["num_readers"] \in 1..MaxReaders
           /\ header["capacity_mask"] = make[c].args.capacity - 1
           /\ make[c].args.capacity = 1 \/ ValidMask(header["capacity_mask"])
<1> DEFINE a == make[c].args
<1>1. a \in Args /\ IsPowerOfTwo(a.capacity) /\ exists
    BY DEF FileInv, MakerKnows, Maker, Finished
<1>2. /\ len = FileLen(a.capacity, a.size)
      /\ \A f \in Fields \ {"write_idx"} : header[f] = NewHeader(a)[f]
    BY DEF FileInv, MakerKnows, Finished
<1>3. /\ a.capacity \in Nat /\ a.readers \in 1..MaxReaders
      /\ a.capacity < USIZE
    BY <1>1, CreatedLength
<1>4. /\ NewHeader(a)["magic"] = MAGIC /\ NewHeader(a)["version"] = VERSION
      /\ NewHeader(a)["num_readers"] = a.readers
      /\ NewHeader(a)["capacity_mask"] = a.capacity - 1
    BY <1>1, CreatedHeader
<1>5. /\ header["magic"] = MAGIC /\ header["version"] = VERSION
      /\ header["num_readers"] = a.readers
      /\ header["capacity_mask"] = a.capacity - 1
    BY <1>2, <1>4 DEF Fields
<1> HIDE DEF a
<1>6. a.capacity = 1 \/ ValidMask(header["capacity_mask"])
  <2> DEFINE n == a.capacity
  <2>1. n \in Nat /\ n < USIZE /\ n # 0 /\ IsPowerOfTwo(n)
      BY <1>1, <1>3 DEF IsPowerOfTwo
  <2> HIDE DEF n
  <2>2. ((n - 1) + 1) % USIZE = n
    <3>1. (n - 1) + 1 = n
        BY <2>1
    <3> QED
        BY <3>1, <2>1, Remainder, FileSizes
  <2>3. n # 1 => ValidMask(n - 1)
      BY <2>1, <2>2 DEF ValidMask
  <2> QED
      BY <2>3, <1>5 DEF n
<1> QED
    BY <1>1, <1>2, <1>3, <1>5, <1>6 DEF a

(* A step of o that leaves the file alone has only its own call to answer  *)
(* for.                                                                    *)
LEMMA OpenerFrame ==
    ASSUME FileInv, NEW o \in Openers, NEW r \in CallRecord,
           call' = [call EXCEPT ![o] = r], UNCHANGED <<fileVars, make>>,
           OpenerKnows(o)',
           r.pc \in Refusals /\ r.settled => Explained(o)',
           r.settled => r.pc # "panicked" /\ r.pc # "pushed"
    PROVE  FileInv'
<1>u. UNCHANGED <<exists, len, header, make>>
    BY DEF fileVars
<1>t. FileTypeOK /\ call \in [Openers -> CallRecord]
    BY DEF FileInv, FileTypeOK, CallRecord
<1>s. call'[o] = r /\ \A p \in Openers : p # o => call'[p] = call[p]
    BY <1>t
<1>1. FileTypeOK'
  <2>1. call' \in [Openers -> CallRecord]
      BY <1>t
  <2> QED
      BY <2>1, <1>t, <1>u DEF FileTypeOK, CallRecord
<1>2. MakerKnows'
    BY <1>u DEF FileInv, MakerKnows, Maker
<1>3. ASSUME NEW p \in Openers PROVE OpenerKnows(p)'
  <2>1. CASE p # o
    <3>1. OpenerKnows(p) /\ call'[p] = call[p]
        BY <1>s, <2>1 DEF FileInv
    <3> QED
        BY ONLY <3>1, <1>u DEF OpenerKnows, HasHandle, TooShort, Finished
  <2> QED
      BY <2>1
<1>4. ASSUME NEW p \in Openers, p # o, call[p].pc \in Refusals, call[p].settled
      PROVE  Explained(p)'
  <2>1. Explained(p) /\ call'[p] = call[p]
      BY <1>s, <1>4 DEF FileInv, LargerRingsOpen
  <2> QED
      BY ONLY <2>1, <1>u DEF Explained, DoesNotFit, Finished
<1>5. LargerRingsOpen'
    BY <1>s, <1>4 DEF LargerRingsOpen
<1>6. SettledPushStays'
    BY <1>s, <1>u DEF FileInv, SettledPushStays
<1> QED
    BY <1>1, <1>2, <1>3, <1>5, <1>6 DEF FileInv

LEMMA CallTyped ==
    ASSUME FileInv, NEW o \in Openers
    PROVE  /\ call \in [Openers -> CallRecord] /\ call[o] \in CallRecord
           /\ call[o].size \in Nat /\ call[o].len \in Nat /\ call[o].mask \in Nat
           /\ call[o].settled \in BOOLEAN /\ OpenerKnows(o)
           /\ header \in [Fields -> Nat] /\ len \in Nat /\ exists \in BOOLEAN
           /\ header["capacity_mask"] \in Nat
           /\ call[o].settled => \E c \in Creators : Finished(c)
BY DEF FileInv, FileTypeOK, CallRecord, OpenerKnows, Fields

LEMMA OpenFileInd ==
    ASSUME FileInv, NEW o \in Openers, NEW sz \in RecordSizes, OpenFile(o, sz)
    PROVE  FileInv'
<1> DEFINE s == \E c \in Creators : Finished(c)
           r == [NotOpened EXCEPT !.size = sz, !.pc = IF exists THEN "stat" ELSE "Io",
                                  !.settled = s]
<1>1. call' = [call EXCEPT ![o] = r] /\ UNCHANGED <<fileVars, make>>
    BY DEF OpenFile
<1>2. /\ r.pc = (IF exists THEN "stat" ELSE "Io") /\ r.size = sz /\ r.len = 0
      /\ r.mask = 0 /\ r.settled = s
    BY DEF NotOpened
<1>3. r \in CallRecord
    BY FileSizes DEF NotOpened, CallRecord, Refusals
<1>4. call'[o] = r
    BY <1>1, CallTyped
<1>5. s' = s
    BY DEF OpenFile, Finished
<1>6. s => exists
    BY FinishedFile
<1>7. UNCHANGED exists
    BY <1>1 DEF fileVars
<1> HIDE DEF r
<1>8. OpenerKnows(o)'
    BY <1>2, <1>4, <1>5, <1>6, <1>7 DEF OpenerKnows, HasHandle
<1>9. r.settled => r.pc = "stat"
    BY <1>2, <1>6
<1>10. /\ r.pc \in Refusals /\ r.settled => Explained(o)'
       /\ r.settled => r.pc # "panicked" /\ r.pc # "pushed"
    BY <1>9 DEF Refusals
<1> QED
    BY <1>1, <1>3, <1>8, <1>10, OpenerFrame

LEMMA OpenAgainInd ==
    ASSUME FileInv, NEW o \in Openers, OpenAgain(o)
    PROVE  FileInv'
<1>1. call' = [call EXCEPT ![o] = NotOpened] /\ UNCHANGED <<fileVars, make>>
    BY DEF OpenAgain
<1>2. NotOpened \in CallRecord /\ NotOpened.pc = "idle" /\ NotOpened.settled = FALSE
    BY DEF NotOpened, CallRecord
<1>3. call'[o] = NotOpened
    BY <1>1, CallTyped
<1>4. OpenerKnows(o)'
    BY <1>2, <1>3 DEF OpenerKnows, HasHandle
<1> QED
    BY <1>1, <1>2, <1>4, OpenerFrame DEF Refusals


(* The steps that only move o's call on, within what its caller asked for. *)
LEMMA OpenerMoves ==
    ASSUME FileInv, NEW o \in Openers, NEW pc, NEW l \in Nat, NEW m \in Nat,
           NEW r, r = [call[o] EXCEPT !.pc = pc, !.len = l, !.mask = m],
           pc \in {"magic", "version", "mask", "loadMask", "ok", "panicked"} \cup Refusals,
           call' = [call EXCEPT ![o] = r], UNCHANGED <<fileVars, make>>,
           exists,
           pc \notin Refusals => l = len /\ HeaderSize <= len,
           pc = "loadMask" => ValidMask(header["capacity_mask"]),
           pc \in {"ok", "panicked"} =>
               /\ m = header["capacity_mask"] /\ ValidMask(m)
               /\ ~(l < FileLen(m + 1, call[o].size)),
           \A c \in Creators : Finished(c) =>
               /\ pc # "panicked"
               /\ pc \in Refusals /\ make[c].args.capacity # 1 =>
                     /\ pc = "FileTooShort"
                     /\ Layout(make[c].args.capacity, call[o].size) > len
    PROVE  FileInv'
<1>t. /\ call \in [Openers -> CallRecord] /\ call[o] \in CallRecord
      /\ call[o].settled => \E c \in Creators : Finished(c)
    BY CallTyped
<1>r. /\ r.pc = pc /\ r.len = l /\ r.mask = m /\ r.size = call[o].size
      /\ r.settled = call[o].settled /\ r \in CallRecord
    BY <1>t DEF CallRecord
<1>s. call'[o] = r
    BY <1>t
<1>u. UNCHANGED <<exists, len, header, make>>
    BY DEF fileVars
<1>f. \A c \in Creators : Finished(c)' = Finished(c)
    BY <1>u DEF Finished
<1>1. OpenerKnows(o)'
  <2>1. TooShort(o, call[o].mask)' = (l < FileLen(m + 1, call[o].size))
      BY <1>s, <1>r DEF TooShort
  <2>2. (pc \in {"magic", "version", "mask", "loadMask"} \/ HasHandle(o)') => pc \notin Refusals
      BY <1>s, <1>r DEF HasHandle, Refusals
  <2>3. HasHandle(o)' => pc \in {"ok", "panicked"}
      BY <1>s, <1>r DEF HasHandle, Refusals
  <2>4. (call[o].settled => \E c \in Creators : Finished(c))'
      BY <1>t, <1>f, <1>s, <1>r
  <2> QED
      BY <2>1, <2>2, <2>3, <2>4, <1>s, <1>r, <1>u DEF OpenerKnows
<1>2. ASSUME pc \in Refusals
      PROVE  Explained(o)'
  <2>1. call'[o].pc = pc /\ call'[o].size = call[o].size
      BY <1>s, <1>r
  <2> QED
      BY <2>1, <1>2, <1>f, <1>u DEF Explained, DoesNotFit
<1>3. r.settled => \E c \in Creators : Finished(c)
    BY <1>t, <1>r
<1>4. r.settled => r.pc # "panicked" /\ r.pc # "pushed"
    BY <1>3, <1>r DEF Refusals
<1> QED
    BY <1>1, <1>2, <1>3, <1>4, <1>r, OpenerFrame

LEMMA ValidationInd ==
    ASSUME FileInv, NEW o \in Openers,
           \/ OpenCheckFloor(o) \/ ValidateMagic(o) \/ ValidateVersion(o)
           \/ ValidateMask(o) \/ OpenCheckLength(o) \/ FirstPushPanics(o)
    PROVE  FileInv'
<1>t. /\ call[o] \in CallRecord /\ call[o].size \in Nat /\ call[o].len \in Nat
      /\ call[o].mask \in Nat /\ OpenerKnows(o) /\ len \in Nat
      /\ header["capacity_mask"] \in Nat
    BY CallTyped
<1>e. exists
    BY <1>t DEF OpenerKnows, OpenCheckFloor, ValidateMagic, ValidateVersion, ValidateMask,
                OpenCheckLength, FirstPushPanics
<1>1. CASE OpenCheckFloor(o)
  <2> DEFINE pc == IF len < HeaderSize THEN "FileTooShort" ELSE "magic"
             r  == [call[o] EXCEPT !.pc = pc, !.len = len, !.mask = call[o].mask]
  <2>1. call' = [call EXCEPT ![o] = r] /\ UNCHANGED <<fileVars, make>>
      BY <1>1, CallTyped DEF OpenCheckFloor, CallRecord
  <2>2. ASSUME NEW c \in Creators, Finished(c), len < HeaderSize
        PROVE  Layout(make[c].args.capacity, call[o].size) > len
    <3>1. make[c].args.capacity \in Nat
        BY <2>2, FinishedFile
    <3>2. /\ Layout(make[c].args.capacity, call[o].size) \in Nat
          /\ HeaderSize <= Layout(make[c].args.capacity, call[o].size)
        BY <3>1, <1>t, LayoutIsNat
    <3> QED
        BY <3>2, <2>2, <1>t, FileSizes
  <2>3. pc = "magic" => HeaderSize <= len
      BY <1>t, FileSizes
  <2>4. pc \in {"magic", "FileTooShort"} /\ (pc = "FileTooShort" => len < HeaderSize)
      OBVIOUS
  <2> HIDE DEF pc
  <2> QED
      BY <2>1, <2>2, <2>3, <2>4, <1>t, <1>e, OpenerMoves DEF Refusals
<1>2. CASE ValidateMagic(o)
  <2> DEFINE pc == IF header["magic"] = MAGIC THEN "version" ELSE "HeaderCorruption"
             r  == [call[o] EXCEPT !.pc = pc, !.len = call[o].len, !.mask = call[o].mask]
  <2>1. call' = [call EXCEPT ![o] = r] /\ UNCHANGED <<fileVars, make>>
      BY <1>2, CallTyped DEF ValidateMagic, OpenerGoes, CallRecord
  <2>2. \A c \in Creators : Finished(c) => pc = "version"
      BY FinishedFile
  <2>3. call[o].len = len /\ HeaderSize <= len
      BY <1>t, <1>2 DEF OpenerKnows, ValidateMagic
  <2>4. pc \in {"version", "HeaderCorruption"}
      OBVIOUS
  <2> HIDE DEF pc
  <2> QED
      BY <2>1, <2>2, <2>3, <2>4, <1>t, <1>e, OpenerMoves DEF Refusals
<1>3. CASE ValidateVersion(o)
  <2> DEFINE pc == IF header["version"] = VERSION THEN "mask" ELSE "VersionMismatch"
             r  == [call[o] EXCEPT !.pc = pc, !.len = call[o].len, !.mask = call[o].mask]
  <2>1. call' = [call EXCEPT ![o] = r] /\ UNCHANGED <<fileVars, make>>
      BY <1>3, CallTyped DEF ValidateVersion, OpenerGoes, CallRecord
  <2>2. \A c \in Creators : Finished(c) => pc = "mask"
      BY FinishedFile
  <2>3. call[o].len = len /\ HeaderSize <= len
      BY <1>t, <1>3 DEF OpenerKnows, ValidateVersion
  <2>4. pc \in {"mask", "VersionMismatch"}
      OBVIOUS
  <2> HIDE DEF pc
  <2> QED
      BY <2>1, <2>2, <2>3, <2>4, <1>t, <1>e, OpenerMoves DEF Refusals
<1>4. CASE ValidateMask(o)
  <2> DEFINE ok == ValidMask(header["capacity_mask"])
             pc == IF ok THEN "loadMask" ELSE "HeaderCorruption"
             r  == [call[o] EXCEPT !.pc = pc, !.len = call[o].len, !.mask = call[o].mask]
  <2>1. call' = [call EXCEPT ![o] = r] /\ UNCHANGED <<fileVars, make>>
      BY <1>4, CallTyped DEF ValidateMask, OpenerGoes, CallRecord
  <2>2. \A c \in Creators : Finished(c) => ok \/ make[c].args.capacity = 1
      BY FinishedFile
  <2>3. call[o].len = len /\ HeaderSize <= len
      BY <1>t, <1>4 DEF OpenerKnows, ValidateMask
  <2>4. (ok /\ pc = "loadMask") \/ (~ok /\ pc = "HeaderCorruption")
      OBVIOUS
  <2>5. pc = "loadMask" => ValidMask(header["capacity_mask"])
      OBVIOUS
  <2> HIDE DEF pc, ok
  <2> QED
      BY <2>1, <2>2, <2>3, <2>4, <2>5, <1>t, <1>e, OpenerMoves DEF Refusals
<1>5. CASE OpenCheckLength(o)
  <2> DEFINE m  == header["capacity_mask"]
             short == call[o].len < FileLen(m + 1, call[o].size)
             pc == IF short THEN "FileTooShort" ELSE "ok"
             r  == [call[o] EXCEPT !.pc = pc, !.len = call[o].len, !.mask = m]
  <2>1. call' = [call EXCEPT ![o] = r] /\ UNCHANGED <<fileVars, make>>
      BY <1>5, CallTyped DEF OpenCheckLength, TooShort, CallRecord
  <2>2. call[o].len = len /\ HeaderSize <= len /\ ValidMask(m)
      BY <1>t, <1>5 DEF OpenerKnows, OpenCheckLength
  <2>3. ASSUME NEW c \in Creators, Finished(c), short
        PROVE  Layout(make[c].args.capacity, call[o].size) > len
    <3>1. m = make[c].args.capacity - 1 /\ make[c].args.capacity \in Nat
        BY <2>3, FinishedFile
    <3>2. m + 1 = make[c].args.capacity
        BY <3>1
    <3>3. /\ FileLen(m + 1, call[o].size) \in Nat
          /\ Layout(m + 1, call[o].size) \in Nat
          /\ FileLen(m + 1, call[o].size) <= Layout(m + 1, call[o].size)
        BY LayoutIsNat, <3>2, <3>1, <1>t, LengthIsNat
    <3> QED
        BY <3>2, <3>3, <2>2, <2>3, <1>t
  <2>4. (short /\ pc = "FileTooShort") \/ (~short /\ pc = "ok")
      OBVIOUS
  <2>5. pc = "ok" => ~(call[o].len < FileLen(m + 1, call[o].size))
      OBVIOUS
  <2> HIDE DEF pc, short
  <2> QED
      BY <2>1, <2>2, <2>3, <2>4, <2>5, <1>t, <1>e, OpenerMoves DEF Refusals
<1>6. CASE FirstPushPanics(o)
  <2> DEFINE r == [call[o] EXCEPT !.pc = "panicked", !.len = call[o].len, !.mask = call[o].mask]
  <2>1. call' = [call EXCEPT ![o] = r] /\ UNCHANGED <<fileVars, make>>
      BY <1>6, CallTyped DEF FirstPushPanics, OpenerGoes, CallRecord
  <2>2. \A c \in Creators : ~Finished(c)
      BY <1>6, FinishedFile DEF FirstPushPanics
  <2>3. /\ call[o].len = len /\ HeaderSize <= len
        /\ call[o].mask = header["capacity_mask"] /\ ValidMask(call[o].mask)
        /\ ~(call[o].len < FileLen(call[o].mask + 1, call[o].size))
      BY <1>t, <1>6 DEF OpenerKnows, FirstPushPanics, HasHandle, TooShort
  <2> QED
      BY <2>1, <2>2, <2>3, <1>t, <1>e, OpenerMoves DEF Refusals
<1> QED
    BY <1>1, <1>2, <1>3, <1>4, <1>5, <1>6

LEMMA FirstPushInd ==
    ASSUME FileInv, NEW o \in Openers, FirstPush(o)
    PROVE  FileInv'
<1>t. /\ call \in [Openers -> CallRecord] /\ call[o] \in CallRecord
      /\ OpenerKnows(o) /\ header \in [Fields -> Nat] /\ len \in Nat
    BY CallTyped
<1> DEFINE r == [call[o] EXCEPT !.pc = "pushed"]
<1>s. /\ call' = [call EXCEPT ![o] = r] /\ r \in CallRecord
      /\ r.pc = "pushed" /\ r.size = call[o].size /\ r.len = call[o].len
      /\ r.mask = call[o].mask /\ r.settled = call[o].settled
    BY <1>t DEF FirstPush, OpenerGoes, CallRecord
<1>c. call'[o] = r /\ \A p \in Openers : p # o => call'[p] = call[p]
    BY <1>s, <1>t
<1>h. /\ header' \in [Fields -> Nat] /\ header["write_idx"] = 0 /\ header'["write_idx"] = 1
      /\ \A f \in Fields \ {"write_idx"} : header'[f] = header[f]
      /\ header'["capacity_mask"] = header["capacity_mask"]
    BY <1>t DEF FirstPush, Fields
<1>u. UNCHANGED <<exists, len, make>>
    BY DEF FirstPush
<1>l. len # 0 /\ call[o].pc = "ok" /\ HasHandle(o)
    BY <1>t, FileSizes DEF FirstPush, OpenerKnows, HasHandle
<1> HIDE DEF r
<1>1. FileTypeOK'
  <2>1. call' \in [Openers -> CallRecord]
      BY <1>s, <1>t
  <2> QED
      BY <2>1, <1>h, <1>u DEF FileInv, FileTypeOK, CallRecord
<1>2. MakerKnows'
  <2>1. MakerKnows
      BY DEF FileInv
  <2> QED
      BY ONLY <2>1, <1>h, <1>u, <1>l DEF MakerKnows, Maker
<1>3. ASSUME NEW p \in Openers PROVE OpenerKnows(p)'
  <2>1. CASE p # o
    <3>1. OpenerKnows(p) /\ call'[p] = call[p]
        BY <1>c, <2>1 DEF FileInv
    <3> QED
        BY ONLY <3>1, <1>u, <1>h DEF OpenerKnows, HasHandle, TooShort, Finished
  <2>2. CASE p = o
    <3>1. /\ call'[o].pc = "pushed" /\ call'[o].size = call[o].size
          /\ call'[o].len = call[o].len /\ call'[o].mask = call[o].mask
          /\ call'[o].settled = call[o].settled
        BY <1>c, <1>s
    <3>2. OpenerKnows(o)'
        BY ONLY <3>1, <1>t, <1>u, <1>h, <1>l DEF OpenerKnows, HasHandle, TooShort, Finished
    <3> QED
        BY <3>2, <2>2
  <2> QED
      BY <2>1, <2>2
<1>4. ASSUME NEW p \in Openers, p # o, call[p].pc \in Refusals, call[p].settled
      PROVE  Explained(p)'
  <2>1. Explained(p) /\ call'[p] = call[p]
      BY <1>c, <1>4 DEF FileInv, LargerRingsOpen
  <2> QED
      BY ONLY <2>1, <1>u DEF Explained, DoesNotFit, Finished
<1>5. LargerRingsOpen'
    BY <1>c, <1>s, <1>4 DEF LargerRingsOpen, Refusals
<1>6. SettledPushStays'
    BY <1>c, <1>s, <1>h DEF FileInv, SettledPushStays
<1> QED
    BY <1>1, <1>2, <1>3, <1>5, <1>6 DEF FileInv


-----------------------------------------------------------------------------
(* create_new_with_readers                                                 *)

(* A creator that never got the file, or gives it up, changes nobody's     *)
(* mind.                                                                   *)
LEMMA CreatorQuits ==
    ASSUME FileInv, NEW c \in Creators, NEW r \in MakeRecord,
           make' = [make EXCEPT ![c] = r], UNCHANGED <<fileVars, call>>,
           make[c].pc # "ok", r.pc \notin {"setLen", "header", "ok"},
           r.pc = "open" => r.args \in Args /\ IsPowerOfTwo(r.args.capacity)
    PROVE  FileInv'
<1>u. UNCHANGED <<exists, len, header, call>>
    BY DEF fileVars
<1>t. make \in [Creators -> MakeRecord]
    BY DEF FileInv, FileTypeOK, MakeRecord
<1>s. make'[c] = r /\ \A d \in Creators : d # c => make'[d] = make[d]
    BY <1>t
<1>f. \A d \in Creators : /\ Finished(d)' = Finished(d)
                          /\ Finished(d) => make'[d] = make[d]
    BY <1>s DEF Finished
<1>1. FileTypeOK'
  <2>1. make' \in [Creators -> MakeRecord]
      BY <1>t
  <2> QED
      BY <2>1, <1>u DEF FileInv, FileTypeOK, MakeRecord
<1>2. MakerKnows'
  <2>1. MakerKnows
      BY DEF FileInv
  <2>2. make'[c].pc \notin {"setLen", "header", "ok"}
      BY <1>s
  <2>3. make'[c].pc = "open" => make'[c].args \in Args /\ IsPowerOfTwo(make'[c].args.capacity)
      BY <1>s
  <2>4. \A d, e \in Creators : Maker(d)' /\ Maker(e)' => d = e
      BY ONLY <2>1, <2>2, <1>s DEF MakerKnows, Maker
  <2> QED
      BY ONLY <2>1, <2>2, <2>3, <2>4, <1>s, <1>u DEF MakerKnows, Maker
<1>3. ASSUME NEW p \in Openers PROVE OpenerKnows(p)'
  <2>1. OpenerKnows(p) /\ call'[p] = call[p]
      BY <1>u DEF FileInv
  <2> QED
      BY ONLY <2>1, <1>u, <1>f DEF OpenerKnows, HasHandle, TooShort
<1>4. ASSUME NEW p \in Openers, Explained(p) PROVE Explained(p)'
    BY <1>4, <1>u, <1>f DEF Explained, DoesNotFit
<1>5. LargerRingsOpen'
    BY <1>u, <1>4 DEF FileInv, LargerRingsOpen
<1>6. SettledPushStays'
    BY <1>u DEF FileInv, SettledPushStays
<1> QED
    BY <1>1, <1>2, <1>3, <1>5, <1>6 DEF FileInv

LEMMA MakeTyped ==
    ASSUME FileInv, NEW c \in Creators
    PROVE  /\ make \in [Creators -> MakeRecord] /\ make[c] \in MakeRecord
           /\ make[c].pc \in {"open", "setLen", "header", "ok"} =>
                 make[c].args \in Args /\ IsPowerOfTwo(make[c].args.capacity)
BY DEF FileInv, FileTypeOK, MakeRecord, MakerKnows

LEMMA CreatorQuitsInd ==
    ASSUME FileInv, NEW c \in Creators,
           \/ \E a \in Args : CreateCheck(c, a)
           \/ CreateLosesRace(c)
           \/ CreateAbandoned(c)
    PROVE  FileInv'
<1>t. make \in [Creators -> MakeRecord] /\ make[c] \in MakeRecord
    BY MakeTyped
<1>1. ASSUME NEW a \in Args, CreateCheck(c, a) PROVE FileInv'
  <2> DEFINE pc == CASE ~IsPowerOfTwo(a.capacity) -> "InvalidCapacity"
                     [] exists                    -> "AlreadyExists"
                     [] OTHER                     -> "open"
             r  == [NotMade EXCEPT !.args = a, !.pc = pc]
  <2>1. make' = [make EXCEPT ![c] = r] /\ UNCHANGED <<fileVars, call>> /\ make[c].pc # "ok"
      BY <1>1 DEF CreateCheck
  <2>2. /\ pc \in {"InvalidCapacity", "AlreadyExists", "open"}
        /\ pc = "open" => IsPowerOfTwo(a.capacity)
      OBVIOUS
  <2> HIDE DEF pc
  <2>3. r \in MakeRecord /\ r.pc = pc /\ r.args = a
      BY <2>2 DEF MakeRecord, NotMade
  <2> HIDE DEF r
  <2> QED
      BY <2>1, <2>2, <2>3, CreatorQuits
<1>2. CASE CreateLosesRace(c)
  <2> DEFINE r == [make[c] EXCEPT !.pc = "AlreadyExists"]
  <2>1. make' = [make EXCEPT ![c] = r] /\ UNCHANGED <<fileVars, call>> /\ make[c].pc # "ok"
      BY <1>2 DEF CreateLosesRace, CreatorGoes
  <2>2. r \in MakeRecord /\ r.pc = "AlreadyExists"
      BY <1>t DEF MakeRecord
  <2> HIDE DEF r
  <2> QED
      BY <2>1, <2>2, CreatorQuits
<1>3. CASE CreateAbandoned(c)
  <2> DEFINE r == [make[c] EXCEPT !.pc = "Io", !.todo = {}]
  <2>1. make' = [make EXCEPT ![c] = r] /\ UNCHANGED <<fileVars, call>> /\ make[c].pc # "ok"
      BY <1>3, <1>t DEF CreateAbandoned
  <2>2. r \in MakeRecord /\ r.pc = "Io"
      BY <1>t DEF MakeRecord
  <2> HIDE DEF r
  <2> QED
      BY <2>1, <2>2, CreatorQuits
<1> QED
    BY <1>1, <1>2, <1>3

(* While the file is being made no creation has returned, so no opener is  *)
(* owed anything yet.                                                      *)
LEMMA MakingIsUnsettled ==
    ASSUME FileInv, NEW c \in Creators, make[c].pc \in {"setLen", "header"} \/ ~exists
    PROVE  /\ \A d \in Creators : ~Finished(d)
           /\ \A o \in Openers : ~call[o].settled
<1>1. ASSUME NEW d \in Creators, Finished(d) PROVE FALSE
  <2>1. Maker(d) /\ exists
      BY <1>1 DEF FileInv, MakerKnows, Maker, Finished
  <2>2. Maker(c) /\ c # d
      BY <2>1, <1>1 DEF Maker, Finished
  <2> QED
      BY <2>1, <2>2 DEF FileInv, MakerKnows
<1> QED
    BY <1>1 DEF FileInv, OpenerKnows

(* A step of the maker, given what it does to the file: only what openers  *)
(* have already checked is at stake.                                       *)
LEMMA MakerFrame ==
    ASSUME FileInv, NEW c \in Creators, NEW r \in MakeRecord,
           make' = [make EXCEPT ![c] = r], UNCHANGED call,
           \A o \in Openers : ~call[o].settled,
           exists' = TRUE, len' \in Nat, header' \in [Fields -> Nat],
           MakerKnows', \A o \in Openers : OpenerKnows(o)'
    PROVE  FileInv'
<1>t. make \in [Creators -> MakeRecord]
    BY MakeTyped
<1>1. FileTypeOK'
  <2>1. make' \in [Creators -> MakeRecord]
      BY <1>t
  <2> QED
      BY <2>1 DEF FileInv, FileTypeOK, MakeRecord
<1>2. LargerRingsOpen' /\ SettledPushStays'
    BY DEF LargerRingsOpen, SettledPushStays
<1> QED
    BY <1>1, <1>2 DEF FileInv

LEMMA CreateOpenInd ==
    ASSUME FileInv, NEW c \in Creators, CreateOpen(c)
    PROVE  FileInv'
<1> DEFINE r == [make[c] EXCEPT !.pc = "setLen"]
<1>t. /\ make \in [Creators -> MakeRecord] /\ make[c] \in MakeRecord
      /\ make[c].args \in Args /\ IsPowerOfTwo(make[c].args.capacity)
    BY MakeTyped DEF CreateOpen
<1>r. r \in MakeRecord /\ r.pc = "setLen" /\ r.args = make[c].args
    BY <1>t DEF MakeRecord
<1>u. /\ make' = [make EXCEPT ![c] = r] /\ UNCHANGED call
      /\ ~exists /\ exists' = TRUE /\ len' = 0 /\ header' = Blank
    BY DEF CreateOpen, CreatorGoes, Exclusive
<1>s. make'[c] = r /\ \A d \in Creators : d # c => make'[d] = make[d]
    BY <1>t, <1>u
<1>h. header' \in [Fields -> Nat] /\ \A f \in Fields : header'[f] = 0
    BY <1>u DEF Blank
<1>n. \A o \in Openers : ~call[o].settled
    BY <1>u, MakingIsUnsettled
<1>m. \A d \in Creators : ~Maker(d)
    BY <1>u DEF FileInv, MakerKnows
<1> HIDE DEF r
<1>1. MakerKnows'
  <2>1. MakerKnows
      BY DEF FileInv
  <2>2. \A d \in Creators : Maker(d)' => d = c
      BY <1>m, <1>s DEF Maker
  <2>3. make'[c].pc = "setLen" /\ make'[c].args \in Args /\ IsPowerOfTwo(make'[c].args.capacity)
      BY <1>s, <1>r, <1>t
  <2> QED
      BY ONLY <2>1, <2>2, <2>3, <1>s, <1>u, <1>h DEF MakerKnows, Maker
<1>2. ASSUME NEW o \in Openers PROVE OpenerKnows(o)'
  <2>1. call[o].pc \in {"idle", "Io"} /\ ~call[o].settled
      BY <1>u, <1>n DEF FileInv, OpenerKnows
  <2> QED
      BY <2>1, <1>u DEF OpenerKnows, HasHandle
<1> QED
    BY <1>1, <1>2, <1>u, <1>r, <1>n, <1>h, MakerFrame

LEMMA CreateSetLenInd ==
    ASSUME FileInv, NEW c \in Creators, CreateSetLen(c)
    PROVE  FileInv'
<1> DEFINE r == [make[c] EXCEPT !.pc = "header", !.todo = Fields]
           a == make[c].args
<1>t. /\ make \in [Creators -> MakeRecord] /\ make[c] \in MakeRecord
      /\ a \in Args /\ IsPowerOfTwo(a.capacity)
    BY MakeTyped DEF CreateSetLen
<1>r. r \in MakeRecord /\ r.pc = "header" /\ r.args = a /\ r.todo = Fields
    BY <1>t DEF MakeRecord
<1>u. /\ make' = [make EXCEPT ![c] = r] /\ UNCHANGED <<call, exists, header>>
      /\ make[c].pc = "setLen" /\ len' = FileLen(a.capacity, a.size)
    BY <1>t DEF CreateSetLen, MakeRecord
<1>s. make'[c] = r /\ \A d \in Creators : d # c => make'[d] = make[d]
    BY <1>t, <1>u
<1>h. /\ header \in [Fields -> Nat] /\ len = 0 /\ exists
      /\ \A f \in Fields : header[f] = 0
    BY <1>u DEF FileInv, FileTypeOK, MakerKnows, Maker
<1>n. \A o \in Openers : ~call[o].settled
    BY <1>u, MakingIsUnsettled
<1>l. len' \in Nat
    BY <1>u, <1>t, CreatedLength
<1> HIDE DEF r, a
<1>1. MakerKnows'
  <2>1. MakerKnows
      BY DEF FileInv
  <2>2. \A d \in Creators : Maker(d)' => d = c
      BY <2>1, <1>s, <1>u DEF MakerKnows, Maker
  <2>3. /\ make'[c].pc = "header" /\ make'[c].args = a /\ make'[c].todo = Fields
        /\ a \in Args /\ IsPowerOfTwo(a.capacity)
      BY <1>s, <1>r, <1>t
  <2> QED
      BY ONLY <2>1, <2>2, <2>3, <1>s, <1>u, <1>h DEF MakerKnows, Maker
<1>2. ASSUME NEW o \in Openers PROVE OpenerKnows(o)'
  <2>1. OpenerKnows(o) /\ call'[o] = call[o] /\ ~call[o].settled
      BY <1>u, <1>n DEF FileInv
  <2>2. call[o].pc \notin {"magic", "version", "mask", "loadMask"} /\ ~HasHandle(o)
      BY <2>1, <1>h, FileSizes DEF OpenerKnows
  <2> QED
      BY ONLY <2>1, <2>2, <1>u DEF OpenerKnows, HasHandle
<1> QED
    BY <1>1, <1>2, <1>u, <1>r, <1>n, <1>h, <1>l, MakerFrame

LEMMA CreateWriteHeaderInd ==
    ASSUME FileInv, NEW c \in Creators, NEW f \in Fields, CreateWriteHeader(c, f)
    PROVE  FileInv'
<1> DEFINE t  == make[c].todo \ {f}
           pc == IF make[c].todo = {f} THEN "ok" ELSE "header"
           r  == [make[c] EXCEPT !.todo = t, !.pc = pc]
           a  == make[c].args
<1>t. /\ make \in [Creators -> MakeRecord] /\ make[c] \in MakeRecord
      /\ a \in Args /\ IsPowerOfTwo(a.capacity)
    BY MakeTyped DEF CreateWriteHeader
<1>p. pc \in {"header", "ok"} /\ (pc = "ok" => t = {})
    OBVIOUS
<1>u. /\ make' = [make EXCEPT ![c] = r] /\ UNCHANGED <<call, exists, len>>
      /\ make[c].pc = "header" /\ f \in make[c].todo
      /\ header' = [header EXCEPT ![f] = NewHeader(a)[f]]
    BY <1>t DEF CreateWriteHeader, MakeRecord
<1> HIDE DEF pc
<1>r. r \in MakeRecord /\ r.pc = pc /\ r.args = a /\ r.todo = t
    BY <1>t, <1>p DEF MakeRecord
<1>s. make'[c] = r /\ \A d \in Creators : d # c => make'[d] = make[d]
    BY <1>t, <1>u
<1>h. /\ header \in [Fields -> Nat] /\ exists /\ len \in Nat
      /\ len = FileLen(a.capacity, a.size)
      /\ \A g \in Fields \ {"write_idx"} :
            header[g] = IF g \in make[c].todo THEN 0 ELSE NewHeader(a)[g]
    BY <1>u DEF FileInv, FileTypeOK, MakerKnows, Maker
<1>g. /\ header' \in [Fields -> Nat]
      /\ header'[f] = NewHeader(a)[f]
      /\ \A g \in Fields : g # f => header'[g] = header[g]
    BY <1>h, <1>u, <1>t, CreatedHeader
<1>n. \A o \in Openers : ~call[o].settled
    BY <1>u, MakingIsUnsettled
<1>a. t = make[c].todo \ {f}
    OBVIOUS
<1> HIDE DEF r, a, t
<1>1. MakerKnows'
  <2>1. MakerKnows
      BY DEF FileInv
  <2>2. \A d \in Creators : Maker(d)' => d = c
      BY <2>1, <1>s, <1>u DEF MakerKnows, Maker
  <2>3. /\ make'[c].pc = pc /\ make'[c].args = a /\ make'[c].todo = t
        /\ a \in Args /\ IsPowerOfTwo(a.capacity)
      BY <1>s, <1>r, <1>t
  <2>4. \A g \in Fields \ {"write_idx"} :
            header'[g] = IF g \in t THEN 0 ELSE NewHeader(a)[g]
      BY <1>a, <1>h, <1>g
  <2>5. len' = FileLen(a.capacity, a.size) /\ exists'
      BY <1>h, <1>u
  <2>6. \A d \in Creators : make'[d].pc = "open" =>
            make'[d].args \in Args /\ IsPowerOfTwo(make'[d].args.capacity)
      BY <2>1, <1>s, <1>p, <2>3 DEF MakerKnows
  <2> QED
      BY ONLY <2>2, <2>3, <2>4, <2>5, <2>6, <1>p DEF MakerKnows, Maker
<1>2. ASSUME NEW o \in Openers PROVE OpenerKnows(o)'
  <2>1. OpenerKnows(o) /\ call'[o] = call[o] /\ ~call[o].settled
      BY <1>u, <1>n DEF FileInv
  <2>2. CASE f = "capacity_mask"
    <3>1. header["capacity_mask"] = 0
        BY <2>2, <1>h, <1>u DEF Fields
    <3>2. call[o].pc # "loadMask" /\ ~HasHandle(o)
        BY <3>1, <2>1, MaskOfZero DEF OpenerKnows
    <3> QED
        BY ONLY <2>1, <3>2, <1>u DEF OpenerKnows, HasHandle
  <2>3. CASE f # "capacity_mask"
    <3>1. header'["capacity_mask"] = header["capacity_mask"]
        BY <2>3, <1>g DEF Fields
    <3> QED
        BY ONLY <2>1, <3>1, <1>u DEF OpenerKnows, HasHandle, TooShort
  <2> QED
      BY <2>2, <2>3
<1> QED
    BY <1>1, <1>2, <1>u, <1>r, <1>n, <1>g, <1>h, MakerFrame


-----------------------------------------------------------------------------
LEMMA FileNext == FileInv /\ [Next]_vars => FileInv'
<1> SUFFICES ASSUME FileInv, [Next]_vars PROVE FileInv'
    OBVIOUS
<1>1. ASSUME NEW c \in Creators, CreateStep(c) PROVE FileInv'
    BY <1>1, CreatorQuitsInd, CreateOpenInd, CreateSetLenInd, CreateWriteHeaderInd
       DEF CreateStep
<1>2. ASSUME NEW o \in Openers, OpenStep(o) PROVE FileInv'
    BY <1>2, OpenFileInd, ValidationInd, FirstPushInd, OpenAgainInd DEF OpenStep
<1>3. CASE UNCHANGED vars
  <2>1. UNCHANGED <<exists, len, header, make, call>>
      BY <1>3 DEF vars, fileVars
  <2> QED
      BY <2>1 DEF FileInv, FileTypeOK, MakerKnows, Maker, OpenerKnows, HasHandle, TooShort,
                  Finished, LargerRingsOpen, Explained, DoesNotFit,
                  SettledPushStays
<1> QED
    BY <1>1, <1>2, <1>3 DEF Next

(* What makes the life of a ring file safe: one creator at a time has the  *)
(* file, and what an opener has checked of it stays as checked.            *)
THEOREM FileInvHolds == Spec => []FileInv
BY FileInit, FileNext, PTL DEF Spec

(* No other call ever changes the length or the geometry of a ring whose   *)
(* create_new_with_readers returned.                                       *)
THEOREM CreationIsExclusive == Spec => []CreatedRingIntact
<1>1. FileInv => CreatedRingIntact
    BY DEF FileInv, MakerKnows, Maker, CreatedRingIntact, Finished
<1> QED
    BY <1>1, FileInvHolds, PTL

(* The slots of every handle that open_existing returns lie in the file    *)
(* when their size is a usize, and a handle on a file of a creator has its *)
(* capacity even if the header was being written.                          *)
THEOREM HandlesAreSound == Spec => []OpenHandleSound
<1>1. ASSUME FileInv, NEW o \in Openers, call[o].pc \in {"ok", "pushed", "panicked"}
      PROVE  LET capacity == call[o].mask + 1
                 need     == Layout(capacity, call[o].size)
             IN  /\ need < USIZE => need <= len
                 /\ \A c \in Creators : make[c].pc \in {"setLen", "header", "ok"} =>
                        capacity = make[c].args.capacity
  <2> DEFINE capacity == call[o].mask + 1
             need     == Layout(capacity, call[o].size)
  <2>t. call[o].mask \in Nat /\ call[o].size \in Nat /\ call[o].len \in Nat /\ len \in Nat
      BY <1>1, CallTyped
  <2>k. /\ call[o].len = len /\ HeaderSize <= len
        /\ call[o].mask = header["capacity_mask"] /\ ValidMask(call[o].mask)
        /\ ~(call[o].len < FileLen(call[o].mask + 1, call[o].size))
      BY <1>1 DEF FileInv, OpenerKnows, HasHandle, TooShort
  <2>1. need < USIZE => need <= len
    <3>1. capacity \in Nat
        BY <2>t
    <3>2. FileLen(capacity, call[o].size) \in Nat /\ need \in Nat
        BY <3>1, <2>t, LengthIsNat, LayoutIsNat
    <3>3. need < USIZE => FileLen(capacity, call[o].size) = need
        BY <3>1, <2>t, LengthIsNat
    <3>4. ~(len < FileLen(capacity, call[o].size))
        BY <2>k
    <3> HIDE DEF need, capacity
    <3> QED
        BY <3>2, <3>3, <3>4, <2>t
  <2>2. ASSUME NEW c \in Creators, make[c].pc \in {"setLen", "header", "ok"}
        PROVE  capacity = make[c].args.capacity
    <3>1. make[c].args \in Args /\ IsPowerOfTwo(make[c].args.capacity)
        BY <2>2, <1>1, MakeTyped
    <3>2. header["capacity_mask"] # 0
        BY <2>k, MaskOfZero
    <3>3. header["capacity_mask"] = NewHeader(make[c].args)["capacity_mask"]
        BY <3>2, <2>2, <1>1 DEF FileInv, MakerKnows, Fields
    <3>4. header["capacity_mask"] = make[c].args.capacity - 1 /\ make[c].args.capacity \in Nat
        BY <3>3, <3>1, CreatedHeader, CreatedLength
    <3> QED
        BY <3>4, <2>k
  <2> QED
      BY <2>1, <2>2
<1>2. FileInv => OpenHandleSound
    BY <1>1 DEF OpenHandleSound
<1> QED
    BY <1>2, FileInvHolds, PTL

(* A ring of two slots or more that was created before the call is refused *)
(* only if its slots, in the opener's record type, do not fit in the file. *)
THEOREM CreatedRingsOpen == Spec => []LargerRingsOpen
<1>1. FileInv => LargerRingsOpen
    BY DEF FileInv
<1> QED
    BY <1>1, FileInvHolds, PTL

(* The first push on a handle opened after the creation returned neither   *)
(* panics nor is taken back.                                               *)
THEOREM FirstPushLasts == Spec => []SettledPushStays
<1>1. FileInv => SettledPushStays
    BY DEF FileInv
<1> QED
    BY <1>1, FileInvHolds, PTL
=============================================================================
