--------------------------- MODULE SpmcRingProofs ---------------------------
(***************************************************************************)
(* The safety of SpmcRing for every capacity, number of readers, record    *)
(* width and message set, with crashes at any point.                       *)
(***************************************************************************)
EXTENDS SpmcRing, Remainders

(* The constants, in the form the proofs below use them.                   *)
LEMMA Sizes ==
    /\ Participants \subseteq ReaderIds
    /\ \A r \in ReaderIds : check_reader(r) => r \in Participants
    /\ \A r \in ReaderIds : r \in Nat
    /\ Capacity \in Nat /\ Capacity > 0
    /\ MaxPush \in Nat /\ MaxCrashes \in Nat
    /\ U64_MAX \in Nat /\ MaxPush <= U64_MAX
    /\ NumReaders \in Nat /\ NumReaders > 0
    /\ 0 \in Participants
BY SizesAssumption DEF Participants, ReaderIds, check_reader

(* slot_ptr stays inside the mapping.                                      *)
LEMMA SlotInRange ==
    ASSUME NEW i \in Nat
    PROVE  slot_ptr(i) \in SlotIds
BY SizesAssumption DEF slot_ptr, SlotIds

(* A fresh page is a record.                                               *)
LEMMA ZeroIsRecord == ZeroRecord \in Record
BY RecordsAssumption DEF ZeroRecord, Record

(* Two different stream indices less than Capacity apart never share a     *)
(* slot: the arithmetic behind the mask in slot_ptr.                       *)
LEMMA SlotsDistinct ==
    ASSUME NEW i \in Nat, NEW j \in Nat, i < j, j - i < Capacity
    PROVE  slot_ptr(i) # slot_ptr(j)
BY Sizes, RemaindersDistinct DEF slot_ptr

(* An unread message is never in the slot a write with room goes to.       *)
LEMMA RoomMissesUnread ==
    ASSUME NEW w \in Nat, NEW c \in Nat, w - c < Capacity,
           NEW i \in c..(w - 1)
    PROVE  slot_ptr(i) # slot_ptr(w)
<1>1. i \in Nat /\ i < w /\ w - i < Capacity
    BY Sizes
<1> QED
    BY <1>1, SlotsDistinct

LEMMA InitIndInv == Init => IndInv
<1> SUFFICES ASSUME Init PROVE IndInv
    OBVIOUS
<1> USE DEF Init
<1>1. TypeOK
    BY ZeroIsRecord, Sizes DEF TypeOK
<1>2. LogMatchesIndex
    BY Sizes DEF LogMatchesIndex
<1>3. LagBounded /\ NoOverwriteBeforeSlowestRead
    BY Sizes DEF LagBounded, NoOverwriteBeforeSlowestRead
<1>4. ProducerKnows
    BY DEF ProducerKnows
<1>5. \A r \in ReaderIds : ReaderKnows(r)
    BY DEF ReaderKnows
<1>6. TotalWrittenTracks
    BY DEF TotalWrittenTracks
<1> QED
    BY <1>1, <1>2, <1>3, <1>4, <1>5, <1>6 DEF IndInv

-----------------------------------------------------------------------------
(* The producer's steps.                                                   *)

LEMMA PushLoadWriteIdxInd ==
    ASSUME IndInv, NEW m \in Messages, PushLoadWriteIdx(m)
    PROVE  IndInv'
<1> USE DEF IndInv, PushLoadWriteIdx, ScanStart, fileVars, readerVars, ghostVars
<1>m. m \in Record
    BY RecordsAssumption DEF Record
<1>p. pfloor' \in Nat /\ pfloor' <= write_idx /\ pfloor' <= U64_MAX
      /\ \A r \in Participants : pfloor' <= read_indices[r]
    BY Sizes DEF TypeOK, LogMatchesIndex, SlowestCursor
<1>1. TypeOK'
    BY <1>m, <1>p, Sizes DEF TypeOK
<1>2. LogMatchesIndex'
    BY DEF LogMatchesIndex
<1>3. LagBounded' /\ NoOverwriteBeforeSlowestRead'
    BY DEF LagBounded, NoOverwriteBeforeSlowestRead
<1>4. ProducerKnows'
    BY <1>p, Sizes DEF ProducerKnows, TypeOK
<1>5. \A r \in ReaderIds : ReaderKnows(r)'
    BY DEF ReaderKnows
<1>6. TotalWrittenTracks'
    BY DEF TotalWrittenTracks
<1> QED
    BY <1>1, <1>2, <1>3, <1>4, <1>5, <1>6

LEMMA PushScanCursorInd ==
    ASSUME IndInv, PushScanCursor
    PROVE  IndInv'
<1> USE DEF IndInv, PushScanCursor, fileVars, readerVars, ghostVars
<1>p. pscan \in Participants /\ pscan \in ReaderIds /\ read_indices[pscan] \in Nat
    BY Sizes DEF TypeOK, Participants
<1>m. /\ pmin' \in Nat
      /\ pmin' <= pmin
      /\ pmin' <= read_indices[pscan]
      /\ pmin' = pmin \/ pmin' = read_indices[pscan]
    BY <1>p DEF Smaller, TypeOK
<1>1. TypeOK'
    BY <1>m, Sizes DEF TypeOK
<1>2. LogMatchesIndex'
    BY DEF LogMatchesIndex
<1>3. LagBounded' /\ NoOverwriteBeforeSlowestRead'
    BY DEF LagBounded, NoOverwriteBeforeSlowestRead
<1>4. ProducerKnows'
  <2>1. pmin' <= pw
      BY <1>p, <1>m, Sizes DEF LagBounded, ProducerKnows, TypeOK
  <2>2. ASSUME NEW r \in Participants, r < pscan + 1
        PROVE  pmin' <= read_indices[r]
    <3>1. r \in Nat /\ pscan \in Nat /\ pmin \in Nat /\ read_indices[r] \in Nat
        BY Sizes DEF TypeOK
    <3>2. CASE r = pscan
        BY <3>2, <1>m
    <3>3. CASE r < pscan
      <4>1. pmin <= read_indices[r]
          BY <3>3 DEF ProducerKnows
      <4> QED
          BY <4>1, <3>1, <1>m
    <3> QED
        BY <2>2, <3>1, <3>2, <3>3
  <2>3. pfloor <= pmin'
      BY <1>p, <1>m DEF ProducerKnows
  <2> QED
      BY <2>1, <2>2, <2>3 DEF ProducerKnows
<1>5. \A r \in ReaderIds : ReaderKnows(r)'
    BY DEF ReaderKnows
<1>6. TotalWrittenTracks'
    BY DEF TotalWrittenTracks
<1> QED
    BY <1>1, <1>2, <1>3, <1>4, <1>5, <1>6

LEMMA PushBackpressureInd ==
    ASSUME IndInv, PushBackpressure
    PROVE  IndInv'
<1> USE DEF IndInv, PushBackpressure, ProducerReturns, fileVars, readerVars, ghostVars
<1>1. TypeOK'
    BY ZeroIsRecord, Sizes DEF TypeOK
<1>2. LogMatchesIndex' /\ LagBounded' /\ NoOverwriteBeforeSlowestRead'
    BY DEF LogMatchesIndex, LagBounded, NoOverwriteBeforeSlowestRead
<1>3. ProducerKnows' /\ TotalWrittenTracks'
    BY DEF ProducerKnows, TotalWrittenTracks
<1>4. \A r \in ReaderIds : ReaderKnows(r)'
    BY DEF ReaderKnows
<1> QED
    BY <1>1, <1>2, <1>3, <1>4

(* The heart of the argument: the scan's minimum is a lower bound of every *)
(* cursor, so w - min_read < capacity bounds every reader's lag.           *)
LEMMA PushRoomInd ==
    ASSUME IndInv, PushRoom
    PROVE  IndInv'
<1> USE DEF IndInv, PushRoom, Full, fileVars, readerVars, ghostVars
<1>1. TypeOK'
    BY DEF TypeOK
<1>2. LogMatchesIndex' /\ LagBounded' /\ NoOverwriteBeforeSlowestRead'
    BY DEF LogMatchesIndex, LagBounded, NoOverwriteBeforeSlowestRead
<1>3. ProducerKnows'
  <2>1. ASSUME NEW r \in Participants
        PROVE  write_idx - read_indices[r] < Capacity
    <3>1. r \in ReaderIds /\ r < NumReaders
        BY Sizes DEF Participants
    <3>2. pmin <= read_indices[r] /\ pw = write_idx
        BY <3>1 DEF ProducerKnows
    <3> QED
        BY <3>1, <3>2, Sizes DEF TypeOK
  <2> QED
      BY <2>1 DEF ProducerKnows
<1>4. TotalWrittenTracks'
    BY DEF TotalWrittenTracks
<1>5. \A r \in ReaderIds : ReaderKnows(r)'
    BY DEF ReaderKnows
<1> QED
    BY <1>1, <1>2, <1>3, <1>4, <1>5

LEMMA PushWriteWordInd ==
    ASSUME IndInv, NEW k \in Words, PushWriteWord(k)
    PROVE  IndInv'
<1> USE DEF IndInv, PushWriteWord, readerVars, ghostVars
<1>s. slot_ptr(pw) \in SlotIds
    BY SlotInRange DEF TypeOK
<1>v. slots[slot_ptr(pw)] \in Record /\ pval \in Record
    BY <1>s DEF TypeOK
<1>o. \A s \in SlotIds : s # slot_ptr(pw) => slots'[s] = slots[s]
    BY <1>s DEF TypeOK
<1>w. slots'[slot_ptr(pw)] = [slots[slot_ptr(pw)] EXCEPT ![k] = pval[k]]
    BY <1>s DEF TypeOK
<1>1. TypeOK'
  <2>1. [slots[slot_ptr(pw)] EXCEPT ![k] = pval[k]] \in Record
      BY <1>v DEF Record
  <2>2. slots' \in [SlotIds -> Record]
      BY <2>1, <1>s DEF TypeOK
  <2> QED
      BY <2>2 DEF TypeOK
<1>2. LogMatchesIndex' /\ LagBounded'
    BY DEF LogMatchesIndex, LagBounded
<1>3. NoOverwriteBeforeSlowestRead'
  <2> SUFFICES ASSUME NEW r \in Participants,
                      NEW i \in read_indices[r]..(write_idx - 1)
               PROVE  slots'[slot_ptr(i)] = log[i + 1]
      BY DEF NoOverwriteBeforeSlowestRead
  <2>1. read_indices[r] \in Nat /\ write_idx \in Nat /\ pw = write_idx
      BY Sizes DEF TypeOK, ProducerKnows
  <2>2. write_idx - read_indices[r] < Capacity
      BY DEF ProducerKnows
  <2>3. slot_ptr(i) # slot_ptr(pw)
      BY <2>1, <2>2, RoomMissesUnread
  <2>4. slot_ptr(i) \in SlotIds
      BY <2>1, SlotInRange
  <2>5. slots[slot_ptr(i)] = log[i + 1]
      BY DEF NoOverwriteBeforeSlowestRead
  <2> QED
      BY <2>3, <2>4, <2>5, <1>o
<1>4. ProducerKnows'
  <2>1. ASSUME NEW l \in Words \ ptodo'
        PROVE  slots'[slot_ptr(pw)][l] = pval[l]
      BY <1>v, <1>w DEF ProducerKnows, Record
  <2> QED
      BY <2>1 DEF ProducerKnows
<1>5. TotalWrittenTracks'
    BY DEF TotalWrittenTracks
<1>6. \A r \in ReaderIds : ReaderKnows(r)'
    BY DEF ReaderKnows
<1> QED
    BY <1>1, <1>2, <1>3, <1>4, <1>5, <1>6

LEMMA PushPublishInd ==
    ASSUME IndInv, PushPublish
    PROVE  IndInv'
<1> USE DEF IndInv, PushPublish, readerVars
<1>t. write_idx \in Nat /\ log \in Seq(Record) /\ pval \in Record
      /\ read_indices \in [ReaderIds -> Nat]
    BY DEF TypeOK
<1>w. pw = write_idx /\ write_idx < MaxPush /\ Len(log) = write_idx
    BY DEF ProducerKnows, LogMatchesIndex
<1>l. /\ log' \in Seq(Record)
      /\ Len(log') = write_idx + 1
      /\ log'[write_idx + 1] = pval
      /\ \A i \in 1..write_idx : log'[i] = log[i]
    BY <1>t, <1>w
<1>1. TypeOK'
    BY <1>l DEF TypeOK
<1>2. LogMatchesIndex'
    BY <1>l, <1>w, <1>t, Sizes DEF LogMatchesIndex
<1>3. LagBounded'
  <2> SUFFICES ASSUME NEW r \in Participants
               PROVE  /\ read_indices[r] <= write_idx + 1
                      /\ (write_idx + 1) - read_indices[r] <= Capacity
      BY <1>w DEF LagBounded
  <2>1. write_idx - read_indices[r] < Capacity /\ read_indices[r] <= write_idx
      BY DEF ProducerKnows, LagBounded
  <2> QED
      BY <2>1, <1>t, Sizes
<1>4. slots[slot_ptr(write_idx)] = pval
  <2>1. slots[slot_ptr(pw)] \in Record
      BY <1>t, <1>w, SlotInRange DEF TypeOK
  <2>2. \A k \in Words : slots[slot_ptr(pw)][k] = pval[k]
      BY DEF ProducerKnows
  <2> QED
      BY <2>1, <2>2, <1>t, <1>w DEF Record
<1>5. NoOverwriteBeforeSlowestRead'
  <2> SUFFICES ASSUME NEW r \in Participants,
                      NEW i \in read_indices[r]..write_idx
               PROVE  slots[slot_ptr(i)] = log'[i + 1]
    <3>1. write_idx' - 1 = write_idx
        BY <1>t, <1>w
    <3> QED
        BY <3>1 DEF NoOverwriteBeforeSlowestRead
  <2>1. read_indices[r] \in Nat /\ i \in Nat
      BY <1>t, Sizes
  <2>2. CASE i = write_idx
      BY <2>2, <1>4, <1>l
  <2>3. CASE i < write_idx
    <3>1. i \in read_indices[r]..(write_idx - 1) /\ i + 1 \in 1..write_idx
        BY <2>1, <2>3, <1>t
    <3>2. slots[slot_ptr(i)] = log[i + 1]
        BY <3>1 DEF NoOverwriteBeforeSlowestRead
    <3>3. log'[i + 1] = log[i + 1]
        BY <3>1, <1>l
    <3> QED
        BY <3>2, <3>3
  <2>4. i = write_idx \/ i < write_idx
      BY <2>1, <1>t
  <2> QED
      BY <2>2, <2>3, <2>4
<1>6. ProducerKnows'
    BY <1>w, <1>t DEF ProducerKnows, TotalWrittenTracks, TypeOK
<1>7. ASSUME NEW r \in ReaderIds PROVE ReaderKnows(r)'
  <2>1. ReaderKnows(r)
      OBVIOUS
  <2>2. rw[r] \in Nat /\ rr[r] \in Nat /\ read_indices[r] \in Nat /\ peeked[r] \subseteq Nat
      BY DEF TypeOK
  <2>3. rr[r] < write_idx => log'[rr[r] + 1] = log[rr[r] + 1]
      BY <2>2, <1>l, <1>t
  <2> QED
      BY <2>1, <2>2, <2>3, <1>t, <1>w DEF ReaderKnows
<1>8. TotalWrittenTracks'
    BY <1>w, <1>t DEF TotalWrittenTracks, TypeOK
<1> QED
    BY <1>1, <1>2, <1>3, <1>5, <1>6, <1>7, <1>8

LEMMA PushBumpTotalInd ==
    ASSUME IndInv, PushBumpTotal
    PROVE  IndInv'
<1> USE DEF IndInv, PushBumpTotal, Bumped, ProducerReturns, readerVars, ghostVars
<1>1. TypeOK'
    BY ZeroIsRecord, Sizes DEF TypeOK
<1>2. LogMatchesIndex' /\ LagBounded' /\ NoOverwriteBeforeSlowestRead'
    BY DEF LogMatchesIndex, LagBounded, NoOverwriteBeforeSlowestRead
<1>3. ProducerKnows'
    BY DEF ProducerKnows
<1>4. TotalWrittenTracks'
    BY DEF TotalWrittenTracks, ProducerKnows, TypeOK
<1>5. \A r \in ReaderIds : ReaderKnows(r)'
    BY DEF ReaderKnows
<1> QED
    BY <1>1, <1>2, <1>3, <1>4, <1>5

LEMMA ProducerCrashInd ==
    ASSUME IndInv, ProducerCrash
    PROVE  IndInv'
<1> USE DEF IndInv, ProducerCrash, ProducerReturns, fileVars, readerVars
<1>1. TypeOK'
    BY ZeroIsRecord, Sizes DEF TypeOK
<1>2. LogMatchesIndex' /\ LagBounded' /\ NoOverwriteBeforeSlowestRead'
    BY DEF LogMatchesIndex, LagBounded, NoOverwriteBeforeSlowestRead
<1>3. ProducerKnows'
    BY DEF ProducerKnows
<1>4. TotalWrittenTracks'
    BY DEF TotalWrittenTracks, TypeOK
<1>5. \A r \in ReaderIds : ReaderKnows(r)'
    BY DEF ReaderKnows
<1> QED
    BY <1>1, <1>2, <1>3, <1>4, <1>5

-----------------------------------------------------------------------------
(* The readers' steps.                                                     *)

(* Reader s keeps the locals of its call in progress.                      *)
SameLocals(s) ==
    /\ rpc'[s] = rpc[s] /\ rw'[s] = rw[s] /\ rr'[s] = rr[s]
    /\ rbuf'[s] = rbuf[s] /\ rtodo'[s] = rtodo[s] /\ peeked'[s] = peeked[s]

(* What a step of reader r must establish when it leaves the file and the  *)
(* producer alone: its own facts.                                          *)
LEMMA QuietReaderStep ==
    ASSUME IndInv, TypeOK', NEW r \in ReaderIds,
           UNCHANGED <<fileVars, producerVars, log>>,
           crashes <= crashes',
           \A s \in ReaderIds \ {r} : SameLocals(s),
           ReaderKnows(r)'
    PROVE  IndInv'
<1> USE DEF IndInv, fileVars, producerVars
<1>1. LogMatchesIndex' /\ LagBounded' /\ NoOverwriteBeforeSlowestRead'
    BY DEF LogMatchesIndex, LagBounded, NoOverwriteBeforeSlowestRead
<1>2. ProducerKnows'
    BY DEF ProducerKnows
<1>3. TotalWrittenTracks'
  <2>1. crashes \in Nat /\ crashes' \in Nat /\ write_idx \in Nat /\ total_written \in Nat
      BY DEF TypeOK
  <2>2. ASSUME NEW c \in Nat, NEW d \in Nat, c <= d, NEW w \in Nat, NEW t \in Nat
        PROVE  /\ w - t <= c => w - t <= d
               /\ w - t <= c + 1 => w - t <= d + 1
      BY ONLY <2>2
  <2>3. /\ write_idx - total_written <= crashes => write_idx - total_written <= crashes'
        /\ write_idx - total_written <= crashes + 1 => write_idx - total_written <= crashes' + 1
      BY ONLY <2>1, <2>2, crashes <= crashes'
  <2> QED
      BY <2>3 DEF TotalWrittenTracks
<1>4. ASSUME NEW s \in ReaderIds \ {r} PROVE ReaderKnows(s)'
    BY DEF ReaderKnows, SameLocals
<1> QED
    BY <1>1, <1>2, <1>3, <1>4

LEMMA LoadWriteIdxInd ==
    ASSUME IndInv, NEW r \in ReaderIds,
           NEW next \in {"popCursor", "peekCursor"}, LoadWriteIdx(r, next)
    PROVE  IndInv'
<1> USE DEF LoadWriteIdx, ghostVars
<1>1. TypeOK'
    BY DEF IndInv, TypeOK, fileVars, producerVars
<1>2. ReaderKnows(r)'
  <2>1. r \in Participants
      BY Sizes
  <2>2. read_indices[r] <= write_idx /\ write_idx \in Nat
      BY <2>1 DEF IndInv, LagBounded, TypeOK
  <2>3. rpc'[r] = next /\ rw'[r] = write_idx /\ peeked'[r] = {}
      BY DEF IndInv, TypeOK
  <2> QED
      BY <2>1, <2>2, <2>3 DEF ReaderKnows, fileVars
<1>3. \A s \in ReaderIds \ {r} : SameLocals(s)
    BY DEF IndInv, TypeOK, SameLocals
<1>4. UNCHANGED <<fileVars, producerVars, log>>
    OBVIOUS
<1>5. crashes <= crashes'
    BY DEF IndInv, TypeOK
<1> QED
    BY ONLY IndInv, r \in ReaderIds, <1>1, <1>2, <1>3, <1>4, <1>5, QuietReaderStep

LEMMA PopEmptyInd ==
    ASSUME IndInv, NEW r \in ReaderIds, PopEmpty(r)
    PROVE  IndInv'
<1> USE DEF PopEmpty, ReaderReturns, ghostVars
<1>1. TypeOK'
    BY ZeroIsRecord DEF IndInv, TypeOK, fileVars, producerVars
<1>2. ReaderKnows(r)'
    BY DEF IndInv, TypeOK, ReaderKnows, fileVars
<1>3. \A s \in ReaderIds \ {r} : SameLocals(s)
    BY DEF IndInv, TypeOK, SameLocals
<1>4. UNCHANGED <<fileVars, producerVars, log>>
    OBVIOUS
<1>5. crashes <= crashes'
    BY DEF IndInv, TypeOK
<1> QED
    BY ONLY IndInv, r \in ReaderIds, <1>1, <1>2, <1>3, <1>4, <1>5, QuietReaderStep

LEMMA PopLoadCursorInd ==
    ASSUME IndInv, NEW r \in ReaderIds, PopLoadCursor(r)
    PROVE  IndInv'
<1> USE DEF PopLoadCursor, Drained, NextIndex, ghostVars
<1>1. TypeOK'
    BY DEF IndInv, TypeOK, fileVars, producerVars
<1>2. ReaderKnows(r)'
  <2>1. ReaderKnows(r)
      BY DEF IndInv
  <2>2. /\ read_indices[r] \in Nat /\ rw[r] \in Nat /\ write_idx \in Nat
        /\ rpc'[r] = "popRead" /\ rr'[r] = read_indices[r] /\ rtodo'[r] = Words
      BY DEF IndInv, TypeOK
  <2> QED
      BY <2>1, <2>2 DEF ReaderKnows, fileVars
<1>3. \A s \in ReaderIds \ {r} : SameLocals(s)
    BY DEF IndInv, TypeOK, SameLocals
<1>4. UNCHANGED <<fileVars, producerVars, log>>
    OBVIOUS
<1>5. crashes <= crashes'
    BY DEF IndInv, TypeOK
<1> QED
    BY ONLY IndInv, r \in ReaderIds, <1>1, <1>2, <1>3, <1>4, <1>5, QuietReaderStep

LEMMA PopReadWordInd ==
    ASSUME IndInv, NEW r \in ReaderIds, NEW k \in Words, PopReadWord(r, k)
    PROVE  IndInv'
<1> USE DEF PopReadWord, ghostVars
<1>k. ReaderKnows(r) /\ r \in Participants
    BY DEF IndInv, ReaderKnows
<1>t. /\ rr[r] \in Nat /\ read_indices[r] \in Nat /\ write_idx \in Nat
      /\ rbuf[r] \in Record
    BY DEF IndInv, TypeOK
<1>s. slots[slot_ptr(rr[r])] = log[rr[r] + 1]
    BY <1>k, <1>t DEF ReaderKnows, IndInv, NoOverwriteBeforeSlowestRead
<1>v. slots[slot_ptr(rr[r])] \in Record
    BY <1>t, SlotInRange DEF IndInv, TypeOK
<1>b. /\ rbuf'[r] = [rbuf[r] EXCEPT ![k] = slots[slot_ptr(rr[r])][k]]
      /\ rtodo'[r] = rtodo[r] \ {k}
    BY DEF IndInv, TypeOK
<1>1. TypeOK'
  <2>1. [rbuf[r] EXCEPT ![k] = slots[slot_ptr(rr[r])][k]] \in Record
      BY <1>t, <1>v DEF Record
  <2>2. rbuf' \in [ReaderIds -> Record]
      BY <2>1 DEF IndInv, TypeOK
  <2>3. rtodo' \in [ReaderIds -> SUBSET Words]
      BY DEF IndInv, TypeOK
  <2> QED
      BY <2>2, <2>3 DEF IndInv, TypeOK, fileVars, producerVars
<1>2. ReaderKnows(r)'
  <2>1. ASSUME NEW l \in Words \ rtodo'[r]
        PROVE  rbuf'[r][l] = log[rr[r] + 1][l]
      BY <1>k, <1>t, <1>s, <1>b DEF ReaderKnows, Record
  <2> QED
      BY <2>1, <1>k DEF ReaderKnows, fileVars
<1>3. \A s \in ReaderIds \ {r} : SameLocals(s)
    BY DEF IndInv, TypeOK, SameLocals
<1>4. UNCHANGED <<fileVars, producerVars, log>>
    OBVIOUS
<1>5. crashes <= crashes'
    BY DEF IndInv, TypeOK
<1> QED
    BY ONLY IndInv, r \in ReaderIds, <1>1, <1>2, <1>3, <1>4, <1>5, QuietReaderStep

LEMMA PeekReturnInd ==
    ASSUME IndInv, NEW r \in ReaderIds, PeekReturn(r)
    PROVE  IndInv'
<1> USE DEF PeekReturn, ReaderReturns, ghostVars
<1>k. ReaderKnows(r) /\ r \in Participants
    BY DEF IndInv, ReaderKnows
<1>t. /\ read_indices[r] \in Nat /\ rw[r] \in Nat /\ write_idx \in Nat
      /\ rpc'[r] = "idle"
      /\ peeked'[r] = {i \in {read_indices[r]} : i # rw[r]}
    BY DEF IndInv, TypeOK
<1>1. TypeOK'
    BY <1>t, ZeroIsRecord DEF IndInv, TypeOK, fileVars, producerVars
<1>2. ReaderKnows(r)'
    BY <1>k, <1>t DEF ReaderKnows, fileVars
<1>3. \A s \in ReaderIds \ {r} : SameLocals(s)
    BY DEF IndInv, TypeOK, SameLocals
<1>4. UNCHANGED <<fileVars, producerVars, log>>
    OBVIOUS
<1>5. crashes <= crashes'
    BY DEF IndInv, TypeOK
<1> QED
    BY ONLY IndInv, r \in ReaderIds, <1>1, <1>2, <1>3, <1>4, <1>5, QuietReaderStep

LEMMA ReaderCrashInd ==
    ASSUME IndInv, NEW r \in ReaderIds, ReaderCrash(r)
    PROVE  IndInv'
<1> USE DEF ReaderCrash, ReaderReturns
<1>1. TypeOK'
    BY ZeroIsRecord DEF IndInv, TypeOK, fileVars, producerVars
<1>2. ReaderKnows(r)'
    BY DEF IndInv, TypeOK, ReaderKnows
<1>3. \A s \in ReaderIds \ {r} : SameLocals(s)
    BY DEF IndInv, TypeOK, SameLocals
<1>4. UNCHANGED <<fileVars, producerVars, log>>
    OBVIOUS
<1>5. crashes <= crashes'
    BY DEF IndInv, TypeOK
<1> QED
    BY ONLY IndInv, r \in ReaderIds, <1>1, <1>2, <1>3, <1>4, <1>5, QuietReaderStep

(* A store to the cursor of reader r, by try_pop or (module LoanRing) by a *)
(* loan, that moves it by one over a published message.                    *)
LEMMA CursorStep ==
    ASSUME IndInv, TypeOK', NEW r \in Participants,
           read_indices[r] < write_idx,
           read_indices' = [read_indices EXCEPT ![r] = read_indices[r] + 1],
           UNCHANGED <<write_idx, total_written, slots, producerVars, log, crashes>>,
           \A s \in ReaderIds \ {r} : SameLocals(s),
           ReaderKnows(r)'
    PROVE  IndInv'
<1> USE DEF IndInv, producerVars
<1>t. /\ read_indices \in [ReaderIds -> Nat] /\ write_idx \in Nat
      /\ pmin \in Nat /\ pfloor \in Nat /\ r \in ReaderIds
    BY Sizes DEF TypeOK
<1>m. \A s \in ReaderIds : /\ read_indices'[s] \in Nat
                           /\ read_indices[s] \in Nat
                           /\ read_indices[s] <= read_indices'[s]
                           /\ s # r => read_indices'[s] = read_indices[s]
    BY <1>t
<1>r. read_indices'[r] = read_indices[r] + 1
    BY <1>t
<1>2. LogMatchesIndex'
    BY DEF LogMatchesIndex
<1>3. LagBounded'
  <2> SUFFICES ASSUME NEW s \in Participants
               PROVE  /\ read_indices'[s] <= write_idx
                      /\ write_idx - read_indices'[s] <= Capacity
      BY DEF LagBounded
  <2>1. s \in ReaderIds
      BY Sizes
  <2>2. read_indices[s] <= write_idx /\ write_idx - read_indices[s] <= Capacity
      BY DEF LagBounded
  <2> QED
      BY <2>1, <2>2, <1>m, <1>r, <1>t, Sizes
<1>4. NoOverwriteBeforeSlowestRead'
  <2> SUFFICES ASSUME NEW s \in Participants,
                      NEW i \in read_indices'[s]..(write_idx - 1)
               PROVE  slots[slot_ptr(i)] = log[i + 1]
      BY DEF NoOverwriteBeforeSlowestRead
  <2>1. i \in read_indices[s]..(write_idx - 1)
      BY <1>m, <1>t, Sizes
  <2> QED
      BY <2>1 DEF NoOverwriteBeforeSlowestRead
<1>5. ProducerKnows'
  <2>1. \A s \in Participants : s \in ReaderIds
      BY Sizes
  <2>2. ppc = "scan" => /\ \A s \in Participants : pfloor <= read_indices'[s]
                        /\ \A s \in Participants : s < pscan => pmin <= read_indices'[s]
      BY <2>1, <1>m, <1>t DEF ProducerKnows
  <2>3. ppc = "write" => \A s \in Participants : write_idx - read_indices'[s] < Capacity
      BY <2>1, <1>m, <1>t, Sizes DEF ProducerKnows
  <2> QED
      BY <2>2, <2>3 DEF ProducerKnows
<1>6. TotalWrittenTracks'
    BY DEF TotalWrittenTracks
<1>7. ASSUME NEW s \in ReaderIds \ {r} PROVE ReaderKnows(s)'
    BY <1>m DEF ReaderKnows, SameLocals
<1> QED
    BY <1>2, <1>3, <1>4, <1>5, <1>6, <1>7

LEMMA PopAdvanceInd ==
    ASSUME IndInv, NEW r \in ReaderIds, PopAdvance(r)
    PROVE  IndInv'
<1> USE DEF PopAdvance, Advanced, ReaderReturns
<1>k. ReaderKnows(r) /\ r \in Participants
    BY DEF IndInv, ReaderKnows
<1>c. /\ rr[r] = read_indices[r] /\ rr[r] \in Nat /\ rr[r] < write_idx
      /\ peeked[r] = {} /\ rpc'[r] = "idle" /\ rbuf[r] \in Record
    BY <1>k DEF ReaderKnows, IndInv, TypeOK
<1>1. TypeOK'
    BY <1>c, ZeroIsRecord DEF IndInv, TypeOK, producerVars
<1>2. ReaderKnows(r)'
    BY <1>k, <1>c DEF ReaderKnows
<1>3. \A s \in ReaderIds \ {r} : SameLocals(s)
    BY DEF IndInv, TypeOK, SameLocals
<1>4. /\ UNCHANGED <<write_idx, total_written, slots, producerVars, log, crashes>>
      /\ read_indices[r] < write_idx
      /\ read_indices' = [read_indices EXCEPT ![r] = read_indices[r] + 1]
    BY <1>c
<1> QED
    BY ONLY IndInv, <1>k, <1>1, <1>2, <1>3, <1>4, CursorStep

-----------------------------------------------------------------------------
(* Every step, and a step that changes nothing, keeps the invariant.       *)
LEMMA NextIndInv == IndInv /\ [Next]_vars => IndInv'
<1> SUFFICES ASSUME IndInv, [Next]_vars PROVE IndInv'
    OBVIOUS
<1>1. CASE ProducerStep
    BY <1>1, PushLoadWriteIdxInd, PushScanCursorInd, PushBackpressureInd,
       PushRoomInd, PushWriteWordInd, PushPublishInd, PushBumpTotalInd
       DEF ProducerStep
<1>2. ASSUME NEW r \in ReaderIds, PopStep(r) PROVE IndInv'
    BY <1>2, LoadWriteIdxInd, PopEmptyInd, PopLoadCursorInd, PopReadWordInd,
       PopAdvanceInd DEF PopStep, PopLoadWriteIdx
<1>3. ASSUME NEW r \in ReaderIds, PeekStep(r) PROVE IndInv'
    BY <1>3, LoadWriteIdxInd, PeekReturnInd DEF PeekStep, PeekLoadWriteIdx
<1>4. CASE ProducerCrash
    BY <1>4, ProducerCrashInd
<1>5. ASSUME NEW r \in ReaderIds, ReaderCrash(r) PROVE IndInv'
    BY <1>5, ReaderCrashInd
<1>6. CASE UNCHANGED vars
  <2> USE <1>6 DEF vars, fileVars, producerVars, readerVars, ghostVars, IndInv
  <2>1. TypeOK'
      BY DEF TypeOK
  <2>2. LogMatchesIndex' /\ LagBounded' /\ NoOverwriteBeforeSlowestRead'
      BY DEF LogMatchesIndex, LagBounded, NoOverwriteBeforeSlowestRead
  <2>3. ProducerKnows' /\ TotalWrittenTracks'
      BY DEF ProducerKnows, TotalWrittenTracks
  <2>4. \A r \in ReaderIds : ReaderKnows(r)'
      BY DEF ReaderKnows
  <2> QED
      BY <2>1, <2>2, <2>3, <2>4
<1> QED
    BY <1>1, <1>2, <1>3, <1>4, <1>5, <1>6 DEF Next

(* The inductive invariant holds in every state of the ring, whatever the  *)
(* interleaving of try_push, try_pop, peek and crashes.                    *)
THEOREM IndInvHolds == Spec => []IndInv
<1>1. Init => IndInv
    BY InitIndInv
<1>2. IndInv /\ [Next]_vars => IndInv'
    BY NextIndInv
<1> QED
    BY <1>1, <1>2, PTL DEF Spec

(* Type correctness of the header words, the slots and every local.        *)
THEOREM TypeCorrect == Spec => []TypeOK
<1>1. IndInv => TypeOK
    BY DEF IndInv
<1> QED
    BY <1>1, IndInvHolds, PTL

(* Backpressure: try_push never lets a participating reader lag by more    *)
(* than the capacity, and no reader overtakes the producer.                *)
THEOREM BackpressureSafe == Spec => []LagBounded
<1>1. IndInv => LagBounded
    BY DEF IndInv
<1> QED
    BY <1>1, IndInvHolds, PTL

(* The crate's core claim: a message some participating reader has not     *)
(* consumed is intact in its slot.                                         *)
THEOREM NoOverwrite == Spec => []NoOverwriteBeforeSlowestRead
<1>1. IndInv => NoOverwriteBeforeSlowestRead
    BY DEF IndInv
<1> QED
    BY <1>1, IndInvHolds, PTL

(* try_pop never returns a record mixed of two messages, nor a stale one.  *)
THEOREM NoTornReads == Spec => []NoTornRead
<1>1. IndInv => NoTornRead
    BY DEF IndInv, LogMatchesIndex, ReaderKnows, NoTornRead
<1> QED
    BY <1>1, IndInvHolds, PTL

(* The volatile accesses do not race: the producer never writes a slot     *)
(* that try_pop is reading or that a live peek pointer points at.          *)
THEOREM SlotRaceFree == Spec => []NoSlotRace
<1>1. IndInv => NoSlotRace
  <2> SUFFICES ASSUME IndInv, ppc = "write", NEW r \in ReaderIds,
                      NEW i \in Nat, i = read_indices[r], i < write_idx,
                      r \in Participants
               PROVE  slot_ptr(i) # slot_ptr(pw)
      BY DEF IndInv, TypeOK, ReaderKnows, NoSlotRace
  <2>1. pw = write_idx /\ write_idx - read_indices[r] < Capacity
      BY DEF IndInv, ProducerKnows
  <2>2. write_idx \in Nat /\ i \in read_indices[r]..(write_idx - 1)
      BY DEF IndInv, TypeOK
  <2> QED
      BY <2>1, <2>2, RoomMissesUnread
<1> QED
    BY <1>1, IndInvHolds, PTL

(* A pointer returned by peek keeps pointing at the same message until     *)
(* the reader's next try_pop or peek.                                      *)
THEOREM PeekWindowSound == Spec => []PeekWindow
<1>1. IndInv => PeekWindow
  <2> SUFFICES ASSUME IndInv, NEW r \in ReaderIds, NEW i \in peeked[r]
               PROVE  i < Len(log) /\ slots[slot_ptr(i)] = log[i + 1]
      BY DEF PeekWindow
  <2>1. r \in Participants /\ i = read_indices[r] /\ i < write_idx
      BY DEF IndInv, ReaderKnows
  <2>2. i \in read_indices[r]..(write_idx - 1) /\ Len(log) = write_idx
      BY <2>1 DEF IndInv, TypeOK, LogMatchesIndex
  <2> QED
      BY <2>1, <2>2 DEF IndInv, NoOverwriteBeforeSlowestRead
<1> QED
    BY <1>1, IndInvHolds, PTL

(* The backpressure verdict is exact although the cursors are loaded one   *)
(* at a time.                                                              *)
THEOREM ScanExact == Spec => []ScanSandwich
<1>1. IndInv => ScanSandwich
    BY Sizes DEF IndInv, ProducerKnows, ScanSandwich, Participants
<1> QED
    BY <1>1, IndInvHolds, PTL

(* The diagnostic counter is off by at most the crashes and one.           *)
THEOREM TotalWrittenClose == Spec => []TotalWrittenTracks
<1>1. IndInv => TotalWrittenTracks
    BY DEF IndInv
<1> QED
    BY <1>1, IndInvHolds, PTL

-----------------------------------------------------------------------------
(* Refinement: the store of write_idx is Publish, the store of a cursor is *)
(* Consume, every other step (crashes too) is a stutter of the stream.     *)

LEMMA PublishRefines ==
    ASSUME IndInv, PushPublish
    PROVE  Abs!Next
<1>1. pval \in Messages
    BY DEF IndInv, PushPublish, ProducerKnows
<1>2. \A p \in Participants :
          Len(log) - [q \in Participants |-> read_indices[q]][p] < Capacity
    BY DEF IndInv, PushPublish, ProducerKnows, LogMatchesIndex
<1>3. Abs!Publish(pval)
    BY <1>2 DEF PushPublish, Abs!Publish
<1> QED
    BY <1>1, <1>3 DEF Abs!Next

LEMMA ConsumeRefines ==
    ASSUME IndInv, NEW r \in ReaderIds, PopAdvance(r)
    PROVE  Abs!Next
<1> DEFINE cur == [q \in Participants |-> read_indices[q]]
           got == [q \in Participants |-> out[q]]
<1>k. ReaderKnows(r) /\ r \in Participants
    BY DEF IndInv, ReaderKnows, PopAdvance, Advanced
<1>1. cur[r] < Len(log) /\ cur[r] = rr[r] /\ rr[r] = read_indices[r]
    BY <1>k DEF IndInv, PopAdvance, Advanced, ReaderKnows, LogMatchesIndex
<1>2. cur' = [cur EXCEPT ![r] = @ + 1]
    BY <1>k, <1>1, Sizes DEF IndInv, TypeOK, PopAdvance, Advanced
<1>3. rbuf[r] = log[cur[r] + 1]
  <2>1. rbuf[r] \in Record /\ rr[r] \in Nat /\ log \in Seq(Record)
      BY DEF IndInv, TypeOK
  <2>2. log[rr[r] + 1] \in Record
      BY <2>1, <1>1
  <2>3. \A k \in Words : rbuf[r][k] = log[rr[r] + 1][k]
      BY <1>k DEF ReaderKnows, PopAdvance, Advanced
  <2> QED
      BY <2>1, <2>2, <2>3, <1>1 DEF Record
<1>4. got' = [got EXCEPT ![r] = log[cur[r] + 1]]
    BY <1>k, <1>3, Sizes DEF IndInv, TypeOK, PopAdvance, Advanced
<1>5. log' = log
    BY DEF PopAdvance
<1>6. Abs!Consume(r)
    BY <1>1, <1>2, <1>4, <1>5 DEF Abs!Consume
<1> QED
    BY <1>6, <1>k DEF Abs!Next

LEMMA StepRefines ==
    IndInv /\ [Next]_vars => [Abs!Next]_Abs!vars
<1> SUFFICES ASSUME IndInv, [Next]_vars PROVE [Abs!Next]_Abs!vars
    OBVIOUS
<1>s. ASSUME UNCHANGED <<log, read_indices, out>> PROVE UNCHANGED Abs!vars
    BY <1>s DEF Abs!vars
<1> USE DEF fileVars, ghostVars
<1>1. CASE ProducerStep
  <2>1. CASE PushPublish
      BY <2>1, PublishRefines
  <2>2. CASE ~PushPublish
    <3>1. UNCHANGED <<log, read_indices, out>>
        BY <1>1, <2>2 DEF ProducerStep, PushLoadWriteIdx, PushScanCursor,
           PushBackpressure, PushRoom, PushWriteWord, PushBumpTotal
    <3> QED
        BY <3>1, <1>s
  <2> QED
      BY <2>1, <2>2
<1>2. ASSUME NEW r \in ReaderIds, PopStep(r) PROVE [Abs!Next]_Abs!vars
  <2>1. CASE PopAdvance(r)
      BY <2>1, ConsumeRefines
  <2>2. CASE ~PopAdvance(r)
    <3>1. UNCHANGED <<log, read_indices, out>>
        BY <1>2, <2>2 DEF PopStep, PopLoadWriteIdx, LoadWriteIdx, PopEmpty,
           PopLoadCursor, PopReadWord
    <3> QED
        BY <3>1, <1>s
  <2> QED
      BY <2>1, <2>2
<1>3. ASSUME NEW r \in ReaderIds, PeekStep(r) PROVE [Abs!Next]_Abs!vars
    BY <1>3, <1>s DEF PeekStep, PeekLoadWriteIdx, LoadWriteIdx, PeekReturn
<1>4. CASE ProducerCrash
    BY <1>4, <1>s DEF ProducerCrash
<1>5. ASSUME NEW r \in ReaderIds, ReaderCrash(r) PROVE [Abs!Next]_Abs!vars
    BY <1>5, <1>s DEF ReaderCrash
<1>6. CASE UNCHANGED vars
    BY <1>6, <1>s DEF vars
<1> QED
    BY <1>1, <1>2, <1>3, <1>4, <1>5, <1>6 DEF Next

(* The ring, word-by-word copies, racing cursors and crashes included,     *)
(* implements the bounded broadcast log.                                   *)
THEOREM Refinement == Spec => ImplementsBroadcastLog
<1>1. Init => Abs!Init
    BY Sizes DEF Init, Abs!Init
<1>2. IndInv /\ [Next]_vars => [Abs!Next]_Abs!vars
    BY StepRefines
<1> QED
    BY <1>1, <1>2, IndInvHolds, PTL DEF Spec, ImplementsBroadcastLog, Abs!Spec
=============================================================================
