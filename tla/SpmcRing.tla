------------------------------ MODULE SpmcRing ------------------------------
(***************************************************************************)
(* SpmcRingBuffer (src/ring.rs) over the header of src/header.rs:          *)
(* one producer and one consumer thread per reader id, each in its own     *)
(* process or thread, working on one mapped file.                          *)
(*                                                                         *)
(* Every load and store of a shared header word is a step of its own, and  *)
(* the payload moves word by word (write_volatile / read_volatile of a     *)
(* record wider than a machine word), in any order.  Threads interleave    *)
(* between any two of these steps, and a process may die between any two   *)
(* of them; the mapped file survives and a new process takes over.         *)
(***************************************************************************)
EXTENDS Integers, Sequences

CONSTANTS MaxReaders,   \* MAX_READERS: cursors that exist in the header
          NumReaders,   \* num_readers: cursors that take part
          Capacity,     \* number of slots
          Words,        \* the words of a record
          WordVals,     \* the values of a word
          Zero,         \* the word of a fresh (zeroed) page
          Messages,     \* the records the producer publishes
          U64_MAX,      \* u64::MAX, the start value of the minimum scan
          MaxPush,      \* bound: messages published in a behaviour
          MaxCrashes    \* bound: process crashes in a behaviour

ASSUME SizesAssumption ==
    /\ MaxReaders \in Nat
    /\ NumReaders \in 1..MaxReaders
    /\ Capacity \in Nat \ {0}
    /\ MaxPush \in Nat
    /\ MaxCrashes \in Nat
    /\ U64_MAX \in Nat
    /\ U64_MAX >= MaxPush

ASSUME RecordsAssumption ==
    /\ Zero \in WordVals
    /\ Messages \subseteq [Words -> WordVals]

VARIABLES
    (* The mapped file: RingHeader and the slots behind it. *)
    write_idx, read_indices, total_written, slots,
    (* SpmcRingBuffer::loan_depth of the readers' handle.  Nothing in this
       module raises it; the loan protocol (module LoanRing) does. *)
    loan_depth,
    (* Locals of the producer's try_push in progress. *)
    ppc, pval, pw, pscan, pmin, ptodo,
    (* Locals of each reader's try_pop or peek in progress; peeked[r] holds
       the index behind the pointer the last peek returned (or nothing)
       until the reader's next try_pop or peek ends its validity. *)
    rpc, rw, rr, rbuf, rtodo, peeked,
    (* Ghosts: the published stream, the last record handed to each reader,
       the slowest cursor when try_push was called, and the crashes so far. *)
    log, out, pfloor, crashes

fileVars     == <<write_idx, read_indices, total_written, slots>>
producerVars == <<ppc, pval, pw, pscan, pmin, ptodo, pfloor>>
readerVars   == <<rpc, rw, rr, rbuf, rtodo, peeked>>
ghostVars    == <<log, out, crashes>>
vars == <<fileVars, loan_depth, producerVars, readerVars, ghostVars>>

ReaderIds    == 0..(MaxReaders - 1)
Participants == 0..(NumReaders - 1)
SlotIds      == 0..(Capacity - 1)
Record       == [Words -> WordVals]
ZeroRecord   == [k \in Words |-> Zero]

(* The slot behind an unmasked stream index: idx & (capacity - 1), which   *)
(* for a power-of-two capacity is the remainder.                           *)
slot_ptr(idx) == idx % Capacity

(* Mutant: the bound check admits one id too many.                         *)
check_reader_inclusive(r) == r <= NumReaders

(* An id outside 0..num_readers-1 is refused with InvalidReaderId.         *)
check_reader(r) == r < NumReaders

Smaller(a, b) == IF a <= b THEN a ELSE b

-----------------------------------------------------------------------------
(* RingHeader::new and the fresh pages behind it; every handle idle.       *)
Init ==
    /\ write_idx = 0
    /\ read_indices = [r \in ReaderIds |-> 0]
    /\ total_written = 0
    /\ slots = [s \in SlotIds |-> ZeroRecord]
    /\ loan_depth = [r \in ReaderIds |-> 0]
    /\ ppc = "idle" /\ pval = ZeroRecord /\ pw = 0 /\ pscan = 0
    /\ pmin = U64_MAX /\ ptodo = {} /\ pfloor = 0
    /\ rpc = [r \in ReaderIds |-> "idle"]
    /\ rw = [r \in ReaderIds |-> 0]
    /\ rr = [r \in ReaderIds |-> 0]
    /\ rbuf = [r \in ReaderIds |-> ZeroRecord]
    /\ rtodo = [r \in ReaderIds |-> {}]
    /\ peeked = [r \in ReaderIds |-> {}]
    /\ log = <<>>
    /\ out = [r \in ReaderIds |-> ZeroRecord]
    /\ crashes = 0

-----------------------------------------------------------------------------
(* The producer: try_push.                                                 *)

SlowestCursor(m) ==
    /\ \E r \in Participants : read_indices[r] = m
    /\ \A r \in Participants : m <= read_indices[r]

(* try_push returns, or its process dies: its locals are gone.             *)
ProducerReturns ==
    /\ ppc' = "idle" /\ pval' = ZeroRecord /\ pw' = 0 /\ pscan' = 0
    /\ pmin' = U64_MAX /\ ptodo' = {} /\ pfloor' = 0

(* Mutant: the minimum scan starts from 0 instead of u64::MAX.             *)
ScanStartZero == 0

ScanStart == U64_MAX

(* The call: load write_idx (Relaxed, its own last store) and num_readers. *)
PushLoadWriteIdx(m) ==
    /\ ppc = "idle"
    /\ write_idx < MaxPush
    /\ ppc' = "scan" /\ pval' = m /\ pw' = write_idx
    /\ pscan' = 0 /\ pmin' = ScanStart
    /\ pfloor' \in {f \in 0..write_idx : SlowestCursor(f)}
    /\ UNCHANGED <<fileVars, loan_depth, ptodo, readerVars, ghostVars>>

(* slowest_read_idx: the cursors are loaded one after the other, while     *)
(* their owners move them.                                                 *)
PushScanCursor ==
    /\ ppc = "scan"
    /\ pscan < NumReaders
    /\ pmin' = Smaller(pmin, read_indices[pscan])
    /\ pscan' = pscan + 1
    /\ UNCHANGED <<fileVars, loan_depth, ppc, pval, pw, ptodo, pfloor,
                   readerVars, ghostVars>>

(* Mutant: one message more than there are slots.                          *)
FullOffByOne == pw - pmin > Capacity

(* The slowest reader lags by the full capacity.                           *)
Full == pw - pmin >= Capacity

(* Return false.                                                           *)
PushBackpressure ==
    /\ ppc = "scan"
    /\ pscan = NumReaders
    /\ Full
    /\ ProducerReturns
    /\ UNCHANGED <<fileVars, loan_depth, readerVars, ghostVars>>

PushRoom ==
    /\ ppc = "scan"
    /\ pscan = NumReaders
    /\ ~Full
    /\ ppc' = "write"
    /\ ptodo' = Words
    /\ UNCHANGED <<fileVars, loan_depth, pval, pw, pscan, pmin, pfloor,
                   readerVars, ghostVars>>

(* One word of write_volatile(slot, *value).                               *)
PushWriteWord(k) ==
    /\ ppc = "write"
    /\ k \in ptodo
    /\ slots' = [slots EXCEPT ![slot_ptr(pw)] = [@ EXCEPT ![k] = pval[k]]]
    /\ ptodo' = ptodo \ {k}
    /\ UNCHANGED <<write_idx, read_indices, total_written, loan_depth, ppc,
                   pval, pw, pscan, pmin, pfloor, readerVars, ghostVars>>

(* The Release store of w + 1: from here the message is in the stream.     *)
PushPublish ==
    /\ ppc = "write"
    /\ ptodo = {}
    /\ write_idx' = pw + 1
    /\ log' = Append(log, pval)
    /\ ppc' = "bump"
    /\ UNCHANGED <<read_indices, total_written, slots, loan_depth, pval, pw,
                   pscan, pmin, ptodo, pfloor, readerVars, out, crashes>>

(* Mutant: the counter is set to the index of the message.                 *)
BumpedToIndex == pw

Bumped == total_written + 1

(* bump_total_written, then return true.                                   *)
PushBumpTotal ==
    /\ ppc = "bump"
    /\ total_written' = Bumped
    /\ ProducerReturns
    /\ UNCHANGED <<write_idx, read_indices, slots, loan_depth, readerVars,
                   ghostVars>>

-----------------------------------------------------------------------------
(* A reader: try_pop and peek.                                             *)

(* A call of reader r returns, or its process dies: its locals are gone.   *)
ReaderReturns(r) ==
    /\ rpc' = [rpc EXCEPT ![r] = "idle"]
    /\ rw' = [rw EXCEPT ![r] = 0]
    /\ rr' = [rr EXCEPT ![r] = 0]
    /\ rbuf' = [rbuf EXCEPT ![r] = ZeroRecord]
    /\ rtodo' = [rtodo EXCEPT ![r] = {}]

(* The common entry: reader check, then the Acquire load of write_idx.     *)
LoadWriteIdx(r, next) ==
    /\ rpc[r] = "idle"
    /\ check_reader(r)
    /\ rpc' = [rpc EXCEPT ![r] = next]
    /\ rw' = [rw EXCEPT ![r] = write_idx]
    /\ peeked' = [peeked EXCEPT ![r] = {}]
    /\ UNCHANGED <<fileVars, loan_depth, producerVars, rr, rbuf, rtodo,
                   ghostVars>>

(* try_pop fails with LoanOutstanding while the handle has an open loan.   *)
PopLoadWriteIdx(r) ==
    /\ loan_depth[r] = 0
    /\ LoadWriteIdx(r, "popCursor")

(* Mutant: the newest message is left alone.                               *)
DrainedButOne(r) == read_indices[r] + 1 >= rw[r]

Drained(r) == read_indices[r] = rw[r]

(* The load of the reader's own cursor; nothing published: return None.    *)
PopEmpty(r) ==
    /\ rpc[r] = "popCursor"
    /\ Drained(r)
    /\ ReaderReturns(r)
    /\ UNCHANGED <<fileVars, loan_depth, producerVars, peeked, ghostVars>>

NextIndex(r) == read_indices[r]

PopLoadCursor(r) ==
    /\ rpc[r] = "popCursor"
    /\ ~Drained(r)
    /\ rpc' = [rpc EXCEPT ![r] = "popRead"]
    /\ rr' = [rr EXCEPT ![r] = NextIndex(r)]
    /\ rtodo' = [rtodo EXCEPT ![r] = Words]
    /\ UNCHANGED <<fileVars, loan_depth, producerVars, rw, rbuf, peeked,
                   ghostVars>>

(* One word of read_volatile(slot).                                        *)
PopReadWord(r, k) ==
    /\ rpc[r] = "popRead"
    /\ k \in rtodo[r]
    /\ rbuf' = [rbuf EXCEPT ![r] = [@ EXCEPT ![k] = slots[slot_ptr(rr[r])][k]]]
    /\ rtodo' = [rtodo EXCEPT ![r] = @ \ {k}]
    /\ UNCHANGED <<fileVars, loan_depth, producerVars, rpc, rw, rr, peeked,
                   ghostVars>>

(* Mutant: the cursor jumps to the producer's index.                       *)
AdvancedToHead(r) == rw[r]

Advanced(r) == rr[r] + 1

(* The Release store of r + 1 to the reader's cursor; return Some(value).  *)
PopAdvance(r) ==
    /\ rpc[r] = "popRead"
    /\ rtodo[r] = {}
    /\ read_indices' = [read_indices EXCEPT ![r] = Advanced(r)]
    /\ out' = [out EXCEPT ![r] = rbuf[r]]
    /\ ReaderReturns(r)
    /\ UNCHANGED <<write_idx, total_written, slots, loan_depth, producerVars,
                   peeked, log, crashes>>

PeekLoadWriteIdx(r) == LoadWriteIdx(r, "peekCursor")

(* peek: the load of the cursor, and the pointer (or None) returned.       *)
PeekReturn(r) ==
    /\ rpc[r] = "peekCursor"
    /\ ReaderReturns(r)
    /\ peeked' = [peeked EXCEPT ![r] =
                     {i \in {read_indices[r]} : i # rw[r]}]
    /\ UNCHANGED <<fileVars, loan_depth, producerVars, ghostVars>>

-----------------------------------------------------------------------------
(* Crashes.  The process dies between two steps; its locals are gone, the  *)
(* mapped file keeps what was stored.  A new process opens the file and    *)
(* continues as the producer, or as that reader.                           *)

ProducerCrash ==
    /\ crashes < MaxCrashes
    /\ ppc # "idle"
    /\ crashes' = crashes + 1
    /\ ProducerReturns
    /\ UNCHANGED <<fileVars, loan_depth, readerVars, log, out>>

ReaderCrash(r) ==
    /\ crashes < MaxCrashes
    /\ rpc[r] # "idle" \/ peeked[r] # {}
    /\ crashes' = crashes + 1
    /\ ReaderReturns(r)
    /\ peeked' = [peeked EXCEPT ![r] = {}]
    /\ UNCHANGED <<fileVars, loan_depth, producerVars, log, out>>

-----------------------------------------------------------------------------
ProducerStep ==
    \/ \E m \in Messages : PushLoadWriteIdx(m)
    \/ PushScanCursor
    \/ PushBackpressure
    \/ PushRoom
    \/ \E k \in Words : PushWriteWord(k)
    \/ PushPublish
    \/ PushBumpTotal

PopStep(r) ==
    \/ PopLoadWriteIdx(r)
    \/ PopEmpty(r)
    \/ PopLoadCursor(r)
    \/ \E k \in Words : PopReadWord(r, k)
    \/ PopAdvance(r)

PeekStep(r) == PeekLoadWriteIdx(r) \/ PeekReturn(r)

Next ==
    \/ ProducerStep
    \/ \E r \in ReaderIds : PopStep(r) \/ PeekStep(r)
    \/ ProducerCrash
    \/ \E r \in ReaderIds : ReaderCrash(r)

Spec == Init /\ [][Next]_vars

-----------------------------------------------------------------------------
(* The types of the state.                                                 *)
TypeOK ==
    /\ write_idx \in Nat
    /\ read_indices \in [ReaderIds -> Nat]
    /\ total_written \in Nat
    /\ slots \in [SlotIds -> Record]
    /\ loan_depth \in [ReaderIds -> Nat]
    /\ ppc \in {"idle", "scan", "write", "bump"}
    /\ pval \in Record /\ pw \in Nat /\ pscan \in 0..NumReaders
    /\ pmin \in Nat /\ ptodo \in SUBSET Words /\ pfloor \in Nat
    /\ rpc \in [ReaderIds -> {"idle", "popCursor", "popRead", "peekCursor"}]
    /\ rw \in [ReaderIds -> Nat]
    /\ rr \in [ReaderIds -> Nat]
    /\ rbuf \in [ReaderIds -> Record]
    /\ rtodo \in [ReaderIds -> SUBSET Words]
    /\ peeked \in [ReaderIds -> SUBSET Nat]
    /\ log \in Seq(Record)
    /\ out \in [ReaderIds -> Record]
    /\ crashes \in Nat

(* No participating reader is ever ahead of the producer, nor more than    *)
(* Capacity behind it: the producer never crosses the boundary on a stale  *)
(* scan of the cursors (try_push, ring.rs:447-456), crashes included.      *)
LagBounded ==
    \A r \in Participants :
        /\ read_indices[r] <= write_idx
        /\ write_idx - read_indices[r] <= Capacity

(* No overwrite before the slowest read: whatever the producer is in the   *)
(* middle of, or died in the middle of, the slot of every message some     *)
(* participating reader has yet to consume holds exactly that message.     *)
NoOverwriteBeforeSlowestRead ==
    \A r \in Participants :
        \A i \in read_indices[r]..(write_idx - 1) :
            slots[slot_ptr(i)] = log[i + 1]

(* A try_pop in progress only ever copies words of the message at its      *)
(* cursor: no torn record (words of two messages), none stale or lapped.   *)
NoTornRead ==
    \A r \in ReaderIds : rpc[r] = "popRead" =>
        /\ rr[r] < Len(log)
        /\ \A k \in Words \ rtodo[r] : rbuf[r][k] = log[rr[r] + 1][k]

(* The claim behind the unsafe volatile accesses: while the producer       *)
(* writes a slot no reader is reading it, and no pointer handed out by     *)
(* peek and still in its validity window points at it.                     *)
NoSlotRace ==
    ppc = "write" => \A r \in ReaderIds :
        /\ rpc[r] = "popRead" => slot_ptr(rr[r]) # slot_ptr(pw)
        /\ \A i \in peeked[r] : slot_ptr(i) # slot_ptr(pw)

(* The record behind a pointer returned by peek stays the message at that  *)
(* index until the reader's next try_pop or peek (ring.rs:519-523).        *)
PeekWindow ==
    \A r \in ReaderIds : \A i \in peeked[r] :
        /\ i < Len(log)
        /\ slots[slot_ptr(i)] = log[i + 1]

(* Backpressure is exact although the cursors are loaded one by one: once  *)
(* the scan is complete its minimum lies between the slowest cursor when   *)
(* try_push was called and the slowest cursor now.  So a push is refused   *)
(* only if the ring was full at the call, it is accepted only if it has    *)
(* room, and w - min_read does not underflow.                              *)
ScanSandwich ==
    (ppc = "scan" /\ pscan = NumReaders) =>
        /\ pfloor <= pmin
        /\ pmin <= pw
        /\ \A r \in Participants : pmin <= read_indices[r]

(* total_written never reports a push that write_idx does not show, and    *)
(* misses at most one per crash and the one in flight.                     *)
TotalWrittenTracks ==
    /\ total_written <= write_idx
    /\ ppc # "bump" => write_idx - total_written <= crashes
    /\ ppc = "bump" => write_idx - total_written <= crashes + 1

-----------------------------------------------------------------------------
(* Why the safety properties hold: the parts an inductive invariant needs  *)
(* beyond them.                                                            *)

(* The ghost stream and the published index agree.                         *)
LogMatchesIndex ==
    /\ Len(log) = write_idx
    /\ write_idx <= MaxPush

(* The producer's locals against the file.  A scan in progress bounds the  *)
(* cursors it has passed from below; a write in progress has room for one  *)
(* more message, and has copied the words it no longer has to do.          *)
ProducerKnows ==
    /\ ppc # "idle" => pval \in Messages
    /\ ppc \in {"scan", "write"} => pw = write_idx /\ write_idx < MaxPush
    /\ ppc = "scan" =>
        /\ \A r \in Participants : pfloor <= read_indices[r]
        /\ pfloor <= pmin
        /\ pscan > 0 => pmin <= pw
        /\ \A r \in Participants : r < pscan => pmin <= read_indices[r]
    /\ ppc = "write" =>
        /\ \A r \in Participants : write_idx - read_indices[r] < Capacity
        /\ \A k \in Words \ ptodo : slots[slot_ptr(pw)][k] = pval[k]
    /\ ppc = "bump" => total_written < write_idx

(* A reader's locals against the file: only participants are in a call,    *)
(* the indices they loaded bound the ones in the file, and the words they  *)
(* have copied are words of the message at their cursor.                   *)
ReaderKnows(r) ==
    /\ (rpc[r] # "idle" \/ peeked[r] # {}) => r \in Participants
    /\ rpc[r] \in {"popCursor", "peekCursor"} =>
        read_indices[r] <= rw[r] /\ rw[r] <= write_idx
    /\ rpc[r] # "idle" => peeked[r] = {}
    /\ rpc[r] = "popRead" =>
        /\ rr[r] = read_indices[r]
        /\ rr[r] < write_idx
        /\ \A k \in Words \ rtodo[r] : rbuf[r][k] = log[rr[r] + 1][k]
    /\ \A i \in peeked[r] : i = read_indices[r] /\ i < write_idx

(* The inductive invariant: every property above follows from it.          *)
IndInv ==
    /\ TypeOK
    /\ LogMatchesIndex
    /\ LagBounded
    /\ NoOverwriteBeforeSlowestRead
    /\ ProducerKnows
    /\ \A r \in ReaderIds : ReaderKnows(r)
    /\ TotalWrittenTracks

-----------------------------------------------------------------------------
(* The ring implements the bounded broadcast log: a push takes effect at   *)
(* its store of write_idx, a pop at its store of the cursor, and the       *)
(* record a pop returns is the next message of the stream.  Crashes are    *)
(* invisible in the stream.                                                *)
Abs == INSTANCE BroadcastLog WITH
           Nothing <- ZeroRecord,
           cursor  <- [p \in Participants |-> read_indices[p]],
           out     <- [p \in Participants |-> out[p]]

ImplementsBroadcastLog == Abs!Spec

(* Under fair callers the implementation also keeps the promise that every *)
(* reader is eventually handed its next message.                           *)
ImplementsFairBroadcastLog == Abs!FairSpec

(* A ring that is full recovers: as long as all participating readers keep *)
(* popping, every message of the producer is eventually published, and     *)
(* every participating reader eventually consumes it, even if processes    *)
(* crash along the way (finitely often) (REQ-SR-202).                      *)
StreamDelivered ==
    <>[](write_idx = MaxPush /\ \A r \in Participants : read_indices[r] = MaxPush)
=============================================================================
