------------------------- MODULE RingObserverProofs -------------------------
(***************************************************************************)
(* The diagnostics of SpmcRingBuffer for any number of readers, capacity,  *)
(* messages, crashes and calls: an answer still holds when its caller acts *)
(* on it, and a report wraps only for a monitor that a publish overtook.   *)
(***************************************************************************)
EXTENDS RingObserver, SpmcRingProofs, Remainders

ObsRecord ==
    [by : {"none", "reader", "producer", "monitor"}, next : Nat, last : Nat,
     w : Nat, min : Nat]

LEMMA ObserverTyped ==
    ASSUME ObserverInv
    PROVE  /\ write_idx \in Nat /\ write_idx <= MaxPush /\ write_idx <= U64_MAX
           /\ read_indices \in [ReaderIds -> Nat]
           /\ \A r \in Participants : /\ r \in ReaderIds /\ r \in Nat
                                      /\ read_indices[r] \in Nat /\ seen[r] \in Nat
                                      /\ read_indices[r] <= write_idx
                                      /\ write_idx - read_indices[r] <= Capacity
           /\ obs \in ObsRecord /\ obs.next \in Nat /\ obs.last \in Nat
           /\ obs.w \in Nat /\ obs.min \in Nat
           /\ obs.by \in {"none", "reader", "producer", "monitor"}
           /\ calls \in Nat /\ seen \in [ReaderIds -> Nat] /\ room \in BOOLEAN
           /\ ppc \in {"idle", "scan", "write", "bump"} /\ pw \in Nat /\ pfloor \in Nat
           /\ rpc \in [ReaderIds -> {"idle", "popCursor", "popRead", "peekCursor"}]
           /\ rw \in [ReaderIds -> Nat]
<1>1. /\ write_idx \in Nat /\ write_idx <= MaxPush /\ write_idx <= U64_MAX
      /\ read_indices \in [ReaderIds -> Nat]
    BY Sizes DEF ObserverInv, IndInv, TypeOK, LogMatchesIndex
<1>2. obs \in ObsRecord /\ calls \in Nat /\ seen \in [ReaderIds -> Nat] /\ room \in BOOLEAN
    BY DEF ObserverInv, ObserverTypeOK, ObsRecord
<1>3. /\ obs.next \in Nat /\ obs.last \in Nat /\ obs.w \in Nat /\ obs.min \in Nat
      /\ obs.by \in {"none", "reader", "producer", "monitor"}
    BY <1>2 DEF ObsRecord
<1>4. \A r \in Participants : /\ r \in ReaderIds /\ r \in Nat
                              /\ read_indices[r] \in Nat /\ seen[r] \in Nat
                              /\ read_indices[r] <= write_idx
                              /\ write_idx - read_indices[r] <= Capacity
    BY <1>1, <1>2, Sizes DEF ObserverInv, IndInv, LagBounded
<1>5. /\ ppc \in {"idle", "scan", "write", "bump"} /\ pw \in Nat /\ pfloor \in Nat
      /\ rpc \in [ReaderIds -> {"idle", "popCursor", "popRead", "peekCursor"}]
      /\ rw \in [ReaderIds -> Nat]
    BY DEF ObserverInv, IndInv, TypeOK
<1> QED
    BY <1>1, <1>2, <1>3, <1>4, <1>5

(* wrapping_sub of a smaller u64 is the difference.                        *)
LEMMA LagIsDifference ==
    ASSUME NEW w \in Nat, NEW m \in Nat, m <= w, w <= U64_MAX
    PROVE  (w - m) % (U64_MAX + 1) = w - m
<1>1. w - m \in Nat /\ U64_MAX + 1 \in Nat /\ U64_MAX + 1 > 0 /\ w - m < U64_MAX + 1
    BY Sizes
<1> QED
    BY <1>1, Remainder

LEMMA ObserverInit == OInit => ObserverInv
<1> SUFFICES ASSUME OInit PROVE ObserverInv
    OBVIOUS
<1>1. IndInv
    BY InitIndInv DEF OInit
<1>2. ObserverTypeOK
    BY Sizes DEF OInit, ObserverTypeOK, NoCall
<1>3. CallKnows
    BY DEF OInit, CallKnows, NoCall
<1>4. AnswersKnow
    BY Sizes DEF OInit, Init, AnswersKnow
<1> QED
    BY <1>1, <1>2, <1>3, <1>4 DEF ObserverInv

-----------------------------------------------------------------------------
(* What the ring's own steps may do to the words a diagnostic reads, and   *)
(* to the calls that act on its answers.                                   *)

LEMMA ProducerMoves ==
    ASSUME IndInv, ProducerStep
    PROVE  /\ IndInv' /\ UNCHANGED <<read_indices, rpc, rw>>
           /\ write_idx' = write_idx \/ write_idx' = write_idx + 1
           /\ ppc' = "scan" =>
                 \/ ppc = "scan" /\ pw' = pw /\ pfloor' = pfloor
                 \/ pw' = write_idx /\ \E q \in Participants : pfloor' = read_indices[q]
<1>1. IndInv'
    BY NextIndInv DEF Next
<1> USE DEF fileVars, readerVars
<1>2. CASE \E m \in Messages : PushLoadWriteIdx(m)
    BY <1>1, <1>2 DEF PushLoadWriteIdx, SlowestCursor
<1>3. CASE PushScanCursor
    BY <1>1, <1>3 DEF PushScanCursor
<1>4. CASE PushBackpressure \/ PushBumpTotal
    BY <1>1, <1>4 DEF PushBackpressure, PushBumpTotal, ProducerReturns
<1>5. CASE PushRoom
    BY <1>1, <1>5 DEF PushRoom
<1>6. CASE \E k \in Words : PushWriteWord(k)
    BY <1>1, <1>6 DEF PushWriteWord
<1>7. CASE PushPublish
    BY <1>1, <1>7 DEF PushPublish, IndInv, ProducerKnows
<1> QED
    BY <1>2, <1>3, <1>4, <1>5, <1>6, <1>7 DEF ProducerStep

LEMMA PopMoves ==
    ASSUME IndInv, NEW r \in ReaderIds, PopStep(r)
    PROVE  /\ IndInv' /\ UNCHANGED <<write_idx, ppc, pw, pfloor>>
           /\ \A q \in ReaderIds : q # r => /\ read_indices'[q] = read_indices[q]
                                            /\ rpc'[q] = rpc[q] /\ rw'[q] = rw[q]
           /\ \/ read_indices'[r] = read_indices[r] /\ rpc'[r] # "popCursor"
              \/ read_indices'[r] = read_indices[r] /\ rw'[r] = write_idx
              \/ read_indices'[r] = read_indices[r] + 1 /\ rpc'[r] = "idle"
<1>1. IndInv'
    BY NextIndInv DEF Next
<1>t. /\ read_indices \in [ReaderIds -> Nat] /\ rw \in [ReaderIds -> Nat]
      /\ rpc \in [ReaderIds -> {"idle", "popCursor", "popRead", "peekCursor"}]
    BY DEF IndInv, TypeOK
<1> USE DEF fileVars, producerVars
<1>2. CASE PopLoadWriteIdx(r)
    BY <1>1, <1>2, <1>t DEF PopLoadWriteIdx, LoadWriteIdx
<1>3. CASE PopEmpty(r)
    BY <1>1, <1>3, <1>t DEF PopEmpty, ReaderReturns
<1>4. CASE PopLoadCursor(r)
    BY <1>1, <1>4, <1>t DEF PopLoadCursor
<1>5. CASE \E k \in Words : PopReadWord(r, k)
    BY <1>1, <1>5, <1>t DEF PopReadWord
<1>6. CASE PopAdvance(r)
  <2>1. rr[r] = read_indices[r]
      BY <1>6 DEF PopAdvance, IndInv, ReaderKnows
  <2> QED
      BY <1>1, <1>6, <1>t, <2>1 DEF PopAdvance, Advanced, ReaderReturns
<1> QED
    BY <1>2, <1>3, <1>4, <1>5, <1>6 DEF PopStep

LEMMA CrashMoves ==
    ASSUME IndInv, ProducerCrash \/ \E r \in ReaderIds : ReaderCrash(r)
    PROVE  /\ IndInv' /\ UNCHANGED <<write_idx, read_indices>>
           /\ \A q \in ReaderIds : \/ rpc'[q] = rpc[q] /\ rw'[q] = rw[q]
                                   \/ rpc'[q] = "idle"
           /\ ppc' = "idle" \/ UNCHANGED <<ppc, pw, pfloor>>
<1>1. IndInv'
    BY NextIndInv DEF Next
<1>t. /\ rw \in [ReaderIds -> Nat]
      /\ rpc \in [ReaderIds -> {"idle", "popCursor", "popRead", "peekCursor"}]
    BY DEF IndInv, TypeOK
<1> USE DEF fileVars
<1>2. CASE ProducerCrash
    BY <1>1, <1>2 DEF ProducerCrash, ProducerReturns, readerVars
<1>3. ASSUME NEW r \in ReaderIds, ReaderCrash(r)
      PROVE  /\ UNCHANGED <<write_idx, read_indices>>
             /\ \A q \in ReaderIds : \/ rpc'[q] = rpc[q] /\ rw'[q] = rw[q]
                                     \/ rpc'[q] = "idle"
             /\ UNCHANGED <<ppc, pw, pfloor>>
    BY <1>3, <1>t DEF ReaderCrash, ReaderReturns, producerVars
<1> QED
    BY <1>1, <1>2, <1>3


LEMMA OProducerStepInd ==
    ASSUME ObserverInv, OProducerStep
    PROVE  ObserverInv'
<1>t. /\ write_idx \in Nat /\ obs.w \in Nat /\ obs.last \in Nat /\ room \in BOOLEAN
      /\ \A r \in Participants : /\ r \in ReaderIds /\ read_indices[r] \in Nat
                                 /\ seen[r] \in Nat
    BY ObserverTyped
<1>p. /\ IndInv' /\ UNCHANGED <<read_indices, rpc, rw>>
      /\ write_idx' = write_idx \/ write_idx' = write_idx + 1
      /\ ppc' = "scan" =>
            \/ ppc = "scan" /\ pw' = pw /\ pfloor' = pfloor
            \/ pw' = write_idx /\ \E q \in Participants : pfloor' = read_indices[q]
    BY ProducerMoves DEF ObserverInv, OProducerStep
<1>u. /\ UNCHANGED <<calls, obs, seen>> /\ obs.by # "producer"
      /\ room' = (room /\ write_idx' = write_idx)
    BY DEF OProducerStep, ProducerAsking
<1>1. ObserverTypeOK'
    BY <1>u DEF ObserverInv, ObserverTypeOK
<1>2. CallKnows'
  <2>1. CallKnows
      BY DEF ObserverInv
  <2>2. ASSUME obs.by # "none" PROVE obs.w <= write_idx' /\ (write_idx' = obs.w => write_idx = obs.w)
    <3>1. obs.w <= write_idx
        BY <2>1, <2>2 DEF CallKnows
    <3> QED
        BY <3>1, <1>p, <1>t
  <2> QED
      BY ONLY <2>1, <2>2, <1>u, <1>p DEF CallKnows
<1>3. AnswersKnow'
  <2>1. AnswersKnow
      BY DEF ObserverInv
  <2>2. ASSUME NEW r \in Participants
        PROVE  /\ read_indices'[r] + seen'[r] <= write_idx'
               /\ rpc'[r] = "popCursor" => read_indices'[r] + seen'[r] <= rw'[r]
    <3>1. /\ read_indices[r] + seen[r] <= write_idx
          /\ rpc[r] = "popCursor" => read_indices[r] + seen[r] <= rw[r]
        BY <2>1 DEF AnswersKnow
    <3>2. read_indices[r] + seen[r] \in Nat
        BY <1>t
    <3>3. read_indices[r] + seen[r] <= write_idx'
        BY <3>1, <3>2, <1>p, <1>t
    <3> QED
        BY <3>1, <3>3, <1>p, <1>u
  <2>3. room' => room /\ write_idx' = write_idx
      BY <1>u
  <2>4. room' => \A r \in Participants : write_idx' - read_indices'[r] < Capacity
      BY <2>1, <2>3, <1>p DEF AnswersKnow
  <2>5. (room' /\ ppc' = "scan") => pw' - pfloor' < Capacity
      BY <2>1, <2>3, <1>p DEF AnswersKnow
  <2> QED
      BY <2>2, <2>4, <2>5 DEF AnswersKnow
<1> QED
    BY <1>1, <1>2, <1>3, <1>p DEF ObserverInv

LEMMA OPopStepInd ==
    ASSUME ObserverInv, NEW r \in ReaderIds, OPopStep(r)
    PROVE  ObserverInv'
<1>t. /\ write_idx \in Nat /\ obs.w \in Nat /\ obs.min \in Nat /\ room \in BOOLEAN
      /\ seen \in [ReaderIds -> Nat] /\ read_indices \in [ReaderIds -> Nat]
      /\ \A q \in Participants : q \in ReaderIds
      /\ Capacity \in Nat
    BY ObserverTyped, Sizes
<1>p. /\ IndInv' /\ UNCHANGED <<write_idx, ppc, pw, pfloor>>
      /\ \A q \in ReaderIds : q # r => /\ read_indices'[q] = read_indices[q]
                                       /\ rpc'[q] = rpc[q] /\ rw'[q] = rw[q]
      /\ \/ read_indices'[r] = read_indices[r] /\ rpc'[r] # "popCursor"
         \/ read_indices'[r] = read_indices[r] /\ rw'[r] = write_idx
         \/ read_indices'[r] = read_indices[r] + 1 /\ rpc'[r] = "idle"
    BY PopMoves DEF ObserverInv, OPopStep
<1>u. /\ UNCHANGED <<calls, obs, room>> /\ ~(obs.by = "reader" /\ obs.last = r)
      /\ seen' = [seen EXCEPT ![r] = IF Took(r) THEN @ - 1 ELSE @]
    BY DEF OPopStep, Asking
<1>n. IndInv' /\ \A q \in Participants : read_indices'[q] <= write_idx
    BY <1>p DEF IndInv, LagBounded
<1>s. /\ seen' \in [ReaderIds -> Nat]
      /\ \A q \in ReaderIds : q # r => seen'[q] = seen[q]
      /\ seen'[r] = IF Took(r) THEN seen[r] - 1 ELSE seen[r]
    BY <1>u, <1>t DEF Took
<1>m. \A q \in ReaderIds : read_indices[q] <= read_indices'[q] /\ read_indices'[q] \in Nat
    BY <1>p, <1>t
<1>1. ObserverTypeOK'
    BY <1>u, <1>s DEF ObserverInv, ObserverTypeOK
<1>2. CallKnows'
  <2>1. CallKnows
      BY DEF ObserverInv
  <2>2. ASSUME obs.by = "producer", NEW q \in Participants, q < obs.next
        PROVE  obs.min <= read_indices'[q]
    <3>1. obs.min <= read_indices[q]
        BY <2>1, <2>2 DEF CallKnows
    <3> QED
        BY <3>1, <1>m, <1>t
  <2>3. obs.by = "reader" =>
            /\ obs.last \in ReaderIds
            /\ rpc'[obs.last] = rpc[obs.last]
            /\ read_indices'[obs.last] = read_indices[obs.last]
      BY <2>1, <1>p, <1>u, <1>t DEF CallKnows
  <2> QED
      BY ONLY <2>1, <2>2, <2>3, <1>u, <1>p DEF CallKnows
<1>3. AnswersKnow'
  <2>1. AnswersKnow
      BY DEF ObserverInv
  <2>2. ASSUME NEW q \in Participants
        PROVE  /\ read_indices'[q] + seen'[q] <= write_idx
               /\ rpc'[q] = "popCursor" => read_indices'[q] + seen'[q] <= rw'[q]
    <3>1. /\ read_indices[q] + seen[q] <= write_idx
          /\ rpc[q] = "popCursor" => read_indices[q] + seen[q] <= rw[q]
        BY <2>1 DEF AnswersKnow
    <3>2. CASE q # r
        BY <3>1, <3>2, <1>p, <1>s, <1>t
    <3>3. CASE q = r /\ read_indices'[r] = read_indices[r]
      <4>1. seen'[r] = seen[r]
          BY <3>3, <1>s DEF Took
      <4> QED
          BY <3>1, <3>3, <4>1, <1>p, <1>t
    <3>4. CASE q = r /\ read_indices'[r] # read_indices[r]
      <4>1. read_indices'[r] = read_indices[r] + 1 /\ rpc'[r] = "idle"
          BY <3>4, <1>p
      <4>2. read_indices[r] \in Nat /\ seen[r] \in Nat
          BY <1>t
      <4>3. seen'[r] = IF seen[r] > 0 THEN seen[r] - 1 ELSE seen[r]
          BY <3>4, <1>s DEF Took
      <4>4. read_indices'[r] <= write_idx
          BY <3>4, <1>n
      <4> QED
          BY <3>1, <3>4, <4>1, <4>2, <4>3, <4>4, <1>t
    <3> QED
        BY <3>2, <3>3, <3>4
  <2>3. ASSUME room, NEW q \in Participants PROVE write_idx - read_indices'[q] < Capacity
    <3>1. write_idx - read_indices[q] < Capacity
        BY <2>1, <2>3 DEF AnswersKnow
    <3> QED
        BY <3>1, <1>m, <1>t
  <2>4. (room /\ ppc = "scan") => pw - pfloor < Capacity
      BY <2>1 DEF AnswersKnow
  <2> QED
      BY <2>2, <2>3, <2>4, <1>p, <1>u DEF AnswersKnow
<1> QED
    BY <1>1, <1>2, <1>3, <1>p DEF ObserverInv

LEMMA OCrashInd ==
    ASSUME ObserverInv, OCrash
    PROVE  ObserverInv'
<1>p. /\ IndInv' /\ UNCHANGED <<write_idx, read_indices>>
      /\ \A q \in ReaderIds : \/ rpc'[q] = rpc[q] /\ rw'[q] = rw[q]
                              \/ rpc'[q] = "idle"
      /\ ppc' = "idle" \/ UNCHANGED <<ppc, pw, pfloor>>
    BY CrashMoves DEF ObserverInv, OCrash
<1>u. UNCHANGED <<calls, obs, seen, room>>
    BY DEF OCrash, obsVars
<1>t. \A q \in Participants : q \in ReaderIds
    BY Sizes
<1>1. ObserverTypeOK'
    BY <1>u DEF ObserverInv, ObserverTypeOK
<1>2. CallKnows'
    BY <1>u, <1>p, <1>t DEF ObserverInv, CallKnows
<1>3. AnswersKnow'
    BY <1>u, <1>p, <1>t DEF ObserverInv, AnswersKnow
<1> QED
    BY <1>1, <1>2, <1>3, <1>p DEF ObserverInv

-----------------------------------------------------------------------------
(* The diagnostic itself, which leaves the ring alone.                     *)

LEMMA RingUntouched ==
    ASSUME IndInv, UNCHANGED vars
    PROVE  /\ IndInv'
           /\ UNCHANGED <<write_idx, read_indices, rpc, rw, ppc, pw, pfloor>>
<1>1. IndInv'
    BY NextIndInv
<1> QED
    BY <1>1 DEF vars, fileVars, producerVars, readerVars

LEMMA ObserveInd ==
    ASSUME ObserverInv, NEW by \in {"reader", "producer", "monitor"},
           NEW first \in Nat, NEW last \in Participants, first <= last,
           Observe(by, first, last),
           by = "reader" => rpc[last] = "idle" /\ first = last,
           by = "producer" => ppc = "idle" /\ first = 0 /\ last = NumReaders - 1
    PROVE  ObserverInv'
<1>t. /\ write_idx \in Nat /\ calls \in Nat /\ last \in Nat
      /\ \A q \in Participants : read_indices[q] <= write_idx /\ q \in Nat
      /\ U64_MAX \in Nat
    BY ObserverTyped, Sizes
<1>o. /\ obs' = [by |-> by, next |-> first, last |-> last, w |-> write_idx, min |-> U64_MAX]
      /\ calls' = calls + 1 /\ UNCHANGED <<seen, room>> /\ UNCHANGED vars
    BY DEF Observe
<1>u. IndInv' /\ UNCHANGED <<write_idx, read_indices, rpc, rw, ppc, pw, pfloor>>
    BY <1>o, RingUntouched DEF ObserverInv
<1>1. ObserverTypeOK'
    BY <1>o, <1>t DEF ObserverInv, ObserverTypeOK
<1>2. CallKnows'
  <2>1. /\ obs'.by = by /\ obs'.next = first /\ obs'.last = last /\ obs'.w = write_idx
        /\ obs'.min = U64_MAX
      BY <1>o
  <2>2. ~(first > last)
      BY <1>t
  <2>3. first = 0 => \A q \in Participants : ~(q < first)
      BY <1>t
  <2> QED
      BY <2>1, <2>2, <2>3, <1>u, <1>t DEF CallKnows
<1>3. AnswersKnow'
    BY <1>o, <1>u DEF ObserverInv, AnswersKnow
<1> QED
    BY <1>1, <1>2, <1>3, <1>u DEF ObserverInv

LEMMA ObserveBegins ==
    ASSUME ObserverInv, (\E r \in ReaderIds : len(r)) \/ slowest_lag
    PROVE  ObserverInv'
<1>1. ASSUME NEW r \in ReaderIds, len(r) PROVE ObserverInv'
  <2>1. r \in Participants /\ r \in Nat /\ r <= r
      BY <1>1, Sizes DEF len
  <2> QED
      BY <1>1, <2>1, ObserveInd DEF len
<1>2. CASE slowest_lag
  <2>1. 0 \in Nat /\ NumReaders - 1 \in Participants /\ 0 <= NumReaders - 1
      BY Sizes DEF Participants
  <2> QED
      BY <1>2, <2>1, ObserveInd DEF slowest_lag
<1> QED
    BY <1>1, <1>2

LEMMA ObserveCursorInd ==
    ASSUME ObserverInv, ObserveCursor
    PROVE  ObserverInv'
<1> DEFINE n == obs.next
           c == read_indices[n]
           m == Smaller(obs.min, c)
<1>t. /\ write_idx \in Nat /\ write_idx <= U64_MAX /\ obs \in ObsRecord
      /\ n \in Nat /\ obs.last \in Nat /\ obs.w \in Nat /\ obs.min \in Nat
      /\ \A q \in Participants : read_indices[q] \in Nat /\ q \in Nat
      /\ U64_MAX \in Nat /\ NumReaders \in Nat /\ Capacity \in Nat
    BY ObserverTyped, Sizes
<1>o. /\ obs' = [obs EXCEPT !.next = n + 1, !.min = m]
      /\ UNCHANGED <<calls, seen, room>> /\ UNCHANGED vars
      /\ obs.by # "none" /\ n <= obs.last
    BY DEF ObserveCursor
<1>u. IndInv' /\ UNCHANGED <<write_idx, read_indices, rpc, rw, ppc, pw, pfloor>>
    BY <1>o, RingUntouched DEF ObserverInv
<1>k. CallKnows /\ obs.last \in Participants /\ obs.w <= write_idx
    BY <1>o DEF ObserverInv, CallKnows
<1>n. n \in Participants
    BY <1>k, <1>t, <1>o DEF Participants
<1>c. c \in Nat /\ c <= write_idx /\ write_idx - c <= Capacity
    BY <1>n, ObserverTyped
<1>m. m \in Nat /\ m <= c /\ m <= obs.min /\ (m = c \/ m = obs.min)
    BY <1>c, <1>t DEF Smaller
<1>x. obs.min = U64_MAX => m = c
    BY <1>c, <1>t DEF Smaller
<1>r. n = obs.last => c = read_indices[obs.last]
    OBVIOUS
<1> HIDE DEF m, c, n
<1>f. /\ obs'.by = obs.by /\ obs'.next = n + 1 /\ obs'.last = obs.last
      /\ obs'.w = obs.w /\ obs'.min = m /\ obs' \in ObsRecord
  <2>1. obs' = [obs EXCEPT !.next = n + 1, !.min = m] /\ obs \in ObsRecord
        /\ n + 1 \in Nat /\ m \in Nat
      BY <1>o, <1>t, <1>m
  <2> QED
      BY ONLY <2>1 DEF ObsRecord
<1>1. ObserverTypeOK'
    BY <1>o, <1>f DEF ObserverInv, ObserverTypeOK, ObsRecord
<1>2. CallKnows'
  <2>1. ASSUME write_idx = obs.w PROVE m <= obs.w /\ obs.w - m <= Capacity
    <3>1. \/ obs.min = U64_MAX
          \/ obs.min <= obs.w /\ obs.w - obs.min <= Capacity
        BY <1>k, <1>o, <2>1 DEF CallKnows
    <3> QED
        BY <3>1, <2>1, <1>x, <1>m, <1>c, <1>t
  <2>2. ASSUME obs.by = "reader"
        PROVE  /\ rpc[obs.last] = "idle" /\ read_indices[obs.last] <= obs.w
               /\ n + 1 = obs.last + 1 /\ n + 1 > obs.last /\ m = read_indices[obs.last]
    <3>1. /\ rpc[obs.last] = "idle" /\ read_indices[obs.last] <= obs.w
          /\ n \in {obs.last, obs.last + 1}
          /\ obs.min = IF n > obs.last THEN read_indices[obs.last] ELSE U64_MAX
        BY <1>k, <1>o, <2>2 DEF CallKnows, n
    <3>2. n = obs.last /\ obs.min = U64_MAX
        BY <3>1, <1>o, <1>t
    <3> QED
        BY <3>1, <3>2, <1>x, <1>r, <1>t
  <2>3. ASSUME obs.by = "producer"
        PROVE  /\ ppc = "idle" /\ obs.w = write_idx /\ obs.last = NumReaders - 1
               /\ \A q \in Participants : q < n + 1 => m <= read_indices[q]
    <3>1. /\ ppc = "idle" /\ obs.w = write_idx /\ obs.last = NumReaders - 1
          /\ \A q \in Participants : q < n => obs.min <= read_indices[q]
        BY <1>k, <1>o, <2>3 DEF CallKnows, n
    <3>2. ASSUME NEW q \in Participants, q < n + 1 PROVE m <= read_indices[q]
      <4>1. CASE q = n
          BY <4>1, <1>m DEF c
      <4>2. CASE q # n
        <5>1. q < n
            BY <4>2, <3>2, <1>t
        <5> QED
            BY <5>1, <3>1, <1>m, <1>t
      <4> QED
          BY <4>1, <4>2
    <3> QED
        BY <3>1, <3>2
  <2> QED
      BY <2>1, <2>2, <2>3, <1>f, <1>u, <1>k DEF CallKnows
<1>3. AnswersKnow'
    BY <1>o, <1>u DEF ObserverInv, AnswersKnow
<1> QED
    BY <1>1, <1>2, <1>3, <1>u DEF ObserverInv

(* What a call returns, to whom.                                           *)
LEMMA LagReported ==
    ASSUME ObserverInv, Observed
    PROVE  /\ obs.by = "reader" => /\ obs.last \in Participants /\ Lag <= Capacity
                                   /\ Lag = obs.w - read_indices[obs.last]
                                   /\ Lag \in Nat /\ read_indices[obs.last] + Lag <= write_idx
           /\ write_idx = obs.w => Lag = obs.w - obs.min /\ Lag <= Capacity
<1>t. /\ write_idx \in Nat /\ write_idx <= U64_MAX /\ obs.w \in Nat /\ obs.min \in Nat
      /\ obs.next \in Nat /\ obs.last \in Nat /\ Capacity \in Nat
    BY ObserverTyped, Sizes
<1>k. CallKnows /\ obs.by # "none" /\ obs.next > obs.last /\ obs.w <= write_idx
      /\ obs.last \in Participants
    BY DEF ObserverInv, Observed, CallKnows
<1>1. ASSUME obs.by = "reader"
      PROVE  /\ Lag <= Capacity /\ Lag = obs.w - read_indices[obs.last]
             /\ Lag \in Nat /\ read_indices[obs.last] + Lag <= write_idx
  <2> DEFINE c == read_indices[obs.last]
  <2>1. c \in Nat /\ write_idx - c <= Capacity
      BY <1>k, ObserverTyped
  <2>2. c <= obs.w /\ obs.min = c
      BY <1>1, <1>k DEF CallKnows
  <2> HIDE DEF c
  <2>3. Lag = obs.w - c
    <3>1. obs.w <= U64_MAX
        BY <1>k, <1>t, Sizes
    <3>2. (obs.w - c) % (U64_MAX + 1) = obs.w - c
        BY <3>1, <2>1, <2>2, <1>t, LagIsDifference
    <3> QED
        BY <3>2, <2>2 DEF Lag
  <2> QED
      BY <2>1, <2>2, <2>3, <1>k, <1>t DEF c
<1>2. ASSUME write_idx = obs.w PROVE Lag = obs.w - obs.min /\ Lag <= Capacity
  <2>1. obs.min <= obs.w /\ obs.w - obs.min <= Capacity
      BY <1>2, <1>k, <1>t DEF CallKnows
  <2> QED
      BY <2>1, <1>2, <1>t, LagIsDifference DEF Lag
<1> QED
    BY <1>1, <1>2, <1>k

LEMMA ObserveReturnInd ==
    ASSUME ObserverInv, ObserveReturn
    PROVE  ObserverInv'
<1>t. /\ write_idx \in Nat /\ seen \in [ReaderIds -> Nat] /\ room \in BOOLEAN
      /\ \A q \in Participants : read_indices[q] \in Nat /\ q \in ReaderIds /\ q \in Nat
      /\ obs.w \in Nat /\ obs.min \in Nat /\ obs.next \in Nat /\ obs.last \in Nat
      /\ U64_MAX \in Nat /\ Capacity \in Nat /\ NumReaders \in Nat /\ calls \in Nat
    BY ObserverTyped, Sizes
<1>o. /\ obs' = NoCall /\ UNCHANGED calls /\ UNCHANGED vars /\ Observed
      /\ seen' = [r \in ReaderIds |-> IF Asking(r) THEN Lag ELSE seen[r]]
      /\ room' = IF ProducerAsking THEN Lag < Capacity ELSE room
    BY DEF ObserveReturn
<1>u. IndInv' /\ UNCHANGED <<write_idx, read_indices, rpc, rw, ppc, pw, pfloor>>
    BY <1>o, RingUntouched DEF ObserverInv
<1>l. /\ obs.by = "reader" => /\ obs.last \in Participants /\ Lag \in Nat
                              /\ read_indices[obs.last] + Lag <= write_idx
      /\ write_idx = obs.w => Lag = obs.w - obs.min /\ Lag <= Capacity
    BY <1>o, LagReported
<1>k. CallKnows /\ obs.by # "none" /\ obs.next > obs.last
    BY <1>o DEF ObserverInv, Observed
<1>1. ObserverTypeOK'
  <2>1. seen' \in [ReaderIds -> Nat]
      BY <1>o, <1>t, <1>l DEF Asking
  <2>2. obs' \in ObsRecord
      BY <1>o, <1>t DEF NoCall, ObsRecord
  <2>3. room' \in BOOLEAN
    <3>1. CASE ProducerAsking
        BY <3>1, <1>o
    <3>2. CASE ~ProducerAsking
        BY <3>2, <1>o, <1>t
    <3> QED
        BY <3>1, <3>2
  <2> QED
      BY <2>1, <2>2, <2>3, <1>o, <1>t DEF ObserverTypeOK, ObsRecord
<1>2. CallKnows'
    BY <1>o DEF CallKnows, NoCall
<1>3. AnswersKnow'
  <2>1. AnswersKnow
      BY DEF ObserverInv
  <2>2. ASSUME NEW r \in Participants
        PROVE  /\ read_indices[r] + seen'[r] <= write_idx
               /\ rpc[r] = "popCursor" => read_indices[r] + seen'[r] <= rw[r]
    <3>1. seen'[r] = IF Asking(r) THEN Lag ELSE seen[r]
        BY <1>o, <1>t
    <3>2. CASE Asking(r)
      <4>1. rpc[r] = "idle" /\ read_indices[r] + Lag <= write_idx
          BY <3>2, <1>k, <1>l DEF Asking, CallKnows
      <4> QED
          BY <4>1, <3>1, <3>2
    <3>3. CASE ~Asking(r)
        BY <3>1, <3>3, <2>1 DEF AnswersKnow
    <3> QED
        BY <3>2, <3>3
  <2>3. CASE ~ProducerAsking
    <3>1. room' = room
        BY <2>3, <1>o
    <3> QED
        BY <3>1, <2>1, <2>2, <1>u DEF AnswersKnow
  <2>4. CASE ProducerAsking
    <3>1. /\ ppc = "idle" /\ obs.w = write_idx /\ obs.last = NumReaders - 1
          /\ \A q \in Participants : q < obs.next => obs.min <= read_indices[q]
        BY <2>4, <1>k DEF ProducerAsking, CallKnows
    <3>2. ASSUME room', NEW r \in Participants PROVE write_idx - read_indices[r] < Capacity
      <4>1. Lag < Capacity /\ Lag = obs.w - obs.min
          BY <3>1, <3>2, <2>4, <1>o, <1>l
      <4>2. r < obs.next
          BY <3>1, <1>k, <1>t DEF Participants
      <4>3. obs.min <= read_indices[r]
          BY <4>2, <3>1
      <4> QED
          BY <4>1, <4>3, <3>1, <1>t
    <3> QED
        BY <3>1, <3>2, <2>2, <1>u DEF AnswersKnow
  <2> QED
      BY <2>3, <2>4
<1> QED
    BY <1>1, <1>2, <1>3, <1>u DEF ObserverInv

-----------------------------------------------------------------------------
LEMMA ObserverNext == ObserverInv /\ [ONext]_ovars => ObserverInv'
<1> SUFFICES ASSUME ObserverInv, [ONext]_ovars PROVE ObserverInv'
    OBVIOUS
<1>1. CASE UNCHANGED ovars
  <2>1. UNCHANGED <<calls, obs, seen, room>> /\ UNCHANGED vars
      BY <1>1 DEF ovars, obsVars
  <2>2. IndInv' /\ UNCHANGED <<write_idx, read_indices, rpc, rw, ppc, pw, pfloor>>
      BY <2>1, RingUntouched DEF ObserverInv
  <2> QED
      BY <2>1, <2>2 DEF ObserverInv, ObserverTypeOK, CallKnows, AnswersKnow
<1> QED
    BY <1>1, ObserveBegins, ObserveCursorInd, ObserveReturnInd, OProducerStepInd,
       OPopStepInd, OCrashInd DEF ONext

(* What the diagnostics and their callers know stays true while the ring   *)
(* works and processes crash.                                              *)
THEOREM ObserverInvHolds == OFairSpec => []ObserverInv
BY ObserverInit, ObserverNext, PTL DEF OFairSpec

(* After a len of n the next n pops return a message; after a slowest_lag  *)
(* below the capacity the next push is accepted.                           *)
THEOREM DiagnosticsHold == OFairSpec => []AnswersHold
<1>1. ASSUME ObserverInv, NEW r \in Participants, rpc[r] = "popCursor", Drained(r)
      PROVE  seen[r] = 0
  <2>1. read_indices[r] + seen[r] <= rw[r] /\ read_indices[r] = rw[r]
      BY <1>1 DEF ObserverInv, AnswersKnow, Drained
  <2> QED
      BY <2>1, <1>1, ObserverTyped
<1>2. ASSUME ObserverInv, ppc = "scan", pscan = NumReaders, Full, room
      PROVE  FALSE
  <2>1. pw - pfloor < Capacity /\ pfloor <= pmin /\ pw - pmin >= Capacity
      BY <1>2 DEF ObserverInv, AnswersKnow, IndInv, ProducerKnows, Full
  <2>2. pw \in Nat /\ pfloor \in Nat /\ pmin \in Nat /\ Capacity \in Nat
      BY <1>2, Sizes DEF ObserverInv, IndInv, TypeOK
  <2> QED
      BY <2>1, <2>2
<1>3. ObserverInv => AnswersHold
    BY <1>1, <1>2 DEF AnswersHold
<1> QED
    BY <1>3, ObserverInvHolds, PTL

(* len and slowest_lag report at most the capacity, except to a monitor    *)
(* during whose call a message was published.                              *)
THEOREM ReportsWrapOnlyOnPublish == OFairSpec => []ReportWrapsOnlyOnPublish
<1>1. ASSUME ObserverInv, Observed
      PROVE  Lag <= Capacity \/ (obs.by = "monitor" /\ write_idx > obs.w)
  <2>1. /\ obs.by = "reader" => Lag <= Capacity
        /\ write_idx = obs.w => Lag <= Capacity
      BY <1>1, LagReported
  <2>2. /\ obs.by \in {"reader", "producer", "monitor"} /\ obs.w <= write_idx
        /\ obs.by = "producer" => write_idx = obs.w
      BY <1>1, ObserverTyped DEF ObserverInv, Observed, CallKnows
  <2>3. write_idx \in Nat /\ obs.w \in Nat
      BY <1>1, ObserverTyped
  <2> QED
      BY <2>1, <2>2, <2>3
<1>2. ObserverInv => ReportWrapsOnlyOnPublish
    BY <1>1 DEF ReportWrapsOnlyOnPublish
<1> QED
    BY <1>2, ObserverInvHolds, PTL
=============================================================================
