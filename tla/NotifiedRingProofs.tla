------------------------- MODULE NotifiedRingProofs -------------------------
(***************************************************************************)
(* The safety of the eventfd handshake for any capacity, counter limit,    *)
(* clock resolution and timeouts.  What push_notified reports and when a   *)
(* timed pop gives up hold for any number of consumers; that no wakeup is  *)
(* lost holds for a consumer that has the eventfd to itself.               *)
(***************************************************************************)
EXTENDS NotifiedRing, TLAPS

LEMMA Limits ==
    /\ Capacity \in Nat /\ Capacity > 0 /\ EfdMax \in Nat /\ EfdMax > 0
    /\ TicksPerMs \in Nat /\ TicksPerMs > 0 /\ PollMax \in Nat
    /\ \A t \in Timeouts : t \in Nat
    /\ MaxPush \in Nat /\ MaxTime \in Nat /\ MaxFaults \in Nat
BY NotifyAssumption

(* A larger factor gives a larger product.                                 *)
LEMMA ProductGrows ==
    ASSUME NEW t \in Nat, NEW a \in Nat, NEW b \in Nat, a <= b
    PROVE  t * a <= t * b
<1>1. b - a \in Nat /\ t * (b - a) >= 0
    OBVIOUS
<1>2. t * b = t * a + t * (b - a)
    BY <1>1
<1>3. t * a \in Nat /\ t * b \in Nat /\ t * (b - a) \in Nat
    OBVIOUS
<1> QED
    BY <1>2, <1>3

(* Cutting a duration to the milliseconds poll takes shortens it, by less  *)
(* than a millisecond unless it is longer than poll can express.           *)
LEMMA MillisClose ==
    ASSUME NEW d \in Nat
    PROVE  /\ as_millis(d) \in Nat /\ as_millis(d) <= d
           /\ d <= PollMax * TicksPerMs => d - as_millis(d) < TicksPerMs
<1> DEFINE q == d \div TicksPerMs
           m == d % TicksPerMs
<1>1. /\ d = TicksPerMs * q + m /\ q \in Int /\ m \in Int
      /\ 0 <= m /\ m < TicksPerMs
    BY Limits
<1>2. q >= 0
    BY Limits
<1>3. as_millis(d) = TicksPerMs * (IF q <= PollMax THEN q ELSE PollMax)
    BY DEF as_millis
<1> HIDE DEF q, m
<1>4. CASE q <= PollMax
  <2>1. as_millis(d) = TicksPerMs * q
      BY <1>3, <1>4
  <2>2. TicksPerMs * q \in Nat
      BY <1>1, <1>2, Limits
  <2> QED
      BY <2>1, <2>2, <1>1, Limits
<1>5. CASE q > PollMax
  <2>1. as_millis(d) = TicksPerMs * PollMax /\ PollMax + 1 <= q
      BY <1>3, <1>5, <1>1, Limits
  <2>2. TicksPerMs * (PollMax + 1) <= TicksPerMs * q
      BY <2>1, <1>1, <1>2, Limits, ProductGrows
  <2>3. TicksPerMs * (PollMax + 1) = TicksPerMs * PollMax + TicksPerMs
      BY Limits
  <2>4. TicksPerMs * PollMax = PollMax * TicksPerMs /\ TicksPerMs * PollMax \in Nat
      BY Limits
  <2>5. TicksPerMs * q \in Int
      BY <1>1, Limits
  <2> QED
      BY <2>1, <2>2, <2>3, <2>4, <2>5, <1>1, Limits
<1> QED
    BY <1>4, <1>5, <1>1, Limits

-----------------------------------------------------------------------------
LEMMA NotifyInit == NInit => NotifyInv
<1> SUFFICES ASSUME NInit PROVE NotifyInv
    OBVIOUS
<1>1. stream = <<>> /\ published = 0
    BY DEF NInit, published
<1>i. /\ Idle \in [pc : {"idle", "pop", "clock", "drain", "poll"}, deadline : Int,
                   left : Int, wakeAt : Int]
      /\ Idle.pc = "idle" /\ Idle.deadline = Forever /\ Idle.left = Forever
    BY DEF Idle, Forever
<1>2. NotifyTypeOK
  <2>1. stream \in Seq(1..(MaxPush + 1)) /\ published <= MaxPush
      BY <1>1, Limits
  <2>2. /\ cursor \in [Consumers -> 0..MaxPush] /\ counter \in 0..EfdMax
        /\ now \in 0..MaxTime /\ faults \in 0..MaxFaults
        /\ pmsg \in 1..(MaxPush + 1)
      BY Limits DEF NInit
  <2>3. call \in [Consumers ->
          [pc : {"idle", "pop", "clock", "drain", "poll"}, deadline : Int,
           left : Int, wakeAt : Int]]
      BY <1>i DEF NInit
  <2>4. ppc \in {"idle", "signal"} /\ reported \subseteq 1..MaxPush
      BY DEF NInit
  <2>5. gaveUp \in [Consumers -> [early : Nat, wait : Int]]
      BY DEF NInit
  <2>6. unsignalled \in BOOLEAN
      BY DEF NInit
  <2> QED
      BY <2>1, <2>2, <2>3, <2>4, <2>5, <2>6 DEF NotifyTypeOK
<1>3. PusherKnows /\ DuplicatesOnlyAfterError
    BY <1>1 DEF NInit, PusherKnows, DuplicatesOnlyAfterError
<1>4. ASSUME NEW c \in Consumers PROVE CallKnows(c)
  <2>1. call[c] = Idle /\ cursor[c] = 0
      BY DEF NInit
  <2> QED
      BY <2>1, <1>1, <1>i DEF CallKnows
<1>5. TimeoutWithinOneMs
    BY Limits DEF NInit, TimeoutWithinOneMs
<1> QED
    BY <1>2, <1>3, <1>4, <1>5 DEF NotifyInv

(* What is published when a message is appended.                           *)
LEMMA Appended ==
    ASSUME NotifyTypeOK, PushOk
    PROVE  /\ published' = published + 1 /\ published \in Nat
           /\ pmsg \in 1..(MaxPush + 1)
           /\ stream' \in Seq(1..(MaxPush + 1))
           /\ stream'[published + 1] = pmsg
           /\ \A i \in 1..published : /\ stream'[i] = stream[i]
                                      /\ stream[i] \in Nat
BY Limits DEF NotifyTypeOK, PushOk, published

LEMMA PushOkInd ==
    ASSUME NotifyInv, PushOk
    PROVE  NotifyInv'
<1>t. NotifyTypeOK /\ PusherKnows /\ DuplicatesOnlyAfterError /\ TimeoutWithinOneMs
    BY DEF NotifyInv
<1>a. /\ published' = published + 1 /\ published \in Nat
      /\ pmsg \in 1..(MaxPush + 1)
      /\ stream' \in Seq(1..(MaxPush + 1))
      /\ stream'[published + 1] = pmsg
      /\ \A i \in 1..published : /\ stream'[i] = stream[i]
                                 /\ stream[i] \in Nat
    BY <1>t, Appended
<1>u. /\ ppc = "idle" /\ ppc' = "signal" /\ published < MaxPush
      /\ UNCHANGED <<cursor, counter, pmsg, unsignalled, reported, call, now,
                     faults, gaveUp>>
    BY DEF PushOk
<1>1. NotifyTypeOK'
    BY ONLY <1>t, <1>a, <1>u, Limits DEF NotifyTypeOK
<1>2. PusherKnows'
    BY ONLY <1>t, <1>a, <1>u, Limits DEF PusherKnows
<1>3. DuplicatesOnlyAfterError'
  <2>1. ASSUME NEW i \in 1..(published + 1), NEW j \in 1..(published + 1),
               i < j, stream'[i] = stream'[j]
        PROVE  stream'[i] \in reported
    <3>1. i \in 1..published
        BY ONLY <2>1, <1>a
    <3>2. CASE j = published + 1
        BY ONLY <3>1, <3>2, <2>1, <1>t, <1>u, <1>a DEF PusherKnows
    <3>3. CASE j # published + 1
      <4>1. j \in 1..published
          BY ONLY <3>3, <2>1, <1>a
      <4> QED
          BY ONLY <4>1, <3>1, <2>1, <1>t, <1>a DEF DuplicatesOnlyAfterError
    <3> QED
        BY ONLY <3>2, <3>3
  <2>2. ASSUME NEW m \in 1..(pmsg - 1)
        PROVE  \E i \in 1..(published + 1) : stream'[i] = m
    <3>1. PICK i \in 1..published : stream[i] = m
        BY <1>t DEF DuplicatesOnlyAfterError
    <3>2. i \in 1..(published + 1)
        BY ONLY i \in 1..published, <1>a
    <3>3. stream'[i] = m
        BY ONLY i \in 1..published, <3>1, <1>a
    <3> QED
        BY ONLY <3>2, <3>3
  <2>3. pmsg' = pmsg /\ reported' = reported
      BY <1>u
  <2> QED
      BY ONLY <2>1, <2>2, <2>3, <1>a DEF DuplicatesOnlyAfterError
<1>4. ASSUME NEW c \in Consumers PROVE CallKnows(c)'
  <2>1. CallKnows(c) /\ cursor[c] \in Nat
      BY <1>t, Limits DEF NotifyInv, NotifyTypeOK
  <2> QED
      BY ONLY <2>1, <1>a, <1>u DEF CallKnows
<1>5. TimeoutWithinOneMs'
    BY ONLY <1>t, <1>u DEF TimeoutWithinOneMs
<1> QED
    BY <1>1, <1>2, <1>3, <1>4, <1>5 DEF NotifyInv

(* The end of a push, acknowledged or not.                                 *)
LEMMA SignalInd ==
    ASSUME NotifyInv, Signal \/ SignalFails
    PROVE  NotifyInv'
<1>t. NotifyTypeOK /\ PusherKnows /\ DuplicatesOnlyAfterError /\ TimeoutWithinOneMs
    BY DEF NotifyInv
<1>a. /\ stream' = stream /\ cursor' = cursor /\ call' = call /\ now' = now
      /\ gaveUp' = gaveUp /\ published' = published
    BY DEF published, Signal, SignalFails, ringVars
<1>s. ppc = "signal" /\ ppc' = "idle"
    BY DEF Signal, SignalFails
<1>p. /\ published \in Nat /\ published <= MaxPush /\ pmsg \in Nat /\ pmsg > 0
      /\ pmsg <= published /\ published > 0 /\ stream[published] = pmsg
      /\ \A i \in 1..published : stream[i] \in Nat /\ stream[i] <= pmsg
  <2>1. pmsg \in Nat /\ pmsg > 0 /\ published \in Nat /\ published <= MaxPush
        /\ \A i \in 1..published : stream[i] \in Nat
      BY <1>t, Limits DEF NotifyTypeOK, published
  <2> QED
      BY <2>1, <1>t, <1>s DEF PusherKnows
<1>q. \/ pmsg' = pmsg + 1 /\ reported' = reported
      \/ pmsg' \in {pmsg, pmsg + 1} /\ reported' = reported \cup {pmsg}
    BY DEF AfterSignal, Signal, SignalFails
<1>1. NotifyTypeOK'
  <2>1. counter' \in 0..EfdMax
      BY <1>t, Limits DEF NotifyTypeOK, Count, Signal, SignalFails
  <2>2. faults' \in 0..MaxFaults
      BY <1>t, Limits DEF NotifyTypeOK, Signal, SignalFails
  <2>3. unsignalled' \in BOOLEAN
      BY DEF Signal, SignalFails
  <2>4. pmsg' \in 1..(MaxPush + 1)
      BY ONLY <1>p, <1>q, Limits
  <2>5. reported' \subseteq 1..MaxPush
    <3>1. reported \subseteq 1..MaxPush /\ pmsg \in 1..MaxPush
        BY <1>t, <1>p, Limits DEF NotifyTypeOK
    <3> QED
        BY ONLY <3>1, <1>q
  <2> QED
      BY ONLY <2>1, <2>2, <2>3, <2>4, <2>5, <1>t, <1>a, <1>s DEF NotifyTypeOK
<1>2. PusherKnows'
    BY ONLY <1>p, <1>q, <1>a, <1>s DEF PusherKnows
<1>3. DuplicatesOnlyAfterError'
  <2>1. ASSUME NEW m \in 1..(pmsg' - 1)
        PROVE  \E i \in 1..published : stream[i] = m
    <3>1. m \in 1..(pmsg - 1) \/ m = pmsg
        BY ONLY <2>1, <1>p, <1>q
    <3>2. CASE m = pmsg
      <4>1. published \in 1..published
          BY ONLY <1>p
      <4> QED
          BY ONLY <4>1, <3>2, <1>p
    <3> QED
        BY ONLY <3>1, <3>2, <1>t DEF DuplicatesOnlyAfterError
  <2>2. \A i, j \in 1..published : i < j /\ stream[i] = stream[j] =>
            stream[i] \in reported'
      BY ONLY <1>t, <1>q DEF DuplicatesOnlyAfterError
  <2> QED
      BY ONLY <2>1, <2>2, <1>a DEF DuplicatesOnlyAfterError
<1>4. ASSUME NEW c \in Consumers PROVE CallKnows(c)'
    BY <1>a DEF CallKnows, NotifyInv
<1>5. TimeoutWithinOneMs'
    BY <1>t, <1>a DEF TimeoutWithinOneMs
<1> QED
    BY <1>1, <1>2, <1>3, <1>4, <1>5 DEF NotifyInv

-----------------------------------------------------------------------------
CallRecord ==
    [pc : {"idle", "pop", "clock", "drain", "poll"}, deadline : Int,
     left : Int, wakeAt : Int]

(* The fields of a call, for the provers.                                  *)
LEMMA CallFields ==
    ASSUME NotifyTypeOK, NEW c \in Consumers
    PROVE  /\ call \in [Consumers -> CallRecord] /\ call[c] \in CallRecord
           /\ call[c].pc \in {"idle", "pop", "clock", "drain", "poll"}
           /\ call[c].deadline \in Int /\ call[c].left \in Int
           /\ call[c].wakeAt \in Int
           /\ now \in Nat /\ cursor[c] \in Nat /\ published \in Nat
BY Limits DEF NotifyTypeOK, CallRecord, published

(* What a step of one consumer's call must establish: the facts about that *)
(* call, and, if it gives up, how early.                                   *)
LEMMA CallFrame ==
    ASSUME NotifyInv, NEW c \in Consumers,
           UNCHANGED <<stream, producerVars, now>>,
           cursor' \in [Consumers -> 0..MaxPush], counter' \in 0..EfdMax,
           faults' \in 0..MaxFaults,
           call' \in [Consumers -> CallRecord],
           gaveUp' \in [Consumers -> [early : Nat, wait : Int]],
           \A d \in Consumers \ {c} : /\ call'[d] = call[d]
                                      /\ cursor'[d] = cursor[d]
                                      /\ gaveUp'[d] = gaveUp[d],
           CallKnows(c)',
           \/ gaveUp'[c] = gaveUp[c]
           \/ gaveUp'[c].early < TicksPerMs
           \/ gaveUp'[c].wait > PollMax * TicksPerMs
    PROVE  NotifyInv'
<1>t. NotifyTypeOK /\ PusherKnows /\ DuplicatesOnlyAfterError /\ TimeoutWithinOneMs
    BY DEF NotifyInv
<1>u. /\ stream' = stream /\ ppc' = ppc /\ pmsg' = pmsg
      /\ unsignalled' = unsignalled /\ reported' = reported /\ now' = now
      /\ published' = published
    BY DEF producerVars, published
<1>1. NotifyTypeOK'
    BY <1>t, <1>u DEF NotifyTypeOK, CallRecord
<1>2. PusherKnows' /\ DuplicatesOnlyAfterError'
    BY ONLY <1>t, <1>u DEF PusherKnows, DuplicatesOnlyAfterError
<1>3. ASSUME NEW d \in Consumers \ {c} PROVE CallKnows(d)'
  <2>1. CallKnows(d) /\ call'[d] = call[d] /\ cursor'[d] = cursor[d]
      BY DEF NotifyInv
  <2> QED
      BY ONLY <2>1, <1>u DEF CallKnows
<1>4. TimeoutWithinOneMs'
    BY <1>t DEF TimeoutWithinOneMs
<1> QED
    BY <1>1, <1>2, <1>3, <1>4 DEF NotifyInv


(* The call moves on without giving up: begins, looks at the ring or the   *)
(* clock, drains, parks, wakes, is interrupted, returns a message, or dies *)
(* with its process.                                                       *)
LEMMA CallMovesInd ==
    ASSUME NotifyInv, NEW c \in Consumers,
           \/ StartCall(c) \/ TakeMessage(c) \/ FindEmpty(c) \/ TimeLeft(c)
           \/ Drain(c) \/ Park(c) \/ PollReadable(c) \/ PollInterrupted(c)
           \/ ConsumerDies(c)
    PROVE  NotifyInv'
<1> USE DEF StartCall, PopBlocking, PopBlockingTimeout, Begin, TakeMessage,
            FindEmpty, TimeLeft, Drain, Park, PollReadable, PollInterrupted,
            ConsumerDies, At, Goto, Return, ringVars
<1>t. NotifyTypeOK /\ CallKnows(c)
    BY DEF NotifyInv
<1>f. /\ call \in [Consumers -> CallRecord] /\ call[c] \in CallRecord
      /\ call[c].pc \in {"idle", "pop", "clock", "drain", "poll"}
      /\ call[c].deadline \in Int /\ call[c].left \in Int
      /\ call[c].wakeAt \in Int
      /\ now \in Nat /\ cursor[c] \in Nat /\ published \in Nat
    BY <1>t, CallFields
<1>i. /\ Idle \in CallRecord /\ Idle.pc = "idle" /\ Idle.deadline = Forever
      /\ Idle.left = Forever /\ Forever \in Int /\ Forever \notin Nat
    BY DEF Idle, CallRecord, Forever
<1>m. \A d \in Nat : as_millis(d) \in Nat
    BY MillisClose
<1>e. PollEnd(c) \in Int \/ ~Park(c)
    BY <1>t, <1>f, <1>i, <1>m DEF PollEnd, CallKnows
<1>u. UNCHANGED <<stream, producerVars, now>>
    OBVIOUS
<1>1. /\ cursor' \in [Consumers -> 0..MaxPush]
      /\ \A d \in Consumers \ {c} : cursor'[d] = cursor[d]
      /\ cursor'[c] <= published
  <2>1. CASE cursor' = cursor
      BY <2>1, <1>t DEF NotifyTypeOK, CallKnows
  <2>2. CASE TakeMessage(c)
    <3>1. cursor[c] + 1 \in 0..MaxPush /\ cursor[c] + 1 <= published
      <4>1. cursor[c] # published /\ cursor[c] <= published /\ published <= MaxPush
          BY <2>2, <1>t DEF NotifyTypeOK, CallKnows
      <4> QED
          BY ONLY <4>1, <1>f, Limits
    <3>2. cursor \in [Consumers -> 0..MaxPush]
        BY <1>t DEF NotifyTypeOK
    <3> QED
        BY <2>2, <3>1, <3>2
  <2> QED
      BY <2>1, <2>2
<1>2. counter' \in 0..EfdMax /\ faults' \in 0..MaxFaults
  <2>1. /\ counter' = counter \/ counter' = 0
        /\ faults' = faults \/ (faults < MaxFaults /\ faults' = faults + 1)
      OBVIOUS
  <2>2. counter \in 0..EfdMax /\ faults \in 0..MaxFaults
      BY <1>t DEF NotifyTypeOK
  <2> QED
      BY ONLY <2>1, <2>2, Limits
<1>3. /\ call' \in [Consumers -> CallRecord]
      /\ \A d \in Consumers \ {c} : call'[d] = call[d]
  <2>1. PICK k \in CallRecord : call' = [call EXCEPT ![c] = k]
    <3>1. CASE TakeMessage(c) \/ ConsumerDies(c)
        BY <3>1, <1>i
    <3>2. CASE StartCall(c)
        BY <3>2, <1>f, <1>i, Limits DEF CallRecord
    <3>3. CASE FindEmpty(c) \/ TimeLeft(c)
        BY <3>3, <1>f, <1>i DEF CallRecord
    <3>4. CASE PollReadable(c) \/ PollInterrupted(c)
        BY <3>4, <1>f, <1>e DEF CallRecord
    <3>5. CASE Drain(c)
      <4>1. [Idle EXCEPT !.pc = "pop", !.deadline = call[c].deadline] \in CallRecord
          BY ONLY <1>f, <1>i DEF CallRecord
      <4> QED
          BY <3>5, <4>1
    <3>6. CASE Park(c)
        BY <3>6, <1>f, <1>e DEF CallRecord
    <3> QED
        BY <3>1, <3>2, <3>3, <3>4, <3>5, <3>6
  <2> QED
      BY ONLY <2>1, <1>f, k \in CallRecord
<1>4. /\ gaveUp' \in [Consumers -> [early : Nat, wait : Int]]
      /\ \A d \in Consumers \ {c} : gaveUp'[d] = gaveUp[d]
      /\ gaveUp'[c] = gaveUp[c] \/ gaveUp'[c].early < TicksPerMs
  <2>1. gaveUp' = gaveUp \/ gaveUp' = [gaveUp EXCEPT ![c] = [early |-> 0, wait |-> 0]]
      OBVIOUS
  <2>2. gaveUp \in [Consumers -> [early : Nat, wait : Int]]
      BY <1>t DEF NotifyTypeOK
  <2> QED
      BY ONLY <2>1, <2>2, c \in Consumers, Limits
<1>5. CallKnows(c)'
  <2>p. published' = published
      BY DEF published
  <2>1. CASE TakeMessage(c) \/ ConsumerDies(c)
    <3>1. call'[c] = Idle
        BY <2>1, <1>f
    <3> QED
        BY <3>1, <2>p, <1>1, <1>i DEF CallKnows
  <2>2. CASE StartCall(c)
    <3>1. /\ call'[c].pc = "pop" /\ call'[c].deadline \in Nat \cup {Forever}
          /\ call'[c].left = call[c].left /\ call[c].pc = "idle"
        BY <2>2, <1>f, Limits DEF CallRecord
    <3> QED
        BY <3>1, <2>p, <1>1, <1>t DEF CallKnows
  <2>3. CASE FindEmpty(c)
    <3>1. call'[c] = [call[c] EXCEPT !.pc =
                          IF call[c].deadline = Forever THEN "drain" ELSE "clock"]
        BY <2>3, <1>f
    <3>2. /\ call'[c].deadline = call[c].deadline /\ call'[c].left = call[c].left
          /\ call'[c].pc = IF call[c].deadline = Forever THEN "drain" ELSE "clock"
          /\ call[c].pc = "pop"
        BY <2>3, <3>1, <1>f DEF CallRecord
    <3> QED
        BY ONLY <3>2, <2>p, <1>1, <1>t DEF CallKnows
  <2>4. CASE TimeLeft(c)
      BY <2>4, <2>p, <1>1, <1>t, <1>f, <1>i DEF CallKnows
  <2>5. CASE Drain(c)
      BY <2>5, <2>p, <1>1, <1>t, <1>f DEF CallKnows, Idle
  <2>6. CASE Park(c)
      BY <2>6, <2>p, <1>1, <1>t, <1>f, <1>i, <1>m DEF CallKnows, PollEnd
  <2>7. CASE PollReadable(c) \/ PollInterrupted(c)
    <3>1. /\ call'[c].deadline = call[c].deadline /\ call'[c].left = call[c].left
          /\ call'[c].pc = "drain" /\ call[c].pc = "poll"
        BY <2>7, <1>f DEF CallRecord
    <3> QED
        BY ONLY <3>1, <2>p, <1>1, <1>t, <1>u DEF CallKnows
  <2> QED
      BY <2>1, <2>2, <2>3, <2>4, <2>5, <2>6, <2>7
<1> QED
    BY ONLY NotifyInv, c \in Consumers, <1>u, <1>1, <1>2, <1>3, <1>4, <1>5, CallFrame


(* The call gives up.  At the clock the deadline has passed; after a poll  *)
(* less than a millisecond is left of a duration poll could express.       *)
LEMMA GiveUpInd ==
    ASSUME NotifyInv, NEW c \in Consumers, DeadlinePassed(c) \/ PollTimeout(c)
    PROVE  NotifyInv'
<1> USE DEF DeadlinePassed, PollTimeout, TimedOut, GiveUp, Return, At, ringVars
<1>t. NotifyTypeOK /\ CallKnows(c)
    BY DEF NotifyInv
<1>f. /\ call \in [Consumers -> CallRecord]
      /\ call[c].deadline \in Int /\ call[c].left \in Int
      /\ call[c].wakeAt \in Int
      /\ now \in Nat /\ cursor[c] \in Nat /\ published \in Nat
    BY <1>t, CallFields
<1>i. /\ Idle \in CallRecord /\ Idle.pc = "idle" /\ Idle.deadline = Forever
      /\ Idle.left = Forever /\ Forever \in Int /\ Forever \notin Nat
    BY DEF Idle, CallRecord, Forever
<1> DEFINE early == IF now < call[c].deadline THEN call[c].deadline - now ELSE 0
<1>e. /\ early \in Nat
      /\ early < TicksPerMs \/ call[c].left > PollMax * TicksPerMs
  <2>1. early \in Nat
      BY <1>f
  <2>2. CASE DeadlinePassed(c)
    <3>1. ~(now < call[c].deadline)
        BY <2>2, <1>f
    <3> QED
        BY <3>1, Limits
  <2>3. CASE PollTimeout(c)
    <3>1. /\ call[c].wakeAt # Forever /\ now >= call[c].wakeAt /\ call[c].pc = "poll"
        BY <2>3
    <3>2. /\ call[c].left \in Nat
          /\ call[c].deadline - call[c].left + as_millis(call[c].left) <= call[c].wakeAt
        BY ONLY <3>1, <1>t, <1>i DEF CallKnows
    <3>3. /\ as_millis(call[c].left) \in Nat
          /\ call[c].left <= PollMax * TicksPerMs =>
                call[c].left - as_millis(call[c].left) < TicksPerMs
        BY ONLY <3>2, MillisClose
    <3>4. PollMax * TicksPerMs \in Nat
        BY Limits
    <3>5. ASSUME call[c].left <= PollMax * TicksPerMs
          PROVE  call[c].deadline - now < TicksPerMs
        BY ONLY <3>1, <3>2, <3>3, <3>5, <1>f, Limits
    <3> QED
        BY ONLY <3>2, <3>4, <3>5, <1>f, Limits
  <2> QED
      BY <2>1, <2>2, <2>3
<1>g. gaveUp' = [gaveUp EXCEPT ![c] = [early |-> early, wait |-> call[c].left]]
    OBVIOUS
<1> HIDE DEF early
<1>1. /\ gaveUp' \in [Consumers -> [early : Nat, wait : Int]]
      /\ \A d \in Consumers \ {c} : gaveUp'[d] = gaveUp[d]
      /\ \/ gaveUp'[c].early < TicksPerMs
         \/ gaveUp'[c].wait > PollMax * TicksPerMs
  <2>1. gaveUp \in [Consumers -> [early : Nat, wait : Int]]
      BY <1>t DEF NotifyTypeOK
  <2> QED
      BY ONLY <2>1, <1>e, <1>g, <1>f, c \in Consumers
<1>2. /\ UNCHANGED <<stream, producerVars, now>>
      /\ UNCHANGED <<cursor, counter, faults>>
    OBVIOUS
<1>3. /\ cursor' \in [Consumers -> 0..MaxPush] /\ counter' \in 0..EfdMax
      /\ faults' \in 0..MaxFaults
    BY <1>2, <1>t DEF NotifyTypeOK
<1>4. /\ call' \in [Consumers -> CallRecord] /\ call'[c] = Idle
      /\ \A d \in Consumers \ {c} : call'[d] = call[d]
    BY <1>f, <1>i
<1>5. CallKnows(c)'
  <2>1. published' = published
      BY DEF published
  <2> QED
      BY ONLY <2>1, <1>2, <1>4, <1>i, <1>t DEF CallKnows
<1> QED
    BY ONLY NotifyInv, c \in Consumers, <1>1, <1>2, <1>3, <1>4, <1>5, CallFrame

LEMMA TickInd ==
    ASSUME NotifyInv, Tick
    PROVE  NotifyInv'
<1>t. /\ NotifyTypeOK /\ PusherKnows /\ DuplicatesOnlyAfterError
      /\ TimeoutWithinOneMs
    BY DEF NotifyInv
<1>u. /\ UNCHANGED <<stream, cursor, counter, ppc, pmsg, unsignalled, reported>>
      /\ UNCHANGED <<call, faults, gaveUp>> /\ published' = published
      /\ now' = now + 1 /\ now < MaxTime /\ now \in Nat
    BY <1>t, Limits DEF Tick, ringVars, producerVars, published, NotifyTypeOK
<1>1. NotifyTypeOK'
    BY ONLY <1>t, <1>u, Limits DEF NotifyTypeOK
<1>2. PusherKnows' /\ DuplicatesOnlyAfterError' /\ TimeoutWithinOneMs'
    BY ONLY <1>t, <1>u DEF PusherKnows, DuplicatesOnlyAfterError, TimeoutWithinOneMs
<1>3. ASSUME NEW c \in Consumers PROVE CallKnows(c)'
  <2>1. CallKnows(c)
      BY DEF NotifyInv
  <2> QED
      BY ONLY <2>1, <1>u DEF CallKnows
<1> QED
    BY <1>1, <1>2, <1>3 DEF NotifyInv

LEMMA NotifyNext == NotifyInv /\ [NNext]_vars => NotifyInv'
<1> SUFFICES ASSUME NotifyInv, [NNext]_vars PROVE NotifyInv'
    OBVIOUS
<1>1. CASE ProducerStep \/ SignalFails
    BY <1>1, PushOkInd, SignalInd DEF ProducerStep
<1>2. ASSUME NEW c \in Consumers,
             StartCall(c) \/ CallStep(c) \/ PollInterrupted(c) \/ ConsumerDies(c)
      PROVE  NotifyInv'
    BY <1>2, CallMovesInd, GiveUpInd DEF CallStep
<1>3. CASE Tick
    BY <1>3, TickInd
<1>4. CASE UNCHANGED vars
  <2>t. /\ NotifyTypeOK /\ PusherKnows /\ DuplicatesOnlyAfterError
        /\ TimeoutWithinOneMs
      BY DEF NotifyInv
  <2>u. /\ UNCHANGED <<stream, cursor, counter, ppc, pmsg, unsignalled, reported>>
        /\ UNCHANGED <<call, faults, gaveUp, now>> /\ published' = published
      BY <1>4 DEF vars, ringVars, producerVars, published
  <2>1. NotifyTypeOK'
      BY ONLY <2>t, <2>u DEF NotifyTypeOK
  <2>2. PusherKnows' /\ DuplicatesOnlyAfterError' /\ TimeoutWithinOneMs'
      BY ONLY <2>t, <2>u DEF PusherKnows, DuplicatesOnlyAfterError, TimeoutWithinOneMs
  <2>3. ASSUME NEW c \in Consumers PROVE CallKnows(c)'
    <3>1. CallKnows(c)
        BY DEF NotifyInv
    <3> QED
        BY ONLY <3>1, <2>u DEF CallKnows
  <2> QED
      BY <2>1, <2>2, <2>3 DEF NotifyInv
<1> QED
    BY <1>1, <1>2, <1>3, <1>4 DEF NNext

(* What the producer and every call know holds in every state, whatever    *)
(* the interleaving of publish, signal, empty-check, drain, poll, clock,   *)
(* crashes and failing signals.                                            *)
THEOREM NotifyInvHolds == NSpec => []NotifyInv
BY NotifyInit, NotifyNext, PTL DEF NSpec

(* Ok from push_notified, at a full counter too, means published once; an  *)
(* error means the message may come twice, never that it is lost.          *)
THEOREM DuplicatesExplained == NSpec => []DuplicatesOnlyAfterError
<1>1. NotifyInv => DuplicatesOnlyAfterError
    BY DEF NotifyInv
<1> QED
    BY <1>1, NotifyInvHolds, PTL

(* pop_blocking_timeout gives up less than a millisecond early, unless the *)
(* wait was longer than poll can express.                                  *)
THEOREM TimeoutPrecision == NSpec => []TimeoutWithinOneMs
<1>1. NotifyInv => TimeoutWithinOneMs
    BY DEF NotifyInv
<1> QED
    BY <1>1, NotifyInvHolds, PTL

-----------------------------------------------------------------------------
(* A consumer alone on its eventfd.                                        *)

LEMMA SoleNext ==
    ASSUME NEW c0, Consumers = {c0}, NotifyInv, SoleConsumerInv, [NNext]_vars
    PROVE  SoleConsumerInv'
<1>c. c0 \in Consumers /\ \A c \in Consumers : c = c0
    OBVIOUS
<1>t. NotifyTypeOK /\ CallKnows(c0)
    BY <1>c DEF NotifyInv
<1>f. /\ call \in [Consumers -> CallRecord] /\ call[c0] \in CallRecord
      /\ counter \in Nat /\ counter <= EfdMax
      /\ published \in Nat /\ cursor[c0] \in Nat
    BY <1>t, <1>c, CallFields, Limits DEF NotifyTypeOK
<1> DEFINE Traced == counter > 0 \/ ppc = "signal" \/ unsignalled
           Sole == (call[c0].pc \in {"clock", "drain", "poll"}
                       /\ cursor[c0] < published) => Traced
<1>s. Sole
    BY <1>c DEF SoleConsumerInv
<1> SUFFICES Sole'
    BY <1>c DEF SoleConsumerInv
<1>1. CASE PushOk
  <2>1. ppc' = "signal" /\ call' = call /\ counter' = counter
      BY <1>1 DEF PushOk
  <2> QED
      BY <2>1, <1>s
<1>2. CASE Signal
  <2>1. call' = call /\ counter' = Count
      BY <1>2 DEF Signal
  <2>2. counter' > 0
      BY <2>1, <1>f, Limits DEF Count
  <2> QED
      BY <2>1, <2>2, <1>s
<1>3. CASE SignalFails
  <2>1. unsignalled' = TRUE /\ call' = call /\ counter' = counter
      BY <1>3 DEF SignalFails
  <2> QED
      BY <2>1, <1>s
<1>4. CASE Tick \/ UNCHANGED vars
  <2>1. /\ call' = call /\ counter' = counter /\ ppc' = ppc /\ cursor' = cursor
        /\ unsignalled' = unsignalled /\ published' = published
      BY <1>4 DEF Tick, vars, ringVars, producerVars, published
  <2> QED
      BY <2>1, <1>s
<1>5. CASE \/ StartCall(c0) \/ TakeMessage(c0) \/ DeadlinePassed(c0)
           \/ Drain(c0) \/ PollTimeout(c0) \/ ConsumerDies(c0)
  <2>i. /\ Idle.pc = "idle"
        /\ \A d : [Idle EXCEPT !.pc = "pop", !.deadline = d].pc = "pop"
      BY DEF Idle
  <2> SUFFICES call'[c0].pc \in {"idle", "pop"}
      OBVIOUS
  <2>1. CASE StartCall(c0)
      BY <2>1, <1>f, <1>c, <1>s DEF StartCall, PopBlocking, PopBlockingTimeout,
         Begin, At, CallRecord
  <2>2. CASE Drain(c0)
      BY <2>2, <1>f, <1>c, <2>i DEF Drain
  <2>3. CASE TakeMessage(c0) \/ DeadlinePassed(c0) \/ PollTimeout(c0) \/ ConsumerDies(c0)
    <3>1. Return(c0)
        BY <2>3 DEF TakeMessage, DeadlinePassed, PollTimeout, ConsumerDies, GiveUp
    <3> QED
        BY <3>1, <1>f, <1>c, <2>i DEF Return
  <2> QED
      BY <1>5, <2>1, <2>2, <2>3
<1>6. CASE \/ FindEmpty(c0) \/ TimeLeft(c0) \/ Park(c0)
           \/ PollReadable(c0) \/ PollInterrupted(c0)
  <2> USE DEF FindEmpty, TimeLeft, Park, PollReadable, PollInterrupted, At
  <2>1. /\ counter' = counter /\ ppc' = ppc /\ cursor' = cursor
        /\ unsignalled' = unsignalled /\ published' = published
      BY <1>6 DEF ringVars, producerVars, published
  <2>2. \/ cursor[c0] = published
        \/ call[c0].pc \in {"clock", "drain", "poll"}
      BY <1>6
  <2> QED
      BY <2>1, <2>2, <1>s, <1>f
<1> QED
    BY <1>1, <1>2, <1>3, <1>4, <1>5, <1>6, <1>c
       DEF NNext, ProducerStep, CallStep

LEMMA SoleHolds ==
    ASSUME NEW c0, Consumers = {c0}
    PROVE  NSpec => []SoleConsumerInv
<1>1. NInit => SoleConsumerInv
    BY DEF NInit, SoleConsumerInv, Idle
<1>2. NotifyInv /\ SoleConsumerInv /\ [NNext]_vars => SoleConsumerInv'
    BY SoleNext
<1> QED
    BY <1>1, <1>2, NotifyInvHolds, PTL DEF NSpec

(* No lost wakeup for a consumer that shares the eventfd with nobody: from *)
(* the moment it decides to sleep a published message has left a unit, has *)
(* its signal on the way, or lost it to a fault.                           *)
THEOREM NoWakeupLost ==
    ASSUME NEW c0, Consumers = {c0}
    PROVE  NSpec => []NoLostWakeup
<1>1. SoleConsumerInv => NoLostWakeup
    BY DEF SoleConsumerInv, NoLostWakeup
<1> QED
    BY <1>1, SoleHolds, PTL
=============================================================================
