---------------------------- MODULE NotifiedRing ----------------------------
(***************************************************************************)
(* The eventfd handshake (src/notify.rs): push_notified, pop_blocking      *)
(* and pop_blocking_timeout over one EventNotify shared by the producer    *)
(* and any number of consumers, one per reader id.                         *)
(*                                                                         *)
(* try_push and try_pop are single steps here (SpmcRing shows that they    *)
(* are steps of a broadcast log); what interleaves is publish and signal,  *)
(* empty-check, drain and poll.  A push refused by backpressure, which     *)
(* neither publishes nor signals, changes nothing.  The eventfd itself is  *)
(* the kernel's, modelled from how the code uses it.  Time is counted in   *)
(* ticks finer than the milliseconds poll(2) is given.                     *)
(***************************************************************************)
EXTENDS Integers, Sequences

CONSTANTS Consumers,     \* the consumers, each with a reader id of its own
          Capacity,      \* slots of the ring
          EfdMax,        \* u64::MAX - 1: the counter at which write fails
          TicksPerMs,    \* resolution of Instant relative to poll
          PollMax,       \* i32::MAX: the longest timeout of poll, in ms
          Timeouts,      \* timeouts, in ticks, of pop_blocking_timeout calls
          MaxPush,       \* bound: messages published
          MaxTime,       \* bound: the clock
          MaxFaults      \* bound: process crashes and failing signals

ASSUME NotifyAssumption ==
    /\ Capacity \in Nat \ {0} /\ EfdMax \in Nat \ {0}
    /\ TicksPerMs \in Nat \ {0} /\ PollMax \in Nat /\ Timeouts \subseteq Nat
    /\ MaxPush \in Nat /\ MaxTime \in Nat /\ MaxFaults \in Nat

VARIABLES
    stream,       \* the messages published, by number; write_idx is its length
    cursor,       \* read_indices
    counter,      \* the eventfd's count
    ppc, pmsg,    \* the producer: "idle", or "signal" between publish and
                  \* signal; the number of the message it is pushing
    call,         \* call[c]: the consumer's call and its locals
    now,          \* Instant::now()
    faults,
    (* Ghosts: a publish went unsignalled and nothing was signalled since;
       the messages whose push did not return Ok; by how much a call's last
       None came before its deadline, and the wait it came from. *)
    unsignalled, reported, gaveUp

ringVars     == <<stream, cursor>>
producerVars == <<ppc, pmsg, unsignalled, reported>>
vars == <<ringVars, counter, producerVars, call, now, faults, gaveUp>>

Forever == -1

(* No call in progress.  deadline: of a timed call, Forever in             *)
(* pop_blocking; left: the Duration given to wait_timeout; wakeAt: when    *)
(* the poll in progress times out.                                         *)
Idle == [pc |-> "idle", deadline |-> Forever, left |-> Forever,
         wakeAt |-> Forever]

published == Len(stream)

NInit ==
    /\ stream = <<>>
    /\ cursor = [c \in Consumers |-> 0]
    /\ counter = 0
    /\ ppc = "idle" /\ pmsg = 1
    /\ call = [c \in Consumers |-> Idle]
    /\ now = 0
    /\ faults = 0
    /\ unsignalled = FALSE
    /\ reported = {}
    /\ gaveUp = [c \in Consumers |-> [early |-> 0, wait |-> 0]]

-----------------------------------------------------------------------------
(* The producer: push_notified.                                            *)

(* try_push succeeds: no reader lags by the full capacity.                 *)
PushOk ==
    /\ ppc = "idle"
    /\ published < MaxPush
    /\ \A c \in Consumers : published - cursor[c] < Capacity
    /\ stream' = Append(stream, pmsg)
    /\ ppc' = "signal"
    /\ UNCHANGED <<cursor, counter, pmsg, unsignalled, reported, call, now,
                   faults, gaveUp>>

(* Mutant: only a consumer that already sleeps is signalled.               *)
CountForSleepers ==
    IF \E c \in Consumers : call[c].pc = "poll" THEN counter + 1 ELSE counter

(* write(eventfd): one more unit, or EAGAIN on a full counter.             *)
Count == IF counter < EfdMax THEN counter + 1 ELSE counter

(* Mutant: the caller is told that nothing was published.                  *)
AfterSignalRefused == IF counter < EfdMax THEN pmsg + 1 ELSE pmsg

(* EAGAIN, too, is success: the caller goes on to its next message.        *)
AfterSignal == pmsg + 1

Signal ==
    /\ ppc = "signal"
    /\ counter' = Count
    /\ ppc' = "idle" /\ pmsg' = AfterSignal
    /\ unsignalled' = FALSE
    /\ UNCHANGED <<ringVars, reported, call, now, faults, gaveUp>>

(* write fails otherwise, or the producer dies: the message is out but the *)
(* caller does not know, and its next push brings the same one again, or   *)
(* the next.                                                               *)
SignalFails ==
    /\ faults < MaxFaults
    /\ ppc = "signal"
    /\ faults' = faults + 1
    /\ ppc' = "idle" /\ pmsg' \in {pmsg, pmsg + 1}
    /\ unsignalled' = TRUE
    /\ reported' = reported \cup {pmsg}
    /\ UNCHANGED <<ringVars, counter, call, now, gaveUp>>

-----------------------------------------------------------------------------
(* A consumer: pop_blocking and pop_blocking_timeout.                      *)

At(c, pc) == call[c].pc = pc
Goto(c, pc) == call' = [call EXCEPT ![c].pc = pc]

Return(c) == call' = [call EXCEPT ![c] = Idle]

(* The call: the deadline of a timed one is taken first.                   *)
Begin(c, deadline) ==
    /\ At(c, "idle")
    /\ call' = [call EXCEPT ![c].pc = "pop", ![c].deadline = deadline]
    /\ gaveUp' = [gaveUp EXCEPT ![c] = [early |-> 0, wait |-> 0]]
    /\ UNCHANGED <<ringVars, counter, producerVars, now, faults>>

PopBlocking(c) == Begin(c, Forever)
PopBlockingTimeout(c, timeout) == Begin(c, now + timeout)

(* try_pop returns a message.                                              *)
TakeMessage(c) ==
    /\ At(c, "pop")
    /\ cursor[c] # published
    /\ cursor' = [cursor EXCEPT ![c] = @ + 1]
    /\ Return(c)
    /\ UNCHANGED <<stream, counter, producerVars, now, faults, gaveUp>>

(* try_pop returns None.                                                   *)
FindEmpty(c) ==
    /\ At(c, "pop")
    /\ cursor[c] = published
    /\ Goto(c, IF call[c].deadline = Forever THEN "drain" ELSE "clock")
    /\ UNCHANGED <<ringVars, counter, producerVars, now, faults, gaveUp>>

GiveUp(c) ==
    /\ gaveUp' = [gaveUp EXCEPT ![c] =
          [early |-> IF now < call[c].deadline THEN call[c].deadline - now ELSE 0,
           wait  |-> call[c].left]]
    /\ Return(c)
    /\ UNCHANGED <<ringVars, counter, producerVars, now, faults>>

(* The deadline has passed: return None.                                   *)
DeadlinePassed(c) ==
    /\ At(c, "clock")
    /\ now >= call[c].deadline
    /\ GiveUp(c)

(* wait_timeout(deadline - now).                                           *)
TimeLeft(c) ==
    /\ At(c, "clock")
    /\ now < call[c].deadline
    /\ call' = [call EXCEPT ![c].pc = "drain",
                            ![c].left = call[c].deadline - now]
    /\ UNCHANGED <<ringVars, counter, producerVars, now, faults, gaveUp>>

(* try_wait: the read takes all units there are; go back to try_pop.       *)
Drain(c) ==
    /\ At(c, "drain")
    /\ counter > 0
    /\ counter' = 0
    /\ call' = [call EXCEPT ![c] = [Idle EXCEPT !.pc = "pop",
                                        !.deadline = call[c].deadline]]
    /\ UNCHANGED <<ringVars, producerVars, now, faults, gaveUp>>

(* Mutant: milliseconds are taken for ticks.                               *)
as_ticks(duration) == duration \div TicksPerMs

(* as_millis drops what is below a millisecond; i32::try_from caps it.     *)
as_millis(duration) ==
    LET ms == duration \div TicksPerMs
    IN  TicksPerMs * (IF ms <= PollMax THEN ms ELSE PollMax)

PollEnd(c) == IF call[c].left = Forever THEN Forever
                                        ELSE now + as_millis(call[c].left)

(* Nothing pending: poll, for the whole milliseconds of the duration that  *)
(* wait_timeout was given, even if it comes back from an earlier poll.     *)
Park(c) ==
    /\ At(c, "drain")
    /\ counter = 0
    /\ call' = [call EXCEPT ![c].pc = "poll", ![c].wakeAt = PollEnd(c)]
    /\ UNCHANGED <<ringVars, counter, producerVars, now, faults, gaveUp>>

(* The descriptor is readable, or poll was interrupted (EINTR): drain, and *)
(* if nothing is there poll again.                                         *)
PollReadable(c) ==
    /\ At(c, "poll")
    /\ counter > 0
    /\ Goto(c, "drain")
    /\ UNCHANGED <<ringVars, counter, producerVars, now, faults, gaveUp>>

PollInterrupted(c) ==
    /\ At(c, "poll")
    /\ Goto(c, "drain")
    /\ UNCHANGED <<ringVars, counter, producerVars, now, faults, gaveUp>>

TimedOut(c) ==
    At(c, "poll") /\ counter = 0 /\ call[c].wakeAt # Forever /\ now >= call[c].wakeAt

(* poll returns 0: return None, with no further look at the ring.          *)
PollTimeout(c) == TimedOut(c) /\ GiveUp(c)

-----------------------------------------------------------------------------
Tick ==
    /\ now < MaxTime
    /\ now' = now + 1
    /\ UNCHANGED <<ringVars, counter, producerVars, call, faults, gaveUp>>

(* A consumer that dies, possibly with the units it drained; or read or    *)
(* poll fails and the call returns the error.                              *)
ConsumerDies(c) ==
    /\ faults < MaxFaults
    /\ ~At(c, "idle")
    /\ faults' = faults + 1
    /\ Return(c)
    /\ UNCHANGED <<ringVars, counter, producerVars, now, gaveUp>>

ProducerStep == PushOk \/ Signal

StartCall(c) ==
    \/ PopBlocking(c)
    \/ \E t \in Timeouts : PopBlockingTimeout(c, t)

(* The steps of a call that was begun.                                     *)
CallStep(c) ==
    \/ TakeMessage(c) \/ FindEmpty(c) \/ DeadlinePassed(c) \/ TimeLeft(c)
    \/ Drain(c) \/ Park(c) \/ PollReadable(c) \/ PollTimeout(c)

NNext ==
    \/ ProducerStep
    \/ SignalFails
    \/ \E c \in Consumers :
        StartCall(c) \/ CallStep(c) \/ PollInterrupted(c) \/ ConsumerDies(c)
    \/ Tick

NSpec == NInit /\ [][NNext]_vars

(* The producer retries its pushes and finishes them, consumers keep       *)
(* calling, a call makes progress when it can (the kernel wakes a poll on  *)
(* a readable descriptor).  Nothing makes signals interrupt a poll, and    *)
(* nothing makes the clock run.                                            *)
NFairSpec ==
    /\ NSpec
    /\ WF_vars(ProducerStep)
    /\ \A c \in Consumers : /\ WF_vars(StartCall(c))
                            /\ WF_vars(CallStep(c))

-----------------------------------------------------------------------------
(* The types of the state.                                                 *)
NotifyTypeOK ==
    /\ stream \in Seq(1..(MaxPush + 1)) /\ published <= MaxPush
    /\ cursor \in [Consumers -> 0..MaxPush]
    /\ counter \in 0..EfdMax
    /\ ppc \in {"idle", "signal"} /\ pmsg \in 1..(MaxPush + 1)
    /\ call \in [Consumers ->
          [pc : {"idle", "pop", "clock", "drain", "poll"}, deadline : Int,
           left : Int, wakeAt : Int]]
    /\ now \in 0..MaxTime
    /\ faults \in 0..MaxFaults
    /\ unsignalled \in BOOLEAN
    /\ reported \subseteq 1..MaxPush
    /\ gaveUp \in [Consumers -> [early : Nat, wait : Int]]

(* No lost wakeup: a consumer that has made up its mind to sleep, or       *)
(* sleeps, while a message for it is in the ring has a wakeup unit waiting *)
(* or a signal on its way; only a signal that failed, or a producer that   *)
(* died before it, can leave it asleep, and only until the next push.      *)
NoLostWakeup ==
    \A c \in Consumers :
        (call[c].pc \in {"drain", "poll"} /\ cursor[c] < published) =>
            counter > 0 \/ ppc = "signal" \/ unsignalled

(* What push_notified tells its caller (notify.rs:244-256): a caller that  *)
(* pushes again what was not acknowledged loses nothing, and publishes a   *)
(* message twice only if a push of it ended in an error or a crash; Ok,    *)
(* at a full counter too, means published once.                            *)
DuplicatesOnlyAfterError ==
    /\ \A i, j \in 1..published : i < j /\ stream[i] = stream[j] =>
          stream[i] \in reported
    /\ \A m \in 1..(pmsg - 1) : \E i \in 1..published : stream[i] = m

(* A timed call reports a timeout at most a fraction of a millisecond      *)
(* before its deadline (notify.rs:280-281): cutting the remaining time to  *)
(* milliseconds costs less than one of them, however often the call was    *)
(* woken, found nothing, and parked again.  The exception is a wait longer *)
(* than poll can express (i32::MAX ms), which ends when poll does.         *)
TimeoutWithinOneMs ==
    \A c \in Consumers : \/ gaveUp[c].early < TicksPerMs
                         \/ gaveUp[c].wait > PollMax * TicksPerMs

(* Every message reaches every consumer that keeps calling, without a poll *)
(* ever being interrupted or a further push being needed, unless the last  *)
(* one went unsignalled.                                                   *)
AllDelivered ==
    <>[](\/ published = MaxPush /\ \A c \in Consumers : cursor[c] = MaxPush
         \/ unsignalled)
-----------------------------------------------------------------------------
(* Why these hold: the parts an inductive invariant needs beyond them.     *)

(* What the producer is pushing against what is in the stream: between     *)
(* publish and signal its message is the last one; before the publish, it  *)
(* is new unless an earlier push of it ended in an error.                  *)
PusherKnows ==
    /\ \A i \in 1..published : stream[i] <= pmsg
    /\ ppc = "signal" =>
        published > 0 /\ stream[published] = pmsg /\ pmsg <= published
    /\ ppc = "idle" =>
        /\ pmsg <= published + 1
        /\ \A i \in 1..published : stream[i] = pmsg => pmsg \in reported

(* A call's locals against the clock.  deadline - left is the time at      *)
(* which wait_timeout was called; a poll ends no sooner than the whole     *)
(* milliseconds of left after that.                                        *)
CallKnows(c) ==
    LET k == call[c]
    IN  /\ cursor[c] <= published
        /\ k.deadline \in Nat \cup {Forever}
        /\ k.pc \in {"idle", "pop"} => k.left = Forever
        /\ k.pc = "clock" => k.deadline # Forever
        /\ k.pc \in {"drain", "poll"} =>
              \/ k.deadline = Forever /\ k.left = Forever
              \/ /\ k.deadline \in Nat /\ k.left \in Nat
                 /\ k.deadline - k.left <= now
        /\ k.pc = "poll" =>
              \/ k.left = Forever /\ k.wakeAt = Forever
              \/ /\ k.left # Forever
                 /\ k.deadline - k.left + as_millis(k.left) <= k.wakeAt

(* The inductive invariant, for any number of consumers.                   *)
NotifyInv ==
    /\ NotifyTypeOK
    /\ PusherKnows
    /\ DuplicatesOnlyAfterError
    /\ \A c \in Consumers : CallKnows(c)
    /\ TimeoutWithinOneMs

(* What a consumer that shares the eventfd with nobody knows on top: from  *)
(* its look at the empty ring on, a publish leaves a trace it will find.   *)
SoleConsumerInv ==
    \A c \in Consumers :
        (call[c].pc \in {"clock", "drain", "poll"} /\ cursor[c] < published) =>
            counter > 0 \/ ppc = "signal" \/ unsignalled
=============================================================================
