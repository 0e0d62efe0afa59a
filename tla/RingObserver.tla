---------------------------- MODULE RingObserver ----------------------------
(***************************************************************************)
(* The diagnostics of SpmcRingBuffer (len, is_empty, slowest_lag of        *)
(* src/ring.rs) called while the ring of SpmcRing works.  All three load   *)
(* write_idx, then one cursor or all of them, and return the difference,   *)
(* wrapping.  They store nothing, so no call of them can disturb another   *)
(* and one, at any time in a behaviour, stands for all.                    *)
(*                                                                         *)
(* Who calls matters: a reader that asks for its own len, or the producer  *)
(* that asks for slowest_lag, moves nothing itself meanwhile, and acts on  *)
(* the answer; a monitor in a process of its own sees everything move.     *)
(* peek, which stores nothing either, is left to SpmcRing.                 *)
(***************************************************************************)
EXTENDS SpmcRing

CONSTANT MaxCalls    \* bound: diagnostic calls in a behaviour

VARIABLES
    calls,  \* diagnostic calls so far
    obs,    \* the call in progress: caller, the cursors to load, the locals
    seen,   \* ghost: seen[r], messages r's own len reported and r has not popped
    room    \* ghost: the producer's slowest_lag reported a free slot, not yet used

obsVars == <<calls, obs, seen, room>>
ovars   == <<vars, obsVars>>

NoCall == [by |-> "none", next |-> 0, last |-> 0, w |-> 0, min |-> U64_MAX]

OInit ==
    /\ Init
    /\ calls = 0 /\ obs = NoCall
    /\ seen = [r \in ReaderIds |-> 0]
    /\ room = FALSE

-----------------------------------------------------------------------------
(* A thread is in one call at a time: the calling reader and the calling   *)
(* producer take no other step until their diagnostic returns.             *)
Asking(r)      == obs.by = "reader" /\ obs.last = r
ProducerAsking  == obs.by = "producer"

(* The call loads write_idx; the cursors first..last come next.            *)
Observe(by, first, last) ==
    /\ obs.by = "none" /\ calls < MaxCalls
    /\ calls' = calls + 1
    /\ obs' = [by |-> by, next |-> first, last |-> last,
               w |-> write_idx, min |-> U64_MAX]
    /\ UNCHANGED <<vars, seen, room>>

(* len(r), or is_empty(r), which tests its result for 0.                   *)
len(r) ==
    /\ check_reader(r)
    /\ \/ rpc[r] = "idle" /\ Observe("reader", r, r)
       \/ Observe("monitor", r, r)

slowest_lag ==
    \/ ppc = "idle" /\ Observe("producer", 0, NumReaders - 1)
    \/ Observe("monitor", 0, NumReaders - 1)

ObserveCursor ==
    /\ obs.by # "none" /\ obs.next <= obs.last
    /\ obs' = [obs EXCEPT !.next = @ + 1,
                          !.min  = Smaller(@, read_indices[obs.next])]
    /\ UNCHANGED <<vars, calls, seen, room>>

Observed == obs.by # "none" /\ obs.next > obs.last

(* Mutant: subtracted the wrong way round.                                 *)
ReversedLag == (obs.min - obs.w) % (U64_MAX + 1)

(* wrapping_sub.                                                           *)
Lag == (obs.w - obs.min) % (U64_MAX + 1)

(* The call returns Lag to its caller.                                     *)
ObserveReturn ==
    /\ Observed
    /\ obs' = NoCall
    /\ seen' = [r \in ReaderIds |-> IF Asking(r) THEN Lag ELSE seen[r]]
    /\ room' = IF ProducerAsking THEN Lag < Capacity ELSE room
    /\ UNCHANGED <<vars, calls>>

-----------------------------------------------------------------------------
(* The ring's own steps; a pop takes one of the messages its reader has    *)
(* seen, a push the slot its producer has seen.                            *)
OProducerStep ==
    /\ ~ProducerAsking
    /\ ProducerStep
    /\ room' = (room /\ write_idx' = write_idx)
    /\ UNCHANGED <<calls, obs, seen>>

Took(r) == read_indices'[r] # read_indices[r] /\ seen[r] > 0

OPopStep(r) ==
    /\ ~Asking(r)
    /\ PopStep(r)
    /\ seen' = [seen EXCEPT ![r] = IF Took(r) THEN @ - 1 ELSE @]
    /\ UNCHANGED <<calls, obs, room>>

OCrash ==
    /\ ProducerCrash \/ \E r \in ReaderIds : ReaderCrash(r)
    /\ UNCHANGED obsVars

ONext ==
    \/ \E r \in ReaderIds : len(r)
    \/ slowest_lag
    \/ ObserveCursor
    \/ ObserveReturn
    \/ OProducerStep
    \/ \E r \in ReaderIds : OPopStep(r)
    \/ OCrash

(* Callers that keep calling: the producer retries try_push until its      *)
(* messages are out, each participating reader keeps polling try_pop, and  *)
(* a call that was begun runs to its end.  No fairness for crashes, and    *)
(* none for starting a diagnostic.                                         *)
OFairness ==
    /\ WF_ovars(OProducerStep)
    /\ \A r \in Participants : WF_ovars(OPopStep(r))
    /\ WF_ovars(ObserveCursor \/ ObserveReturn)

OFairSpec == OInit /\ [][ONext]_ovars /\ OFairness

-----------------------------------------------------------------------------
(* An answer still holds when its caller acts on it, whatever the others   *)
(* do meanwhile and whoever crashes.  After a len of n (ring.rs:545, 557)  *)
(* the reader's next n calls of try_pop return a message; after a          *)
(* slowest_lag below the capacity, the value backpressure is computed      *)
(* against (ring.rs:568), the producer's next push is accepted.            *)
AnswersHold ==
    /\ \A r \in Participants :
          (rpc[r] = "popCursor" /\ Drained(r)) => seen[r] = 0
    /\ (ppc = "scan" /\ pscan = NumReaders /\ Full) => ~room

(* A report is at most the capacity.  Only a monitor can be told a wrapped *)
(* value (a cursor passed the write_idx it had loaded; ring.rs:550-553     *)
(* rules that out), and only if a message was published during its call.   *)
ReportWrapsOnlyOnPublish ==
    Observed => \/ Lag <= Capacity
                \/ obs.by = "monitor" /\ write_idx > obs.w

-----------------------------------------------------------------------------
(* Why these hold: the parts of an inductive invariant beyond IndInv.      *)

ObserverTypeOK ==
    /\ calls \in Nat
    /\ obs \in [by : {"none", "reader", "producer", "monitor"}, next : Nat,
                last : Nat, w : Nat, min : Nat]
    /\ seen \in [ReaderIds -> Nat]
    /\ room \in BOOLEAN

(* A call in progress.  While nothing was published since it loaded        *)
(* write_idx, the minimum of the cursors it has loaded lies within one     *)
(* capacity of that.  The caller's own index stands still.                 *)
CallKnows ==
    obs.by # "none" =>
        /\ obs.last \in Participants /\ obs.w <= write_idx
        /\ write_idx = obs.w =>
              \/ obs.next <= obs.last /\ obs.min = U64_MAX
              \/ obs.min <= obs.w /\ obs.w - obs.min <= Capacity
        /\ obs.by = "reader" =>
              /\ rpc[obs.last] = "idle" /\ read_indices[obs.last] <= obs.w
              /\ obs.next \in {obs.last, obs.last + 1}
              /\ obs.min = IF obs.next > obs.last THEN read_indices[obs.last]
                                                  ELSE U64_MAX
        /\ obs.by = "producer" =>
              /\ ppc = "idle" /\ obs.w = write_idx /\ obs.last = NumReaders - 1
              /\ \A q \in Participants : q < obs.next => obs.min <= read_indices[q]

(* What callers were told: the messages a reader saw are still before it,  *)
(* up to the write_idx its try_pop has loaded, and the slot the producer   *)
(* saw is still free, when its try_push began as well.                     *)
AnswersKnow ==
    /\ \A r \in Participants :
          /\ read_indices[r] + seen[r] <= write_idx
          /\ rpc[r] = "popCursor" => read_indices[r] + seen[r] <= rw[r]
    /\ room => \A r \in Participants : write_idx - read_indices[r] < Capacity
    /\ (room /\ ppc = "scan") => pw - pfloor < Capacity

ObserverInv == IndInv /\ ObserverTypeOK /\ CallKnows /\ AnswersKnow
=============================================================================
