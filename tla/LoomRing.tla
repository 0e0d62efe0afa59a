------------------------------ MODULE LoomRing ------------------------------
(***************************************************************************)
(* The ordering discipline of the ring, from its loom double               *)
(* (src/loom_ring.rs), under release/acquire memory.                       *)
(*                                                                         *)
(* SpmcRing lets every load return the newest store.  Here a location      *)
(* keeps the history of its stores, and each thread a view: the newest     *)
(* store of every location that it is bound to respect.  A load returns    *)
(* any store that is not older than the view.  A Release store carries the *)
(* view of its thread, an Acquire load takes over what the store carries,  *)
(* a Relaxed access does neither.  Slots are plain memory: an access is    *)
(* recorded, and two conflicting accesses that no view orders are a data   *)
(* race, in which a read may return any of the values in question.         *)
(*                                                                         *)
(* The threads are those of the four loom models: a producer and, for each *)
(* reader id, one thread that pops, lends, or waits for a signal.          *)
(***************************************************************************)
EXTENDS Integers, Sequences

CONSTANTS NumReaders,      \* num_readers
          LOOM_CAPACITY,   \* slots
          MESSAGES,        \* the producer pushes 1..MESSAGES
          U64_MAX,         \* start of the minimum scan
          Roles,           \* what the reader threads do: the cases to check
          MaxReads         \* bound: calls of value() per reader and slot

ASSUME LoomAssumption ==
    /\ NumReaders \in Nat \ {0} /\ LOOM_CAPACITY \in Nat \ {0}
    /\ MESSAGES \in Nat /\ U64_MAX \in Nat /\ U64_MAX >= MESSAGES
    /\ Roles \subseteq [0..(NumReaders - 1) -> {"pop", "loan", "wait"}]
    /\ MaxReads \in Nat

VARIABLES
    mem,           \* mem[l]: the stores to location l, each with its view
    view,          \* view[t][l]: position in mem[l] that thread t respects
    total_written, claim_base, loan_depth,
    ppc, pval, pw, pscan, pmin,  \* the producer's try_push
    role, rpc, rseen,            \* each reader thread's call
    loans,         \* loans[r]: indices of the open LoomLoans of r
    out            \* out[r]: index and value of r's last slot read

pushVars == <<ppc, pval, pw, pscan, pmin, total_written>>
loanVars == <<claim_base, loan_depth, loans>>
readerVars == <<loanVars, role, rpc, rseen, out>>
vars == <<mem, view, pushVars, readerVars>>

Readers  == 0..(NumReaders - 1)
Producer == NumReaders
Threads  == Readers \cup {Producer}

(* The atomics, the slots, and the reads of each slot by each reader.      *)
WriteIdx       == <<"write_idx", 0>>
Notify         == <<"notify", 0>>
ReadIdx(r)     == <<"read_idx", r>>
Slot(i)        == <<"slot", i % LOOM_CAPACITY>>
SlotRead(r, i) == <<"slot_read", r * LOOM_CAPACITY + (i % LOOM_CAPACITY)>>

Locs == {WriteIdx, Notify} \cup {ReadIdx(r) : r \in Readers}
        \cup {Slot(i) : i \in 0..(LOOM_CAPACITY - 1)}
        \cup {SlotRead(r, i) : r \in Readers, i \in 0..(LOOM_CAPACITY - 1)}

Start == [l \in Locs |-> 1]

Init ==
    /\ mem = [l \in Locs |-> <<[val |-> 0, view |-> Start]>>]
    /\ view = [t \in Threads |-> Start]
    /\ total_written = 0
    /\ claim_base = [r \in Readers |-> 0]
    /\ loan_depth = [r \in Readers |-> 0]
    /\ loans = [r \in Readers |-> {}]
    /\ ppc = "idle" /\ pval = 1 /\ pw = 0 /\ pscan = 0 /\ pmin = U64_MAX
    /\ role \in Roles
    /\ rpc = [r \in Readers |-> "idle"]
    /\ rseen = [r \in Readers |-> 0]
    /\ out = [r \in Readers |-> [index |-> -1, val |-> 0]]

-----------------------------------------------------------------------------
(* Memory accesses.                                                        *)

Newest(l) == Len(mem[l])

Join(u, v) == [l \in Locs |-> IF u[l] >= v[l] THEN u[l] ELSE v[l]]

(* Thread t loads store i of l.                                            *)
Load(t, l, order, i) ==
    LET known == [view[t] EXCEPT ![l] = i]
    IN  /\ i \in view[t][l]..Newest(l)
        /\ view' = [view EXCEPT ![t] = IF order = "Acquire"
                                       THEN Join(known, mem[l][i].view)
                                       ELSE known]

(* Thread t, the only one that stores there, stores val to l.              *)
Store(t, l, val, order) ==
    LET known == [view[t] EXCEPT ![l] = Newest(l) + 1]
    IN  /\ mem' = [mem EXCEPT ![l] = Append(@,
              [val |-> val, view |-> IF order = "Release" THEN known ELSE Start])]
        /\ view' = [view EXCEPT ![t] = known]

(* Reader r reads the slot of index i, and leaves its mark.                *)
ReadSlot(r, i) ==
    /\ \E n \in view[r][Slot(i)]..Newest(Slot(i)) :
          out' = [out EXCEPT ![r] = [index |-> i, val |-> mem[Slot(i)][n].val]]
    /\ Store(r, SlotRead(r, i), 0, "Relaxed")

(* A reader's own cursor: nobody else stores there.                        *)
Cursor(r) == mem[ReadIdx(r)][view[r][ReadIdx(r)]].val

(* Mutant of each of the orderings below.                                  *)
Unordered == "Relaxed"

PublishOrder == "Release"     \* try_push: store of write_idx
ScanOrder    == "Acquire"     \* try_push: loads of the cursors
ObserveOrder == "Acquire"     \* try_pop, claim: load of write_idx
AdvanceOrder == "Release"     \* try_pop, commit, drop: store of the cursor
SignalOrder  == "Release"     \* the producer's bump of the notify counter
ParkOrder    == "Acquire"     \* the consumer's loads of it

-----------------------------------------------------------------------------
(* try_push: the producer pushes pval until it is accepted, then the next. *)

PushReturns == ppc' = "idle" /\ pw' = 0 /\ pscan' = 0 /\ pmin' = U64_MAX

PushLoad ==
    /\ ppc = "idle" /\ pval <= MESSAGES
    /\ \E i \in 1..Newest(WriteIdx) :
          /\ Load(Producer, WriteIdx, "Relaxed", i)
          /\ pw' = mem[WriteIdx][i].val
    /\ ppc' = "scan"
    /\ UNCHANGED <<mem, pval, pscan, pmin, total_written, readerVars>>

PushScan ==
    /\ ppc = "scan" /\ pscan < NumReaders
    /\ \E i \in 1..Newest(ReadIdx(pscan)) :
          /\ Load(Producer, ReadIdx(pscan), ScanOrder, i)
          /\ pmin' = IF mem[ReadIdx(pscan)][i].val < pmin
                     THEN mem[ReadIdx(pscan)][i].val ELSE pmin
    /\ pscan' = pscan + 1
    /\ UNCHANGED <<mem, ppc, pval, pw, total_written, readerVars>>

(* Mutant: one message more than there are slots.                          *)
FullOffByOne == pw - pmin > LOOM_CAPACITY

Full == pw - pmin >= LOOM_CAPACITY

Scanned == ppc = "scan" /\ pscan = NumReaders

PushRefused ==
    /\ Scanned /\ Full
    /\ PushReturns
    /\ UNCHANGED <<mem, view, pval, total_written, readerVars>>

PushWrite ==
    /\ Scanned /\ ~Full
    /\ Store(Producer, Slot(pw), pval, "Relaxed")
    /\ ppc' = "publish"
    /\ UNCHANGED <<pval, pw, pscan, pmin, total_written, readerVars>>

(* The store of write_idx and the count, which nobody loads until the end. *)
(* The producer of the notify model then signals.                          *)
PushPublish ==
    /\ ppc = "publish"
    /\ Store(Producer, WriteIdx, pw + 1, PublishOrder)
    /\ total_written' = total_written + 1
    /\ pval' = pval + 1
    /\ IF \E r \in Readers : role[r] = "wait"
       THEN ppc' = "signal" /\ UNCHANGED <<pw, pscan, pmin>>
       ELSE PushReturns
    /\ UNCHANGED readerVars

Signal ==
    /\ ppc = "signal"
    /\ Store(Producer, Notify, mem[Notify][Newest(Notify)].val + 1, SignalOrder)
    /\ PushReturns
    /\ UNCHANGED <<pval, total_written, readerVars>>

PushStep ==
    PushLoad \/ PushScan \/ PushRefused \/ PushWrite \/ PushPublish \/ Signal

-----------------------------------------------------------------------------
(* try_pop, and the wait of the notify model.                              *)

Goes(r, pc) == rpc' = [rpc EXCEPT ![r] = pc]

(* The Acquire load of write_idx, against the reader's own cursor.  None:  *)
(* a popping thread tries again, a waiting one arms its wait.              *)
PopLoad(r) ==
    /\ rpc[r] = "idle" /\ role[r] # "loan"
    /\ \E i \in 1..Newest(WriteIdx) :
          /\ Load(r, WriteIdx, ObserveOrder, i)
          /\ Goes(r, IF mem[WriteIdx][i].val # Cursor(r) THEN "read"
                     ELSE IF role[r] = "wait" THEN "arm" ELSE "idle")
    /\ UNCHANGED <<mem, pushVars, loanVars, role, rseen, out>>

PopRead(r) ==
    /\ rpc[r] = "read"
    /\ ReadSlot(r, Cursor(r))
    /\ Goes(r, "advance")
    /\ UNCHANGED <<pushVars, loanVars, role, rseen>>

PopAdvance(r) ==
    /\ rpc[r] = "advance"
    /\ Store(r, ReadIdx(r), Cursor(r) + 1, AdvanceOrder)
    /\ Goes(r, "idle")
    /\ UNCHANGED <<pushVars, loanVars, role, rseen, out>>

(* Read the counter, ...                                                   *)
Arm(r) ==
    /\ rpc[r] = "arm"
    /\ \E i \in 1..Newest(Notify) :
          /\ Load(r, Notify, ParkOrder, i)
          /\ rseen' = [rseen EXCEPT ![r] = mem[Notify][i].val]
    /\ Goes(r, "park")
    /\ UNCHANGED <<mem, pushVars, loanVars, role, out>>

(* ... then park until it has moved, or patience ends.                     *)
Park(r) ==
    /\ rpc[r] = "park"
    /\ \E i \in 1..Newest(Notify) :
          /\ Load(r, Notify, ParkOrder, i)
          /\ \/ Goes(r, "idle") /\ rseen' = [rseen EXCEPT ![r] = 0]
             \/ mem[Notify][i].val = rseen[r] /\ UNCHANGED <<rpc, rseen>>
    /\ UNCHANGED <<mem, pushVars, loanVars, role, out>>

-----------------------------------------------------------------------------
(* claim and LoomLoan.  claim_base and loan_depth belong to the thread.    *)

Position(r) ==
    IF claim_base[r] >= Cursor(r) THEN claim_base[r] ELSE Cursor(r)

(* The gate goes up first and comes down again if nothing is lent.         *)
Gate(r, opened) ==
    loan_depth' = [loan_depth EXCEPT ![r] = IF opened THEN @ + 1 ELSE @]

Claim(r) ==
    /\ rpc[r] = "idle" /\ role[r] = "loan"
    /\ \E i \in 1..Newest(WriteIdx) :
          /\ Load(r, WriteIdx, ObserveOrder, i)
          /\ LET opened == Position(r) < mem[WriteIdx][i].val
             IN  /\ Gate(r, opened)
                 /\ IF opened
                    THEN /\ claim_base' = [claim_base EXCEPT ![r] = Position(r) + 1]
                         /\ loans' = [loans EXCEPT ![r] = @ \cup {Position(r)}]
                    ELSE UNCHANGED <<claim_base, loans>>
    /\ UNCHANGED <<mem, pushVars, role, rpc, rseen, out>>

(* value(): a look at the slot of an open loan.                            *)
Value(r, i) ==
    /\ i \in loans[r]
    /\ Newest(SlotRead(r, i)) <= MaxReads
    /\ ReadSlot(r, i)
    /\ UNCHANGED <<pushVars, loanVars, role, rpc, rseen>>

resolve(r, i) ==
    /\ loan_depth' = [loan_depth EXCEPT ![r] = @ - 1]
    /\ loans' = [loans EXCEPT ![r] = @ \ {i}]

(* commit of a loan that is not at the cursor returns false.               *)
AtCursor(r, i) == Cursor(r) = i

(* commit, or drop, of the loan at the cursor.                             *)
Commit(r, i) ==
    /\ i \in loans[r]
    /\ AtCursor(r, i)
    /\ Store(r, ReadIdx(r), i + 1, AdvanceOrder)
    /\ resolve(r, i)
    /\ UNCHANGED <<pushVars, claim_base, role, rpc, rseen, out>>

(* drop of any other loan.                                                 *)
Drop(r, i) ==
    /\ i \in loans[r]
    /\ ~AtCursor(r, i)
    /\ resolve(r, i)
    /\ UNCHANGED <<mem, view, pushVars, claim_base, role, rpc, rseen, out>>

(* abort rewinds the pipeline; here only of the youngest loan (LoanRing    *)
(* shows what happens otherwise).                                          *)
Abort(r, i) ==
    /\ i \in loans[r] /\ \A j \in loans[r] : j <= i
    /\ claim_base' = [claim_base EXCEPT ![r] = IF i < @ THEN i ELSE @]
    /\ resolve(r, i)
    /\ UNCHANGED <<mem, view, pushVars, role, rpc, rseen, out>>

ReaderStep(r) ==
    \/ PopLoad(r) \/ PopRead(r) \/ PopAdvance(r) \/ Arm(r) \/ Park(r)
    \/ Claim(r)
    \/ \E i \in loans[r] : \/ Value(r, i) \/ Commit(r, i)
                           \/ Drop(r, i) \/ Abort(r, i)

Next == PushStep \/ \E r \in Readers : ReaderStep(r)

Spec == Init /\ [][Next]_vars

-----------------------------------------------------------------------------
(* The orderings are strong enough to make the unsafe slot accesses sound: *)
(* when the producer is about to write a slot, every read of it has come   *)
(* to its view through the reader's cursor (reclaim edge), and when a      *)
(* reader is about to read one, or holds a loan on it, every write of it   *)
(* has come to its view through write_idx (publish edge).                  *)
NoDataRace ==
    /\ (Scanned /\ ~Full) => \A r \in Readers :
          view[Producer][SlotRead(r, pw)] = Newest(SlotRead(r, pw))
    /\ \A r \in Readers :
          \A i \in loans[r] \cup {c \in {Cursor(r)} : rpc[r] = "read"} :
              view[r][Slot(i)] = Newest(Slot(i))

(* Every value a reader gets is the message of the stream at its index:    *)
(* 1, 2, 3, ... for pops, index + 1 for loans, never torn, stale or lapped *)
(* (the assertions of loom_ring.rs:270, 384, 442 and 458).                 *)
ReadsInStream == \A r \in Readers : out[r].val = out[r].index + 1

(* However stale the cursors it loads, the producer does not cross the     *)
(* capacity boundary without a reader advance (loom_ring.rs:341-347), and  *)
(* an open loan holds the boundary as its cursor does (loom_ring.rs:353).  *)
BoundaryHeld ==
    LET w == mem[WriteIdx][Newest(WriteIdx)].val
    IN  \A r \in Readers :
          /\ w - Cursor(r) \in 0..LOOM_CAPACITY
          /\ \A i \in loans[r] : w - i <= LOOM_CAPACITY

(* Woken means visible: a thread that has seen n signals sees at least n   *)
(* messages published, through the transitive order of publish and signal  *)
(* alone (loom_ring.rs:421-424).                                           *)
WokenSeesPublish ==
    \A r \in Readers :
        mem[WriteIdx][view[r][WriteIdx]].val >= mem[Notify][view[r][Notify]].val

-----------------------------------------------------------------------------
(* The inductive invariant.  A view is sound when knowing an index means   *)
(* knowing the slot accesses behind it.                                    *)

LoomTypeOK ==
    /\ mem \in [Locs -> Seq([val : Int, view : [Locs -> Nat]])]
    /\ view \in [Threads -> [Locs -> Nat]]
    /\ ppc \in {"idle", "scan", "publish", "signal"}
    /\ pval \in Nat /\ pw \in Nat /\ pmin \in Nat /\ pscan \in 0..NumReaders
    /\ role \in [Readers -> {"pop", "loan", "wait"}]
    /\ rpc \in [Readers -> {"idle", "read", "advance", "arm", "park"}]
    /\ claim_base \in [Readers -> Nat]
    /\ loans \in [Readers -> SUBSET Nat]
    /\ out \in [Readers -> [index : Int, val : Int]]

Published   == Newest(WriteIdx) - 1
Written     == IF ppc = "publish" THEN Published + 1 ELSE Published
Consumed(r) == Newest(ReadIdx(r)) - 1
Tops        == [l \in Locs |-> Newest(l)]

(* A view that has write_idx past a message has the write of its slot,     *)
(* unless that slot was written again since; one that has a cursor past    *)
(* the message before q in q's slot has all reads of that slot.            *)
Sound(v, top, written) ==
    /\ \A l \in Locs : v[l] \in 1..top[l]
    /\ v[Notify] <= v[WriteIdx]
    /\ \A j \in 0..(written - 1) :
          (j + 1 < v[WriteIdx] /\ written - j <= LOOM_CAPACITY)
             => v[Slot(j)] = top[Slot(j)]
    /\ \A r \in Readers :
          \A q \in (top[WriteIdx] - 1)..(top[WriteIdx] + LOOM_CAPACITY - 2) :
             q + 1 < v[ReadIdx(r)] + LOOM_CAPACITY
                => v[SlotRead(r, q)] = top[SlotRead(r, q)]

(* Every view there is: of the threads, carried by the stores, and Start.  *)
ViewsSound ==
    /\ Sound(Start, Tops, Written)
    /\ \A t \in Threads : Sound(view[t], Tops, Written)
    /\ \A l \in Locs : \A n \in 1..Newest(l) : Sound(mem[l][n].view, Tops, Written)

(* The stores to an atomic count up, and each carries itself.              *)
StoresCount ==
    \A l \in {WriteIdx, Notify} \cup {ReadIdx(r) : r \in Readers} :
        \A n \in 1..Newest(l) : mem[l][n].val = n - 1 /\ mem[l][n].view[l] = n

(* Nobody is behind in what only he stores.                                *)
OwnersKnow ==
    /\ view[Producer][WriteIdx] = Newest(WriteIdx)
    /\ view[Producer][Notify] = Newest(Notify)
    /\ \A i \in 0..(LOOM_CAPACITY - 1) : view[Producer][Slot(i)] = Newest(Slot(i))
    /\ \A r \in Readers :
          /\ view[r][ReadIdx(r)] = Newest(ReadIdx(r))
          /\ \A i \in 0..(LOOM_CAPACITY - 1) :
                view[r][SlotRead(r, i)] = Newest(SlotRead(r, i))

SlotsHold ==
    \A j \in 0..(Written - 1) : Written - j <= LOOM_CAPACITY
        => mem[Slot(j)][Newest(Slot(j))].val = j + 1

PusherKnows ==
    /\ pval = Published + 1
    /\ ppc = "idle" => pscan = 0
    /\ ppc \in {"scan", "publish"} => pw = Published
    /\ ppc = "scan" => \A r \in Readers :
          r < pscan => pmin < view[Producer][ReadIdx(r)]
    /\ ppc = "signal" => Newest(Notify) <= Published

PopperKnows(r) ==
    /\ Newest(ReadIdx(r)) <= view[r][WriteIdx]
    /\ rpc[r] \in {"read", "advance"} => Newest(ReadIdx(r)) < view[r][WriteIdx]
    /\ Written - Consumed(r) <= LOOM_CAPACITY
    /\ IF role[r] = "loan" THEN rpc[r] = "idle" ELSE loans[r] = {}
    /\ \A i \in loans[r] :
          Consumed(r) <= i /\ i + 1 < view[r][WriteIdx] /\ i < claim_base[r]

LoomInv ==
    /\ LoomTypeOK
    /\ ViewsSound
    /\ StoresCount
    /\ OwnersKnow
    /\ SlotsHold
    /\ PusherKnows
    /\ \A r \in Readers : PopperKnows(r)
    /\ ReadsInStream
=============================================================================
