------------------------------ MODULE LoanRing ------------------------------
(***************************************************************************)
(* Zero-copy loans (src/loan.rs) on top of the ring: SpmcRingBuffer::      *)
(* claim and Loan::{commit, abort, drop}, interleaved with the producer,   *)
(* with try_pop of the same reader, and with crashes.                      *)
(*                                                                         *)
(* Each reader id is served by one handle, whose threads share claim_base  *)
(* and loan_depth.  A loan id stands for one Loan value from the call of   *)
(* claim that makes it to its end, and for the thread that drives it, so   *)
(* claims and resolutions of different loans interleave at every access    *)
(* of shared state.  The documented contract (loan.rs:66-74), no claim     *)
(* races a try_pop of the same reader, is a guard of ClaimRaiseGate; from  *)
(* there on the gate itself keeps try_pop out.  peek, which changes no     *)
(* shared state, is left to SpmcRing.  A commit that fails with            *)
(* LoanNotAtCursor changes nothing.                                        *)
(***************************************************************************)
EXTENDS SpmcRing, FiniteSets

CONSTANTS LoanIds,      \* bound: loans (and claims in flight) at a time
          Ops           \* what the consumers do besides claim

(* "abort" and "drop": in any order; "abortYoungest": only a loan with no  *)
(* later open loan; "dropOldest": only the loan at the cursor.             *)
ASSUME OpsAssumption ==
    Ops \subseteq {"commit", "abort", "abortYoungest", "drop", "dropOldest",
                   "pop"}

ASSUME LoanIdsAssumption == IsFiniteSet(LoanIds)

VARIABLES claim_base,   \* SpmcRingBuffer::claim_base, handle-local
          loans         \* the loans and their operation in progress

loanVars == <<claim_base, loans>>
lvars    == <<vars, loanVars>>

NoLoan == [pc |-> "none", reader |-> 0, index |-> 0, w |-> 0, cursor |-> 0,
           base |-> 0]

Larger(a, b) == IF a >= b THEN a ELSE b

LInit ==
    /\ Init
    /\ claim_base = [r \in ReaderIds |-> 0]
    /\ loans = [l \in LoanIds |-> NoLoan]

At(l, pc) == loans[l].pc = pc

GoTo(l, pc) == loans' = [loans EXCEPT ![l].pc = pc]

(* Mutant: the gate stays up.                                              *)
LeakGate(l) == UNCHANGED loan_depth

LowerGate(l) ==
    loan_depth' = [loan_depth EXCEPT ![loans[l].reader] = @ - 1]

(* A Loan whose claim succeeded and that resolve has not marked yet.       *)
Unresolved(l) ==
    loans[l].pc \in {"open", "commitStore", "dropStore"}

(* A claim in progress, or a loan whose gate is still up.                  *)
HoldsGate(l) == loans[l].pc \notin {"none", "done"}

Holders(r) == {l \in LoanIds : HoldsGate(l) /\ loans[l].reader = r}

-----------------------------------------------------------------------------
(* claim *)

(* The gate goes up before any index is looked at.                         *)
ClaimRaiseGate(l, r) ==
    /\ loans[l].pc = "none"
    /\ rpc[r] \notin {"popCursor", "popRead"}
    /\ check_reader(r)
    /\ loan_depth' = [loan_depth EXCEPT ![r] = @ + 1]
    /\ loans' = [loans EXCEPT ![l].pc = "claimW", ![l].reader = r]
    /\ UNCHANGED <<fileVars, producerVars, readerVars, ghostVars, claim_base>>

ClaimLoadWriteIdx(l) ==
    /\ At(l, "claimW")
    /\ loans' = [loans EXCEPT ![l].pc = "claimCursor", ![l].w = write_idx]
    /\ UNCHANGED <<vars, claim_base>>

ClaimLoadCursor(l) ==
    /\ At(l, "claimCursor")
    /\ loans' = [loans EXCEPT ![l].pc = "claimBase",
                              ![l].cursor = read_indices[loans[l].reader]]
    /\ UNCHANGED <<vars, claim_base>>

PipelineHead(l) == claim_base[loans[l].reader]

(* Mutant: no realignment with the cursor.                                 *)
UnalignedHead(l) == PipelineHead(l)

(* The position to claim: max(head, cursor).                               *)
Position(l) == Larger(PipelineHead(l), loans[l].cursor)

(* Load of the pipeline head.                                              *)
ClaimLoadBase(l) ==
    /\ At(l, "claimBase")
    /\ loans' = [loans EXCEPT ![l].pc = "claimCas", ![l].base = PipelineHead(l),
                              ![l].index = Position(l)]
    /\ UNCHANGED <<vars, claim_base>>

(* Nothing published at the position: release the gate, return None.       *)
ClaimEmpty(l) ==
    /\ At(l, "claimCas")
    /\ loans[l].index >= loans[l].w
    /\ LowerGate(l)
    /\ loans' = [loans EXCEPT ![l] = NoLoan]
    /\ UNCHANGED <<fileVars, producerVars, readerVars, ghostVars, claim_base>>

(* Mutants: a plain store where the compare-exchange is; a head that moves *)
(* the wrong way, or one too far.                                          *)
HeadUncompared(l)  == TRUE
HeadBackwards(l)   == loans[l].index - 1
HeadOneTooFar(l)   == loans[l].index + 2

HeadUnmoved(l) == PipelineHead(l) = loans[l].base
NextHead(l)    == loans[l].index + 1

(* compare_exchange_weak succeeds: the Loan exists.                        *)
ClaimTake(l) ==
    /\ At(l, "claimCas")
    /\ loans[l].index < loans[l].w
    /\ HeadUnmoved(l)
    /\ claim_base' = [claim_base EXCEPT ![loans[l].reader] = NextHead(l)]
    /\ loans' = [loans EXCEPT ![l] = [NoLoan EXCEPT !.pc = "open",
                                         !.reader = loans[l].reader,
                                         !.index = loans[l].index]]
    /\ UNCHANGED vars

(* compare_exchange_weak fails, because another thread moved the head or   *)
(* spuriously: start over.                                                 *)
ClaimRetry(l) ==
    /\ At(l, "claimCas")
    /\ loans[l].index < loans[l].w
    /\ GoTo(l, "claimW")
    /\ UNCHANGED <<vars, claim_base>>

-----------------------------------------------------------------------------
(* The cursor store of commit and of drop: the record is handed over.      *)
StoreCursor(l) ==
    LET r == loans[l].reader
        i == loans[l].index
    IN  /\ read_indices' = [read_indices EXCEPT ![r] = i + 1]
        /\ out' = [out EXCEPT ![r] = slots[slot_ptr(i)]]
        /\ UNCHANGED <<write_idx, total_written, slots, loan_depth,
                       producerVars, readerVars, log, crashes, claim_base>>

(* resolve: the loan is marked and the gate goes down.                     *)
Resolve(l) ==
    /\ LowerGate(l)
    /\ UNCHANGED <<fileVars, producerVars, readerVars, ghostVars, claim_base>>

(* Mutant: no FIFO check.                                                  *)
AnyOrder(l) == TRUE

AtCursor(l) == read_indices[loans[l].reader] = loans[l].index

(* commit: only the loan at the cursor may advance it.                     *)
CommitCheck(l) ==
    /\ "commit" \in Ops
    /\ At(l, "open")
    /\ AtCursor(l)
    /\ GoTo(l, "commitStore")
    /\ UNCHANGED <<vars, claim_base>>

CommitStore(l) == At(l, "commitStore") /\ StoreCursor(l) /\ GoTo(l, "commitResolve")

(* commit takes &mut self: the resolved Loan value lives on.               *)
CommitResolve(l) == At(l, "commitResolve") /\ Resolve(l) /\ GoTo(l, "done")

(* Drop (or abort) of a Loan that commit has resolved.                     *)
DropDone(l) ==
    /\ At(l, "done")
    /\ loans' = [loans EXCEPT ![l] = NoLoan]
    /\ UNCHANGED <<vars, claim_base>>

(* There is no later open loan on the same reader; claims may be in        *)
(* flight.                                                                 *)
Youngest(l) ==
    \A m \in LoanIds \ {l} :
        (Unresolved(m) /\ loans[m].reader = loans[l].reader) =>
            loans[m].index < loans[l].index

MayAbort(l) ==
    \/ "abort" \in Ops
    \/ "abortYoungest" \in Ops /\ Youngest(l)

(* Mutant: abort forgets to rewind.                                        *)
NotRewound(l) == PipelineHead(l)

Rewound(l) == Smaller(PipelineHead(l), loans[l].index)

(* abort: fetch_min rewinds the pipeline head, then resolve.               *)
AbortRewind(l) ==
    /\ At(l, "open")
    /\ MayAbort(l)
    /\ claim_base' = [claim_base EXCEPT ![loans[l].reader] = Rewound(l)]
    /\ GoTo(l, "abortResolve")
    /\ UNCHANGED vars

AbortResolve(l) ==
    /\ At(l, "abortResolve")
    /\ Resolve(l)
    /\ loans' = [loans EXCEPT ![l] = NoLoan]

(* Drop of an unresolved loan commits it if it is at the cursor, ...       *)
DropAtCursor(l) ==
    /\ "drop" \in Ops \/ "dropOldest" \in Ops
    /\ At(l, "open")
    /\ AtCursor(l)
    /\ GoTo(l, "dropStore")
    /\ UNCHANGED <<vars, claim_base>>

(* ... and otherwise leaves cursor and pipeline head as they are.          *)
DropElsewhere(l) ==
    /\ "drop" \in Ops
    /\ At(l, "open")
    /\ ~AtCursor(l)
    /\ GoTo(l, "dropResolve")
    /\ UNCHANGED <<vars, claim_base>>

DropStore(l) == At(l, "dropStore") /\ StoreCursor(l) /\ GoTo(l, "dropResolve")

DropResolve(l) ==
    /\ At(l, "dropResolve")
    /\ Resolve(l)
    /\ loans' = [loans EXCEPT ![l] = NoLoan]

-----------------------------------------------------------------------------
(* The reader's process dies: its handle, gate, pipeline and loans go with *)
(* it; a new process opens the file with all of them fresh.                *)
HandleCrash(r) ==
    /\ crashes < MaxCrashes
    /\ \/ rpc[r] # "idle" \/ claim_base[r] # 0
       \/ \E l \in LoanIds : HoldsGate(l) /\ loans[l].reader = r
    /\ crashes' = crashes + 1
    /\ ReaderReturns(r)
    /\ loan_depth' = [loan_depth EXCEPT ![r] = 0]
    /\ claim_base' = [claim_base EXCEPT ![r] = 0]
    /\ loans' = [l \in LoanIds |->
                    IF loans[l].reader = r THEN NoLoan ELSE loans[l]]
    /\ UNCHANGED <<fileVars, producerVars, peeked, log, out>>

ClaimStep(l) ==
    \/ ClaimLoadWriteIdx(l) \/ ClaimLoadCursor(l) \/ ClaimLoadBase(l)
    \/ ClaimEmpty(l) \/ ClaimTake(l) \/ ClaimRetry(l)

ResolveStep(l) ==
    \/ CommitCheck(l) \/ CommitStore(l) \/ CommitResolve(l) \/ DropDone(l)
    \/ AbortRewind(l) \/ AbortResolve(l)
    \/ DropAtCursor(l) \/ DropElsewhere(l) \/ DropStore(l) \/ DropResolve(l)

RingStep ==
    /\ \/ ProducerStep
       \/ ProducerCrash
       \/ "pop" \in Ops /\ \E r \in ReaderIds : PopStep(r)
    /\ UNCHANGED loanVars

LNext ==
    \/ RingStep
    \/ \E l \in LoanIds, r \in ReaderIds : ClaimRaiseGate(l, r)
    \/ \E l \in LoanIds : ClaimStep(l) \/ ResolveStep(l)
    \/ \E r \in ReaderIds : HandleCrash(r)

LSpec == LInit /\ [][LNext]_lvars

(* The producer retries; consumers keep claiming, calls that were begun    *)
(* run to their end, and resolved loans are dropped.  Strong fairness      *)
(* where the code needs luck or patience: compare_exchange_weak does not   *)
(* fail for ever, and a loan that can be committed again and again is      *)
(* committed some day (a consumer does not abort a message for ever).      *)
LFairness ==
    /\ WF_lvars(ProducerStep /\ UNCHANGED loanVars)
    /\ \A r \in Participants :
        /\ WF_lvars((PopEmpty(r) \/ PopLoadCursor(r) \/ PopAdvance(r)
                     \/ \E k \in Words : PopReadWord(r, k))
                    /\ UNCHANGED loanVars)
        /\ WF_lvars(\E l \in LoanIds : ClaimRaiseGate(l, r))
    /\ \A l \in LoanIds :
        /\ WF_lvars(ClaimStep(l))
        /\ SF_lvars(ClaimTake(l))
        /\ SF_lvars(CommitCheck(l))
        /\ WF_lvars(\/ CommitStore(l) \/ CommitResolve(l) \/ DropDone(l)
                    \/ AbortResolve(l) \/ DropStore(l) \/ DropResolve(l))

LFairSpec == LSpec /\ LFairness

-----------------------------------------------------------------------------
(* The types of the state the loans add.                                   *)
LoanTypeOK ==
    /\ claim_base \in [ReaderIds -> Nat]
    /\ loans \in [LoanIds ->
          [pc : {"none", "claimW", "claimCursor", "claimBase", "claimCas",
                 "open", "commitStore", "commitResolve", "done",
                 "abortResolve", "dropStore", "dropResolve"},
           reader : ReaderIds, index : Nat, w : Nat, cursor : Nat, base : Nat]]

(* The pinning invariant (loan.rs:56): while a loan is unresolved the      *)
(* reader's cursor has not passed its index, whatever the other loans,     *)
(* claims and pops of that reader did, and the index is published.         *)
LoanPinned ==
    \A l \in LoanIds : Unresolved(l) =>
        /\ read_indices[loans[l].reader] <= loans[l].index
        /\ loans[l].index < write_idx

(* So the reference a loan hands out stays a view of its own message, and  *)
(* the producer is not writing under it (loan.rs:61-62).                   *)
LoanViewsItsMessage ==
    \A l \in LoanIds : Unresolved(l) =>
        /\ slots[slot_ptr(loans[l].index)] = log[loans[l].index + 1]
        /\ ppc = "write" => slot_ptr(loans[l].index) # slot_ptr(pw)

(* No message is lent twice at a time, although claims of several threads  *)
(* race through load, load, load, compare-exchange (loan.rs:155-194).      *)
LentOnce ==
    \A l, m \in LoanIds :
        (l # m /\ Unresolved(l) /\ Unresolved(m)
           /\ loans[l].reader = loans[m].reader) =>
            loans[l].index # loans[m].index

(* The gate counts exactly what it must hold back: it is up as long as a   *)
(* loan or a claim of the reader exists, no try_pop is then in progress,   *)
(* and it goes down when the last one ends (a leaked unit would refuse     *)
(* try_pop for ever).                                                      *)
GateGuardsLoans ==
    \A r \in ReaderIds :
        /\ loan_depth[r] = Cardinality(Holders(r))
        /\ Holders(r) # {} => rpc[r] \notin {"popCursor", "popRead"}

(* Every message the reader has not consumed is either lent or will be     *)
(* found by a later claim: the pipeline head never jumps over a message    *)
(* that nobody holds.                                                      *)
NoStrandedMessage ==
    \A r \in Participants : \A i \in read_indices[r]..(write_idx - 1) :
        \/ claim_base[r] <= i
        \/ \E l \in LoanIds : /\ Unresolved(l) \/ loans[l].pc = "dropResolve"
                              /\ loans[l].reader = r
                              /\ loans[l].index = i

(* A Loan that can still be dereferenced, a committed one included, is not *)
(* written by the producer (the SAFETY comment of Deref, loan.rs:289-294). *)
DerefRaceFree ==
    \A l \in LoanIds :
        (Unresolved(l) \/ loans[l].pc = "done") =>
            (ppc = "write" => slot_ptr(loans[l].index) # slot_ptr(pw))
-----------------------------------------------------------------------------
(* Why loans stay pinned: the parts an inductive invariant needs beyond    *)
(* the properties above.                                                   *)

(* What the locals of a claim, and an open loan, know about the file and   *)
(* the pipeline.  A claim's cursor may be stale, but then the head has     *)
(* moved with the real one: whichever is larger is not behind it.          *)
LoanKnows(l) ==
    LET r == loans[l].reader
    IN  /\ HoldsGate(l) => r \in Participants
        /\ loans[l].pc \in {"claimCursor", "claimBase", "claimCas"} =>
              loans[l].w <= write_idx
        /\ loans[l].pc \in {"claimBase", "claimCas"} =>
              /\ loans[l].cursor <= read_indices[r]
              /\ read_indices[r] <= Larger(claim_base[r], loans[l].cursor)
        /\ loans[l].pc = "claimCas" =>
              loans[l].index = Larger(loans[l].base, loans[l].cursor)
        /\ Unresolved(l) => loans[l].index < claim_base[r]
        /\ loans[l].pc \in {"commitStore", "dropStore"} => AtCursor(l)
        /\ (loans[l].pc = "dropResolve" /\ "drop" \notin Ops) =>
              loans[l].index < read_indices[r]

NothingPeeked ==
    \A r \in ReaderIds : peeked[r] = {} /\ rpc[r] # "peekCursor"

(* The inductive invariant of a pipeline that is aborted youngest first.   *)
LoanInv ==
    /\ IndInv
    /\ LoanTypeOK
    /\ NothingPeeked
    /\ LoanPinned
    /\ LentOnce
    /\ GateGuardsLoans
    /\ \A l \in LoanIds : LoanKnows(l)
=============================================================================
