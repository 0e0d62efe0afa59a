--------------------------- MODULE LoanRingProofs ---------------------------
(***************************************************************************)
(* The safety of LoanRing for any number of readers, slots, loans at a     *)
(* time and crashes, as long as loans are not aborted out of order: what   *)
(* is lent stays pinned, is lent once and is what its index says, and the  *)
(* ring with loans still implements the broadcast log.                     *)
(***************************************************************************)
EXTENDS LoanRing, SpmcRingProofs, FiniteSetTheorems

(* The fields of a loan, for the provers.                                  *)
LEMMA LoanFields ==
    ASSUME LoanTypeOK, NEW l \in LoanIds
    PROVE  /\ loans[l].reader \in ReaderIds
           /\ loans[l].index \in Nat /\ loans[l].w \in Nat
           /\ loans[l].cursor \in Nat /\ loans[l].base \in Nat
           /\ claim_base[loans[l].reader] \in Nat
BY DEF LoanTypeOK

(* A fresh handle has no loans.                                            *)
LEMMA NoLoanFields ==
    /\ NoLoan.pc = "none" /\ NoLoan.reader = 0 /\ 0 \in ReaderIds
    /\ NoLoan \in [pc : {"none", "claimW", "claimCursor", "claimBase",
                         "claimCas", "open", "commitStore", "commitResolve",
                         "done", "abortResolve", "dropStore", "dropResolve"},
                   reader : ReaderIds, index : Nat, w : Nat, cursor : Nat,
                   base : Nat]
BY Sizes DEF NoLoan

LEMMA HoldersFinite ==
    ASSUME NEW r \in ReaderIds
    PROVE  /\ IsFiniteSet(Holders(r)) /\ Cardinality(Holders(r)) \in Nat
           /\ IsFiniteSet(Holders(r))'
<1>1. Holders(r) \in SUBSET LoanIds /\ (Holders(r))' \in SUBSET LoanIds
    BY DEF Holders
<1> QED
    BY <1>1, LoanIdsAssumption, FS_Subset, FS_CardinalityType

(* Someone holds the gate as long as a holder exists, so no try_pop of     *)
(* that reader is between its gate check and its cursor store.             *)
LEMMA GateBlocksPop ==
    ASSUME LoanInv, NEW l \in LoanIds, HoldsGate(l)
    PROVE  rpc[loans[l].reader] \notin {"popCursor", "popRead"}
<1>1. loans[l].reader \in ReaderIds
    BY LoanFields DEF LoanInv
<1>2. l \in Holders(loans[l].reader)
    BY DEF Holders
<1> QED
    BY <1>1, <1>2 DEF LoanInv, GateGuardsLoans

(* The gate count is 0 only if nobody holds the gate.                      *)
LEMMA GateDown ==
    ASSUME LoanInv, NEW r \in ReaderIds, loan_depth[r] = 0
    PROVE  Holders(r) = {}
BY HoldersFinite, FS_EmptySet DEF LoanInv, GateGuardsLoans

-----------------------------------------------------------------------------
(* What a loan knows survives as long as its record, its reader's cursor   *)
(* and everything behind it stay, while published index and pipeline head  *)
(* only grow.                                                              *)
LEMMA KnowsFrame ==
    ASSUME LoanInv, NEW m \in LoanIds,
           loans'[m] = loans[m],
           write_idx' \in Nat, write_idx <= write_idx',
           read_indices'[loans[m].reader] = read_indices[loans[m].reader],
           claim_base'[loans[m].reader] \in Nat,
           claim_base[loans[m].reader] <= claim_base'[loans[m].reader]
    PROVE  LoanKnows(m)'
<1>1. LoanKnows(m)
    BY DEF LoanInv
<1>2. /\ loans[m].reader \in ReaderIds /\ loans[m].index \in Nat
      /\ loans[m].w \in Nat /\ loans[m].cursor \in Nat /\ loans[m].base \in Nat
      /\ claim_base[loans[m].reader] \in Nat
      /\ write_idx \in Nat /\ read_indices[loans[m].reader] \in Nat
    BY LoanFields DEF LoanInv, IndInv, TypeOK
<1> QED
    BY <1>1, <1>2 DEF LoanKnows, HoldsGate, Unresolved, AtCursor, Larger

(* Steps that leave the gates alone: the same holders before and after.    *)
LEMMA GatesFrame ==
    ASSUME LoanInv, UNCHANGED <<loan_depth, rpc>>,
           \A m \in LoanIds : /\ HoldsGate(m)' <=> HoldsGate(m)
                              /\ HoldsGate(m) => loans'[m].reader = loans[m].reader
    PROVE  GateGuardsLoans'
<1>1. ASSUME NEW r \in ReaderIds PROVE Holders(r)' = Holders(r)
    BY DEF Holders
<1> QED
    BY <1>1 DEF LoanInv, GateGuardsLoans

(* A step of loan l in its own record.                                     *)
LEMMA QuietLoanStep ==
    ASSUME LoanInv, NEW l \in LoanIds,
           UNCHANGED <<vars, claim_base>>,
           LoanTypeOK',
           \A m \in LoanIds \ {l} : loans'[m] = loans[m],
           HoldsGate(l)' <=> HoldsGate(l),
           HoldsGate(l) => loans'[l].reader = loans[l].reader,
           Unresolved(l)' => /\ Unresolved(l)
                             /\ loans'[l].reader = loans[l].reader
                             /\ loans'[l].index = loans[l].index,
           LoanKnows(l)'
    PROVE  LoanInv'
<1>v. /\ write_idx' = write_idx /\ read_indices' = read_indices
      /\ loan_depth' = loan_depth /\ rpc' = rpc /\ peeked' = peeked
      /\ claim_base' = claim_base
    BY DEF vars, fileVars, readerVars
<1>1. IndInv'
    BY NextIndInv DEF LoanInv
<1>2. NothingPeeked'
    BY <1>v DEF LoanInv, NothingPeeked
<1>3. LoanPinned'
  <2> SUFFICES ASSUME NEW m \in LoanIds, Unresolved(m)'
               PROVE  /\ read_indices[loans'[m].reader] <= loans'[m].index
                      /\ loans'[m].index < write_idx
      BY <1>v DEF LoanPinned
  <2>1. /\ Unresolved(m) /\ loans'[m].reader = loans[m].reader
        /\ loans'[m].index = loans[m].index
      BY DEF Unresolved
  <2> QED
      BY <2>1 DEF LoanInv, LoanPinned
<1>4. LentOnce'
  <2>1. ASSUME NEW m \in LoanIds, Unresolved(m)'
        PROVE  /\ Unresolved(m) /\ loans'[m].reader = loans[m].reader
               /\ loans'[m].index = loans[m].index
      BY <2>1 DEF Unresolved
  <2> QED
      BY <2>1 DEF LoanInv, LentOnce
<1>5. GateGuardsLoans'
    BY <1>v, GatesFrame DEF HoldsGate
<1>6. ASSUME NEW m \in LoanIds \ {l} PROVE LoanKnows(m)'
  <2>1. write_idx \in Nat /\ claim_base[loans[m].reader] \in Nat
      BY LoanFields DEF LoanInv, IndInv, TypeOK
  <2> QED
      BY <2>1, <1>v, KnowsFrame
<1> QED
    BY <1>1, <1>2, <1>3, <1>4, <1>5, <1>6 DEF LoanInv

(* The steps of a claim that look at the indices, and those of a           *)
(* resolution before it touches anything.                                  *)
LEMMA LooksInd ==
    ASSUME LoanInv, NEW l \in LoanIds,
           \/ ClaimLoadWriteIdx(l) \/ ClaimLoadCursor(l) \/ ClaimLoadBase(l)
           \/ ClaimRetry(l) \/ DropDone(l)
           \/ CommitCheck(l) \/ DropAtCursor(l) \/ DropElsewhere(l)
    PROVE  LoanInv'
<1> USE DEF ClaimLoadWriteIdx, ClaimLoadCursor, ClaimLoadBase, ClaimRetry,
            DropDone, CommitCheck, DropAtCursor, DropElsewhere, At, GoTo
<1>t. LoanTypeOK /\ LoanKnows(l)
    BY DEF LoanInv
<1>f. /\ loans[l].reader \in ReaderIds /\ loans[l].index \in Nat
      /\ loans[l].w \in Nat /\ loans[l].cursor \in Nat /\ loans[l].base \in Nat
      /\ claim_base[loans[l].reader] \in Nat
      /\ write_idx \in Nat /\ read_indices[loans[l].reader] \in Nat
    BY <1>t, LoanFields DEF LoanInv, IndInv, TypeOK
<1>v. /\ write_idx' = write_idx /\ read_indices' = read_indices
      /\ claim_base' = claim_base
    BY DEF vars, fileVars
<1>u. UNCHANGED <<vars, claim_base>>
    OBVIOUS
<1>1. LoanTypeOK'
    BY <1>t, <1>f, <1>v, NoLoanFields DEF LoanTypeOK, Position, PipelineHead, Larger
<1>2. \A m \in LoanIds \ {l} : loans'[m] = loans[m]
    BY <1>t DEF LoanTypeOK
<1>3. /\ HoldsGate(l)' <=> HoldsGate(l)
      /\ HoldsGate(l) => loans'[l].reader = loans[l].reader
    BY <1>t, NoLoanFields DEF LoanTypeOK, HoldsGate
<1>4. Unresolved(l)' => /\ Unresolved(l)
                        /\ loans'[l].reader = loans[l].reader
                        /\ loans'[l].index = loans[l].index
    BY <1>t, NoLoanFields DEF LoanTypeOK, Unresolved
<1>5. LoanKnows(l)'
  <2>1. CASE ClaimLoadWriteIdx(l) \/ ClaimRetry(l) \/ DropDone(l)
      BY <2>1, <1>t, <1>f, <1>v, NoLoanFields
         DEF LoanTypeOK, LoanKnows, HoldsGate, Unresolved
  <2>2. CASE ClaimLoadCursor(l)
      BY <2>2, <1>t, <1>f, <1>v
         DEF LoanTypeOK, LoanKnows, HoldsGate, Unresolved, Larger
  <2>3. CASE ClaimLoadBase(l)
      BY <2>3, <1>t, <1>f, <1>v
         DEF LoanTypeOK, LoanKnows, HoldsGate, Unresolved, Position, PipelineHead
  <2>4. CASE CommitCheck(l) \/ DropAtCursor(l)
      BY <2>4, <1>t, <1>f, <1>v
         DEF LoanTypeOK, LoanKnows, HoldsGate, Unresolved, AtCursor
  <2>5. CASE DropElsewhere(l)
      BY <2>5, <1>t, <1>f, <1>v
         DEF LoanTypeOK, LoanKnows, HoldsGate, Unresolved
  <2> QED
      BY <2>1, <2>2, <2>3, <2>4, <2>5
<1> QED
    BY ONLY LoanInv, l \in LoanIds, <1>u, <1>1, <1>2, <1>3, <1>4, <1>5, QuietLoanStep

-----------------------------------------------------------------------------
(* Steps that move the pipeline head of reader r and nothing of the ring.  *)
LEMMA HeadStep ==
    ASSUME LoanInv, NEW l \in LoanIds,
           UNCHANGED vars,
           LoanTypeOK', HoldsGate(l), HoldsGate(l)',
           loans'[l].reader = loans[l].reader,
           \A m \in LoanIds \ {l} : loans'[m] = loans[m],
           LoanPinned', LentOnce', \A m \in LoanIds : LoanKnows(m)'
    PROVE  LoanInv'
<1>1. IndInv'
    BY NextIndInv DEF LoanInv
<1>2. NothingPeeked'
    BY DEF LoanInv, NothingPeeked, vars, readerVars
<1>3. UNCHANGED <<loan_depth, rpc>>
    BY DEF vars, readerVars
<1>4. GateGuardsLoans'
    BY <1>3, GatesFrame DEF HoldsGate
<1> QED
    BY <1>1, <1>2, <1>4 DEF LoanInv

(* A successful compare-exchange: the head has not moved since it was      *)
(* loaded, so the index lent is at or past the head and the cursor, and    *)
(* no open loan has it.                                                    *)
LEMMA ClaimTakeInd ==
    ASSUME LoanInv, NEW l \in LoanIds, ClaimTake(l)
    PROVE  LoanInv'
<1> DEFINE r == loans[l].reader
           i == loans[l].index
<1>t. LoanTypeOK /\ LoanKnows(l)
    BY DEF LoanInv
<1>f. /\ r \in ReaderIds /\ i \in Nat /\ loans[l].w \in Nat
      /\ loans[l].cursor \in Nat /\ loans[l].base \in Nat
      /\ claim_base[r] \in Nat /\ write_idx \in Nat /\ read_indices[r] \in Nat
    BY <1>t, LoanFields DEF LoanInv, IndInv, TypeOK
<1>v. write_idx' = write_idx /\ read_indices' = read_indices
    BY DEF ClaimTake, vars, fileVars
<1>h. /\ claim_base[r] <= i /\ read_indices[r] <= i /\ i < write_idx
      /\ r \in Participants
    BY <1>t, <1>f DEF ClaimTake, At, HeadUnmoved, PipelineHead, LoanKnows,
       HoldsGate, Larger
<1>l. /\ loans'[l].pc = "open" /\ loans'[l].reader = r /\ loans'[l].index = i
      /\ \A m \in LoanIds \ {l} : loans'[m] = loans[m]
    BY <1>t DEF ClaimTake, LoanTypeOK, NoLoan
<1>b. /\ claim_base'[r] = i + 1
      /\ \A s \in ReaderIds \ {r} : claim_base'[s] = claim_base[s]
      /\ \A s \in ReaderIds : claim_base'[s] \in Nat /\ claim_base[s] \in Nat
                              /\ claim_base[s] <= claim_base'[s]
    BY <1>t, <1>f, <1>h DEF ClaimTake, LoanTypeOK, NextHead
<1>1. LoanTypeOK'
  <2> DEFINE new == [NoLoan EXCEPT !.pc = "open", !.reader = r, !.index = i]
  <2>1. new \in [pc : {"none", "claimW", "claimCursor", "claimBase", "claimCas",
                       "open", "commitStore", "commitResolve", "done",
                       "abortResolve", "dropStore", "dropResolve"},
                 reader : ReaderIds, index : Nat, w : Nat, cursor : Nat, base : Nat]
      BY <1>f DEF NoLoan
  <2>2. loans' = [loans EXCEPT ![l] = new]
      BY DEF ClaimTake
  <2>3. claim_base' \in [ReaderIds -> Nat]
      BY <1>t, <1>f DEF ClaimTake, LoanTypeOK, NextHead
  <2> HIDE DEF new
  <2> QED
      BY <2>1, <2>2, <2>3, <1>t DEF LoanTypeOK
<1>2. LoanPinned'
  <2>1. ASSUME NEW m \in LoanIds \ {l}, Unresolved(m)'
        PROVE  read_indices[loans[m].reader] <= loans[m].index /\ loans[m].index < write_idx
      BY <1>l, <2>1 DEF LoanInv, LoanPinned, Unresolved
  <2> QED
      BY <2>1, <1>l, <1>v, <1>h DEF LoanPinned
<1>3. LentOnce'
  <2>1. ASSUME NEW m \in LoanIds \ {l}, Unresolved(m), loans[m].reader = r
        PROVE  loans[m].index # i
    <3>1. loans[m].index < claim_base[r] /\ loans[m].index \in Nat
        BY <2>1, LoanFields DEF LoanInv, LoanKnows
    <3> QED
        BY <3>1, <1>h, <1>f
  <2> QED
      BY <2>1, <1>l DEF LoanInv, LentOnce, Unresolved
<1>4. LoanKnows(l)'
    BY <1>l, <1>b, <1>h, <1>f DEF LoanKnows, HoldsGate, Unresolved
<1>5. ASSUME NEW m \in LoanIds \ {l} PROVE LoanKnows(m)'
  <2>1. loans[m].reader \in ReaderIds
      BY <1>t, LoanFields
  <2> QED
      BY <2>1, <1>l, <1>b, <1>v, <1>f, KnowsFrame
<1>6. HoldsGate(l) /\ HoldsGate(l)'
    BY <1>l DEF ClaimTake, At, HoldsGate
<1>7. UNCHANGED vars
    BY DEF ClaimTake
<1> QED
    BY ONLY LoanInv, l \in LoanIds, <1>1, <1>2, <1>3, <1>4, <1>5, <1>6, <1>7, <1>l, HeadStep

(* abort of the youngest loan: every other index of the reader lies below  *)
(* it and stays behind the rewound head, which is not behind the cursor,   *)
(* so that a claim in flight is not misled.                                *)
LEMMA AbortRewindInd ==
    ASSUME "abort" \notin Ops, LoanInv, NEW l \in LoanIds, AbortRewind(l)
    PROVE  LoanInv'
<1> DEFINE r == loans[l].reader
           i == loans[l].index
<1>t. LoanTypeOK /\ LoanKnows(l)
    BY DEF LoanInv
<1>f. r \in ReaderIds /\ i \in Nat /\ claim_base[r] \in Nat
    BY <1>t, LoanFields
<1>v. write_idx' = write_idx /\ read_indices' = read_indices /\ write_idx \in Nat
    BY DEF AbortRewind, vars, fileVars, LoanInv, IndInv, TypeOK
<1>y. Youngest(l)
    BY DEF AbortRewind, MayAbort
<1>l. /\ loans'[l].pc = "abortResolve" /\ loans'[l].reader = r
      /\ loans[l].pc = "open"
      /\ \A m \in LoanIds \ {l} : loans'[m] = loans[m]
    BY <1>t DEF AbortRewind, GoTo, At, LoanTypeOK
<1>b. /\ claim_base'[r] = i
      /\ \A s \in ReaderIds \ {r} : claim_base'[s] = claim_base[s]
    BY <1>t, <1>f, <1>l DEF AbortRewind, LoanTypeOK, Rewound, PipelineHead,
       Smaller, LoanKnows, Unresolved
<1>1. LoanTypeOK'
    BY <1>t, <1>f DEF AbortRewind, GoTo, LoanTypeOK, Rewound, PipelineHead, Smaller
<1>2. LoanPinned'
    BY <1>l, <1>v DEF LoanInv, LoanPinned, Unresolved
<1>3. LentOnce'
    BY <1>l DEF LoanInv, LentOnce, Unresolved
<1>4. LoanKnows(l)'
    BY <1>l, <1>t DEF LoanKnows, HoldsGate, Unresolved
<1>5. ASSUME NEW m \in LoanIds \ {l} PROVE LoanKnows(m)'
  <2>k. LoanKnows(m)
      BY DEF LoanInv
  <2>f. loans[m].reader \in ReaderIds /\ claim_base[loans[m].reader] \in Nat
      BY <1>t, LoanFields
  <2>1. CASE loans[m].reader # r
      BY <2>1, <2>f, <1>b, <1>l, <1>v, KnowsFrame
  <2>2. CASE loans[m].reader = r /\ Unresolved(m)
    <3>1. loans[m].index < i
        BY <2>2, <1>y DEF Youngest
    <3> QED
        BY <3>1, <2>2, <2>k, <1>l, <1>b, <1>v DEF LoanKnows, HoldsGate, Unresolved, AtCursor
  <2>3. CASE loans[m].reader = r /\ ~Unresolved(m)
    <3>1. /\ loans[m].cursor \in Nat /\ loans[m].base \in Nat
          /\ read_indices[r] \in Nat
        BY <1>t, <1>f DEF LoanTypeOK, LoanInv, IndInv, TypeOK
    <3>2. read_indices[r] <= i
        BY <1>l DEF LoanInv, LoanPinned, Unresolved
    <3>3. read_indices[r] <= Larger(i, loans[m].cursor)
        BY <3>1, <3>2, <1>f DEF Larger
    <3> QED
        BY <3>3, <2>3, <2>k, <1>l, <1>b, <1>v DEF LoanKnows, HoldsGate, Unresolved, AtCursor
  <2> QED
      BY <2>1, <2>2, <2>3
<1>6. HoldsGate(l) /\ HoldsGate(l)'
    BY <1>l DEF HoldsGate
<1>7. UNCHANGED vars
    BY DEF AbortRewind
<1> QED
    BY ONLY LoanInv, l \in LoanIds, <1>1, <1>2, <1>3, <1>4, <1>5, <1>6, <1>7, <1>l, HeadStep

-----------------------------------------------------------------------------
(* The ring does not look at the gate outside try_pop.                     *)
LEMMA GateCountInd ==
    ASSUME IndInv, loan_depth' \in [ReaderIds -> Nat],
           UNCHANGED <<fileVars, producerVars, readerVars, ghostVars>>
    PROVE  IndInv'
<1> USE DEF readerVars, ghostVars
<1>0. 0 \in ReaderIds
    BY Sizes
<1>1. TypeOK'
    BY DEF IndInv, TypeOK, fileVars, producerVars
<1>2. ReaderKnows(0)'
    BY <1>0 DEF IndInv, ReaderKnows, fileVars
<1>3. \A s \in ReaderIds \ {0} : SameLocals(s)
    BY DEF SameLocals
<1>4. UNCHANGED <<fileVars, producerVars, log>>
    OBVIOUS
<1>5. crashes <= crashes'
    BY DEF IndInv, TypeOK
<1> QED
    BY ONLY IndInv, <1>0, <1>1, <1>2, <1>3, <1>4, <1>5, QuietReaderStep

(* What the other loans know when only the gates move.                     *)
LEMMA GateStep ==
    ASSUME LoanInv, NEW l \in LoanIds,
           UNCHANGED <<fileVars, producerVars, readerVars, ghostVars, claim_base>>,
           loan_depth' \in [ReaderIds -> Nat],
           LoanTypeOK',
           \A m \in LoanIds \ {l} : loans'[m] = loans[m],
           ~Unresolved(l)', LoanKnows(l)', GateGuardsLoans'
    PROVE  LoanInv'
<1>v. /\ write_idx' = write_idx /\ read_indices' = read_indices
      /\ rpc' = rpc /\ peeked' = peeked /\ claim_base' = claim_base
    BY DEF fileVars, readerVars
<1>1. IndInv'
    BY GateCountInd DEF LoanInv
<1>2. NothingPeeked'
    BY <1>v DEF LoanInv, NothingPeeked
<1>3. ASSUME NEW m \in LoanIds, Unresolved(m)'
      PROVE  m \in LoanIds \ {l} /\ loans'[m] = loans[m] /\ Unresolved(m)
    BY <1>3 DEF Unresolved
<1>4. LoanPinned'
    BY <1>3, <1>v DEF LoanInv, LoanPinned
<1>5. LentOnce'
    BY <1>3 DEF LoanInv, LentOnce
<1>6. ASSUME NEW m \in LoanIds \ {l} PROVE LoanKnows(m)'
  <2>1. write_idx \in Nat /\ claim_base[loans[m].reader] \in Nat
      BY LoanFields DEF LoanInv, IndInv, TypeOK
  <2> QED
      BY <2>1, <1>v, KnowsFrame
<1> QED
    BY <1>1, <1>2, <1>4, <1>5, <1>6 DEF LoanInv

(* A claim or a loan ends: one holder less, and one unit of the gate.      *)
LEMMA GateLoweredInd ==
    ASSUME LoanInv, NEW l \in LoanIds,
           \/ ClaimEmpty(l) \/ CommitResolve(l) \/ AbortResolve(l) \/ DropResolve(l)
    PROVE  LoanInv'
<1> USE DEF ClaimEmpty, CommitResolve, AbortResolve, DropResolve, Resolve, At, GoTo
<1>t. LoanTypeOK
    BY DEF LoanInv
<1>p. PICK r \in ReaderIds : r = loans[l].reader
    BY <1>t, LoanFields
<1>u. UNCHANGED <<fileVars, producerVars, readerVars, ghostVars, claim_base>>
    OBVIOUS
<1>h. HoldsGate(l)
    BY DEF HoldsGate
<1>l. /\ loans'[l].pc \in {"none", "done"}
      /\ \A m \in LoanIds \ {l} : loans'[m] = loans[m]
    BY <1>t, NoLoanFields DEF LoanTypeOK
<1>1. LoanTypeOK'
  <2>1. CASE loans' = [loans EXCEPT ![l] = NoLoan]
      BY <2>1, <1>t, NoLoanFields DEF LoanTypeOK
  <2>2. CASE loans' = [loans EXCEPT ![l].pc = "done"]
      BY <2>2, <1>t DEF LoanTypeOK
  <2> QED
      BY <2>1, <2>2
<1>c. /\ \A s \in ReaderIds : loan_depth[s] = Cardinality(Holders(s))
      /\ \A s \in ReaderIds : loan_depth[s] \in Nat
      /\ loan_depth \in [ReaderIds -> Nat]
    BY DEF LoanInv, GateGuardsLoans, IndInv, TypeOK
<1>d. loan_depth' = [loan_depth EXCEPT ![r] = loan_depth[r] - 1]
    BY <1>p DEF LowerGate
<1>r. Holders(r)' = Holders(r) \ {l} /\ l \in Holders(r)
    BY <1>p, <1>h, <1>l DEF Holders, HoldsGate
<1>s. ASSUME NEW s \in ReaderIds \ {r} PROVE Holders(s)' = Holders(s)
    BY <1>p, <1>h, <1>l DEF Holders, HoldsGate
<1>n. /\ Cardinality(Holders(r)') = Cardinality(Holders(r)) - 1
      /\ Cardinality(Holders(r)') \in Nat
    BY <1>r, HoldersFinite, FS_RemoveElement, FS_CardinalityType
<1>2. loan_depth' \in [ReaderIds -> Nat]
    BY <1>c, <1>d, <1>n
<1>3. GateGuardsLoans'
  <2> SUFFICES ASSUME NEW s \in ReaderIds
               PROVE  /\ loan_depth'[s] = Cardinality(Holders(s)')
                      /\ Holders(s)' # {} => rpc[s] \notin {"popCursor", "popRead"}
      BY DEF GateGuardsLoans, readerVars
  <2>1. CASE s = r
      BY <2>1, <1>c, <1>d, <1>n, <1>r DEF LoanInv, GateGuardsLoans
  <2>2. CASE s # r
      BY <2>2, <1>c, <1>d, <1>s DEF LoanInv, GateGuardsLoans
  <2> QED
      BY <2>1, <2>2
<1>4. ~Unresolved(l)' /\ LoanKnows(l)'
    BY <1>l DEF Unresolved, LoanKnows, HoldsGate
<1> QED
    BY ONLY LoanInv, l \in LoanIds, <1>u, <1>l, <1>1, <1>2, <1>3, <1>4, GateStep

(* claim begins: one holder more.                                          *)
LEMMA ClaimRaiseGateInd ==
    ASSUME LoanInv, NEW l \in LoanIds, NEW r \in ReaderIds, ClaimRaiseGate(l, r)
    PROVE  LoanInv'
<1> USE DEF ClaimRaiseGate
<1>t. LoanTypeOK /\ r \in Participants
    BY Sizes DEF LoanInv
<1>u. UNCHANGED <<fileVars, producerVars, readerVars, ghostVars, claim_base>>
    OBVIOUS
<1>l. /\ loans'[l].pc = "claimW" /\ loans'[l].reader = r
      /\ \A m \in LoanIds \ {l} : loans'[m] = loans[m]
    BY <1>t DEF LoanTypeOK
<1>1. LoanTypeOK'
    BY <1>t DEF LoanTypeOK
<1>c. /\ \A s \in ReaderIds : loan_depth[s] = Cardinality(Holders(s))
      /\ loan_depth \in [ReaderIds -> Nat]
    BY DEF LoanInv, GateGuardsLoans, IndInv, TypeOK
<1>r. Holders(r)' = Holders(r) \union {l} /\ l \notin Holders(r)
    BY <1>l DEF Holders, HoldsGate
<1>s. ASSUME NEW s \in ReaderIds \ {r} PROVE Holders(s)' = Holders(s)
    BY <1>l DEF Holders, HoldsGate
<1>n. Cardinality(Holders(r)') = Cardinality(Holders(r)) + 1
    BY <1>r, HoldersFinite, FS_AddElement
<1>2. loan_depth' \in [ReaderIds -> Nat]
    BY <1>c
<1>3. GateGuardsLoans'
  <2> SUFFICES ASSUME NEW s \in ReaderIds
               PROVE  /\ loan_depth'[s] = Cardinality(Holders(s)')
                      /\ Holders(s)' # {} => rpc[s] \notin {"popCursor", "popRead"}
      BY DEF GateGuardsLoans, readerVars
  <2>1. CASE s = r
      BY <2>1, <1>c, <1>n
  <2>2. CASE s # r
      BY <2>2, <1>c, <1>s DEF LoanInv, GateGuardsLoans
  <2> QED
      BY <2>1, <2>2
<1>4. ~Unresolved(l)' /\ LoanKnows(l)'
    BY <1>l, <1>t DEF Unresolved, LoanKnows, HoldsGate
<1> QED
    BY ONLY LoanInv, l \in LoanIds, <1>u, <1>l, <1>1, <1>2, <1>3, <1>4, GateStep

-----------------------------------------------------------------------------
(* The cursor store of a commit or a drop.  The loan is at the cursor, and *)
(* since no message is lent twice every other open loan lies past it; the  *)
(* head lies past it too, so a claim in flight is not overtaken.           *)
LEMMA StoreCursorInd ==
    ASSUME LoanInv, NEW l \in LoanIds, CommitStore(l) \/ DropStore(l)
    PROVE  LoanInv'
<1> USE DEF CommitStore, DropStore, StoreCursor, At, GoTo
<1>t. LoanTypeOK /\ LoanKnows(l) /\ LentOnce /\ LoanPinned
    BY DEF LoanInv
<1>p. PICK r \in ReaderIds, i \in Nat : r = loans[l].reader /\ i = loans[l].index
    BY <1>t, LoanFields
<1>o. Unresolved(l) /\ HoldsGate(l)
    BY DEF Unresolved, HoldsGate
<1>i. /\ i = read_indices[r] /\ i < write_idx /\ i < claim_base[r]
      /\ r \in Participants
    BY <1>t, <1>p, <1>o DEF LoanKnows, LoanPinned, AtCursor
<1>f. /\ write_idx \in Nat /\ read_indices \in [ReaderIds -> Nat]
      /\ claim_base \in [ReaderIds -> Nat]
    BY DEF LoanInv, IndInv, TypeOK, LoanTypeOK
<1>q. rpc[r] = "idle" /\ peeked[r] = {}
  <2>1. rpc[r] \in {"idle", "popCursor", "popRead", "peekCursor"}
      BY DEF LoanInv, IndInv, TypeOK
  <2>2. rpc[r] \notin {"popCursor", "popRead"}
      BY <1>o, <1>p, GateBlocksPop
  <2> QED
      BY <2>1, <2>2 DEF LoanInv, NothingPeeked
<1>r. read_indices' = [read_indices EXCEPT ![r] = read_indices[r] + 1]
    BY <1>p, <1>i
<1>u. /\ UNCHANGED <<write_idx, total_written, slots, producerVars, log, crashes>>
      /\ UNCHANGED <<loan_depth, readerVars, claim_base>>
    OBVIOUS
<1>v. rpc' = rpc /\ peeked' = peeked
    BY DEF readerVars
<1>l. /\ loans'[l].pc \in {"commitResolve", "dropResolve"}
      /\ loans'[l].reader = r /\ loans'[l].index = i
      /\ \A m \in LoanIds \ {l} : loans'[m] = loans[m]
    BY <1>t, <1>p DEF LoanTypeOK
<1>1. IndInv'
  <2>1. slots[slot_ptr(i)] \in Record
      BY SlotInRange DEF LoanInv, IndInv, TypeOK
  <2>2. TypeOK'
    <3>1. TypeOK
        BY DEF LoanInv, IndInv
    <3>2. out' \in [ReaderIds -> Record] /\ read_indices' \in [ReaderIds -> Nat]
      <4>1. out' = [out EXCEPT ![r] = slots[slot_ptr(i)]]
          BY <1>p
      <4> QED
          BY ONLY <4>1, <3>1, <2>1, <1>r DEF TypeOK
    <3> QED
        BY ONLY <3>1, <3>2, <1>u DEF TypeOK, producerVars, readerVars
  <2>3. ReaderKnows(r)'
      BY <1>q, <1>v DEF ReaderKnows
  <2>4. \A s \in ReaderIds \ {r} : SameLocals(s)
      BY DEF SameLocals, readerVars
  <2>5. IndInv /\ read_indices[r] < write_idx
      BY <1>i DEF LoanInv
  <2> QED
      BY ONLY <2>2, <2>3, <2>4, <2>5, <1>i, <1>r, <1>u, CursorStep
<1>2. LoanTypeOK'
    BY <1>t DEF LoanTypeOK
<1>3. NothingPeeked'
    BY <1>v DEF LoanInv, NothingPeeked
<1>m. ASSUME NEW m \in LoanIds \ {l}, Unresolved(m), loans[m].reader = r
      PROVE  loans[m].index \in Nat /\ loans[m].index > read_indices[r]
  <2>1. loans[m].index # i /\ read_indices[r] <= loans[m].index
      BY <1>m, <1>t, <1>o, <1>p DEF LentOnce, LoanPinned
  <2>2. loans[m].index \in Nat
      BY <1>t, LoanFields
  <2> QED
      BY <2>1, <2>2, <1>i
<1>4. LoanPinned'
  <2> SUFFICES ASSUME NEW m \in LoanIds, Unresolved(m)'
               PROVE  /\ read_indices'[loans'[m].reader] <= loans'[m].index
                      /\ loans'[m].index < write_idx'
      BY DEF LoanPinned
  <2>1. m \in LoanIds \ {l} /\ loans'[m] = loans[m] /\ Unresolved(m)
      BY <1>l DEF Unresolved
  <2>2. /\ read_indices[loans[m].reader] <= loans[m].index
        /\ loans[m].index < write_idx /\ loans[m].reader \in ReaderIds
      BY <2>1, <1>t, LoanFields DEF LoanPinned
  <2>3. CASE loans[m].reader = r
      BY <2>1, <2>2, <2>3, <1>m, <1>r, <1>f
  <2>4. CASE loans[m].reader # r
      BY <2>1, <2>2, <2>4, <1>r, <1>f
  <2> QED
      BY <2>3, <2>4
<1>5. LentOnce'
    BY <1>t, <1>l DEF LentOnce, Unresolved
<1>6. GateGuardsLoans'
  <2>1. \A m \in LoanIds : /\ HoldsGate(m)' <=> HoldsGate(m)
                           /\ HoldsGate(m) => loans'[m].reader = loans[m].reader
      BY <1>l, <1>p, <1>o DEF HoldsGate
  <2>2. UNCHANGED <<loan_depth, rpc>>
      BY <1>u, <1>v
  <2> QED
      BY ONLY LoanInv, <2>1, <2>2, GatesFrame DEF HoldsGate
<1>7. LoanKnows(l)'
    BY <1>l, <1>r, <1>f, <1>i DEF LoanKnows, HoldsGate, Unresolved
<1>8. ASSUME NEW m \in LoanIds \ {l} PROVE LoanKnows(m)'
  <2>k. LoanKnows(m)
      BY DEF LoanInv
  <2>f. /\ loans[m].reader \in ReaderIds /\ loans[m].index \in Nat
        /\ loans[m].cursor \in Nat
        /\ loans'[m] = loans[m] /\ claim_base' = claim_base
        /\ write_idx' = write_idx
      BY <1>t, <1>l, LoanFields
  <2>1. CASE loans[m].reader # r
    <3>1. /\ read_indices'[loans[m].reader] = read_indices[loans[m].reader]
          /\ claim_base[loans[m].reader] \in Nat
        BY <2>1, <2>f, <1>r, <1>f
    <3> QED
        BY <3>1, <2>f, <1>f, KnowsFrame
  <2>2. CASE loans[m].reader = r
    <3>1. read_indices'[r] = read_indices[r] + 1 /\ read_indices[r] \in Nat
          /\ claim_base[r] \in Nat
        BY <1>r, <1>f
    <3>2. loans[m].pc \notin {"commitStore", "dropStore"}
        BY <2>2, <2>k, <1>m, <3>1 DEF LoanKnows, AtCursor, Unresolved
    <3> QED
        BY <3>1, <3>2, <2>2, <2>k, <2>f, <1>i
           DEF LoanKnows, HoldsGate, Unresolved, Larger
  <2> QED
      BY <2>1, <2>2
<1> QED
    BY <1>1, <1>2, <1>3, <1>4, <1>5, <1>6, <1>7, <1>8 DEF LoanInv

-----------------------------------------------------------------------------
(* Steps of the ring under the loans: the producer's, and those of try_pop *)
(* on a reader whose gate is down.                                         *)

(* A step of the ring that leaves the cursors of all readers with loans    *)
(* alone, and starts no try_pop on them.                                   *)
LEMMA RingFrame ==
    ASSUME LoanInv, IndInv', UNCHANGED <<loan_depth, loanVars>>,
           write_idx <= write_idx', NothingPeeked',
           \A m \in LoanIds : HoldsGate(m) =>
               /\ read_indices'[loans[m].reader] = read_indices[loans[m].reader]
               /\ rpc'[loans[m].reader] \notin {"popCursor", "popRead"}
    PROVE  LoanInv'
<1>v. loans' = loans /\ claim_base' = claim_base /\ loan_depth' = loan_depth
    BY DEF loanVars
<1>f. write_idx \in Nat /\ write_idx' \in Nat
    BY DEF LoanInv, IndInv, TypeOK
<1>1. LoanTypeOK' /\ LentOnce'
    BY <1>v DEF LoanInv, LoanTypeOK, LentOnce, Unresolved
<1>2. LoanPinned'
  <2> SUFFICES ASSUME NEW m \in LoanIds, Unresolved(m)
               PROVE  /\ read_indices'[loans[m].reader] <= loans[m].index
                      /\ loans[m].index < write_idx'
      BY <1>v DEF LoanPinned, Unresolved
  <2>1. HoldsGate(m)
      BY DEF HoldsGate, Unresolved
  <2>2. loans[m].index \in Nat
      BY LoanFields DEF LoanInv
  <2> QED
      BY <2>1, <2>2, <1>f DEF LoanInv, LoanPinned
<1>3. GateGuardsLoans'
  <2>1. \A r \in ReaderIds : Holders(r)' = Holders(r)
      BY <1>v DEF Holders, HoldsGate
  <2>2. ASSUME NEW r \in ReaderIds, Holders(r) # {}
        PROVE  rpc'[r] \notin {"popCursor", "popRead"}
      BY <2>2 DEF Holders
  <2> QED
      BY <2>1, <2>2, <1>v DEF LoanInv, GateGuardsLoans
<1>4. ASSUME NEW m \in LoanIds PROVE LoanKnows(m)'
  <2>1. CASE HoldsGate(m)
    <3>1. claim_base'[loans[m].reader] \in Nat
          /\ claim_base[loans[m].reader] <= claim_base'[loans[m].reader]
          /\ loans'[m] = loans[m]
        BY <1>v, LoanFields DEF LoanInv
    <3> QED
        BY <2>1, <3>1, <1>f, KnowsFrame
  <2>2. CASE ~HoldsGate(m)
      BY <2>2, <1>v DEF LoanKnows, HoldsGate, Unresolved
  <2> QED
      BY <2>1, <2>2
<1> QED
    BY <1>1, <1>2, <1>3, <1>4 DEF LoanInv

LEMMA RingStepInd ==
    ASSUME LoanInv, RingStep
    PROVE  LoanInv'
<1>u. UNCHANGED loanVars
    BY DEF RingStep
<1>t. /\ write_idx \in Nat /\ read_indices \in [ReaderIds -> Nat]
      /\ rpc \in [ReaderIds -> {"idle", "popCursor", "popRead", "peekCursor"}]
      /\ peeked \in [ReaderIds -> SUBSET Nat]
    BY DEF LoanInv, IndInv, TypeOK
<1>g. ASSUME NEW m \in LoanIds, HoldsGate(m)
      PROVE  rpc[loans[m].reader] \notin {"popCursor", "popRead"}
    BY <1>g, GateBlocksPop
<1>1. IndInv'
  <2>1. Next
      BY DEF RingStep, Next
  <2> QED
      BY <2>1, NextIndInv DEF LoanInv
<1>2. CASE ProducerStep \/ ProducerCrash
  <2> USE DEF ProducerStep, ProducerCrash, PushLoadWriteIdx, PushScanCursor,
          PushBackpressure, PushRoom, PushWriteWord, PushPublish, PushBumpTotal,
          fileVars, readerVars
  <2>1. /\ UNCHANGED <<loan_depth, loanVars>> /\ read_indices' = read_indices
        /\ rpc' = rpc /\ peeked' = peeked
      BY <1>2, <1>u
  <2>2. write_idx <= write_idx'
      BY <1>2, <1>t DEF LoanInv, IndInv, ProducerKnows
  <2>3. NothingPeeked'
      BY <2>1 DEF LoanInv, NothingPeeked
  <2> QED
      BY ONLY LoanInv, <1>1, <1>g, <2>1, <2>2, <2>3, RingFrame
<1>3. ASSUME NEW r \in ReaderIds, PopStep(r) PROVE LoanInv'
  <2> USE DEF PopStep, PopLoadWriteIdx, LoadWriteIdx, PopEmpty, PopLoadCursor,
          PopReadWord, PopAdvance, ReaderReturns, fileVars
  <2>1. UNCHANGED <<loan_depth, loanVars>>
      BY <1>3, <1>u
  <2>2. write_idx <= write_idx'
      BY <1>3, <1>t
  <2>3. NothingPeeked'
      BY <1>3, <1>t DEF LoanInv, NothingPeeked
  <2>4. \A s \in ReaderIds \ {r} : read_indices'[s] = read_indices[s] /\ rpc'[s] = rpc[s]
      BY <1>3, <1>t
  <2>5. ASSUME NEW m \in LoanIds, HoldsGate(m) PROVE loans[m].reader # r
    <3>1. CASE loan_depth[r] = 0
      <4>1. Holders(r) = {}
          BY <3>1, GateDown
      <4> QED
          BY <4>1, <2>5 DEF Holders
    <3>2. CASE rpc[r] \in {"popCursor", "popRead"}
        BY <3>2, <2>5, <1>g
    <3> QED
        BY <3>1, <3>2, <1>3
  <2>6. \A m \in LoanIds : loans[m].reader \in ReaderIds
      BY LoanFields DEF LoanInv
  <2> QED
      BY ONLY LoanInv, <1>1, <1>g, <2>1, <2>2, <2>3, <2>4, <2>5, <2>6, RingFrame
<1> QED
    BY <1>2, <1>3 DEF RingStep

(* The reader's process dies with all its loans; the gate it leaves behind *)
(* is down, the file and the other readers are as they were.               *)
LEMMA HandleCrashInd ==
    ASSUME LoanInv, NEW r \in ReaderIds, HandleCrash(r)
    PROVE  LoanInv'
<1> USE DEF HandleCrash, ReaderReturns
<1>t. LoanTypeOK /\ TypeOK
    BY DEF LoanInv, IndInv
<1>1. IndInv'
  <2>1. TypeOK'
      BY <1>t, ZeroIsRecord DEF TypeOK, fileVars, producerVars
  <2>2. ReaderKnows(r)'
      BY <1>t DEF LoanInv, NothingPeeked, TypeOK, ReaderKnows
  <2>3. \A s \in ReaderIds \ {r} : SameLocals(s)
      BY <1>t DEF TypeOK, SameLocals
  <2>4. UNCHANGED <<fileVars, producerVars, log>> /\ IndInv
      BY DEF LoanInv
  <2>5. crashes <= crashes'
      BY <1>t DEF TypeOK
  <2> QED
      BY ONLY r \in ReaderIds, <2>1, <2>2, <2>3, <2>4, <2>5, QuietReaderStep
<1>v. /\ write_idx' = write_idx /\ read_indices' = read_indices
      /\ write_idx \in Nat /\ peeked' = peeked
    BY <1>t DEF fileVars, TypeOK
<1>l. \A m \in LoanIds : /\ loans[m].reader = r => loans'[m].pc = "none"
                         /\ loans[m].reader # r => loans'[m] = loans[m]
    BY NoLoanFields
<1>2. LoanTypeOK'
    BY <1>t, NoLoanFields DEF LoanTypeOK
<1>3. NothingPeeked'
    BY <1>t, <1>v DEF LoanInv, NothingPeeked, TypeOK
<1>4. LoanPinned' /\ LentOnce'
  <2>1. ASSUME NEW m \in LoanIds, Unresolved(m)'
        PROVE  Unresolved(m) /\ loans'[m] = loans[m]
      BY <2>1, <1>l DEF Unresolved
  <2> QED
      BY <2>1, <1>v DEF LoanInv, LoanPinned, LentOnce
<1>5. GateGuardsLoans'
  <2>1. Holders(r)' = {}
      BY <1>l DEF Holders, HoldsGate
  <2>2. ASSUME NEW s \in ReaderIds \ {r} PROVE Holders(s)' = Holders(s)
      BY <1>l DEF Holders, HoldsGate
  <2>3. /\ loan_depth'[r] = 0
        /\ \A s \in ReaderIds \ {r} : loan_depth'[s] = loan_depth[s] /\ rpc'[s] = rpc[s]
      BY <1>t DEF TypeOK
  <2> QED
      BY <2>1, <2>2, <2>3, FS_EmptySet DEF LoanInv, GateGuardsLoans
<1>6. ASSUME NEW m \in LoanIds PROVE LoanKnows(m)'
  <2>1. CASE loans[m].reader = r
      BY <2>1, <1>l DEF LoanKnows, HoldsGate, Unresolved
  <2>2. CASE loans[m].reader # r
    <3>1. loans[m].reader \in ReaderIds /\ claim_base[loans[m].reader] \in Nat
        BY <1>t, LoanFields
    <3>2. claim_base'[loans[m].reader] = claim_base[loans[m].reader]
        BY <2>2, <3>1, <1>t DEF LoanTypeOK
    <3> QED
        BY <2>2, <3>1, <3>2, <1>l, <1>v, KnowsFrame
  <2> QED
      BY <2>1, <2>2
<1> QED
    BY <1>1, <1>2, <1>3, <1>4, <1>5, <1>6 DEF LoanInv

-----------------------------------------------------------------------------
LEMMA LoanInit == LInit => LoanInv
<1> SUFFICES ASSUME LInit PROVE LoanInv
    OBVIOUS
<1> USE DEF LInit
<1>1. IndInv
    BY InitIndInv
<1>2. LoanTypeOK
    BY NoLoanFields DEF LoanTypeOK
<1>l. \A m \in LoanIds : loans[m].pc = "none"
    BY NoLoanFields
<1>3. NothingPeeked
    BY DEF Init, NothingPeeked
<1>4. LoanPinned /\ LentOnce
    BY <1>l DEF LoanPinned, LentOnce, Unresolved
<1>5. GateGuardsLoans
  <2>1. \A r \in ReaderIds : Holders(r) = {} /\ loan_depth[r] = 0
      BY <1>l DEF Holders, HoldsGate, Init
  <2> QED
      BY <2>1, FS_EmptySet DEF GateGuardsLoans
<1>6. \A m \in LoanIds : LoanKnows(m)
    BY <1>l DEF LoanKnows, HoldsGate, Unresolved
<1> QED
    BY <1>1, <1>2, <1>3, <1>4, <1>5, <1>6 DEF LoanInv

LEMMA LoanNext ==
    ASSUME "abort" \notin Ops
    PROVE  LoanInv /\ [LNext]_lvars => LoanInv'
<1> SUFFICES ASSUME LoanInv, [LNext]_lvars PROVE LoanInv'
    OBVIOUS
<1>1. CASE RingStep
    BY <1>1, RingStepInd
<1>2. ASSUME NEW l \in LoanIds, NEW r \in ReaderIds, ClaimRaiseGate(l, r)
      PROVE  LoanInv'
    BY <1>2, ClaimRaiseGateInd
<1>3. ASSUME NEW l \in LoanIds, ClaimStep(l) PROVE LoanInv'
    BY <1>3, LooksInd, GateLoweredInd, ClaimTakeInd DEF ClaimStep
<1>4. ASSUME NEW l \in LoanIds, ResolveStep(l) PROVE LoanInv'
    BY <1>4, LooksInd, GateLoweredInd, StoreCursorInd, AbortRewindInd
       DEF ResolveStep
<1>5. ASSUME NEW r \in ReaderIds, HandleCrash(r) PROVE LoanInv'
    BY <1>5, HandleCrashInd
<1>6. CASE UNCHANGED lvars
  <2>1. /\ UNCHANGED vars /\ UNCHANGED <<loan_depth, loanVars>>
        /\ write_idx' = write_idx /\ read_indices' = read_indices
        /\ rpc' = rpc /\ peeked' = peeked
      BY <1>6 DEF lvars, vars, fileVars, readerVars
  <2>2. IndInv' /\ write_idx \in Nat
      BY <2>1, NextIndInv DEF LoanInv, IndInv, TypeOK
  <2>3. NothingPeeked'
      BY <2>1 DEF LoanInv, NothingPeeked
  <2>4. write_idx <= write_idx'
      BY <2>1, <2>2
  <2> QED
      BY ONLY LoanInv, <2>1, <2>2, <2>3, <2>4, GateBlocksPop, RingFrame
<1> QED
    BY <1>1, <1>2, <1>3, <1>4, <1>5, <1>6 DEF LNext

(* What the pipeline of claims and loans keeps true in every state, for    *)
(* any number of threads claiming, committing, dropping, aborting          *)
(* youngest first, popping, pushing and crashing.                          *)
THEOREM LoanInvHolds ==
    ASSUME "abort" \notin Ops
    PROVE  LSpec => []LoanInv
<1>1. LoanInv /\ [LNext]_lvars => LoanInv'
    BY LoanNext
<1> QED
    BY <1>1, LoanInit, PTL DEF LSpec

(* The pinning invariant of loan.rs:56: a loan's message is published and  *)
(* its reader's cursor does not pass it.                                   *)
THEOREM LoansStayPinned ==
    ASSUME "abort" \notin Ops
    PROVE  LSpec => []LoanPinned
<1>1. LoanInv => LoanPinned
    BY DEF LoanInv
<1> QED
    BY <1>1, LoanInvHolds, PTL

(* Racing claims never lend the same message twice: the compare-exchange   *)
(* on the pipeline head decides (loan.rs:155-194).                         *)
THEOREM NeverLentTwice ==
    ASSUME "abort" \notin Ops
    PROVE  LSpec => []LentOnce
<1>1. LoanInv => LentOnce
    BY DEF LoanInv
<1> QED
    BY <1>1, LoanInvHolds, PTL

(* The gate counts the open loans and claims exactly, and no try_pop of    *)
(* that reader is past its gate check while it is up.                      *)
THEOREM GateExact ==
    ASSUME "abort" \notin Ops
    PROVE  LSpec => []GateGuardsLoans
<1>1. LoanInv => GateGuardsLoans
    BY DEF LoanInv
<1> QED
    BY <1>1, LoanInvHolds, PTL

(* A reference handed out by claim views its own message, and the producer *)
(* is not writing that slot (loan.rs:61-62).                               *)
THEOREM LoanViewStable ==
    ASSUME "abort" \notin Ops
    PROVE  LSpec => []LoanViewsItsMessage
<1>1. LoanInv => LoanViewsItsMessage
  <2> SUFFICES ASSUME LoanInv, NEW l \in LoanIds, Unresolved(l)
               PROVE  /\ slots[slot_ptr(loans[l].index)] = log[loans[l].index + 1]
                      /\ ppc = "write" => slot_ptr(loans[l].index) # slot_ptr(pw)
      BY DEF LoanViewsItsMessage
  <2> DEFINE r == loans[l].reader
             i == loans[l].index
  <2>1. /\ r \in Participants /\ i \in Nat /\ r \in ReaderIds
        /\ write_idx \in Nat /\ read_indices[r] \in Nat
      BY LoanFields DEF LoanInv, LoanKnows, HoldsGate, Unresolved, IndInv, TypeOK
  <2>2. i \in read_indices[r]..(write_idx - 1)
      BY <2>1 DEF LoanInv, LoanPinned
  <2>3. slots[slot_ptr(i)] = log[i + 1]
      BY <2>1, <2>2 DEF LoanInv, IndInv, NoOverwriteBeforeSlowestRead
  <2>4. ASSUME ppc = "write" PROVE slot_ptr(i) # slot_ptr(pw)
    <3>1. pw = write_idx /\ write_idx - read_indices[r] < Capacity
        BY <2>1, <2>4 DEF LoanInv, IndInv, ProducerKnows
    <3> QED
        BY <3>1, <2>1, <2>2, RoomMissesUnread
  <2> QED
      BY <2>3, <2>4
<1> QED
    BY <1>1, LoanInvHolds, PTL

-----------------------------------------------------------------------------
(* Refinement: the cursor store of a commit or a drop hands over the next  *)
(* message of the stream, like the one of try_pop; claims, aborts and      *)
(* crashes of handles do not show in the stream.                           *)

LEMMA LoanConsumeRefines ==
    ASSUME LoanInv, NEW l \in LoanIds, CommitStore(l) \/ DropStore(l)
    PROVE  Abs!Next
<1> USE DEF CommitStore, DropStore, StoreCursor, At
<1> DEFINE cur == [q \in Participants |-> read_indices[q]]
           got == [q \in Participants |-> out[q]]
<1>p. PICK r \in ReaderIds, i \in Nat : r = loans[l].reader /\ i = loans[l].index
    BY LoanFields DEF LoanInv
<1>t. TypeOK /\ LoanKnows(l) /\ LogMatchesIndex
    BY DEF LoanInv, IndInv
<1>1. /\ r \in Participants /\ read_indices[r] = i /\ i < write_idx
      /\ Len(log) = write_idx
    BY <1>p, <1>t DEF LoanKnows, HoldsGate, AtCursor, Unresolved, LoanInv,
       LoanPinned, LogMatchesIndex
<1>2. slots[slot_ptr(i)] = log[i + 1]
  <2>1. i \in read_indices[r]..(write_idx - 1)
      BY <1>1, <1>t DEF TypeOK
  <2> QED
      BY <2>1, <1>1 DEF LoanInv, IndInv, NoOverwriteBeforeSlowestRead
<1>3. cur[r] = i /\ cur[r] < Len(log)
    BY <1>1
<1>4. cur' = [cur EXCEPT ![r] = @ + 1]
  <2>1. read_indices' = [read_indices EXCEPT ![r] = i + 1]
      BY <1>p
  <2> QED
      BY <2>1, <1>1, <1>3, <1>t, Sizes DEF TypeOK
<1>5. got' = [got EXCEPT ![r] = log[cur[r] + 1]]
  <2>1. out' = [out EXCEPT ![r] = log[i + 1]]
      BY <1>p, <1>2
  <2> QED
      BY <2>1, <1>1, <1>3, <1>t, Sizes DEF TypeOK
<1>6. log' = log
    OBVIOUS
<1>7. Abs!Consume(r)
    BY <1>3, <1>4, <1>5, <1>6 DEF Abs!Consume
<1> QED
    BY <1>7, <1>1 DEF Abs!Next

LEMMA LoanStepRefines ==
    LoanInv /\ [LNext]_lvars => [Abs!Next]_Abs!vars
<1> SUFFICES ASSUME LoanInv, [LNext]_lvars PROVE [Abs!Next]_Abs!vars
    OBVIOUS
<1>s. ASSUME UNCHANGED <<log, read_indices, out>> PROVE UNCHANGED Abs!vars
    BY <1>s DEF Abs!vars
<1> USE DEF vars, fileVars, ghostVars
<1>1. CASE RingStep
  <2>1. IndInv /\ Next
      BY <1>1 DEF LoanInv, RingStep, Next
  <2> QED
      BY <2>1, StepRefines
<1>2. ASSUME NEW l \in LoanIds, NEW r \in ReaderIds, ClaimRaiseGate(l, r)
      PROVE  [Abs!Next]_Abs!vars
    BY <1>2, <1>s DEF ClaimRaiseGate
<1>3. ASSUME NEW l \in LoanIds, ClaimStep(l) PROVE [Abs!Next]_Abs!vars
  <2>1. UNCHANGED <<log, read_indices, out>>
      BY <1>3 DEF ClaimStep, ClaimLoadWriteIdx, ClaimLoadCursor, ClaimLoadBase,
         ClaimEmpty, ClaimTake, ClaimRetry
  <2> QED
      BY <2>1, <1>s
<1>4. ASSUME NEW l \in LoanIds, ResolveStep(l) PROVE [Abs!Next]_Abs!vars
  <2>1. CASE CommitStore(l) \/ DropStore(l)
      BY <2>1, LoanConsumeRefines
  <2>2. CASE ~(CommitStore(l) \/ DropStore(l))
    <3>1. UNCHANGED <<log, read_indices, out>>
        BY <1>4, <2>2 DEF ResolveStep, CommitCheck, CommitResolve, DropDone,
           AbortRewind, AbortResolve, DropAtCursor, DropElsewhere, DropResolve,
           Resolve
    <3> QED
        BY <3>1, <1>s
  <2> QED
      BY <2>1, <2>2
<1>5. ASSUME NEW r \in ReaderIds, HandleCrash(r) PROVE [Abs!Next]_Abs!vars
    BY <1>5, <1>s DEF HandleCrash
<1>6. CASE UNCHANGED lvars
    BY <1>6, <1>s DEF lvars
<1> QED
    BY <1>1, <1>2, <1>3, <1>4, <1>5, <1>6 DEF LNext

(* The ring with zero-copy loans still implements the bounded broadcast    *)
(* log: every reader is handed the messages in order, each exactly once,   *)
(* whether it pops, commits or drops them.                                 *)
THEOREM LoansRefineBroadcast ==
    ASSUME "abort" \notin Ops
    PROVE  LSpec => ImplementsBroadcastLog
<1>1. LInit => Abs!Init
    BY Sizes DEF LInit, Init, Abs!Init
<1>2. LoanInv /\ [LNext]_lvars => [Abs!Next]_Abs!vars
    BY LoanStepRefines
<1> QED
    BY <1>1, <1>2, LoanInvHolds, PTL DEF LSpec, ImplementsBroadcastLog, Abs!Spec

-----------------------------------------------------------------------------
(* No message falls between the pipeline head and the loans, as long as    *)
(* loans are dropped at the cursor only.                                   *)

(* Loan l holds message i of reader r.                                     *)
Lends(l, r, i) == Unresolved(l) /\ loans[l].reader = r /\ loans[l].index = i

HeadCovers(r) ==
    /\ claim_base[r] <= write_idx
    /\ \A i \in read_indices[r]..(write_idx - 1) :
          claim_base[r] <= i \/ \E l \in LoanIds : Lends(l, r, i)

(* A step covers what it must if the head and the loans of r stay, and     *)
(* the only loan it may end is one the cursor passes.                      *)
LEMMA CoverFrame ==
    ASSUME LoanInv, LoanInv', NEW r \in Participants, HeadCovers(r),
           claim_base'[r] = claim_base[r],
           read_indices[r] <= read_indices'[r], write_idx <= write_idx',
           \A l \in LoanIds, i \in Nat :
               (Lends(l, r, i) /\ read_indices'[r] <= i) => Lends(l, r, i)'
    PROVE  HeadCovers(r)'
<1>1. /\ write_idx \in Nat /\ write_idx' \in Nat /\ claim_base[r] \in Nat
      /\ read_indices[r] \in Nat /\ read_indices'[r] \in Nat
    BY Sizes DEF LoanInv, IndInv, TypeOK, LoanTypeOK
<1>2. ASSUME NEW i \in read_indices'[r]..(write_idx' - 1)
      PROVE  claim_base'[r] <= i \/ \E l \in LoanIds : Lends(l, r, i)'
  <2>1. i \in Nat /\ read_indices'[r] <= i
      BY <1>1
  <2>2. CASE i >= write_idx
      BY <2>1, <2>2, <1>1 DEF HeadCovers
  <2>3. CASE i < write_idx
    <3>1. i \in read_indices[r]..(write_idx - 1)
        BY <2>1, <2>3, <1>1
    <3> QED
        BY <3>1, <2>1 DEF HeadCovers
  <2> QED
      BY <2>1, <2>2, <2>3, <1>1
<1>3. claim_base'[r] <= write_idx'
    BY <1>1 DEF HeadCovers
<1> HIDE DEF LoanInv
<1> QED
    BY ONLY <1>2, <1>3 DEF HeadCovers, Lends, Unresolved


(* claim takes the first message that is neither lent nor consumed.        *)
LEMMA TakeCovers ==
    ASSUME LoanInv, NEW l \in LoanIds, ClaimTake(l),
           NEW r \in Participants, r = loans[l].reader, HeadCovers(r)
    PROVE  HeadCovers(r)'
<1>t. LoanTypeOK /\ LoanKnows(l)
    BY DEF LoanInv
<1>p. PICK i \in Nat : i = loans[l].index
    BY <1>t, LoanFields
<1>f. /\ write_idx \in Nat /\ read_indices[r] \in Nat /\ claim_base[r] \in Nat
      /\ loans[l].cursor \in Nat /\ loans[l].w \in Nat /\ r \in ReaderIds
    BY <1>t, LoanFields, Sizes DEF LoanInv, IndInv, TypeOK
<1>v. write_idx' = write_idx /\ read_indices' = read_indices
    BY DEF ClaimTake, vars, fileVars
<1>h. /\ i < write_idx /\ read_indices[r] <= i
      /\ \A j \in read_indices[r]..(write_idx - 1) : claim_base[r] <= j => i <= j
    BY <1>t, <1>f, <1>p DEF ClaimTake, At, HeadUnmoved, PipelineHead, LoanKnows, Larger
<1>b. claim_base'[r] = i + 1
    BY <1>t, <1>f, <1>p DEF ClaimTake, LoanTypeOK, NextHead
<1>l. /\ Lends(l, r, i)'
      /\ \A m \in LoanIds, j \in Nat : Lends(m, r, j) => Lends(m, r, j)'
    BY <1>t, <1>p DEF ClaimTake, At, LoanTypeOK, NoLoan, Lends, Unresolved
<1>1. ASSUME NEW j \in read_indices[r]..(write_idx - 1)
      PROVE  i + 1 <= j \/ \E m \in LoanIds : Lends(m, r, j)'
  <2>j. j \in Nat
      BY <1>f
  <2>1. CASE claim_base[r] <= j
      BY <2>1, <2>j, <1>h, <1>l
  <2>2. CASE ~(claim_base[r] <= j)
      BY <2>2, <2>j, <1>l DEF HeadCovers
  <2> QED
      BY <2>1, <2>2
<1> QED
    BY <1>1, <1>f, <1>v, <1>b, <1>h DEF HeadCovers, Lends, Unresolved

(* abort gives its message back: the head returns to it.                   *)
LEMMA RewindCovers ==
    ASSUME LoanInv, NEW l \in LoanIds, AbortRewind(l),
           NEW r \in Participants, r = loans[l].reader, HeadCovers(r)
    PROVE  HeadCovers(r)'
<1>t. LoanTypeOK /\ LoanKnows(l)
    BY DEF LoanInv
<1>p. PICK i \in Nat : i = loans[l].index
    BY <1>t, LoanFields
<1>f. /\ write_idx \in Nat /\ read_indices[r] \in Nat /\ claim_base[r] \in Nat
      /\ r \in ReaderIds
    BY <1>t, LoanFields, Sizes DEF LoanInv, IndInv, TypeOK
<1>v. write_idx' = write_idx /\ read_indices' = read_indices
    BY DEF AbortRewind, vars, fileVars
<1>h. i < claim_base[r] /\ claim_base[r] <= write_idx
    BY <1>t, <1>p DEF AbortRewind, At, LoanKnows, Unresolved, HeadCovers
<1>b. claim_base'[r] = i
    BY <1>t, <1>f, <1>p, <1>h DEF AbortRewind, LoanTypeOK, Rewound, PipelineHead, Smaller
<1>l. \A m \in LoanIds, j \in Nat : (Lends(m, r, j) /\ j # i) => Lends(m, r, j)'
    BY <1>t, <1>p DEF AbortRewind, GoTo, LoanTypeOK, Lends, Unresolved
<1>1. ASSUME NEW j \in read_indices[r]..(write_idx - 1)
      PROVE  i <= j \/ \E m \in LoanIds : Lends(m, r, j)'
  <2>1. j \in Nat
      BY <1>f
  <2>2. CASE j < i
      BY <2>1, <2>2, <1>f, <1>h, <1>l DEF HeadCovers
  <2> QED
      BY <2>1, <2>2
<1> QED
    BY <1>1, <1>f, <1>v, <1>b, <1>h DEF HeadCovers, Lends, Unresolved


LEMMA CoverNext ==
    ASSUME "drop" \notin Ops, LoanInv, LoanInv', [LNext]_lvars,
           \A r \in Participants : HeadCovers(r), NEW r \in Participants
    PROVE  HeadCovers(r)'
<1>r. r \in ReaderIds /\ HeadCovers(r)
    BY Sizes
<1>t. LoanTypeOK /\ TypeOK
    BY DEF LoanInv, IndInv
<1>f. /\ write_idx \in Nat /\ read_indices \in [ReaderIds -> Nat]
      /\ claim_base \in [ReaderIds -> Nat]
    BY <1>t DEF TypeOK, LoanTypeOK
<1> DEFINE KeepsLoans == \A l \in LoanIds, i \in Nat :
              (Lends(l, r, i) /\ read_indices'[r] <= i) => Lends(l, r, i)'
<1>w. ASSUME KeepsLoans, claim_base'[r] = claim_base[r],
             read_indices[r] <= read_indices'[r], write_idx <= write_idx'
      PROVE  HeadCovers(r)'
    BY ONLY LoanInv, LoanInv', <1>r, r \in Participants, <1>w, CoverFrame
<1>1. ASSUME UNCHANGED loans, claim_base' = claim_base,
             read_indices[r] <= read_indices'[r], write_idx <= write_idx'
      PROVE  HeadCovers(r)'
  <2>1. KeepsLoans
      BY <1>1 DEF Lends, Unresolved
  <2> QED
      BY <2>1, <1>1, <1>w
<1>2. CASE RingStep
  <2> USE DEF RingStep, loanVars, ProducerStep, ProducerCrash, PushLoadWriteIdx,
          PushScanCursor, PushBackpressure, PushRoom, PushWriteWord, PushPublish,
          PushBumpTotal, fileVars
  <2>1. loans' = loans /\ claim_base' = claim_base
      BY <1>2
  <2>2. CASE ProducerStep \/ ProducerCrash
    <3>1. write_idx <= write_idx' /\ read_indices' = read_indices
        BY <2>2, <1>f DEF LoanInv, IndInv, ProducerKnows
    <3> QED
        BY <3>1, <2>1, <1>1, <1>r, <1>f
  <2>3. ASSUME NEW s \in ReaderIds, PopStep(s) PROVE HeadCovers(r)'
    <3>1. write_idx' = write_idx /\ read_indices[r] <= read_indices'[r]
        BY <2>3, <1>f, <1>r DEF PopStep, PopLoadWriteIdx, LoadWriteIdx, PopEmpty,
           PopLoadCursor, PopReadWord, PopAdvance, Advanced, LoanInv, IndInv,
           ReaderKnows
    <3> QED
        BY <3>1, <2>1, <1>1, <1>f
  <2> QED
      BY <1>2, <2>2, <2>3
<1>3. ASSUME NEW l \in LoanIds,
             \/ \E s \in ReaderIds : ClaimRaiseGate(l, s)
             \/ ClaimLoadWriteIdx(l) \/ ClaimLoadCursor(l) \/ ClaimLoadBase(l)
             \/ ClaimEmpty(l) \/ ClaimRetry(l) \/ CommitCheck(l) \/ CommitResolve(l)
             \/ DropDone(l) \/ AbortResolve(l) \/ DropAtCursor(l) \/ DropResolve(l)
      PROVE  HeadCovers(r)'
  <2> USE DEF ClaimRaiseGate, ClaimLoadWriteIdx, ClaimLoadCursor, ClaimLoadBase,
          ClaimEmpty, ClaimRetry, CommitCheck, CommitResolve, DropDone,
          AbortResolve, DropAtCursor, DropResolve, Resolve, At, GoTo, vars, fileVars
  <2>1. /\ claim_base' = claim_base /\ read_indices' = read_indices
        /\ write_idx' = write_idx
      BY <1>3
  <2>2. KeepsLoans
      BY <1>3, <1>t DEF LoanTypeOK, Lends, Unresolved
  <2> QED
      BY <2>1, <2>2, <1>f, <1>r, <1>w
<1>4. ASSUME NEW l \in LoanIds, CommitStore(l) \/ DropStore(l)
      PROVE  HeadCovers(r)'
  <2> USE DEF CommitStore, DropStore, StoreCursor, At, GoTo
  <2>1. LoanKnows(l) /\ loans[l].reader \in ReaderIds /\ loans[l].index \in Nat
      BY <1>t, LoanFields DEF LoanInv
  <2>2. read_indices[loans[l].reader] = loans[l].index
      BY <1>4, <2>1 DEF LoanKnows, AtCursor
  <2>3. /\ claim_base' = claim_base /\ write_idx' = write_idx
        /\ read_indices[r] <= read_indices'[r]
        /\ r = loans[l].reader => read_indices'[r] = loans[l].index + 1
      BY <1>4, <2>1, <2>2, <1>f, <1>r
  <2>4. \A m \in LoanIds \ {l} : loans'[m] = loans[m]
      BY <1>4, <1>t DEF LoanTypeOK
  <2>5. KeepsLoans
      BY <2>1, <2>3, <2>4 DEF Lends, Unresolved
  <2> QED
      BY <2>3, <2>5, <1>f, <1>w
<1>5. ASSUME NEW l \in LoanIds, ClaimTake(l) \/ AbortRewind(l)
      PROVE  HeadCovers(r)'
  <2>1. CASE r = loans[l].reader
      BY <2>1, <1>5, <1>r, TakeCovers, RewindCovers
  <2>2. CASE r # loans[l].reader
    <3>1. /\ claim_base'[r] = claim_base[r] /\ write_idx' = write_idx
          /\ read_indices' = read_indices
        BY <2>2, <1>5, <1>r, <1>f DEF ClaimTake, AbortRewind, vars, fileVars
    <3>2. \A m \in LoanIds \ {l} : loans'[m] = loans[m]
        BY <1>5, <1>t DEF ClaimTake, AbortRewind, GoTo, LoanTypeOK
    <3>3. KeepsLoans
        BY <3>2, <2>2 DEF Lends, Unresolved
    <3> QED
        BY <3>1, <3>3, <1>f, <1>r, <1>w
  <2> QED
      BY <2>1, <2>2
<1>6. ASSUME NEW s \in ReaderIds, HandleCrash(s) PROVE HeadCovers(r)'
  <2> USE DEF HandleCrash, fileVars
  <2>1. write_idx' = write_idx /\ read_indices' = read_indices
      BY <1>6
  <2>2. CASE r = s
    <3>1. claim_base'[r] = 0
        BY <2>2, <1>6, <1>f, <1>r
    <3> QED
        BY <3>1, <2>1, <1>f, <1>r DEF HeadCovers
  <2>3. CASE r # s
    <3>1. claim_base'[r] = claim_base[r]
        BY <2>3, <1>6, <1>f, <1>r
    <3>2. KeepsLoans
        BY <2>3, <1>6 DEF Lends, Unresolved
    <3> QED
        BY <3>1, <3>2, <2>1, <1>f, <1>r, <1>w
  <2> QED
      BY <2>2, <2>3
<1>7. CASE UNCHANGED lvars
    BY <1>7, <1>1, <1>f, <1>r DEF lvars, loanVars, vars, fileVars
<1>8. ASSUME NEW l \in LoanIds PROVE ~DropElsewhere(l)
    BY DEF DropElsewhere
<1> QED
    BY <1>2, <1>3, <1>4, <1>5, <1>6, <1>7, <1>8 DEF LNext, ClaimStep, ResolveStep

(* No message is stranded: what a reader has not consumed is lent or lies  *)
(* at or past the pipeline head, where a later claim finds it.             *)
THEOREM NothingStranded ==
    ASSUME "abort" \notin Ops, "drop" \notin Ops
    PROVE  LSpec => []NoStrandedMessage
<1> DEFINE Covered == \A r \in Participants : HeadCovers(r)
<1>1. LInit => Covered
    BY Sizes DEF LInit, Init, HeadCovers
<1>2. Covered /\ LoanInv /\ LoanInv' /\ [LNext]_lvars => Covered'
    BY CoverNext
<1>3. Covered => NoStrandedMessage
    BY DEF HeadCovers, Lends, NoStrandedMessage
<1> HIDE DEF Covered
<1> QED
    BY <1>1, <1>2, <1>3, LoanInvHolds, PTL DEF LSpec
=============================================================================
