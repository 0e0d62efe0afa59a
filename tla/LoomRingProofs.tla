--------------------------- MODULE LoomRingProofs ---------------------------
(***************************************************************************)
(* The orderings of the ring, proved strong enough under release/acquire   *)
(* memory for any number of readers, slots and messages.                   *)
(***************************************************************************)
EXTENDS LoomRing, Remainders

LEMMA Sizes ==
    /\ NumReaders \in Nat /\ NumReaders > 0
    /\ LOOM_CAPACITY \in Nat /\ LOOM_CAPACITY > 0 /\ U64_MAX \in Nat
    /\ Producer \in Threads /\ Producer \notin Readers
    /\ \A r \in Readers : r \in Nat /\ r \in Threads /\ r < NumReaders
BY LoomAssumption DEF Producer, Threads, Readers

-----------------------------------------------------------------------------
(* Locations: which accesses meet, and which do not.                       *)

LEMMA Distinct ==
    ASSUME NEW x, NEW y
    PROVE  /\ WriteIdx # Notify
           /\ WriteIdx # ReadIdx(x) /\ Notify # ReadIdx(x)
           /\ WriteIdx # Slot(x) /\ Notify # Slot(x)
           /\ ReadIdx(y) # Slot(x)
           /\ \A z : /\ WriteIdx # SlotRead(y, z) /\ Notify # SlotRead(y, z)
                     /\ ReadIdx(x) # SlotRead(y, z) /\ Slot(x) # SlotRead(y, z)
           /\ ReadIdx(x) = ReadIdx(y) => x = y
BY DEF WriteIdx, Notify, ReadIdx, Slot, SlotRead

LEMMA Placed ==
    ASSUME NEW r \in Readers, NEW i \in Nat
    PROVE  /\ i % LOOM_CAPACITY \in 0..(LOOM_CAPACITY - 1)
           /\ Slot(i) = Slot(i % LOOM_CAPACITY)
           /\ SlotRead(r, i) = SlotRead(r, i % LOOM_CAPACITY)
           /\ WriteIdx \in Locs /\ Notify \in Locs /\ ReadIdx(r) \in Locs
           /\ Slot(i) \in Locs /\ SlotRead(r, i) \in Locs
<1> DEFINE m == i % LOOM_CAPACITY
<1>1. m \in Nat /\ m < LOOM_CAPACITY
    BY Sizes, Remainder
<1>2. m % LOOM_CAPACITY = m
    BY <1>1, Sizes, Remainder
<1>3. m \in 0..(LOOM_CAPACITY - 1)
    BY <1>1, Sizes
<1>4. Slot(i) = Slot(m) /\ SlotRead(r, i) = SlotRead(r, m)
    BY <1>2 DEF Slot, SlotRead
<1> HIDE DEF m
<1> QED
    BY <1>3, <1>4 DEF Locs, m

LEMMA AllPlaced ==
    /\ WriteIdx \in Locs /\ Notify \in Locs
    /\ \A r \in Readers : ReadIdx(r) \in Locs
    /\ \A i \in Nat : Slot(i) \in Locs
    /\ \A r \in Readers, i \in Nat : SlotRead(r, i) \in Locs
<1>1. 0 \in Readers
    BY Sizes DEF Readers
<1> QED
    BY <1>1, Placed

(* Two indices in one slot are at least a lap apart, and so are two whose  *)
(* reads by one reader meet; reads of different readers never meet.        *)
LEMMA Laps ==
    ASSUME NEW i \in Nat, NEW j \in Nat, NEW r \in Readers, NEW s \in Readers
    PROVE  /\ (Slot(i) = Slot(j) /\ i < j) => j - i >= LOOM_CAPACITY
           /\ SlotRead(r, i) = SlotRead(s, j) => r = s /\ Slot(i) = Slot(j)
<1> DEFINE m == i % LOOM_CAPACITY
           n == j % LOOM_CAPACITY
<1>1. ASSUME i < j, j - i < LOOM_CAPACITY PROVE m # n
    BY <1>1, RemaindersDistinct, Sizes
<1>2. m \in Nat /\ m < LOOM_CAPACITY /\ n \in Nat /\ n < LOOM_CAPACITY
    BY Sizes, Remainder
<1>3. ASSUME SlotRead(r, i) = SlotRead(s, j) PROVE r = s /\ Slot(i) = Slot(j)
  <2>1. r * LOOM_CAPACITY + m = s * LOOM_CAPACITY + n
      BY <1>3 DEF SlotRead
  <2> HIDE DEF m, n
  <2>2. r = s /\ m = n
      BY <2>1, <1>2, Sizes, BlocksDistinct
  <2> QED
      BY <2>2 DEF Slot, m, n
<1>4. Slot(i) = Slot(j) => m = n
    BY DEF Slot
<1> QED
    BY <1>1, <1>3, <1>4, Sizes


-----------------------------------------------------------------------------
(* Sound views.  top[l] is the newest store of l; one lemma for each way   *)
(* it grows says that a view that stays behind is still sound, and that    *)
(* the view of the storing thread, which goes along, is.                   *)

View == [Locs -> Nat]

Along(v, top, l) == [v EXCEPT ![l] = top[l] + 1]

LEMMA AlongIs ==
    ASSUME NEW v \in View, NEW top \in View, NEW l \in Locs
    PROVE  /\ Along(v, top, l) \in View
           /\ Along(v, top, l)[l] = top[l] + 1
           /\ \A k \in Locs : k # l => Along(v, top, l)[k] = v[k]
BY DEF View, Along

LEMMA JoinIs ==
    ASSUME NEW u \in View, NEW v \in View
    PROVE  /\ Join(u, v) \in View
           /\ \A l \in Locs : /\ Join(u, v)[l] >= u[l] /\ Join(u, v)[l] >= v[l]
                              /\ Join(u, v)[l] \in {u[l], v[l]}
BY DEF View, Join

LEMMA JoinSound ==
    ASSUME NEW u \in View, NEW v \in View, NEW top \in View, NEW written \in Nat,
           Sound(u, top, written), Sound(v, top, written)
    PROVE  Sound(Join(u, v), top, written)
<1> DEFINE w == Join(u, v)
<1>1. /\ w \in View
      /\ \A l \in Locs : w[l] >= u[l] /\ w[l] >= v[l] /\ w[l] \in {u[l], v[l]}
    BY JoinIs
<1> HIDE DEF w
<1>t. \A l \in Locs : u[l] \in Nat /\ v[l] \in Nat /\ w[l] \in Nat /\ top[l] \in Nat
    BY <1>1 DEF View
<1>2. \A l \in Locs : w[l] \in 1..top[l]
    BY <1>1 DEF Sound
<1>a. \A l \in Locs : (u[l] = top[l] \/ v[l] = top[l]) => w[l] = top[l]
    BY <1>1, <1>2, <1>t
<1>3. w[Notify] <= w[WriteIdx]
  <2>1. u[Notify] <= u[WriteIdx] /\ v[Notify] <= v[WriteIdx]
      BY DEF Sound
  <2> QED
      BY <2>1, <1>1, <1>t, AllPlaced
<1>4. ASSUME NEW j \in 0..(written - 1), j + 1 < w[WriteIdx],
             written - j <= LOOM_CAPACITY
      PROVE  w[Slot(j)] = top[Slot(j)]
  <2>1. j + 1 < u[WriteIdx] \/ j + 1 < v[WriteIdx]
      BY <1>4, <1>1, AllPlaced
  <2>2. u[Slot(j)] = top[Slot(j)] \/ v[Slot(j)] = top[Slot(j)]
      BY <2>1, <1>4 DEF Sound
  <2>3. Slot(j) \in Locs
      BY AllPlaced
  <2> QED
      BY <2>2, <2>3, <1>a
<1>5. ASSUME NEW r \in Readers,
             NEW q \in (top[WriteIdx] - 1)..(top[WriteIdx] + LOOM_CAPACITY - 2),
             q + 1 < w[ReadIdx(r)] + LOOM_CAPACITY
      PROVE  w[SlotRead(r, q)] = top[SlotRead(r, q)]
  <2>1. \/ q + 1 < u[ReadIdx(r)] + LOOM_CAPACITY
        \/ q + 1 < v[ReadIdx(r)] + LOOM_CAPACITY
      BY <1>5, <1>1, AllPlaced
  <2>2. u[SlotRead(r, q)] = top[SlotRead(r, q)] \/ v[SlotRead(r, q)] = top[SlotRead(r, q)]
      BY <2>1 DEF Sound
  <2>3. q \in Nat
    <3>1. v[WriteIdx] >= 1 /\ v[WriteIdx] <= top[WriteIdx]
        BY AllPlaced, <1>t DEF Sound
    <3> QED
        BY <3>1, AllPlaced, <1>t, Sizes
  <2> QED
      BY <2>2, <2>3, <1>a, AllPlaced
<1> QED
    BY <1>2, <1>3, <1>4, <1>5 DEF Sound, w


(* What u and top2 are when a store to l takes top to top2 and a thread    *)
(* with view v has stayed or, as the one that stores, gone along to u.     *)
LEMMA Grown ==
    ASSUME NEW v \in View, NEW top \in View, NEW l \in Locs, NEW written \in Nat,
           Sound(v, top, written),
           NEW u \in {v, Along(v, top, l)}, NEW top2, top2 = Along(top, top, l)
    PROVE  /\ u \in View /\ top2 \in View
           /\ \A k \in Locs : /\ v[k] \in Nat /\ 1 <= v[k] /\ v[k] <= top[k]
                              /\ top[k] \in Nat /\ u[k] \in Nat /\ top2[k] \in Nat
           /\ \A k \in Locs : k # l => u[k] = v[k] /\ top2[k] = top[k]
           /\ top2[l] = top[l] + 1
           /\ u = v \/ u[l] = top[l] + 1
           /\ \A k \in Locs : u[k] \in 1..top2[k]
<1>1. /\ u \in View /\ top2 \in View /\ top2[l] = top[l] + 1
      /\ \A k \in Locs : k # l => u[k] = v[k] /\ top2[k] = top[k]
      /\ u = v \/ u[l] = top[l] + 1
  <2>1. /\ top2 \in View /\ top2[l] = top[l] + 1
        /\ \A k \in Locs : k # l => top2[k] = top[k]
      BY AlongIs
  <2>2. CASE u = v
      BY <2>1, <2>2
  <2>3. CASE u = Along(v, top, l)
    <3>1. /\ u \in View /\ u[l] = top[l] + 1
          /\ \A k \in Locs : k # l => u[k] = v[k]
        BY <2>3, AlongIs
    <3> QED
        BY <2>1, <3>1
  <2> QED
      BY <2>2, <2>3
<1>2. \A k \in Locs : v[k] \in 1..top[k]
    BY DEF Sound
<1>3. \A k \in Locs : v[k] \in Nat /\ u[k] \in Nat /\ top[k] \in Nat /\ top2[k] \in Nat
    BY <1>1 DEF View
<1>4. \A k \in Locs : 1 <= v[k] /\ v[k] <= top[k]
    BY <1>2, <1>3
<1>5. ASSUME NEW k \in Locs PROVE u[k] \in 1..top2[k]
  <2>1. CASE k # l
      BY <2>1, <1>1, <1>2
  <2>2. CASE k = l
    <3>1. u[l] = v[l] \/ u[l] = top[l] + 1
        BY <1>1
    <3> QED
        BY <3>1, <2>2, <1>1, <1>3, <1>4
  <2> QED
      BY <2>1, <2>2
<1> QED
    BY <1>1, <1>3, <1>4, <1>5

(* The producer writes the slot of the message it will publish next.       *)
LEMMA WriteSound ==
    ASSUME NEW v \in View, NEW top \in View, NEW written \in Nat,
           written = top[WriteIdx] - 1, Sound(v, top, written),
           NEW u \in {v, Along(v, top, Slot(written))},
           NEW top2, top2 = Along(top, top, Slot(written))
    PROVE  Sound(u, top2, written + 1)
<1> DEFINE l == Slot(written)
<1>0. l \in Locs
    BY AllPlaced
<1>1. /\ \A k \in Locs : /\ v[k] \in Nat /\ 1 <= v[k] /\ v[k] <= top[k]
                         /\ top[k] \in Nat /\ u[k] \in Nat /\ top2[k] \in Nat
      /\ \A k \in Locs : k # l => u[k] = v[k] /\ top2[k] = top[k]
      /\ \A k \in Locs : u[k] \in 1..top2[k]
    BY <1>0, Grown
<1>2. WriteIdx # l /\ Notify # l /\ \A r : ReadIdx(r) # l
    BY Distinct
<1>3. \A r, q : SlotRead(r, q) # l
    BY Distinct
<1>4. u[Notify] <= u[WriteIdx]
  <2>1. v[Notify] <= v[WriteIdx]
      BY DEF Sound
  <2> QED
      BY <2>1, <1>1, <1>2, AllPlaced
<1>5. ASSUME NEW j \in 0..written, j + 1 < u[WriteIdx],
             written + 1 - j <= LOOM_CAPACITY
      PROVE  u[Slot(j)] = top2[Slot(j)]
  <2>1. u[WriteIdx] = v[WriteIdx] /\ v[WriteIdx] <= written + 1
      BY <1>1, <1>2, AllPlaced
  <2>2. j \in 0..(written - 1) /\ j \in Nat /\ j + 1 < v[WriteIdx]
        /\ written - j < LOOM_CAPACITY
      BY <2>1, <1>5, <1>1, AllPlaced, Sizes
  <2>3. v[Slot(j)] = top[Slot(j)]
    <3>1. written - j <= LOOM_CAPACITY
        BY <2>2, Sizes
    <3> QED
        BY <2>2, <3>1 DEF Sound
  <2>4. Slot(j) # l
    <3>1. 0 \in Readers
        BY Sizes DEF Readers
    <3>2. (Slot(j) = Slot(written) /\ j < written) => written - j >= LOOM_CAPACITY
        BY <2>2, <3>1, Laps
    <3> QED
        BY <3>2, <2>2, Sizes
  <2> QED
      BY <2>2, <2>3, <2>4, <1>1, AllPlaced
<1>6. ASSUME NEW r \in Readers,
             NEW q \in (top2[WriteIdx] - 1)..(top2[WriteIdx] + LOOM_CAPACITY - 2),
             q + 1 < u[ReadIdx(r)] + LOOM_CAPACITY
      PROVE  u[SlotRead(r, q)] = top2[SlotRead(r, q)]
  <2>1. top2[WriteIdx] = top[WriteIdx] /\ u[ReadIdx(r)] = v[ReadIdx(r)]
      BY <1>1, <1>2, AllPlaced
  <2>2. v[SlotRead(r, q)] = top[SlotRead(r, q)]
      BY <1>6, <2>1 DEF Sound
  <2>3. q \in Nat
      BY <2>1, <1>1, AllPlaced, Sizes
  <2> QED
      BY <2>2, <2>3, <1>1, <1>3, AllPlaced
<1>7. written + 1 - 1 = written
    OBVIOUS
<1> QED
    BY <1>1, <1>4, <1>5, <1>6, <1>7 DEF Sound

(* The producer publishes the message it has written.                      *)
LEMMA PublishSound ==
    ASSUME NEW v \in View, NEW top \in View, Sound(v, top, top[WriteIdx]),
           \A r \in Readers : top[ReadIdx(r)] <= top[WriteIdx],
           NEW u \in {v, Along(v, top, WriteIdx)},
           u # v => \A i \in Nat : v[Slot(i)] = top[Slot(i)],
           NEW top2, top2 = Along(top, top, WriteIdx)
    PROVE  Sound(u, top2, top[WriteIdx])
<1> DEFINE written == top[WriteIdx]
<1>0. written \in Nat
    BY AllPlaced DEF View
<1>1. /\ \A k \in Locs : /\ v[k] \in Nat /\ 1 <= v[k] /\ v[k] <= top[k]
                         /\ top[k] \in Nat /\ u[k] \in Nat /\ top2[k] \in Nat
      /\ \A k \in Locs : k # WriteIdx => u[k] = v[k] /\ top2[k] = top[k]
      /\ top2[WriteIdx] = top[WriteIdx] + 1
      /\ u = v \/ u[WriteIdx] = top[WriteIdx] + 1
      /\ \A k \in Locs : u[k] \in 1..top2[k]
  <2> HIDE DEF written
  <2>1. Sound(v, top, written) /\ WriteIdx \in Locs
      BY AllPlaced DEF written
  <2> QED
      BY <1>0, <2>1, Grown
<1>2. /\ Notify # WriteIdx
      /\ \A i : Slot(i) # WriteIdx /\ ReadIdx(i) # WriteIdx
      /\ \A r, q : SlotRead(r, q) # WriteIdx
    BY Distinct
<1>4. u[Notify] <= u[WriteIdx]
  <2>1. v[Notify] <= v[WriteIdx] /\ u[Notify] = v[Notify]
        /\ u[WriteIdx] >= v[WriteIdx]
      BY <1>1, <1>2, AllPlaced DEF Sound
  <2> QED
      BY <2>1, <1>1, AllPlaced
<1>5. ASSUME NEW j \in 0..(written - 1), j + 1 < u[WriteIdx],
             written - j <= LOOM_CAPACITY
      PROVE  u[Slot(j)] = top2[Slot(j)]
  <2>1. v[Slot(j)] = top[Slot(j)]
    <3>1. CASE u = v
        BY <3>1, <1>5 DEF Sound
    <3>2. CASE u # v
        BY <3>2, <1>0
    <3> QED
        BY <3>1, <3>2
  <2>2. j \in Nat
      BY <1>0
  <2> QED
      BY <2>1, <2>2, <1>1, <1>2, AllPlaced
<1>6. ASSUME NEW r \in Readers,
             NEW q \in (top2[WriteIdx] - 1)..(top2[WriteIdx] + LOOM_CAPACITY - 2),
             q + 1 < u[ReadIdx(r)] + LOOM_CAPACITY
      PROVE  u[SlotRead(r, q)] = top2[SlotRead(r, q)]
  <2>1. u[ReadIdx(r)] = v[ReadIdx(r)] /\ v[ReadIdx(r)] <= written
        /\ v[ReadIdx(r)] \in Nat
      BY <1>1, <1>2, AllPlaced
  <2>2. q \in (top[WriteIdx] - 1)..(top[WriteIdx] + LOOM_CAPACITY - 2) /\ q \in Nat
      BY <2>1, <1>6, <1>1, AllPlaced, Sizes
  <2>3. v[SlotRead(r, q)] = top[SlotRead(r, q)]
      BY <1>6, <2>1, <2>2 DEF Sound
  <2> QED
      BY <2>2, <2>3, <1>1, <1>2, AllPlaced
<1> QED
    BY <1>1, <1>4, <1>5, <1>6 DEF Sound


(* The producer signals.                                                   *)
LEMMA SignalSound ==
    ASSUME NEW v \in View, NEW top \in View, NEW written \in Nat,
           Sound(v, top, written),
           NEW u \in {v, Along(v, top, Notify)},
           u # v => top[Notify] < v[WriteIdx],
           NEW top2, top2 = Along(top, top, Notify)
    PROVE  Sound(u, top2, written)
<1>1. /\ \A k \in Locs : /\ v[k] \in Nat /\ 1 <= v[k] /\ v[k] <= top[k]
                         /\ top[k] \in Nat /\ u[k] \in Nat /\ top2[k] \in Nat
      /\ \A k \in Locs : k # Notify => u[k] = v[k] /\ top2[k] = top[k]
      /\ u = v \/ u[Notify] = top[Notify] + 1
      /\ \A k \in Locs : u[k] \in 1..top2[k]
  <2>1. Notify \in Locs
      BY AllPlaced
  <2> QED
      BY <2>1, Grown
<1>2. /\ Notify # WriteIdx
      /\ \A i : Slot(i) # Notify /\ ReadIdx(i) # Notify
      /\ \A r, q : SlotRead(r, q) # Notify
    BY Distinct
<1>3. u[WriteIdx] = v[WriteIdx] /\ top2[WriteIdx] = top[WriteIdx]
    BY <1>1, <1>2, AllPlaced
<1>4. u[Notify] <= u[WriteIdx]
  <2>1. CASE u = v
      BY <2>1 DEF Sound
  <2>2. CASE u # v
      BY <2>2, <1>1, <1>3, AllPlaced
  <2> QED
      BY <2>1, <2>2
<1>5. ASSUME NEW j \in 0..(written - 1), j + 1 < u[WriteIdx],
             written - j <= LOOM_CAPACITY
      PROVE  u[Slot(j)] = top2[Slot(j)]
  <2>1. v[Slot(j)] = top[Slot(j)]
      BY <1>3, <1>5 DEF Sound
  <2> QED
      BY <2>1, <1>1, <1>2, AllPlaced
<1>6. ASSUME NEW r \in Readers,
             NEW q \in (top2[WriteIdx] - 1)..(top2[WriteIdx] + LOOM_CAPACITY - 2),
             q + 1 < u[ReadIdx(r)] + LOOM_CAPACITY
      PROVE  u[SlotRead(r, q)] = top2[SlotRead(r, q)]
  <2>1. u[ReadIdx(r)] = v[ReadIdx(r)]
      BY <1>1, <1>2, AllPlaced
  <2>2. v[SlotRead(r, q)] = top[SlotRead(r, q)]
      BY <1>6, <1>3, <2>1 DEF Sound
  <2>3. q \in Nat
      BY <1>1, <1>3, AllPlaced, Sizes
  <2> QED
      BY <2>2, <2>3, <1>1, <1>2, AllPlaced
<1> QED
    BY <1>1, <1>4, <1>5, <1>6 DEF Sound

(* A reader reads the slot of a message it has not consumed.               *)
LEMMA ReadSound ==
    ASSUME NEW v \in View, NEW top \in View, NEW written \in Nat,
           Sound(v, top, written), NEW s \in Readers, NEW i \in Nat,
           top[ReadIdx(s)] <= i + 1, i + 1 < top[WriteIdx],
           NEW u \in {v, Along(v, top, SlotRead(s, i))},
           NEW top2, top2 = Along(top, top, SlotRead(s, i))
    PROVE  Sound(u, top2, written)
<1> DEFINE l == SlotRead(s, i)
<1>1. /\ \A k \in Locs : /\ v[k] \in Nat /\ 1 <= v[k] /\ v[k] <= top[k]
                         /\ top[k] \in Nat /\ u[k] \in Nat /\ top2[k] \in Nat
      /\ \A k \in Locs : k # l => u[k] = v[k] /\ top2[k] = top[k]
      /\ \A k \in Locs : u[k] \in 1..top2[k]
  <2>1. l \in Locs
      BY AllPlaced
  <2> QED
      BY <2>1, Grown
<1>2. Notify # l /\ WriteIdx # l /\ \A j : Slot(j) # l /\ ReadIdx(j) # l
    BY Distinct
<1>3. u[WriteIdx] = v[WriteIdx] /\ top2[WriteIdx] = top[WriteIdx]
      /\ u[Notify] = v[Notify]
    BY <1>1, <1>2, AllPlaced
<1>4. u[Notify] <= u[WriteIdx]
    BY <1>3 DEF Sound
<1>5. ASSUME NEW j \in 0..(written - 1), j + 1 < u[WriteIdx],
             written - j <= LOOM_CAPACITY
      PROVE  u[Slot(j)] = top2[Slot(j)]
  <2>1. v[Slot(j)] = top[Slot(j)]
      BY <1>3, <1>5 DEF Sound
  <2> QED
      BY <2>1, <1>1, <1>2, AllPlaced
<1>6. ASSUME NEW r \in Readers,
             NEW q \in (top2[WriteIdx] - 1)..(top2[WriteIdx] + LOOM_CAPACITY - 2),
             q + 1 < u[ReadIdx(r)] + LOOM_CAPACITY
      PROVE  u[SlotRead(r, q)] = top2[SlotRead(r, q)]
  <2>1. u[ReadIdx(r)] = v[ReadIdx(r)]
      BY <1>1, <1>2, AllPlaced
  <2>2. v[SlotRead(r, q)] = top[SlotRead(r, q)]
      BY <1>6, <1>3, <2>1 DEF Sound
  <2>3. q \in Nat /\ i < q
      BY <1>1, <1>3, AllPlaced, Sizes
  <2>4. SlotRead(r, q) # l
    <3> SUFFICES ASSUME SlotRead(s, i) = SlotRead(r, q) PROVE FALSE
        OBVIOUS
    <3>1. s = r /\ Slot(i) = Slot(q)
        BY <2>3, Laps
    <3>2. q - i >= LOOM_CAPACITY
        BY <3>1, <2>3, Laps
    <3>3. v[ReadIdx(r)] <= i + 1 /\ v[ReadIdx(r)] \in Nat
        BY <3>1, <1>1, AllPlaced
    <3> QED
        BY <3>2, <3>3, <1>6, <2>1, <2>3, Sizes
  <2> QED
      BY <2>2, <2>3, <2>4, <1>1, AllPlaced
<1> QED
    BY <1>1, <1>4, <1>5, <1>6 DEF Sound

(* A reader advances its cursor.                                           *)
LEMMA AdvanceSound ==
    ASSUME NEW v \in View, NEW top \in View, NEW written \in Nat,
           Sound(v, top, written), NEW s \in Readers,
           NEW u \in {v, Along(v, top, ReadIdx(s))},
           u # v => \A i \in Nat : v[SlotRead(s, i)] = top[SlotRead(s, i)],
           NEW top2, top2 = Along(top, top, ReadIdx(s))
    PROVE  Sound(u, top2, written)
<1> DEFINE l == ReadIdx(s)
<1>1. /\ \A k \in Locs : /\ v[k] \in Nat /\ 1 <= v[k] /\ v[k] <= top[k]
                         /\ top[k] \in Nat /\ u[k] \in Nat /\ top2[k] \in Nat
      /\ \A k \in Locs : k # l => u[k] = v[k] /\ top2[k] = top[k]
      /\ \A k \in Locs : u[k] \in 1..top2[k]
  <2>1. l \in Locs
      BY AllPlaced
  <2> QED
      BY <2>1, Grown
<1>2. /\ Notify # l /\ WriteIdx # l /\ \A j : Slot(j) # l
      /\ \A r : r # s => ReadIdx(r) # l
      /\ \A r, q : SlotRead(r, q) # l
    BY Distinct
<1>3. u[WriteIdx] = v[WriteIdx] /\ top2[WriteIdx] = top[WriteIdx]
      /\ u[Notify] = v[Notify]
    BY <1>1, <1>2, AllPlaced
<1>4. u[Notify] <= u[WriteIdx]
    BY <1>3 DEF Sound
<1>5. ASSUME NEW j \in 0..(written - 1), j + 1 < u[WriteIdx],
             written - j <= LOOM_CAPACITY
      PROVE  u[Slot(j)] = top2[Slot(j)]
  <2>1. v[Slot(j)] = top[Slot(j)]
      BY <1>3, <1>5 DEF Sound
  <2> QED
      BY <2>1, <1>1, <1>2, AllPlaced
<1>6. ASSUME NEW r \in Readers,
             NEW q \in (top2[WriteIdx] - 1)..(top2[WriteIdx] + LOOM_CAPACITY - 2),
             q + 1 < u[ReadIdx(r)] + LOOM_CAPACITY
      PROVE  u[SlotRead(r, q)] = top2[SlotRead(r, q)]
  <2>1. q \in Nat
      BY <1>1, <1>3, AllPlaced, Sizes
  <2>2. v[SlotRead(r, q)] = top[SlotRead(r, q)]
    <3>1. CASE u = v
        BY <3>1, <1>6, <1>3 DEF Sound
    <3>2. CASE u # v /\ r = s
        BY <3>2, <2>1
    <3>3. CASE r # s
      <4>1. u[ReadIdx(r)] = v[ReadIdx(r)]
          BY <3>3, <1>1, <1>2, AllPlaced
      <4> QED
          BY <4>1, <1>6, <1>3 DEF Sound
    <3> QED
        BY <3>1, <3>2, <3>3
  <2> QED
      BY <2>1, <2>2, <1>1, <1>2, AllPlaced
<1> QED
    BY <1>1, <1>4, <1>5, <1>6 DEF Sound


-----------------------------------------------------------------------------
(* Loads and stores.                                                       *)

Message == [val : Int, view : View]

Atomics == {WriteIdx, Notify} \cup {ReadIdx(r) : r \in Readers}

LEMMA MemTyped ==
    ASSUME LoomTypeOK, ViewsSound
    PROVE  /\ mem \in [Locs -> Seq(Message)] /\ view \in [Threads -> View]
           /\ Tops \in View /\ Start \in View
           /\ \A l \in Locs : /\ Tops[l] = Newest(l) /\ Newest(l) \in Nat
                              /\ Newest(l) >= 1 /\ mem[l] \in Seq(Message)
           /\ \A t \in Threads : view[t] \in View
           /\ \A t \in Threads, l \in Locs :
                 view[t][l] \in Nat /\ 1 <= view[t][l] /\ view[t][l] <= Newest(l)
           /\ \A l \in Locs : \A n \in 1..Newest(l) :
                 mem[l][n] \in Message /\ mem[l][n].view \in View /\ mem[l][n].val \in Int
<1>1. mem \in [Locs -> Seq(Message)] /\ view \in [Threads -> View]
    BY DEF LoomTypeOK, Message, View
<1>2. \A l \in Locs : mem[l] \in Seq(Message) /\ Newest(l) \in Nat
    BY <1>1 DEF Newest
<1>3. Tops \in View /\ \A l \in Locs : Tops[l] = Newest(l)
    BY <1>2 DEF Tops, View
<1>4. Start \in View
    BY DEF Start, View
<1>5. \A t \in Threads, l \in Locs : view[t][l] \in 1..Tops[l] /\ view[t][l] \in Nat
    BY <1>1 DEF ViewsSound, Sound, View
<1>6. \A t \in Threads, l \in Locs : 1 <= view[t][l] /\ view[t][l] <= Newest(l)
    BY <1>5, <1>3, <1>2
<1>7. \A l \in Locs : Newest(l) >= 1
    BY <1>5, <1>6, <1>2, Sizes
<1>8. ASSUME NEW l \in Locs, NEW n \in 1..Newest(l)
      PROVE  mem[l][n] \in Message /\ mem[l][n].view \in View /\ mem[l][n].val \in Int
  <2>1. mem[l][n] \in Message
      BY <1>2 DEF Newest
  <2> QED
      BY <2>1 DEF Message
<1> QED
    BY <1>1, <1>2, <1>3, <1>4, <1>5, <1>6, <1>7, <1>8

(* A store appends, and takes the view of its thread along.                *)
LEMMA Stored ==
    ASSUME LoomTypeOK, ViewsSound, NEW t \in Threads, NEW l \in Locs,
           NEW val \in Int, NEW order, Store(t, l, val, order)
    PROVE  /\ mem' \in [Locs -> Seq(Message)] /\ view' \in [Threads -> View]
           /\ Tops' = Along(Tops, Tops, l)
           /\ view'[t] = Along(view[t], Tops, l)
           /\ view'[t][l] = Newest(l) + 1
           /\ \A k \in Locs : k # l => view'[t][k] = view[t][k]
           /\ \A s \in Threads : s # t => view'[s] = view[s]
           /\ Len(mem'[l]) = Len(mem[l]) + 1
           /\ \A k \in Locs : k # l => mem'[k] = mem[k]
           /\ \A n \in 1..Len(mem[l]) : mem'[l][n] = mem[l][n]
           /\ mem'[l][Len(mem[l]) + 1].val = val
           /\ mem'[l][Len(mem[l]) + 1].view =
                 IF order = "Release" THEN view'[t] ELSE Start
<1> DEFINE known == [view[t] EXCEPT ![l] = Newest(l) + 1]
           msg   == [val |-> val, view |-> IF order = "Release" THEN known ELSE Start]
<1>1. /\ mem \in [Locs -> Seq(Message)] /\ view \in [Threads -> View]
      /\ mem[l] \in Seq(Message) /\ Tops[l] = Newest(l) /\ Newest(l) \in Nat
      /\ view[t] \in View /\ Start \in View /\ Tops \in View
    BY MemTyped
<1>2. /\ known \in View /\ known = Along(view[t], Tops, l)
      /\ known[l] = Newest(l) + 1 /\ \A k \in Locs : k # l => known[k] = view[t][k]
    BY <1>1 DEF View, Along
<1>3. mem' = [mem EXCEPT ![l] = Append(mem[l], msg)]
    BY DEF Store
<1>4. view' = [view EXCEPT ![t] = known]
    BY DEF Store
<1> HIDE DEF known
<1>5. msg \in Message
    BY <1>2, <1>1 DEF Message
<1>6. msg.val = val /\ msg.view = IF order = "Release" THEN known ELSE Start
    OBVIOUS
<1> HIDE DEF msg
<1>7. view'[t] = known /\ \A s \in Threads : s # t => view'[s] = view[s]
    BY <1>4, <1>1
<1>8. view' \in [Threads -> View]
    BY <1>4, <1>1, <1>2
<1>9. Append(mem[l], msg) \in Seq(Message) /\ Len(Append(mem[l], msg)) = Len(mem[l]) + 1
      /\ Append(mem[l], msg)[Len(mem[l]) + 1] = msg
      /\ \A n \in 1..Len(mem[l]) : Append(mem[l], msg)[n] = mem[l][n]
    BY <1>1, <1>5
<1>10. /\ mem'[l] = Append(mem[l], msg) /\ mem' \in [Locs -> Seq(Message)]
       /\ \A k \in Locs : k # l => mem'[k] = mem[k]
    BY <1>3, <1>1, <1>9
<1>11. Tops' = Along(Tops, Tops, l)
    BY <1>10, <1>9, <1>1 DEF Tops, Along, Newest
<1> QED
    BY <1>2, <1>6, <1>7, <1>8, <1>9, <1>10, <1>11

(* Once every old view is sound in the new memory and the storing thread's *)
(* new one is, all views are.                                              *)
LEMMA StoreViews ==
    ASSUME LoomTypeOK, ViewsSound, NEW t \in Threads, NEW l \in Locs,
           NEW val \in Int, NEW order, Store(t, l, val, order),
           \A v \in View : Sound(v, Tops, Written) => Sound(v, Tops', Written'),
           Sound(view'[t], Tops', Written')
    PROVE  ViewsSound'
<1>1. /\ mem' \in [Locs -> Seq(Message)]
      /\ \A s \in Threads : s # t => view'[s] = view[s]
      /\ Len(mem'[l]) = Len(mem[l]) + 1
      /\ \A k \in Locs : k # l => mem'[k] = mem[k]
      /\ \A n \in 1..Len(mem[l]) : mem'[l][n] = mem[l][n]
      /\ mem'[l][Len(mem[l]) + 1].view =
            IF order = "Release" THEN view'[t] ELSE Start
    BY Stored
<1>2. /\ Start \in View /\ \A s \in Threads : view[s] \in View
      /\ Newest(l) \in Nat
      /\ \A k \in Locs : \A n \in 1..Newest(k) : mem[k][n].view \in View
    BY MemTyped
<1>3. Sound(Start, Tops', Written')
    BY <1>2 DEF ViewsSound
<1>4. \A s \in Threads : Sound(view'[s], Tops', Written')
    BY <1>1, <1>2 DEF ViewsSound
<1>5. ASSUME NEW k \in Locs, NEW n \in 1..Len(mem'[k])
      PROVE  Sound(mem'[k][n].view, Tops', Written')
  <2>1. CASE k # l
    <3>1. mem'[k] = mem[k] /\ n \in 1..Newest(k)
        BY <2>1, <1>1 DEF Newest
    <3>2. Sound(mem[k][n].view, Tops, Written) /\ mem[k][n].view \in View
        BY <3>1, <1>2 DEF ViewsSound
    <3> QED
        BY <3>1, <3>2
  <2>2. CASE k = l /\ n # Len(mem[l]) + 1
    <3>1. n \in 1..Newest(l) /\ mem'[l][n] = mem[l][n]
        BY <2>2, <1>1, <1>2 DEF Newest
    <3>2. Sound(mem[l][n].view, Tops, Written) /\ mem[l][n].view \in View
        BY <3>1, <1>2 DEF ViewsSound
    <3> QED
        BY <2>2, <3>1, <3>2
  <2>3. CASE k = l /\ n = Len(mem[l]) + 1
      BY <2>3, <1>1, <1>3, <1>4
  <2> QED
      BY <2>1, <2>2, <2>3
<1> QED
    BY <1>3, <1>4, <1>5 DEF ViewsSound, Start, Newest


LEMMA StoreCounts ==
    ASSUME LoomTypeOK, ViewsSound, StoresCount, NEW t \in Threads, NEW l \in Locs,
           NEW val \in Int, NEW order, Store(t, l, val, order),
           l \in Atomics => val = Newest(l) /\ order = "Release"
    PROVE  StoresCount'
<1>1. /\ view'[t][l] = Newest(l) + 1
      /\ Len(mem'[l]) = Len(mem[l]) + 1
      /\ \A k \in Locs : k # l => mem'[k] = mem[k]
      /\ \A n \in 1..Len(mem[l]) : mem'[l][n] = mem[l][n]
      /\ mem'[l][Len(mem[l]) + 1].val = val
      /\ mem'[l][Len(mem[l]) + 1].view =
            IF order = "Release" THEN view'[t] ELSE Start
    BY Stored
<1>2. Newest(l) \in Nat
    BY MemTyped
<1>4. ASSUME NEW k \in Atomics, NEW n \in 1..Len(mem'[k])
      PROVE  mem'[k][n].val = n - 1 /\ mem'[k][n].view[k] = n
  <2>0. k \in Locs
      BY AllPlaced DEF Atomics
  <2>1. CASE k # l
    <3>1. mem'[k] = mem[k] /\ n \in 1..Newest(k)
        BY <2>0, <2>1, <1>1 DEF Newest
    <3> QED
        BY <3>1 DEF StoresCount, Atomics
  <2>2. CASE k = l /\ n # Len(mem[l]) + 1
    <3>1. n \in 1..Newest(l) /\ mem'[l][n] = mem[l][n]
        BY <2>2, <1>1, <1>2 DEF Newest
    <3> QED
        BY <2>2, <3>1 DEF StoresCount, Atomics
  <2>3. CASE k = l /\ n = Len(mem[l]) + 1
    <3>1. val = Newest(l) /\ order = "Release"
        BY <2>3
    <3>2. mem'[l][n].val = Newest(l) /\ mem'[l][n].view = view'[t]
        BY <3>1, <2>3, <1>1
    <3>3. n - 1 = Newest(l) /\ n = Newest(l) + 1
        BY <2>3, <1>2 DEF Newest
    <3> QED
        BY <3>2, <3>3, <2>3, <1>1
  <2> QED
      BY <2>1, <2>2, <2>3
<1> QED
    BY <1>4 DEF StoresCount, Atomics, Newest

LEMMA OwnersAll ==
    ASSUME OwnersKnow
    PROVE  /\ \A i \in Nat : view[Producer][Slot(i)] = Newest(Slot(i))
           /\ \A r \in Readers, i \in Nat :
                 view[r][SlotRead(r, i)] = Newest(SlotRead(r, i))
<1>1. ASSUME NEW i \in Nat
      PROVE  view[Producer][Slot(i)] = Newest(Slot(i))
  <2>1. 0 \in Readers
      BY Sizes DEF Readers
  <2>2. i % LOOM_CAPACITY \in 0..(LOOM_CAPACITY - 1) /\ Slot(i) = Slot(i % LOOM_CAPACITY)
      BY <2>1, Placed
  <2> QED
      BY <2>2 DEF OwnersKnow
<1>2. ASSUME NEW r \in Readers, NEW i \in Nat
      PROVE  view[r][SlotRead(r, i)] = Newest(SlotRead(r, i))
  <2>1. /\ i % LOOM_CAPACITY \in 0..(LOOM_CAPACITY - 1)
        /\ SlotRead(r, i) = SlotRead(r, i % LOOM_CAPACITY)
      BY Placed
  <2> QED
      BY <2>1 DEF OwnersKnow
<1> QED
    BY <1>1, <1>2

(* t is the one thread that stores to l.                                   *)
Owns(t, l) ==
    \/ /\ t = Producer
       /\ l \in {WriteIdx, Notify} \/ \E i \in Nat : l = Slot(i)
    \/ /\ t \in Readers
       /\ l = ReadIdx(t) \/ \E i \in Nat : l = SlotRead(t, i)

LEMMA StoreOwners ==
    ASSUME LoomTypeOK, ViewsSound, OwnersKnow, NEW t \in Threads, NEW l \in Locs,
           NEW val \in Int, NEW order, Store(t, l, val, order), Owns(t, l)
    PROVE  OwnersKnow'
<1>1. /\ view'[t][l] = Newest(l) + 1
      /\ \A k \in Locs : k # l => view'[t][k] = view[t][k]
      /\ \A s \in Threads : s # t => view'[s] = view[s]
      /\ Len(mem'[l]) = Len(mem[l]) + 1
      /\ \A k \in Locs : k # l => mem'[k] = mem[k]
    BY Stored
<1>4. ASSUME NEW k \in Locs, NEW s \in Threads, view[s][k] = Newest(k), s = t \/ k # l
      PROVE  view'[s][k] = Len(mem'[k])
    BY <1>4, <1>1 DEF Newest
<1>5. Producer \in Threads /\ Producer \notin Readers /\ \A r \in Readers : r \in Threads
    BY Sizes
<1>6. CASE t = Producer
  <2>1. l \in {WriteIdx, Notify} \/ \E i \in Nat : l = Slot(i)
      BY <1>6, <1>5 DEF Owns
  <2>2. \A r \in Readers : l # ReadIdx(r) /\ \A i : l # SlotRead(r, i)
      BY <2>1, Distinct
  <2>3. /\ view'[Producer][WriteIdx] = Len(mem'[WriteIdx])
        /\ view'[Producer][Notify] = Len(mem'[Notify])
      BY <1>4, <1>5, <1>6, AllPlaced DEF OwnersKnow
  <2>4. ASSUME NEW i \in 0..(LOOM_CAPACITY - 1)
        PROVE  view'[Producer][Slot(i)] = Len(mem'[Slot(i)])
    <3>1. i \in Nat
        BY Sizes
    <3> QED
        BY <3>1, <1>4, <1>5, <1>6, AllPlaced DEF OwnersKnow
  <2>5. ASSUME NEW r \in Readers
        PROVE  view'[r][ReadIdx(r)] = Len(mem'[ReadIdx(r)])
      BY <2>2, <1>4, <1>5, AllPlaced DEF OwnersKnow
  <2>6. ASSUME NEW r \in Readers, NEW i \in 0..(LOOM_CAPACITY - 1)
        PROVE  view'[r][SlotRead(r, i)] = Len(mem'[SlotRead(r, i)])
    <3>1. i \in Nat
        BY Sizes
    <3> QED
        BY <3>1, <2>2, <1>4, <1>5, AllPlaced DEF OwnersKnow
  <2> QED
      BY <2>3, <2>4, <2>5, <2>6 DEF OwnersKnow, Newest
<1>7. CASE t \in Readers
  <2>1. l = ReadIdx(t) \/ \E i \in Nat : l = SlotRead(t, i)
      BY <1>7, <1>5 DEF Owns
  <2>2. l # WriteIdx /\ l # Notify /\ \A i : l # Slot(i)
      BY <2>1, Distinct
  <2>3. \A r \in Readers : r # t => l # ReadIdx(r) /\ \A i \in Nat : l # SlotRead(r, i)
      BY <2>1, <1>7, Distinct, Laps
  <2>4. /\ view'[Producer][WriteIdx] = Len(mem'[WriteIdx])
        /\ view'[Producer][Notify] = Len(mem'[Notify])
      BY <2>2, <1>4, <1>5, AllPlaced DEF OwnersKnow
  <2>5. ASSUME NEW i \in 0..(LOOM_CAPACITY - 1)
        PROVE  view'[Producer][Slot(i)] = Len(mem'[Slot(i)])
    <3>1. i \in Nat
        BY Sizes
    <3> QED
        BY <3>1, <2>2, <1>4, <1>5, AllPlaced DEF OwnersKnow
  <2>6. ASSUME NEW r \in Readers
        PROVE  view'[r][ReadIdx(r)] = Len(mem'[ReadIdx(r)])
      BY <2>3, <1>4, <1>5, AllPlaced DEF OwnersKnow
  <2>7. ASSUME NEW r \in Readers, NEW i \in 0..(LOOM_CAPACITY - 1)
        PROVE  view'[r][SlotRead(r, i)] = Len(mem'[SlotRead(r, i)])
    <3>1. i \in Nat
        BY Sizes
    <3> QED
        BY <3>1, <2>3, <1>4, <1>5, AllPlaced DEF OwnersKnow
  <2> QED
      BY <2>4, <2>5, <2>6, <2>7 DEF OwnersKnow, Newest
<1> QED
    BY <1>6, <1>7 DEF Threads

(* An Acquire load of an atomic joins the view that the store carries: the *)
(* views stay sound, nobody forgets anything, and the loaded store is      *)
(* known.                                                                  *)
LEMMA Loaded ==
    ASSUME LoomTypeOK, ViewsSound, StoresCount, OwnersKnow,
           NEW t \in Threads, NEW l \in Atomics, NEW i \in 1..Newest(l),
           Load(t, l, "Acquire", i), mem' = mem, Written' = Written
    PROVE  /\ view' \in [Threads -> View]
           /\ ViewsSound' /\ StoresCount' /\ OwnersKnow'
           /\ \A s \in Threads, k \in Locs : view'[s][k] >= view[s][k]
           /\ \A s \in Threads : s # t => view'[s] = view[s]
           /\ view'[t][l] >= i
<1> DEFINE carried == mem[l][i].view
           known == [view[t] EXCEPT ![l] = i]
           both == Join(view[t], carried)
<1>0. l \in Locs
    BY AllPlaced DEF Atomics
<1>1. /\ view \in [Threads -> View] /\ Tops \in View
      /\ \A s \in Threads : view[s] \in View
      /\ \A s \in Threads, k \in Locs :
            view[s][k] \in Nat /\ 1 <= view[s][k] /\ view[s][k] <= Newest(k)
      /\ carried \in View /\ \A k \in Locs : Tops[k] = Newest(k) /\ Newest(k) \in Nat
    BY <1>0, MemTyped
<1>2. carried[l] = i
    BY DEF StoresCount, Atomics
<1>3. i \in view[t][l]..Newest(l) /\ view' = [view EXCEPT ![t] = Join(known, carried)]
    BY DEF Load
<1>4. view[t][l] <= i /\ i \in Nat
    BY <1>0, <1>1, <1>3
<1>v. view[t] \in [Locs -> Nat] /\ carried \in [Locs -> Nat]
    BY <1>1 DEF View
<1> HIDE DEF carried
<1>5. Join(known, carried) = both
  <2>1. ASSUME NEW k \in Locs
        PROVE  (IF known[k] >= carried[k] THEN known[k] ELSE carried[k])
               = (IF view[t][k] >= carried[k] THEN view[t][k] ELSE carried[k])
    <3>1. CASE k # l
        BY <3>1, <1>v
    <3>2. CASE k = l
        BY <3>2, <1>0, <1>2, <1>4, <1>v
    <3> QED
        BY <3>1, <3>2
  <2> QED
      BY <2>1 DEF Join
<1>6. both \in View /\ \A k \in Locs : both[k] >= view[t][k] /\ both[k] >= carried[k]
    BY <1>1, JoinIs
<1> HIDE DEF both, known
<1>7. view' = [view EXCEPT ![t] = both]
    BY <1>3, <1>5
<1>8. /\ view' \in [Threads -> View] /\ view'[t] = both
      /\ \A s \in Threads : s # t => view'[s] = view[s]
    BY <1>7, <1>6, <1>1
<1>9. \A s \in Threads, k \in Locs : view'[s][k] >= view[s][k]
  <2> SUFFICES ASSUME NEW s \in Threads, NEW k \in Locs PROVE view'[s][k] >= view[s][k]
      OBVIOUS
  <2>1. CASE s = t
      BY <2>1, <1>6, <1>8
  <2>2. CASE s # t
      BY <2>2, <1>8, <1>1
  <2> QED
      BY <2>1, <2>2
<1>10. view'[t][l] >= i
    BY <1>0, <1>2, <1>6, <1>8
<1>11. Tops' = Tops
    BY DEF Tops, Newest
<1>w. Written \in Nat
  <2>1. Newest(WriteIdx) \in Nat /\ Newest(WriteIdx) >= 1
      BY MemTyped, AllPlaced
  <2> QED
      BY <2>1 DEF Written, Published
<1>12. Sound(both, Tops, Written)
  <2>1. Sound(view[t], Tops, Written) /\ Sound(carried, Tops, Written)
      BY <1>0 DEF ViewsSound, carried
  <2> QED
      BY <2>1, <1>1, <1>w, JoinSound DEF both
<1>13. ViewsSound'
  <2>1. \A s \in Threads : Sound(view'[s], Tops, Written)
      BY <1>8, <1>12 DEF ViewsSound
  <2>2. \A k \in Locs : \A n \in 1..Len(mem'[k]) : Sound(mem'[k][n].view, Tops, Written)
      BY DEF ViewsSound, Newest
  <2>3. Sound(Start, Tops, Written)
      BY DEF ViewsSound
  <2> QED
      BY <2>1, <2>2, <2>3, <1>11 DEF ViewsSound, Newest, Start
<1>14. StoresCount'
    BY DEF StoresCount, Newest
<1>15. OwnersKnow'
  <2>1. \A s \in Threads, k \in Locs : view'[s][k] \in 1..Tops[k] /\ view'[s][k] \in Nat
      BY <1>13, <1>11, <1>8 DEF ViewsSound, Sound, View
  <2>2. ASSUME NEW s \in Threads, NEW k \in Locs, view[s][k] = Newest(k)
        PROVE  view'[s][k] = Newest(k)
    <3>1. view'[s][k] <= Newest(k) /\ view'[s][k] >= Newest(k) /\ view'[s][k] \in Nat
        BY <2>1, <2>2, <1>1, <1>9
    <3> QED
        BY <3>1, <1>1
  <2>3. \A k : Newest(k)' = Newest(k)
      BY DEF Newest
  <2>4. \A j \in 0..(LOOM_CAPACITY - 1) : j \in Nat
      BY Sizes
  <2> QED
      BY <2>2, <2>4, AllPlaced, Sizes DEF OwnersKnow, Newest
<1> QED
    BY <1>8, <1>9, <1>10, <1>13, <1>14, <1>15


-----------------------------------------------------------------------------
(* What the invariant says of the indices.                                 *)

LEMMA Indices ==
    ASSUME LoomInv
    PROVE  /\ Newest(WriteIdx) \in Nat /\ Newest(WriteIdx) >= 1
           /\ Newest(Notify) \in Nat
           /\ Newest(Notify) <= Newest(WriteIdx)
           /\ Published \in Nat /\ Written \in Nat /\ Published <= Written
           /\ view[Producer][WriteIdx] = Newest(WriteIdx)
           /\ mem[Notify][Newest(Notify)].val = Newest(Notify) - 1
           /\ mem[WriteIdx][Newest(WriteIdx)].val = Published
           /\ \A r \in Readers :
                 /\ Newest(ReadIdx(r)) \in Nat /\ Newest(ReadIdx(r)) >= 1
                 /\ Consumed(r) \in Nat /\ Cursor(r) = Consumed(r)
                 /\ view[r][WriteIdx] \in Nat
                 /\ view[r][WriteIdx] <= Newest(WriteIdx)
                 /\ Newest(ReadIdx(r)) <= view[r][WriteIdx]
                 /\ view[Producer][ReadIdx(r)] \in Nat
                 /\ view[Producer][ReadIdx(r)] <= Newest(ReadIdx(r))
<1> USE DEF LoomInv
<1>1. \A l \in Locs : Newest(l) \in Nat /\ Newest(l) >= 1
    BY MemTyped
<1>2. \A t \in Threads, l \in Locs :
         view[t][l] \in Nat /\ 1 <= view[t][l] /\ view[t][l] <= Newest(l)
    BY MemTyped
<1>3. Published \in Nat /\ Written \in Nat /\ Published <= Written
    BY <1>1, AllPlaced DEF Published, Written
<1>4. view[Producer][WriteIdx] = Newest(WriteIdx) /\ view[Producer][Notify] = Newest(Notify)
    BY DEF OwnersKnow
<1>5. Newest(Notify) <= Newest(WriteIdx)
  <2>1. view[Producer][Notify] <= view[Producer][WriteIdx]
      BY Sizes DEF ViewsSound, Sound
  <2> QED
      BY <2>1, <1>4
<1>6. \A l \in Atomics : mem[l][Newest(l)].val = Newest(l) - 1
  <2> SUFFICES ASSUME NEW l \in Atomics PROVE mem[l][Newest(l)].val = Newest(l) - 1
      OBVIOUS
  <2>1. Newest(l) \in 1..Newest(l)
      BY <1>1, AllPlaced DEF Atomics
  <2> QED
      BY <2>1 DEF StoresCount, Atomics
<1>7. ASSUME NEW r \in Readers
      PROVE  /\ Consumed(r) \in Nat /\ Cursor(r) = Consumed(r)
             /\ Newest(ReadIdx(r)) <= view[r][WriteIdx]
  <2>1. view[r][ReadIdx(r)] = Newest(ReadIdx(r))
      BY DEF OwnersKnow
  <2> QED
      BY <2>1, <1>1, <1>6, AllPlaced DEF Consumed, Cursor, PopperKnows, Atomics
<1> QED
    BY <1>1, <1>2, <1>3, <1>4, <1>5, <1>6, <1>7, AllPlaced, Sizes
       DEF Published, Atomics

(* A reader stays informed while its cursor and its calls stand.           *)
LEMMA PopperStays ==
    ASSUME LoomInv, NEW r \in Readers, view' \in [Threads -> View],
           view'[r][WriteIdx] >= view[r][WriteIdx],
           mem'[ReadIdx(r)] = mem[ReadIdx(r)],
           Written' - Consumed(r) <= LOOM_CAPACITY, role' = role, rpc'[r] = rpc[r],
           loans'[r] = loans[r], claim_base'[r] = claim_base[r]
    PROVE  PopperKnows(r)'
<1>1. Newest(ReadIdx(r))' = Newest(ReadIdx(r)) /\ Consumed(r)' = Consumed(r)
    BY DEF Newest, Consumed
<1>2. /\ view[r][WriteIdx] \in Nat /\ Newest(ReadIdx(r)) \in Nat /\ view'[r][WriteIdx] \in Nat
    BY Indices, Sizes, AllPlaced DEF View
<1>3. \A i \in loans[r] : i \in Nat
    BY DEF LoomInv, LoomTypeOK
<1>4. PopperKnows(r)
    BY DEF LoomInv
<1> QED
    BY <1>1, <1>2, <1>3, <1>4 DEF PopperKnows

LEMMA ReaderLoads ==
    ASSUME LoomInv, NEW r \in Readers, NEW l \in Atomics, NEW i \in 1..Newest(l),
           Load(r, l, "Acquire", i), UNCHANGED <<mem, pushVars, role, out>>
    PROVE  /\ view' \in [Threads -> View]
           /\ ViewsSound' /\ StoresCount' /\ OwnersKnow'
           /\ SlotsHold' /\ PusherKnows' /\ ReadsInStream'
           /\ \A s \in Readers : view'[s][WriteIdx] >= view[s][WriteIdx]
           /\ i >= view[r][l] /\ view'[r][l] >= i
           /\ \A s \in Readers : Written' - Consumed(s) <= LOOM_CAPACITY
<1> USE DEF LoomInv
<1>0. Written' = Written /\ Published' = Published
    BY DEF Written, Published, Newest, pushVars
<1>1. /\ view' \in [Threads -> View]
      /\ ViewsSound' /\ StoresCount' /\ OwnersKnow'
      /\ \A s \in Threads, k \in Locs : view'[s][k] >= view[s][k]
      /\ \A s \in Threads : s # r => view'[s] = view[s]
      /\ view'[r][l] >= i
    BY <1>0, Sizes, Loaded
<1>2. i >= view[r][l]
  <2>1. l \in Locs
      BY AllPlaced DEF Atomics
  <2>2. view[r][l] \in Nat /\ Newest(l) \in Nat
      BY <2>1, Sizes, MemTyped
  <2>3. i \in view[r][l]..Newest(l)
      BY DEF Load
  <2> QED
      BY <2>2, <2>3
<1>3. SlotsHold'
    BY <1>0 DEF SlotsHold, Newest
<1>4. PusherKnows'
    BY <1>0, <1>1, Sizes DEF PusherKnows, pushVars, Newest
<1>5. ReadsInStream'
    BY DEF ReadsInStream
<1>6. \A s \in Readers : Written' - Consumed(s) <= LOOM_CAPACITY
    BY <1>0 DEF PopperKnows
<1> QED
    BY <1>1, <1>2, <1>3, <1>4, <1>5, <1>6, AllPlaced, Sizes

LEMMA PopLoadInv ==
    ASSUME LoomInv, NEW r \in Readers, PopLoad(r)
    PROVE  LoomInv'
<1>1. PICK i \in 1..Newest(WriteIdx) :
         /\ Load(r, WriteIdx, ObserveOrder, i)
         /\ Goes(r, IF mem[WriteIdx][i].val # Cursor(r) THEN "read"
                    ELSE IF role[r] = "wait" THEN "arm" ELSE "idle")
    BY DEF PopLoad
<1>2. /\ view' \in [Threads -> View]
      /\ ViewsSound' /\ StoresCount' /\ OwnersKnow'
      /\ SlotsHold' /\ PusherKnows' /\ ReadsInStream'
      /\ \A s \in Readers : view'[s][WriteIdx] >= view[s][WriteIdx]
      /\ i >= view[r][WriteIdx] /\ view'[r][WriteIdx] >= i
      /\ \A s \in Readers : Written' - Consumed(s) <= LOOM_CAPACITY
    BY <1>1, ReaderLoads DEF PopLoad, ObserveOrder, Atomics, pushVars
<1>3. /\ mem' = mem /\ loans' = loans /\ claim_base' = claim_base /\ role' = role
      /\ rpc[r] = "idle" /\ role[r] # "loan"
    BY DEF PopLoad, loanVars
<1>4. LoomTypeOK'
    BY <1>1, <1>2, <1>3 DEF LoomInv, LoomTypeOK, PopLoad, Goes, pushVars, View
<1>5. ASSUME NEW s \in Readers PROVE PopperKnows(s)'
  <2>1. CASE s # r
    <3>1. rpc'[s] = rpc[s]
        BY <2>1, <1>1 DEF Goes, LoomInv, LoomTypeOK
    <3> QED
        BY <3>1, <1>2, <1>3, PopperStays
  <2>2. CASE s = r
    <3>1. /\ rpc'[r] \in {"read", "arm", "idle"}
          /\ rpc'[r] = "read" => mem[WriteIdx][i].val # Cursor(r)
        BY <1>1 DEF Goes, LoomInv, LoomTypeOK
    <3>2. mem[WriteIdx][i].val = i - 1 /\ Cursor(r) = Newest(ReadIdx(r)) - 1
        BY Indices DEF LoomInv, StoresCount, Consumed
    <3>3. /\ Newest(ReadIdx(r)) \in Nat /\ view[r][WriteIdx] \in Nat
          /\ Newest(ReadIdx(r)) <= view[r][WriteIdx] /\ view'[r][WriteIdx] \in Nat
          /\ i \in Nat
        BY Indices, <1>2, Sizes, AllPlaced DEF View
    <3>4. rpc'[r] = "read" => Newest(ReadIdx(r)) < i
        BY <3>1, <3>2, <3>3, <1>2
    <3>5. loans[r] = {} /\ loans'[r] = {} /\ role'[r] # "loan"
        BY <1>3 DEF LoomInv, PopperKnows
    <3>6. Newest(ReadIdx(r))' = Newest(ReadIdx(r)) /\ Consumed(r)' = Consumed(r)
        BY <1>3 DEF Newest, Consumed
    <3>7. /\ Newest(ReadIdx(r)) <= view'[r][WriteIdx]
          /\ rpc'[r] \in {"read", "advance"} => Newest(ReadIdx(r)) < view'[r][WriteIdx]
        BY <3>1, <3>3, <3>4, <1>2
    <3> QED
        BY <2>2, <1>2, <3>5, <3>6, <3>7 DEF PopperKnows
  <2> QED
      BY <2>1, <2>2
<1> QED
    BY <1>2, <1>4, <1>5 DEF LoomInv


LEMMA WaitInv ==
    ASSUME LoomInv, NEW r \in Readers, Arm(r) \/ Park(r)
    PROVE  LoomInv'
<1>1. PICK i \in 1..Newest(Notify) : Load(r, Notify, ParkOrder, i)
    BY DEF Arm, Park
<1>2. /\ view' \in [Threads -> View]
      /\ ViewsSound' /\ StoresCount' /\ OwnersKnow'
      /\ SlotsHold' /\ PusherKnows' /\ ReadsInStream'
      /\ \A s \in Readers : view'[s][WriteIdx] >= view[s][WriteIdx]
      /\ \A s \in Readers : Written' - Consumed(s) <= LOOM_CAPACITY
    BY <1>1, ReaderLoads DEF Arm, Park, ParkOrder, Atomics, pushVars
<1>3. /\ mem' = mem /\ loans' = loans /\ claim_base' = claim_base /\ role' = role
      /\ rpc[r] \in {"arm", "park"}
      /\ \/ \E pc \in {"idle", "park"} : rpc' = [rpc EXCEPT ![r] = pc]
         \/ rpc' = rpc /\ rpc[r] = "park"
    BY DEF Arm, Park, loanVars, Goes
<1>4. LoomTypeOK'
    BY <1>2, <1>3 DEF LoomInv, LoomTypeOK, Arm, Park, pushVars, View
<1>5. ASSUME NEW s \in Readers PROVE PopperKnows(s)'
  <2>1. CASE s # r
    <3>1. rpc'[s] = rpc[s]
        BY <2>1, <1>3 DEF LoomInv, LoomTypeOK
    <3> QED
        BY <3>1, <1>2, <1>3, PopperStays
  <2>2. CASE s = r
    <3>1. rpc'[r] \in {"park", "idle"} /\ role[r] # "loan" /\ loans[r] = {}
        BY <1>3 DEF LoomInv, LoomTypeOK, PopperKnows
    <3>2. Newest(ReadIdx(r))' = Newest(ReadIdx(r)) /\ Consumed(r)' = Consumed(r)
        BY <1>3 DEF Newest, Consumed
    <3>3. Newest(ReadIdx(r)) <= view'[r][WriteIdx]
      <4>1. /\ Newest(ReadIdx(r)) \in Nat /\ view[r][WriteIdx] \in Nat
            /\ view'[r][WriteIdx] \in Nat /\ Newest(ReadIdx(r)) <= view[r][WriteIdx]
          BY Indices, <1>2, Sizes, AllPlaced DEF View
      <4> QED
          BY <4>1, <1>2
    <3> QED
        BY <2>2, <1>2, <1>3, <3>1, <3>2, <3>3 DEF PopperKnows
  <2> QED
      BY <2>1, <2>2
<1> QED
    BY <1>2, <1>4, <1>5 DEF LoomInv

LEMMA ClaimInv ==
    ASSUME LoomInv, NEW r \in Readers, Claim(r)
    PROVE  LoomInv'
<1> DEFINE p == Position(r)
<1>1. PICK i \in 1..Newest(WriteIdx) :
         /\ Load(r, WriteIdx, ObserveOrder, i)
         /\ IF p < mem[WriteIdx][i].val
            THEN /\ claim_base' = [claim_base EXCEPT ![r] = p + 1]
                 /\ loans' = [loans EXCEPT ![r] = @ \cup {p}]
            ELSE claim_base' = claim_base /\ loans' = loans
    BY DEF Claim
<1>2. /\ view' \in [Threads -> View]
      /\ ViewsSound' /\ StoresCount' /\ OwnersKnow'
      /\ SlotsHold' /\ PusherKnows' /\ ReadsInStream'
      /\ \A s \in Readers : view'[s][WriteIdx] >= view[s][WriteIdx]
      /\ view'[r][WriteIdx] >= i
      /\ \A s \in Readers : Written' - Consumed(s) <= LOOM_CAPACITY
    BY <1>1, ReaderLoads DEF Claim, ObserveOrder, Atomics, pushVars
<1>3. mem' = mem /\ role' = role /\ rpc' = rpc /\ role[r] = "loan" /\ rpc[r] = "idle"
    BY DEF Claim
<1>4. /\ claim_base \in [Readers -> Nat] /\ loans \in [Readers -> SUBSET Nat]
      /\ claim_base[r] \in Nat /\ \A j \in loans[r] : j \in Nat
    BY DEF LoomInv, LoomTypeOK
<1>5. p \in Nat /\ p >= claim_base[r] /\ p >= Consumed(r) /\ Consumed(r) \in Nat
    BY <1>4, Indices DEF Position
<1>6. mem[WriteIdx][i].val = i - 1
    BY DEF LoomInv, StoresCount
<1> HIDE DEF p
<1>7. claim_base' \in [Readers -> Nat] /\ loans' \in [Readers -> SUBSET Nat]
    BY <1>1, <1>4, <1>5
<1>8. LoomTypeOK'
    BY <1>2, <1>3, <1>7 DEF LoomInv, LoomTypeOK, Claim, pushVars, View
<1>9. ASSUME NEW s \in Readers PROVE PopperKnows(s)'
  <2>1. CASE s # r
    <3>1. loans'[s] = loans[s] /\ claim_base'[s] = claim_base[s]
        BY <2>1, <1>1, <1>4
    <3> QED
        BY <3>1, <1>2, <1>3, PopperStays
  <2>2. CASE s = r
    <3>1. Newest(ReadIdx(r))' = Newest(ReadIdx(r)) /\ Consumed(r)' = Consumed(r)
        BY <1>3 DEF Newest, Consumed
    <3>2. /\ Newest(ReadIdx(r)) \in Nat /\ view[r][WriteIdx] \in Nat
          /\ view'[r][WriteIdx] \in Nat /\ Newest(ReadIdx(r)) <= view[r][WriteIdx]
        BY Indices, <1>2, Sizes, AllPlaced DEF View
    <3>3. Newest(ReadIdx(r)) <= view'[r][WriteIdx]
        BY <3>2, <1>2
    <3>4. \A j \in loans[r] :
             Consumed(r) <= j /\ j + 1 < view[r][WriteIdx] /\ j < claim_base[r]
        BY DEF LoomInv, PopperKnows
    <3>5. ASSUME NEW j \in loans'[r]
          PROVE  Consumed(r) <= j /\ j + 1 < view'[r][WriteIdx] /\ j < claim_base'[r]
      <4>1. CASE p < mem[WriteIdx][i].val
        <5>1. (j \in loans[r] \/ j = p) /\ claim_base'[r] = p + 1
            BY <4>1, <1>1, <1>4
        <5>2. CASE j \in loans[r]
            BY <5>1, <5>2, <3>2, <3>4, <1>2, <1>4, <1>5
        <5>3. CASE j = p
          <6>1. p + 1 < i /\ i \in Nat
              BY <4>1, <1>5, <1>6, Indices
          <6> QED
              BY <5>1, <5>3, <6>1, <3>2, <1>2, <1>5
        <5> QED
            BY <5>1, <5>2, <5>3
      <4>2. CASE ~(p < mem[WriteIdx][i].val)
        <5>1. j \in loans[r] /\ claim_base'[r] = claim_base[r]
            BY <4>2, <1>1
        <5> QED
            BY <5>1, <3>2, <3>4, <1>2, <1>4
      <4> QED
          BY <4>1, <4>2
    <3> QED
        BY <2>2, <1>2, <1>3, <3>1, <3>3, <3>5 DEF PopperKnows
  <2> QED
      BY <2>1, <2>2
<1> QED
    BY <1>2, <1>8, <1>9 DEF LoomInv


-----------------------------------------------------------------------------
(* The readers' stores.                                                    *)

(* What a reader may read, it has the newest write of.                     *)
LEMMA ReadKnown ==
    ASSUME LoomInv, NEW r \in Readers, NEW i \in Nat,
           Consumed(r) <= i, i + 1 < view[r][WriteIdx]
    PROVE  /\ view[r][Slot(i)] = Newest(Slot(i))
           /\ mem[Slot(i)][Newest(Slot(i))].val = i + 1
           /\ i < Published /\ Newest(ReadIdx(r)) <= i + 1 /\ i + 1 < Newest(WriteIdx)
<1>1. /\ view[r][WriteIdx] \in Nat /\ view[r][WriteIdx] <= Newest(WriteIdx)
      /\ Newest(WriteIdx) \in Nat /\ Published \in Nat /\ Written \in Nat
      /\ Published <= Written /\ Consumed(r) \in Nat
      /\ Newest(ReadIdx(r)) \in Nat
    BY Indices
<1>2. i < Published /\ Newest(ReadIdx(r)) <= i + 1 /\ i + 1 < Newest(WriteIdx)
    BY <1>1 DEF Published, Consumed
<1>3. i \in 0..(Written - 1) /\ Written - i <= LOOM_CAPACITY
  <2>1. Written - Consumed(r) <= LOOM_CAPACITY
      BY DEF LoomInv, PopperKnows
  <2> QED
      BY <2>1, <1>1, <1>2, Sizes
<1>4. Sound(view[r], Tops, Written)
    BY Sizes DEF LoomInv, ViewsSound
<1>5. view[r][Slot(i)] = Tops[Slot(i)]
    BY <1>3, <1>4 DEF Sound
<1>6. Tops[Slot(i)] = Newest(Slot(i))
    BY AllPlaced DEF Tops
<1>7. mem[Slot(i)][Newest(Slot(i))].val = i + 1
    BY <1>3 DEF LoomInv, SlotsHold
<1> QED
    BY <1>2, <1>5, <1>6, <1>7

LEMMA ReaderReads ==
    ASSUME LoomInv, NEW r \in Readers, NEW i \in Nat,
           Consumed(r) <= i, i + 1 < view[r][WriteIdx],
           ReadSlot(r, i), UNCHANGED pushVars
    PROVE  /\ mem' \in [Locs -> Seq(Message)] /\ view' \in [Threads -> View]
           /\ out' \in [Readers -> [index : Int, val : Int]]
           /\ ViewsSound' /\ StoresCount' /\ OwnersKnow'
           /\ SlotsHold' /\ PusherKnows' /\ ReadsInStream'
           /\ \A s \in Readers : view'[s][WriteIdx] = view[s][WriteIdx]
           /\ \A s \in Readers : mem'[ReadIdx(s)] = mem[ReadIdx(s)]
           /\ \A s \in Readers : Written' - Consumed(s) <= LOOM_CAPACITY
<1> DEFINE l == SlotRead(r, i)
<1> USE DEF LoomInv
<1>0. l \in Locs /\ r \in Threads /\ 0 \in Int
    BY AllPlaced, Sizes
<1>1. Store(r, l, 0, "Relaxed")
    BY DEF ReadSlot
<1>2. /\ mem' \in [Locs -> Seq(Message)] /\ view' \in [Threads -> View]
      /\ Tops' = Along(Tops, Tops, l) /\ view'[r] = Along(view[r], Tops, l)
      /\ \A k \in Locs : k # l => view'[r][k] = view[r][k]
      /\ \A s \in Threads : s # r => view'[s] = view[s]
      /\ \A k \in Locs : k # l => mem'[k] = mem[k]
    BY <1>0, <1>1, Stored
<1>3. /\ WriteIdx # l /\ Notify # l /\ l \notin Atomics
      /\ \A j : Slot(j) # l /\ ReadIdx(j) # l
    BY Distinct DEF Atomics
<1>4. /\ mem'[WriteIdx] = mem[WriteIdx] /\ mem'[Notify] = mem[Notify]
      /\ \A s \in Readers : mem'[ReadIdx(s)] = mem[ReadIdx(s)]
      /\ \A j \in Nat : mem'[Slot(j)] = mem[Slot(j)]
    BY <1>2, <1>3, AllPlaced
<1>5. Written' = Written /\ Published' = Published
    BY <1>4 DEF Written, Published, Newest, pushVars
<1>6. /\ view[r][Slot(i)] = Newest(Slot(i))
      /\ mem[Slot(i)][Newest(Slot(i))].val = i + 1
      /\ Newest(ReadIdx(r)) <= i + 1 /\ i + 1 < Newest(WriteIdx)
    BY ReadKnown
<1>7. /\ Tops \in View /\ Tops[ReadIdx(r)] = Newest(ReadIdx(r))
      /\ Tops[WriteIdx] = Newest(WriteIdx) /\ view[r] \in View /\ Newest(Slot(i)) \in Nat
    BY MemTyped, AllPlaced, <1>0
<1>8. Written \in Nat
    BY Indices
<1>9. ASSUME NEW v \in View, Sound(v, Tops, Written)
      PROVE  Sound(v, Tops', Written')
    BY <1>9, <1>2, <1>5, <1>6, <1>7, <1>8, ReadSound
<1>10. Sound(view'[r], Tops', Written')
  <2>1. Sound(view[r], Tops, Written)
      BY <1>0 DEF ViewsSound
  <2> QED
      BY <2>1, <1>2, <1>5, <1>6, <1>7, <1>8, ReadSound
<1>11. ViewsSound'
    BY <1>0, <1>1, <1>9, <1>10, StoreViews
<1>12. StoresCount'
    BY <1>0, <1>1, <1>3, StoreCounts
<1>13. OwnersKnow'
    BY <1>0, <1>1, StoreOwners DEF Owns
<1>14. SlotsHold'
    BY <1>4, <1>5, <1>8 DEF SlotsHold, Newest
<1>15. PusherKnows'
  <2>1. view'[Producer] = view[Producer]
      BY <1>2, Sizes
  <2> QED
      BY <2>1, <1>4, <1>5 DEF PusherKnows, Newest, pushVars
<1>16. out' = [out EXCEPT ![r] = [index |-> i, val |-> i + 1]]
  <2>1. PICK n \in view[r][Slot(i)]..Newest(Slot(i)) :
           out' = [out EXCEPT ![r] = [index |-> i, val |-> mem[Slot(i)][n].val]]
      BY DEF ReadSlot
  <2>2. n = Newest(Slot(i))
      BY <1>6, <1>7
  <2> QED
      BY <2>1, <2>2, <1>6
<1>17. out' \in [Readers -> [index : Int, val : Int]] /\ ReadsInStream'
    BY <1>16 DEF LoomTypeOK, ReadsInStream
<1>18. \A s \in Readers : view'[s][WriteIdx] = view[s][WriteIdx]
    BY <1>2, <1>3, AllPlaced, Sizes
<1>19. \A s \in Readers : Written' - Consumed(s) <= LOOM_CAPACITY
    BY <1>5 DEF PopperKnows
<1> QED
    BY <1>2, <1>4, <1>11, <1>12, <1>13, <1>14, <1>15, <1>17, <1>18, <1>19

LEMMA PopReadInv ==
    ASSUME LoomInv, NEW r \in Readers, PopRead(r)
    PROVE  LoomInv'
<1> DEFINE c == Cursor(r)
<1>1. /\ ReadSlot(r, c) /\ rpc[r] = "read" /\ rpc' = [rpc EXCEPT ![r] = "advance"]
      /\ role' = role /\ loans' = loans /\ claim_base' = claim_base /\ UNCHANGED pushVars
    BY DEF PopRead, Goes, loanVars
<1>2. /\ c \in Nat /\ c = Consumed(r) /\ Newest(ReadIdx(r)) < view[r][WriteIdx]
      /\ Newest(ReadIdx(r)) \in Nat /\ view[r][WriteIdx] \in Nat
    BY <1>1, Indices DEF LoomInv, PopperKnows
<1>3. Consumed(r) <= c /\ c + 1 < view[r][WriteIdx]
    BY <1>2 DEF Consumed
<1> HIDE DEF c
<1>4. /\ mem' \in [Locs -> Seq(Message)] /\ view' \in [Threads -> View]
      /\ out' \in [Readers -> [index : Int, val : Int]]
      /\ ViewsSound' /\ StoresCount' /\ OwnersKnow'
      /\ SlotsHold' /\ PusherKnows' /\ ReadsInStream'
      /\ \A s \in Readers : view'[s][WriteIdx] = view[s][WriteIdx]
      /\ \A s \in Readers : mem'[ReadIdx(s)] = mem[ReadIdx(s)]
      /\ \A s \in Readers : Written' - Consumed(s) <= LOOM_CAPACITY
    BY <1>1, <1>2, <1>3, ReaderReads
<1>5. LoomTypeOK'
    BY <1>1, <1>4 DEF LoomInv, LoomTypeOK, pushVars, View, Message
<1>6. ASSUME NEW s \in Readers PROVE PopperKnows(s)'
  <2>0. view[s][WriteIdx] \in Nat
      BY Indices
  <2>1. CASE s # r
    <3>1. rpc'[s] = rpc[s]
        BY <2>1, <1>1 DEF LoomInv, LoomTypeOK
    <3> QED
        BY <3>1, <2>0, <1>1, <1>4, PopperStays
  <2>2. CASE s = r
    <3>1. rpc'[r] = "advance" /\ role[r] # "loan" /\ loans[r] = {}
        BY <1>1 DEF LoomInv, LoomTypeOK, PopperKnows
    <3>2. Newest(ReadIdx(r))' = Newest(ReadIdx(r)) /\ Consumed(r)' = Consumed(r)
        BY <1>4 DEF Newest, Consumed
    <3> QED
        BY <2>2, <1>1, <1>2, <1>4, <3>1, <3>2 DEF PopperKnows
  <2> QED
      BY <2>1, <2>2
<1> QED
    BY <1>4, <1>5, <1>6 DEF LoomInv

LEMMA ValueInv ==
    ASSUME LoomInv, NEW r \in Readers, NEW i \in loans[r], Value(r, i)
    PROVE  LoomInv'
<1>1. /\ ReadSlot(r, i) /\ rpc' = rpc
      /\ role' = role /\ loans' = loans /\ claim_base' = claim_base /\ UNCHANGED pushVars
    BY DEF Value, loanVars
<1>2. i \in Nat /\ Consumed(r) <= i /\ i + 1 < view[r][WriteIdx]
    BY DEF LoomInv, PopperKnows, LoomTypeOK
<1>4. /\ mem' \in [Locs -> Seq(Message)] /\ view' \in [Threads -> View]
      /\ out' \in [Readers -> [index : Int, val : Int]]
      /\ ViewsSound' /\ StoresCount' /\ OwnersKnow'
      /\ SlotsHold' /\ PusherKnows' /\ ReadsInStream'
      /\ \A s \in Readers : view'[s][WriteIdx] = view[s][WriteIdx]
      /\ \A s \in Readers : mem'[ReadIdx(s)] = mem[ReadIdx(s)]
      /\ \A s \in Readers : Written' - Consumed(s) <= LOOM_CAPACITY
    BY <1>1, <1>2, ReaderReads
<1>5. LoomTypeOK'
    BY <1>1, <1>4 DEF LoomInv, LoomTypeOK, pushVars, View, Message
<1>6. ASSUME NEW s \in Readers PROVE PopperKnows(s)'
  <2>1. view[s][WriteIdx] \in Nat
      BY Indices
  <2> QED
      BY <2>1, <1>1, <1>4, PopperStays
<1> QED
    BY <1>4, <1>5, <1>6 DEF LoomInv


LEMMA ReaderAdvances ==
    ASSUME LoomInv, NEW r \in Readers, NEW val, val = Newest(ReadIdx(r)),
           Store(r, ReadIdx(r), val, "Release"), UNCHANGED <<pushVars, out>>
    PROVE  /\ mem' \in [Locs -> Seq(Message)] /\ view' \in [Threads -> View]
           /\ ViewsSound' /\ StoresCount' /\ OwnersKnow'
           /\ SlotsHold' /\ PusherKnows' /\ ReadsInStream'
           /\ \A s \in Readers : view'[s][WriteIdx] = view[s][WriteIdx]
           /\ \A s \in Readers : s # r => mem'[ReadIdx(s)] = mem[ReadIdx(s)]
           /\ Newest(ReadIdx(r))' = Newest(ReadIdx(r)) + 1
           /\ Written' = Written
           /\ \A s \in Readers : Written' - Consumed(s) <= LOOM_CAPACITY
<1> DEFINE l == ReadIdx(r)
<1> USE DEF LoomInv
<1>0. l \in Locs /\ r \in Threads /\ val \in Int
    BY AllPlaced, Sizes, Indices
<1>1. Store(r, l, val, "Release")
    OBVIOUS
<1>2. /\ mem' \in [Locs -> Seq(Message)] /\ view' \in [Threads -> View]
      /\ Tops' = Along(Tops, Tops, l) /\ view'[r] = Along(view[r], Tops, l)
      /\ \A k \in Locs : k # l => view'[r][k] = view[r][k]
      /\ \A s \in Threads : s # r => view'[s] = view[s]
      /\ Len(mem'[l]) = Len(mem[l]) + 1
      /\ \A k \in Locs : k # l => mem'[k] = mem[k]
    BY <1>0, <1>1, Stored
<1>3. /\ WriteIdx # l /\ Notify # l /\ \A j : Slot(j) # l
      /\ \A s : s # r => ReadIdx(s) # l
    BY Distinct
<1>4. /\ mem'[WriteIdx] = mem[WriteIdx] /\ mem'[Notify] = mem[Notify]
      /\ \A s \in Readers : s # r => mem'[ReadIdx(s)] = mem[ReadIdx(s)]
      /\ \A j \in Nat : mem'[Slot(j)] = mem[Slot(j)]
    BY <1>2, <1>3, AllPlaced
<1>5. Written' = Written /\ Published' = Published
    BY <1>4 DEF Written, Published, Newest, pushVars
<1>7. /\ Tops \in View /\ view[r] \in View
      /\ \A i \in Nat : Tops[SlotRead(r, i)] = Newest(SlotRead(r, i))
    BY MemTyped, AllPlaced, <1>0
<1>8. Written \in Nat
    BY Indices
<1>9. ASSUME NEW v \in View, Sound(v, Tops, Written)
      PROVE  Sound(v, Tops', Written')
    BY <1>9, <1>2, <1>5, <1>7, <1>8, AdvanceSound
<1>10. Sound(view'[r], Tops', Written')
  <2>1. Sound(view[r], Tops, Written)
      BY <1>0 DEF ViewsSound
  <2>2. \A i \in Nat : view[r][SlotRead(r, i)] = Tops[SlotRead(r, i)]
      BY <1>7, OwnersAll
  <2> QED
      BY <2>1, <2>2, <1>2, <1>5, <1>7, <1>8, AdvanceSound
<1>11. ViewsSound'
    BY <1>0, <1>1, <1>9, <1>10, StoreViews
<1>12. StoresCount'
    BY <1>0, <1>1, StoreCounts
<1>13. OwnersKnow'
    BY <1>0, <1>1, StoreOwners DEF Owns
<1>14. SlotsHold'
    BY <1>4, <1>5, <1>8 DEF SlotsHold, Newest
<1>15. PusherKnows'
  <2>1. view'[Producer] = view[Producer]
      BY <1>2, Sizes
  <2> QED
      BY <2>1, <1>4, <1>5 DEF PusherKnows, Newest, pushVars
<1>17. ReadsInStream'
    BY DEF ReadsInStream
<1>18. \A s \in Readers : view'[s][WriteIdx] = view[s][WriteIdx]
    BY <1>2, <1>3, AllPlaced, Sizes
<1>19. \A s \in Readers : Written' - Consumed(s) <= LOOM_CAPACITY
    BY <1>5 DEF PopperKnows
<1>20. Newest(ReadIdx(r))' = Newest(ReadIdx(r)) + 1
    BY <1>2 DEF Newest
<1> QED
    BY <1>2, <1>4, <1>5, <1>11, <1>12, <1>13, <1>14, <1>15, <1>17, <1>18, <1>19, <1>20

LEMMA PopAdvanceInv ==
    ASSUME LoomInv, NEW r \in Readers, PopAdvance(r)
    PROVE  LoomInv'
<1>1. /\ Store(r, ReadIdx(r), Cursor(r) + 1, "Release")
      /\ rpc[r] = "advance" /\ rpc' = [rpc EXCEPT ![r] = "idle"]
      /\ role' = role /\ loans' = loans /\ claim_base' = claim_base
      /\ out' = out /\ UNCHANGED pushVars
    BY DEF PopAdvance, Goes, loanVars, AdvanceOrder
<1>2. /\ Newest(ReadIdx(r)) < view[r][WriteIdx]
      /\ Newest(ReadIdx(r)) \in Nat /\ view[r][WriteIdx] \in Nat
      /\ Cursor(r) + 1 = Newest(ReadIdx(r)) /\ Written \in Nat
    BY <1>1, Indices DEF LoomInv, PopperKnows, Consumed
<1>4. /\ mem' \in [Locs -> Seq(Message)] /\ view' \in [Threads -> View]
      /\ ViewsSound' /\ StoresCount' /\ OwnersKnow'
      /\ SlotsHold' /\ PusherKnows' /\ ReadsInStream'
      /\ \A s \in Readers : view'[s][WriteIdx] = view[s][WriteIdx]
      /\ \A s \in Readers : s # r => mem'[ReadIdx(s)] = mem[ReadIdx(s)]
      /\ Newest(ReadIdx(r))' = Newest(ReadIdx(r)) + 1
      /\ Written' = Written
      /\ \A s \in Readers : Written' - Consumed(s) <= LOOM_CAPACITY
    BY <1>1, <1>2, ReaderAdvances
<1>5. LoomTypeOK'
    BY <1>1, <1>4 DEF LoomInv, LoomTypeOK, pushVars, View, Message
<1>6. ASSUME NEW s \in Readers PROVE PopperKnows(s)'
  <2>0. view[s][WriteIdx] \in Nat
      BY Indices
  <2>1. CASE s # r
    <3>1. rpc'[s] = rpc[s]
        BY <2>1, <1>1 DEF LoomInv, LoomTypeOK
    <3> QED
        BY <3>1, <2>0, <2>1, <1>1, <1>4, PopperStays
  <2>2. CASE s = r
    <3>1. rpc'[r] = "idle" /\ role[r] # "loan" /\ loans[r] = {}
        BY <1>1 DEF LoomInv, LoomTypeOK, PopperKnows
    <3>2. Written' - Consumed(r)' <= LOOM_CAPACITY
        BY <1>2, <1>4, Sizes DEF Consumed
    <3>3. Newest(ReadIdx(r))' <= view'[r][WriteIdx]
        BY <1>2, <1>4
    <3> QED
        BY <2>2, <1>1, <3>1, <3>2, <3>3 DEF PopperKnows
  <2> QED
      BY <2>1, <2>2
<1> QED
    BY <1>4, <1>5, <1>6 DEF LoomInv

LEMMA CommitInv ==
    ASSUME LoomInv, NEW r \in Readers, NEW i \in loans[r], Commit(r, i)
    PROVE  LoomInv'
<1>1. /\ Store(r, ReadIdx(r), i + 1, "Release") /\ Cursor(r) = i
      /\ loans' = [loans EXCEPT ![r] = @ \ {i}]
      /\ rpc' = rpc /\ role' = role /\ claim_base' = claim_base
      /\ out' = out /\ UNCHANGED pushVars
    BY DEF Commit, AdvanceOrder, AtCursor, resolve
<1>2. /\ i \in Nat /\ i + 1 < view[r][WriteIdx] /\ i + 1 = Newest(ReadIdx(r))
      /\ Newest(ReadIdx(r)) \in Nat /\ view[r][WriteIdx] \in Nat /\ Written \in Nat
  <2>1. i \in Nat /\ i + 1 < view[r][WriteIdx]
      BY DEF LoomInv, LoomTypeOK, PopperKnows
  <2>2. /\ Newest(ReadIdx(r)) \in Nat /\ view[r][WriteIdx] \in Nat /\ Written \in Nat
        /\ Cursor(r) = Newest(ReadIdx(r)) - 1
      BY Indices DEF Consumed
  <2> QED
      BY <2>1, <2>2, <1>1
<1>4. /\ mem' \in [Locs -> Seq(Message)] /\ view' \in [Threads -> View]
      /\ ViewsSound' /\ StoresCount' /\ OwnersKnow'
      /\ SlotsHold' /\ PusherKnows' /\ ReadsInStream'
      /\ \A s \in Readers : view'[s][WriteIdx] = view[s][WriteIdx]
      /\ \A s \in Readers : s # r => mem'[ReadIdx(s)] = mem[ReadIdx(s)]
      /\ Newest(ReadIdx(r))' = Newest(ReadIdx(r)) + 1
      /\ Written' = Written
      /\ \A s \in Readers : Written' - Consumed(s) <= LOOM_CAPACITY
    BY <1>1, <1>2, ReaderAdvances
<1>5. LoomTypeOK'
  <2>1. loans' \in [Readers -> SUBSET Nat]
      BY <1>1 DEF LoomInv, LoomTypeOK
  <2> QED
      BY <2>1, <1>1, <1>4 DEF LoomInv, LoomTypeOK, pushVars, View, Message
<1>6. ASSUME NEW s \in Readers PROVE PopperKnows(s)'
  <2>0. view[s][WriteIdx] \in Nat
      BY Indices
  <2>1. CASE s # r
    <3>1. loans'[s] = loans[s]
        BY <2>1, <1>1 DEF LoomInv, LoomTypeOK
    <3> QED
        BY <3>1, <2>0, <2>1, <1>1, <1>4, PopperStays
  <2>2. CASE s = r
    <3>1. rpc[r] = "idle" /\ role[r] = "loan"
        BY DEF LoomInv, PopperKnows
    <3>2. Written' - Consumed(r)' <= LOOM_CAPACITY
        BY <1>2, <1>4, Sizes DEF Consumed
    <3>3. Newest(ReadIdx(r))' <= view'[r][WriteIdx]
        BY <1>2, <1>4
    <3>4. ASSUME NEW j \in loans'[r]
          PROVE  /\ Consumed(r)' <= j /\ j + 1 < view'[r][WriteIdx]
                 /\ j < claim_base'[r]
      <4>1. j \in loans[r] /\ j # i
          BY <1>1 DEF LoomInv, LoomTypeOK
      <4>2. j \in Nat /\ Consumed(r) <= j /\ j + 1 < view[r][WriteIdx] /\ j < claim_base[r]
          BY <4>1 DEF LoomInv, LoomTypeOK, PopperKnows
      <4>3. Consumed(r) = i /\ Consumed(r)' = i + 1
          BY <1>2, <1>4 DEF Consumed
      <4> QED
          BY <4>1, <4>2, <4>3, <1>1, <1>2, <1>4
    <3> QED
        BY <2>2, <1>1, <3>1, <3>2, <3>3, <3>4 DEF PopperKnows
  <2> QED
      BY <2>1, <2>2
<1> QED
    BY <1>4, <1>5, <1>6 DEF LoomInv

(* Drop and abort leave memory and views alone.                            *)
LEMMA ReaderForgets ==
    ASSUME LoomInv, NEW r \in Readers, NEW i \in loans[r],
           UNCHANGED <<mem, view, pushVars, role, rpc, out>>,
           loans' = [loans EXCEPT ![r] = @ \ {i}],
           claim_base' \in [Readers -> Nat],
           \A s \in Readers : s # r => claim_base'[s] = claim_base[s],
           \A j \in loans[r] : j # i => j < claim_base'[r]
    PROVE  LoomInv'
<1> USE DEF LoomInv
<1>1. Written' = Written /\ Published' = Published /\ Tops' = Tops
    BY DEF Written, Published, Tops, Newest, pushVars
<1>2. LoomTypeOK'
  <2>1. loans' \in [Readers -> SUBSET Nat]
      BY DEF LoomTypeOK
  <2> QED
      BY <2>1 DEF LoomTypeOK, pushVars
<1>3. ViewsSound'
    BY <1>1 DEF ViewsSound, Newest, Start
<1>4. StoresCount' /\ OwnersKnow'
    BY DEF StoresCount, OwnersKnow, Newest
<1>5. SlotsHold' /\ PusherKnows' /\ ReadsInStream'
    BY <1>1 DEF SlotsHold, PusherKnows, ReadsInStream, Newest, pushVars
<1>6. ASSUME NEW s \in Readers PROVE PopperKnows(s)'
  <2>1. PopperKnows(s) /\ Consumed(s)' = Consumed(s)
      BY DEF Consumed, Newest
  <2>2. loans'[s] \subseteq loans[s] /\ \A j \in loans'[s] : j < claim_base'[s]
    <3>1. CASE s = r
        BY <3>1 DEF LoomTypeOK
    <3>2. CASE s # r
        BY <3>2, <2>1 DEF LoomTypeOK, PopperKnows
    <3> QED
        BY <3>1, <3>2
  <2> QED
      BY <2>1, <2>2, <1>1 DEF PopperKnows, Newest
<1> QED
    BY <1>2, <1>3, <1>4, <1>5, <1>6

LEMMA DropInv ==
    ASSUME LoomInv, NEW r \in Readers, NEW i \in loans[r], Drop(r, i)
    PROVE  LoomInv'
<1>1. claim_base' = claim_base /\ loans' = [loans EXCEPT ![r] = @ \ {i}]
      /\ UNCHANGED <<mem, view, pushVars, role, rpc, out>>
    BY DEF Drop, resolve
<1>2. claim_base \in [Readers -> Nat] /\ \A j \in loans[r] : j < claim_base[r]
    BY DEF LoomInv, LoomTypeOK, PopperKnows
<1> QED
    BY <1>1, <1>2, ReaderForgets

LEMMA AbortInv ==
    ASSUME LoomInv, NEW r \in Readers, NEW i \in loans[r], Abort(r, i)
    PROVE  LoomInv'
<1>1. /\ \A j \in loans[r] : j <= i
      /\ claim_base' = [claim_base EXCEPT ![r] = IF i < @ THEN i ELSE @]
      /\ loans' = [loans EXCEPT ![r] = @ \ {i}]
      /\ UNCHANGED <<mem, view, pushVars, role, rpc, out>>
    BY DEF Abort, resolve
<1>2. /\ claim_base \in [Readers -> Nat] /\ i \in Nat
      /\ \A j \in loans[r] : j \in Nat /\ j < claim_base[r]
    BY DEF LoomInv, LoomTypeOK, PopperKnows
<1>3. claim_base' \in [Readers -> Nat] /\ claim_base'[r] = i
      /\ \A s \in Readers : s # r => claim_base'[s] = claim_base[s]
    BY <1>1, <1>2
<1>4. \A j \in loans[r] : j # i => j < claim_base'[r]
    BY <1>1, <1>2, <1>3
<1> QED
    BY <1>1, <1>3, <1>4, ReaderForgets


-----------------------------------------------------------------------------
(* The producer's steps.                                                   *)

(* A step that touches no memory.                                          *)
LEMMA PusherMoves ==
    ASSUME LoomInv, UNCHANGED <<mem, view, readerVars>>,
           ppc # "publish", ppc' # "publish"
    PROVE  /\ ViewsSound' /\ StoresCount' /\ OwnersKnow' /\ SlotsHold'
           /\ ReadsInStream' /\ \A r \in Readers : PopperKnows(r)'
<1> USE DEF LoomInv, readerVars, loanVars
<1>1. Written' = Written /\ Tops' = Tops
    BY DEF Written, Published, Tops, Newest
<1>2. ViewsSound'
    BY <1>1 DEF ViewsSound, Newest, Start
<1>3. StoresCount' /\ OwnersKnow'
    BY DEF StoresCount, OwnersKnow, Newest
<1>4. SlotsHold' /\ ReadsInStream'
    BY <1>1 DEF SlotsHold, ReadsInStream, Newest
<1>5. ASSUME NEW r \in Readers PROVE PopperKnows(r)'
    BY <1>1 DEF PopperKnows, Consumed, Newest
<1> QED
    BY <1>2, <1>3, <1>4, <1>5

LEMMA PushLoadInv ==
    ASSUME LoomInv, PushLoad
    PROVE  LoomInv'
<1>1. PICK i \in 1..Newest(WriteIdx) :
         /\ Load(Producer, WriteIdx, "Relaxed", i) /\ pw' = mem[WriteIdx][i].val
    BY DEF PushLoad
<1>2. /\ Newest(WriteIdx) \in Nat /\ view[Producer][WriteIdx] = Newest(WriteIdx)
      /\ mem[WriteIdx][Newest(WriteIdx)].val = Published /\ Published \in Nat
    BY Indices
<1>3. i = Newest(WriteIdx)
  <2>1. i \in view[Producer][WriteIdx]..Newest(WriteIdx)
      BY <1>1 DEF Load
  <2> QED
      BY <2>1, <1>2
<1>4. pw' = Published
    BY <1>1, <1>2, <1>3
<1>5. view' = view
  <2>1. view' = [view EXCEPT ![Producer] = [view[Producer] EXCEPT ![WriteIdx] = i]]
      BY <1>1 DEF Load
  <2>2. view \in [Threads -> [Locs -> Nat]]
      BY DEF LoomInv, LoomTypeOK
  <2>3. [view[Producer] EXCEPT ![WriteIdx] = i] = view[Producer]
      BY <2>2, <1>2, <1>3, Sizes, AllPlaced
  <2> QED
      BY <2>1, <2>2, <2>3
<1>6. /\ ppc = "idle" /\ ppc' = "scan"
      /\ UNCHANGED <<mem, pval, pscan, pmin, total_written, readerVars>>
    BY DEF PushLoad
<1>7. /\ ViewsSound' /\ StoresCount' /\ OwnersKnow' /\ SlotsHold'
      /\ ReadsInStream' /\ \A r \in Readers : PopperKnows(r)'
    BY <1>5, <1>6, PusherMoves
<1>8. LoomTypeOK'
    BY <1>2, <1>4, <1>5, <1>6 DEF LoomInv, LoomTypeOK, readerVars, loanVars
<1>9. PusherKnows'
  <2>1. Published' = Published
      BY <1>6 DEF Published, Newest
  <2>2. pscan' = 0 /\ \A r \in Readers : ~(r < 0)
      BY <1>6, Sizes DEF LoomInv, PusherKnows
  <2> QED
      BY <2>1, <2>2, <1>4, <1>6 DEF LoomInv, PusherKnows
<1> QED
    BY <1>7, <1>8, <1>9 DEF LoomInv

LEMMA PushRefusedInv ==
    ASSUME LoomInv, PushRefused
    PROVE  LoomInv'
<1>1. /\ ppc = "scan" /\ ppc' = "idle" /\ pw' = 0 /\ pscan' = 0 /\ pmin' = U64_MAX
      /\ UNCHANGED <<mem, view, pval, readerVars>>
    BY DEF PushRefused, PushReturns, Scanned
<1>2. /\ ViewsSound' /\ StoresCount' /\ OwnersKnow' /\ SlotsHold'
      /\ ReadsInStream' /\ \A r \in Readers : PopperKnows(r)'
    BY <1>1, PusherMoves
<1>3. LoomTypeOK'
  <2>1. pw' \in Nat /\ pscan' \in 0..NumReaders /\ pmin' \in Nat
      BY <1>1, Sizes
  <2> QED
      BY <2>1, <1>1 DEF LoomInv, LoomTypeOK, readerVars, loanVars
<1>4. PusherKnows'
    BY <1>1 DEF LoomInv, PusherKnows, Published, Newest
<1> QED
    BY <1>2, <1>3, <1>4 DEF LoomInv

LEMMA PushScanInv ==
    ASSUME LoomInv, PushScan
    PROVE  LoomInv'
<1>1. PICK i \in 1..Newest(ReadIdx(pscan)) :
         /\ Load(Producer, ReadIdx(pscan), "Acquire", i)
         /\ pmin' = IF mem[ReadIdx(pscan)][i].val < pmin
                    THEN mem[ReadIdx(pscan)][i].val ELSE pmin
    BY DEF PushScan, ScanOrder
<1>2. /\ ppc = "scan" /\ pscan < NumReaders /\ pscan' = pscan + 1
      /\ UNCHANGED <<mem, ppc, pval, pw, total_written, readerVars>>
    BY DEF PushScan
<1>3. pscan \in Readers /\ pscan \in Nat /\ pmin \in Nat
    BY <1>2, Sizes DEF LoomInv, LoomTypeOK, Readers
<1>4. Written' = Written /\ Published' = Published
    BY <1>2 DEF Written, Published, Newest
<1>5. ReadIdx(pscan) \in Atomics
    BY <1>3 DEF Atomics
<1>6. /\ view' \in [Threads -> View]
      /\ ViewsSound' /\ StoresCount' /\ OwnersKnow'
      /\ \A s \in Threads, k \in Locs : view'[s][k] >= view[s][k]
      /\ \A s \in Threads : s # Producer => view'[s] = view[s]
      /\ view'[Producer][ReadIdx(pscan)] >= i
    BY <1>1, <1>2, <1>4, <1>5, Sizes, Loaded DEF LoomInv
<1>7. mem[ReadIdx(pscan)][i].val = i - 1
    BY <1>5 DEF LoomInv, StoresCount, Atomics
<1>8. i \in Nat /\ i >= 1
    BY <1>3, Indices
<1>9. pmin' \in Nat /\ pmin' <= i - 1 /\ pmin' <= pmin
    BY <1>1, <1>3, <1>7, <1>8
<1>10. LoomTypeOK'
  <2>1. pscan' \in 0..NumReaders
      BY <1>2, <1>3, Sizes
  <2> QED
      BY <2>1, <1>2, <1>6, <1>9 DEF LoomInv, LoomTypeOK, readerVars, loanVars, View
<1>11. SlotsHold' /\ ReadsInStream'
    BY <1>2, <1>4 DEF LoomInv, SlotsHold, ReadsInStream, Newest, readerVars
<1>12. PusherKnows'
  <2>1. ASSUME NEW r \in Readers, r < pscan'
        PROVE  pmin' < view'[Producer][ReadIdx(r)]
    <3>1. /\ view[Producer][ReadIdx(r)] \in Nat /\ view'[Producer][ReadIdx(r)] \in Nat
          /\ view'[Producer][ReadIdx(r)] >= view[Producer][ReadIdx(r)] /\ r \in Nat
        BY <1>6, Indices, Sizes, AllPlaced DEF View
    <3>2. CASE r = pscan
        BY <3>1, <3>2, <1>6, <1>8, <1>9
    <3>3. CASE r < pscan
      <4>1. pmin < view[Producer][ReadIdx(r)]
          BY <3>3, <1>2 DEF LoomInv, PusherKnows
      <4> QED
          BY <4>1, <3>1, <1>3, <1>9
    <3> QED
        BY <3>1, <3>2, <3>3, <2>1, <1>2, <1>3
  <2> QED
      BY <2>1, <1>2, <1>4 DEF LoomInv, PusherKnows
<1>13. ASSUME NEW r \in Readers PROVE PopperKnows(r)'
  <2>1. view'[r][WriteIdx] >= view[r][WriteIdx]
      BY <1>6, Sizes, AllPlaced
  <2>2. Written' - Consumed(r) <= LOOM_CAPACITY
      BY <1>4 DEF LoomInv, PopperKnows
  <2>3. /\ mem'[ReadIdx(r)] = mem[ReadIdx(r)] /\ role' = role /\ rpc'[r] = rpc[r]
        /\ loans'[r] = loans[r] /\ claim_base'[r] = claim_base[r]
      BY <1>2 DEF readerVars, loanVars
  <2> QED
      BY <2>1, <2>2, <2>3, <1>6, PopperStays
<1> QED
    BY <1>6, <1>10, <1>11, <1>12, <1>13 DEF LoomInv


(* With room according to the scan there is room, whatever the cursors it  *)
(* loaded, and every read of the slot to be written is known.              *)
LEMMA RoomKnown ==
    ASSUME LoomInv, Scanned, ~Full
    PROVE  /\ pw = Published /\ Written = Published
           /\ \A r \in Readers :
                 /\ Published - Consumed(r) < LOOM_CAPACITY
                 /\ view[Producer][SlotRead(r, pw)] = Newest(SlotRead(r, pw))
<1>1. pw = Published /\ Written = Published
    BY DEF LoomInv, PusherKnows, Scanned, Written
<1>2. Published \in Nat /\ pmin \in Nat /\ Published - pmin < LOOM_CAPACITY
  <2>1. Published \in Nat /\ pmin \in Nat
      BY Indices DEF LoomInv, LoomTypeOK
  <2> QED
      BY <2>1, <1>1, Sizes DEF Full
<1>3. ASSUME NEW r \in Readers
      PROVE  /\ Published - Consumed(r) < LOOM_CAPACITY
             /\ view[Producer][SlotRead(r, pw)] = Newest(SlotRead(r, pw))
  <2>1. pmin < view[Producer][ReadIdx(r)]
      BY Sizes DEF LoomInv, PusherKnows, Scanned
  <2>2. /\ view[Producer][ReadIdx(r)] \in Nat /\ Consumed(r) \in Nat
        /\ view[Producer][ReadIdx(r)] <= Consumed(r) + 1
      BY Indices DEF Consumed
  <2>3. Published + 1 < view[Producer][ReadIdx(r)] + LOOM_CAPACITY
      BY <2>1, <2>2, <1>2, Sizes
  <2>4. Tops[WriteIdx] = Newest(WriteIdx) /\ Newest(WriteIdx) \in Nat
        /\ Tops[SlotRead(r, pw)] = Newest(SlotRead(r, pw))
      BY AllPlaced, Indices, <1>1, <1>2 DEF Tops
  <2>5. Published \in (Tops[WriteIdx] - 1)..(Tops[WriteIdx] + LOOM_CAPACITY - 2)
      BY <2>4, Sizes DEF Published
  <2>6. view[Producer][SlotRead(r, Published)] = Tops[SlotRead(r, Published)]
      BY <2>3, <2>5, Sizes DEF LoomInv, ViewsSound, Sound
  <2> QED
      BY <2>1, <2>2, <2>4, <2>6, <1>1, <1>2, Sizes
<1> QED
    BY <1>1, <1>3

LEMMA PushWriteInv ==
    ASSUME LoomInv, PushWrite
    PROVE  LoomInv'
<1> DEFINE l == Slot(pw)
<1>1. /\ Store(Producer, l, pval, "Relaxed") /\ ppc = "scan" /\ ppc' = "publish"
      /\ UNCHANGED <<pval, pw, pscan, pmin, readerVars>>
    BY DEF PushWrite, Scanned
<1>2. /\ pw = Published /\ Written = Published
      /\ \A r \in Readers : Published - Consumed(r) < LOOM_CAPACITY
    BY RoomKnown DEF PushWrite
<1>3. /\ Published \in Nat /\ pval = Published + 1 /\ pval \in Int
      /\ Newest(WriteIdx) = Published + 1 /\ Newest(WriteIdx) \in Nat
      /\ \A r \in Readers : Consumed(r) \in Nat
  <2>1. pval = Published + 1
      BY DEF LoomInv, PusherKnows
  <2>2. Published \in Nat /\ Newest(WriteIdx) \in Nat
        /\ \A r \in Readers : Consumed(r) \in Nat
      BY Indices
  <2> QED
      BY <2>1, <2>2 DEF Published
<1>4. l \in Locs /\ Producer \in Threads /\ LoomTypeOK /\ ViewsSound
    BY <1>2, <1>3, AllPlaced, Sizes DEF LoomInv
<1>5. /\ mem' \in [Locs -> Seq(Message)] /\ view' \in [Threads -> View]
      /\ Tops' = Along(Tops, Tops, l) /\ view'[Producer] = Along(view[Producer], Tops, l)
      /\ \A k \in Locs : k # l => view'[Producer][k] = view[Producer][k]
      /\ \A s \in Threads : s # Producer => view'[s] = view[s]
      /\ Len(mem'[l]) = Len(mem[l]) + 1
      /\ \A k \in Locs : k # l => mem'[k] = mem[k]
      /\ mem'[l][Len(mem[l]) + 1].val = pval
    BY <1>1, <1>3, <1>4, Stored
<1>6. WriteIdx # l /\ Notify # l /\ l \notin Atomics /\ \A j : ReadIdx(j) # l
    BY Distinct DEF Atomics
<1>7. /\ mem'[WriteIdx] = mem[WriteIdx] /\ mem'[Notify] = mem[Notify]
      /\ \A s \in Readers : mem'[ReadIdx(s)] = mem[ReadIdx(s)]
    BY <1>5, <1>6, AllPlaced
<1>8. Published' = Published /\ Written' = Published + 1
    BY <1>1, <1>7 DEF Written, Published, Newest
<1>9. /\ Tops \in View /\ Tops[WriteIdx] - 1 = Published
      /\ \A t \in Threads : view[t] \in View
  <2>1. Tops \in View /\ Tops[WriteIdx] = Newest(WriteIdx)
        /\ \A t \in Threads : view[t] \in View
      BY <1>4, MemTyped, AllPlaced
  <2> QED
      BY <2>1, <1>3
<1>10. l = Slot(Published)
    BY <1>2
<1> HIDE DEF l
<1>11. ASSUME NEW v \in View, Sound(v, Tops, Written)
       PROVE  Sound(v, Tops', Written')
  <2>1. v \in {v, Along(v, Tops, Slot(Published))}
      OBVIOUS
  <2> QED
      BY <2>1, <1>11, <1>2, <1>3, <1>5, <1>8, <1>9, <1>10, WriteSound
<1>12. Sound(view'[Producer], Tops', Written')
  <2>1. Sound(view[Producer], Tops, Published) /\ view[Producer] \in View
      BY <1>2, <1>4, <1>9 DEF ViewsSound
  <2>2. view'[Producer] \in {view[Producer], Along(view[Producer], Tops, Slot(Published))}
      BY <1>5, <1>10
  <2> QED
      BY <2>1, <2>2, <1>3, <1>5, <1>8, <1>9, <1>10, WriteSound
<1>13. ViewsSound'
    BY <1>1, <1>3, <1>4, <1>11, <1>12, StoreViews
<1>14. StoresCount'
    BY <1>1, <1>3, <1>4, <1>6, StoreCounts DEF LoomInv
<1>15. OwnersKnow'
  <2>1. Owns(Producer, l)
      BY <1>3, <1>10 DEF Owns
  <2> QED
      BY <2>1, <1>1, <1>3, <1>4, StoreOwners DEF LoomInv
<1>16. SlotsHold'
  <2>1. ASSUME NEW j \in 0..Published, Published + 1 - j <= LOOM_CAPACITY
        PROVE  mem'[Slot(j)][Len(mem'[Slot(j)])].val = j + 1
    <3>1. CASE j = Published
        BY <3>1, <1>3, <1>5, <1>10
    <3>2. CASE j # Published
      <4>1. /\ j \in Nat /\ j < Published /\ Published - j < LOOM_CAPACITY
            /\ j \in 0..(Written - 1) /\ Written - j <= LOOM_CAPACITY
          BY <3>2, <2>1, <1>2, <1>3, Sizes
      <4>2. 0 \in Readers
          BY Sizes DEF Readers
      <4>3. Slot(j) = Slot(Published) => Published - j >= LOOM_CAPACITY
          BY <4>1, <4>2, <1>3, Laps
      <4>4. Slot(j) # l
          BY <4>1, <4>3, <1>3, <1>10, Sizes
      <4>5. mem'[Slot(j)] = mem[Slot(j)]
          BY <4>1, <4>4, <1>5, AllPlaced
      <4> QED
          BY <4>1, <4>5 DEF LoomInv, SlotsHold, Newest
    <3> QED
        BY <3>1, <3>2
  <2>2. Written' - 1 = Published
      BY <1>3, <1>8
  <2> QED
      BY <2>1, <2>2, <1>8 DEF SlotsHold, Newest
<1>17. PusherKnows'
    BY <1>1, <1>2, <1>8 DEF LoomInv, PusherKnows
<1>18. ReadsInStream'
    BY <1>1 DEF LoomInv, ReadsInStream, readerVars
<1>19. LoomTypeOK'
    BY <1>1, <1>5 DEF LoomInv, LoomTypeOK, readerVars, loanVars, View, Message
<1>20. ASSUME NEW r \in Readers PROVE PopperKnows(r)'
  <2>1. view'[r][WriteIdx] >= view[r][WriteIdx]
      BY <1>5, Sizes, Indices
  <2>2. Written' - Consumed(r) <= LOOM_CAPACITY
      BY <1>2, <1>3, <1>8, Sizes
  <2>3. /\ role' = role /\ rpc'[r] = rpc[r]
        /\ loans'[r] = loans[r] /\ claim_base'[r] = claim_base[r]
      BY <1>1 DEF readerVars, loanVars
  <2> QED
      BY <2>1, <2>2, <2>3, <1>5, <1>7, PopperStays
<1> QED
    BY <1>13, <1>14, <1>15, <1>16, <1>17, <1>18, <1>19, <1>20 DEF LoomInv


LEMMA PushPublishInv ==
    ASSUME LoomInv, PushPublish
    PROVE  LoomInv'
<1> DEFINE top == Newest(WriteIdx)
<1>1. /\ Store(Producer, WriteIdx, pw + 1, "Release") /\ ppc = "publish"
      /\ pval' = pval + 1 /\ UNCHANGED readerVars
      /\ \/ ppc' = "signal" /\ UNCHANGED <<pw, pscan, pmin>>
         \/ ppc' = "idle" /\ pw' = 0 /\ pscan' = 0 /\ pmin' = U64_MAX
    BY DEF PushPublish, PublishOrder, PushReturns
<1>2. /\ top \in Nat /\ top >= 1 /\ pw + 1 = top /\ pval = top /\ Written = top
      /\ Published = top - 1
  <2>1. pw = Published /\ pval = Published + 1 /\ Written = Published + 1
      BY <1>1 DEF LoomInv, PusherKnows, Written
  <2>2. top \in Nat /\ top >= 1 /\ Published = top - 1
      BY Indices DEF Published
  <2> QED
      BY <2>1, <2>2
<1>3. WriteIdx \in Locs /\ Producer \in Threads /\ LoomTypeOK /\ ViewsSound
    BY AllPlaced, Sizes DEF LoomInv
<1>4. Store(Producer, WriteIdx, top, "Release") /\ top \in Int
    BY <1>1, <1>2
<1>5. /\ mem' \in [Locs -> Seq(Message)] /\ view' \in [Threads -> View]
      /\ Tops' = Along(Tops, Tops, WriteIdx)
      /\ view'[Producer] = Along(view[Producer], Tops, WriteIdx)
      /\ \A s \in Threads : s # Producer => view'[s] = view[s]
      /\ Len(mem'[WriteIdx]) = Len(mem[WriteIdx]) + 1
      /\ \A k \in Locs : k # WriteIdx => mem'[k] = mem[k]
    BY <1>3, <1>4, Stored
<1>6. /\ Notify # WriteIdx /\ \A j : ReadIdx(j) # WriteIdx /\ Slot(j) # WriteIdx
    BY Distinct
<1>7. /\ mem'[Notify] = mem[Notify]
      /\ \A s \in Readers : mem'[ReadIdx(s)] = mem[ReadIdx(s)]
      /\ \A j \in Nat : mem'[Slot(j)] = mem[Slot(j)]
    BY <1>5, <1>6, AllPlaced
<1>8. Newest(WriteIdx)' = top + 1 /\ Published' = top /\ Written' = top
  <2>1. Newest(WriteIdx)' = top + 1
      BY <1>5 DEF Newest
  <2>2. Published' = top
      BY <2>1, <1>2 DEF Published
  <2> QED
      BY <2>1, <2>2, <1>1 DEF Written
<1>9. /\ Tops \in View /\ Tops[WriteIdx] = top
      /\ \A t \in Threads : view[t] \in View
      /\ \A r \in Readers : Tops[ReadIdx(r)] = Newest(ReadIdx(r))
      /\ \A i \in Nat : Tops[Slot(i)] = Newest(Slot(i))
    BY <1>3, MemTyped, AllPlaced
<1>10. \A r \in Readers : Tops[ReadIdx(r)] <= Tops[WriteIdx]
    BY <1>9, Indices
<1>11. ASSUME NEW v \in View, Sound(v, Tops, Written)
       PROVE  Sound(v, Tops', Written')
  <2>1. v \in {v, Along(v, Tops, WriteIdx)} /\ Sound(v, Tops, Tops[WriteIdx])
      BY <1>11, <1>2, <1>9
  <2>2. Sound(v, Tops', Tops[WriteIdx])
      BY <2>1, <1>5, <1>9, <1>10, PublishSound
  <2> QED
      BY <2>2, <1>8, <1>9
<1>12. Sound(view'[Producer], Tops', Written')
  <2>1. Sound(view[Producer], Tops, Tops[WriteIdx]) /\ view[Producer] \in View
      BY <1>2, <1>3, <1>9 DEF ViewsSound
  <2>2. view'[Producer] \in {view[Producer], Along(view[Producer], Tops, WriteIdx)}
      BY <1>5
  <2>3. \A i \in Nat : view[Producer][Slot(i)] = Tops[Slot(i)]
      BY <1>9, OwnersAll DEF LoomInv
  <2>4. Sound(view'[Producer], Tops', Tops[WriteIdx])
      BY <2>1, <2>2, <2>3, <1>5, <1>9, <1>10, PublishSound
  <2> QED
      BY <2>4, <1>8, <1>9
<1>13. ViewsSound'
    BY <1>3, <1>4, <1>11, <1>12, StoreViews
<1>14. StoresCount'
    BY <1>3, <1>4, StoreCounts DEF LoomInv
<1>15. OwnersKnow'
  <2>1. Owns(Producer, WriteIdx)
      BY DEF Owns
  <2> QED
      BY <2>1, <1>3, <1>4, StoreOwners DEF LoomInv
<1>16. SlotsHold'
    BY <1>2, <1>7, <1>8 DEF LoomInv, SlotsHold, Newest
<1>17. PusherKnows'
  <2>1. pval' = Published' + 1
      BY <1>1, <1>2, <1>8
  <2>2. Newest(Notify)' <= Published'
    <3>1. Newest(Notify)' = Newest(Notify)
        BY <1>7 DEF Newest
    <3> QED
        BY <3>1, <1>8, Indices
  <2> QED
      BY <2>1, <2>2, <1>1 DEF PusherKnows
<1>18. ReadsInStream'
    BY <1>1 DEF LoomInv, ReadsInStream, readerVars
<1>19. LoomTypeOK'
  <2>1. pw' \in Nat /\ pscan' \in 0..NumReaders /\ pmin' \in Nat /\ pval' \in Nat
      BY <1>1, Sizes DEF LoomInv, LoomTypeOK
  <2>2. ppc' \in {"idle", "signal"}
      BY <1>1
  <2> QED
      BY <2>1, <2>2, <1>1, <1>5 DEF LoomInv, LoomTypeOK, readerVars, loanVars, View, Message
<1>20. ASSUME NEW r \in Readers PROVE PopperKnows(r)'
  <2>1. view'[r][WriteIdx] >= view[r][WriteIdx]
      BY <1>5, Sizes, Indices
  <2>2. Written' - Consumed(r) <= LOOM_CAPACITY
      BY <1>2, <1>8 DEF LoomInv, PopperKnows
  <2>3. /\ role' = role /\ rpc'[r] = rpc[r]
        /\ loans'[r] = loans[r] /\ claim_base'[r] = claim_base[r]
      BY <1>1 DEF readerVars, loanVars
  <2> QED
      BY <2>1, <2>2, <2>3, <1>5, <1>7, PopperStays
<1> QED
    BY <1>13, <1>14, <1>15, <1>16, <1>17, <1>18, <1>19, <1>20 DEF LoomInv

LEMMA SignalInv ==
    ASSUME LoomInv, Signal
    PROVE  LoomInv'
<1> DEFINE n == Newest(Notify)
<1>1. /\ ppc = "signal" /\ ppc' = "idle" /\ pw' = 0 /\ pscan' = 0 /\ pmin' = U64_MAX
      /\ Store(Producer, Notify, mem[Notify][n].val + 1, "Release")
      /\ UNCHANGED <<pval, readerVars>>
    BY DEF Signal, SignalOrder, PushReturns
<1>2. /\ n \in Nat /\ mem[Notify][n].val + 1 = n
      /\ Newest(WriteIdx) \in Nat /\ n < Newest(WriteIdx) /\ Written \in Nat
      /\ view[Producer][WriteIdx] = Newest(WriteIdx)
  <2>1. n <= Published
      BY <1>1 DEF LoomInv, PusherKnows
  <2>2. /\ n \in Nat /\ mem[Notify][n].val = n - 1 /\ Newest(WriteIdx) \in Nat
        /\ Written \in Nat /\ view[Producer][WriteIdx] = Newest(WriteIdx)
      BY Indices
  <2> QED
      BY <2>1, <2>2 DEF Published
<1>3. Notify \in Locs /\ Producer \in Threads /\ LoomTypeOK /\ ViewsSound
    BY AllPlaced, Sizes DEF LoomInv
<1>4. Store(Producer, Notify, n, "Release") /\ n \in Int
    BY <1>1, <1>2
<1>5. /\ mem' \in [Locs -> Seq(Message)] /\ view' \in [Threads -> View]
      /\ Tops' = Along(Tops, Tops, Notify)
      /\ view'[Producer] = Along(view[Producer], Tops, Notify)
      /\ \A s \in Threads : s # Producer => view'[s] = view[s]
      /\ \A k \in Locs : k # Notify => mem'[k] = mem[k]
    BY <1>3, <1>4, Stored
<1>6. /\ Notify # WriteIdx /\ \A j : ReadIdx(j) # Notify /\ Slot(j) # Notify
    BY Distinct
<1>7. /\ mem'[WriteIdx] = mem[WriteIdx]
      /\ \A s \in Readers : mem'[ReadIdx(s)] = mem[ReadIdx(s)]
      /\ \A j \in Nat : mem'[Slot(j)] = mem[Slot(j)]
    BY <1>5, <1>6, AllPlaced
<1>8. Published' = Published /\ Written' = Written
    BY <1>1, <1>7 DEF Written, Published, Newest
<1>9. Tops \in View /\ Tops[Notify] = n /\ \A t \in Threads : view[t] \in View
    BY <1>3, MemTyped, AllPlaced
<1>11. ASSUME NEW v \in View, Sound(v, Tops, Written)
       PROVE  Sound(v, Tops', Written')
  <2>1. v \in {v, Along(v, Tops, Notify)}
      OBVIOUS
  <2> QED
      BY <2>1, <1>11, <1>2, <1>5, <1>8, <1>9, SignalSound
<1>12. Sound(view'[Producer], Tops', Written')
  <2>1. Sound(view[Producer], Tops, Written) /\ view[Producer] \in View
      BY <1>3, <1>9 DEF ViewsSound
  <2>2. view'[Producer] \in {view[Producer], Along(view[Producer], Tops, Notify)}
      BY <1>5
  <2>3. Tops[Notify] < view[Producer][WriteIdx]
      BY <1>2, <1>9
  <2> QED
      BY <2>1, <2>2, <2>3, <1>2, <1>5, <1>8, <1>9, SignalSound
<1>13. ViewsSound'
    BY <1>3, <1>4, <1>11, <1>12, StoreViews
<1>14. StoresCount'
    BY <1>3, <1>4, StoreCounts DEF LoomInv
<1>15. OwnersKnow'
  <2>1. Owns(Producer, Notify)
      BY DEF Owns
  <2> QED
      BY <2>1, <1>3, <1>4, StoreOwners DEF LoomInv
<1>16. SlotsHold'
    BY <1>2, <1>7, <1>8 DEF LoomInv, SlotsHold, Newest
<1>17. PusherKnows'
    BY <1>1, <1>8 DEF LoomInv, PusherKnows
<1>18. ReadsInStream'
    BY <1>1 DEF LoomInv, ReadsInStream, readerVars
<1>19. LoomTypeOK'
  <2>1. pw' \in Nat /\ pscan' \in 0..NumReaders /\ pmin' \in Nat
      BY <1>1, Sizes
  <2> QED
      BY <2>1, <1>1, <1>5 DEF LoomInv, LoomTypeOK, readerVars, loanVars, View, Message
<1>20. ASSUME NEW r \in Readers PROVE PopperKnows(r)'
  <2>1. view'[r][WriteIdx] >= view[r][WriteIdx]
      BY <1>5, Sizes, Indices
  <2>2. Written' - Consumed(r) <= LOOM_CAPACITY
      BY <1>8 DEF LoomInv, PopperKnows
  <2>3. /\ role' = role /\ rpc'[r] = rpc[r]
        /\ loans'[r] = loans[r] /\ claim_base'[r] = claim_base[r]
      BY <1>1 DEF readerVars, loanVars
  <2> QED
      BY <2>1, <2>2, <2>3, <1>5, <1>7, PopperStays
<1> QED
    BY <1>13, <1>14, <1>15, <1>16, <1>17, <1>18, <1>19, <1>20 DEF LoomInv


-----------------------------------------------------------------------------
(* The invariant holds, and what follows from it.                          *)

LEMMA InitLoomInv == Init => LoomInv
<1> SUFFICES ASSUME Init PROVE LoomInv
    OBVIOUS
<1> USE DEF Init
<1>0. Start \in View /\ \A l \in Locs : Start[l] = 1
    BY DEF Start, View
<1>1. ASSUME NEW l \in Locs
      PROVE  /\ mem[l] = <<[val |-> 0, view |-> Start]>> /\ Newest(l) = 1
             /\ mem[l][1].val = 0 /\ mem[l][1].view = Start
             /\ mem[l] \in Seq([val : Int, view : [Locs -> Nat]])
  <2>1. mem[l] = <<[val |-> 0, view |-> Start]>>
      OBVIOUS
  <2>2. [val |-> 0, view |-> Start] \in [val : Int, view : [Locs -> Nat]]
      BY <1>0 DEF View
  <2> QED
      BY <2>1, <2>2 DEF Newest
<1>2. \A t \in Threads : view[t] = Start
    OBVIOUS
<1>3. LoomTypeOK
  <2>1. mem \in [Locs -> Seq([val : Int, view : [Locs -> Nat]])]
    <3>1. mem = [l \in Locs |-> mem[l]]
        OBVIOUS
    <3> QED
        BY <3>1, <1>1
  <2>2. view \in [Threads -> [Locs -> Nat]]
      BY <1>0 DEF View
  <2>3. role \in [Readers -> {"pop", "loan", "wait"}]
      BY LoomAssumption DEF Readers
  <2>4. pval \in Nat /\ pw \in Nat /\ pmin \in Nat /\ pscan \in 0..NumReaders
      BY Sizes
  <2>5. out \in [Readers -> [index : Int, val : Int]]
    <3>1. [index |-> -1, val |-> 0] \in [index : Int, val : Int]
        OBVIOUS
    <3> QED
        BY <3>1
  <2> QED
      BY <2>1, <2>2, <2>3, <2>4, <2>5 DEF LoomTypeOK
<1>4. /\ Newest(WriteIdx) = 1 /\ Published = 0 /\ Written = 0 /\ Newest(Notify) = 1
      /\ \A r \in Readers : Newest(ReadIdx(r)) = 1 /\ Consumed(r) = 0
    BY <1>1, AllPlaced DEF Published, Written, Consumed
<1>5. Sound(Start, Tops, Written)
  <2>1. \A l \in Locs : Tops[l] = 1
      BY <1>1 DEF Tops
  <2>2. \A l \in Locs : Start[l] \in 1..Tops[l]
      BY <2>1, <1>0
  <2>3. Start[Notify] <= Start[WriteIdx]
      BY <1>0, AllPlaced
  <2>4. 0..(Written - 1) = {}
      BY <1>4
  <2>5. ASSUME NEW r \in Readers,
               NEW q \in (Tops[WriteIdx] - 1)..(Tops[WriteIdx] + LOOM_CAPACITY - 2)
        PROVE  Start[SlotRead(r, q)] = Tops[SlotRead(r, q)]
    <3>1. q \in Nat
        BY <2>1, AllPlaced, Sizes
    <3> QED
        BY <3>1, <2>1, <1>0, AllPlaced
  <2> QED
      BY <2>2, <2>3, <2>4, <2>5 DEF Sound
<1>6. ViewsSound
  <2>1. ASSUME NEW l \in Locs, NEW n \in 1..Newest(l) PROVE mem[l][n].view = Start
    <3>1. n = 1
        BY <1>1
    <3> QED
        BY <3>1, <1>1
  <2> QED
      BY <2>1, <1>2, <1>5 DEF ViewsSound
<1>7. StoresCount
  <2>1. ASSUME NEW l \in Atomics, NEW n \in 1..Newest(l)
        PROVE  mem[l][n].val = n - 1 /\ mem[l][n].view[l] = n
    <3>1. l \in Locs /\ n = 1
        BY <1>1, AllPlaced DEF Atomics
    <3> QED
        BY <3>1, <1>0, <1>1
  <2> QED
      BY <2>1 DEF StoresCount, Atomics
<1>8. OwnersKnow
  <2>1. \A t \in Threads, l \in Locs : view[t][l] = Newest(l)
      BY <1>0, <1>1, <1>2
  <2>2. \A i \in 0..(LOOM_CAPACITY - 1) : i \in Nat
      BY Sizes
  <2> QED
      BY <2>1, <2>2, AllPlaced, Sizes DEF OwnersKnow
<1>9. SlotsHold
    BY <1>4 DEF SlotsHold
<1>10. PusherKnows
    BY <1>4 DEF PusherKnows
<1>11. ASSUME NEW r \in Readers PROVE PopperKnows(r)
  <2>1. view[r][WriteIdx] = 1
      BY <1>0, <1>2, AllPlaced, Sizes
  <2>2. loans[r] = {} /\ rpc[r] = "idle"
      OBVIOUS
  <2> QED
      BY <2>1, <2>2, <1>4, Sizes DEF PopperKnows
<1>12. ReadsInStream
    BY DEF ReadsInStream
<1> QED
    BY <1>3, <1>6, <1>7, <1>8, <1>9, <1>10, <1>11, <1>12 DEF LoomInv

LEMMA NextLoomInv == LoomInv /\ [Next]_vars => LoomInv'
<1> SUFFICES ASSUME LoomInv, [Next]_vars PROVE LoomInv'
    OBVIOUS
<1>1. CASE PushStep
    BY <1>1, PushLoadInv, PushScanInv, PushRefusedInv, PushWriteInv, PushPublishInv,
       SignalInv DEF PushStep
<1>2. ASSUME NEW r \in Readers, ReaderStep(r) PROVE LoomInv'
    BY <1>2, PopLoadInv, PopReadInv, PopAdvanceInv, WaitInv, ClaimInv,
       ValueInv, CommitInv, DropInv, AbortInv DEF ReaderStep
<1>3. CASE UNCHANGED vars
  <2> USE <1>3 DEF vars, pushVars, readerVars, loanVars
  <2>1. Written' = Written /\ Published' = Published /\ Tops' = Tops
      BY DEF Written, Published, Tops, Newest
  <2>2. LoomTypeOK'
      BY DEF LoomInv, LoomTypeOK
  <2>3. ViewsSound'
      BY <2>1 DEF LoomInv, ViewsSound, Newest, Start
  <2>4. StoresCount' /\ OwnersKnow'
      BY DEF LoomInv, StoresCount, OwnersKnow, Newest
  <2>5. SlotsHold' /\ PusherKnows' /\ ReadsInStream'
      BY <2>1 DEF LoomInv, SlotsHold, PusherKnows, ReadsInStream, Newest
  <2>6. \A r \in Readers : PopperKnows(r)'
      BY <2>1 DEF LoomInv, PopperKnows, Consumed, Newest
  <2> QED
      BY <2>2, <2>3, <2>4, <2>5, <2>6 DEF LoomInv
<1> QED
    BY <1>1, <1>2, <1>3 DEF Next

(* Under release/acquire memory, in every reachable state of the ring of   *)
(* loom_ring.rs, whatever old stores the loads returned: all views are     *)
(* sound, the newest stores to the slots are the live messages, and each   *)
(* thread knows what the rest of its call relies on.                       *)
THEOREM LoomInvHolds == Spec => []LoomInv
<1> QED
    BY InitLoomInv, NextLoomInv, PTL DEF Spec

(* The orderings make the unsafe slot accesses of try_push, try_pop and    *)
(* value() sound: no write of a slot races a read of it, in either         *)
(* direction, for any number of readers, slots and messages.               *)
THEOREM OrderingsSuffice == Spec => []NoDataRace
<1>1. LoomInv => NoDataRace
  <2> SUFFICES ASSUME LoomInv PROVE NoDataRace
      OBVIOUS
  <2>1. (Scanned /\ ~Full) => \A r \in Readers :
           view[Producer][SlotRead(r, pw)] = Newest(SlotRead(r, pw))
      BY RoomKnown
  <2>2. ASSUME NEW r \in Readers, NEW i \in loans[r]
        PROVE  view[r][Slot(i)] = Newest(Slot(i))
    <3>1. i \in Nat /\ Consumed(r) <= i /\ i + 1 < view[r][WriteIdx]
        BY DEF LoomInv, LoomTypeOK, PopperKnows
    <3> QED
        BY <3>1, ReadKnown
  <2>3. ASSUME NEW r \in Readers, rpc[r] = "read"
        PROVE  view[r][Slot(Cursor(r))] = Newest(Slot(Cursor(r)))
    <3>1. Newest(ReadIdx(r)) < view[r][WriteIdx]
        BY <2>3 DEF LoomInv, PopperKnows
    <3>2. /\ Cursor(r) = Consumed(r) /\ Consumed(r) \in Nat
          /\ Newest(ReadIdx(r)) \in Nat /\ view[r][WriteIdx] \in Nat
        BY Indices
    <3>3. Consumed(r) <= Consumed(r) /\ Consumed(r) + 1 < view[r][WriteIdx]
        BY <3>1, <3>2 DEF Consumed
    <3> QED
        BY <3>2, <3>3, ReadKnown
  <2> QED
      BY <2>1, <2>2, <2>3 DEF NoDataRace
<1> QED
    BY <1>1, LoomInvHolds, PTL

(* Every value that a pop or a loan reads is the message of the stream at  *)
(* its index, never torn, stale or lapped.                                 *)
THEOREM ReadsAreInStream == Spec => []ReadsInStream
<1>1. LoomInv => ReadsInStream
    BY DEF LoomInv
<1> QED
    BY <1>1, LoomInvHolds, PTL

(* However stale the cursors that try_push loads, it never crosses the     *)
(* capacity boundary of a cursor or of an open loan.                       *)
THEOREM StaleScansAreSafe == Spec => []BoundaryHeld
<1>1. LoomInv => BoundaryHeld
  <2> SUFFICES ASSUME LoomInv PROVE BoundaryHeld
      OBVIOUS
  <2>1. /\ mem[WriteIdx][Newest(WriteIdx)].val = Published /\ Published \in Nat
        /\ Written \in Nat /\ Published <= Written /\ Published = Newest(WriteIdx) - 1
        /\ Newest(WriteIdx) \in Nat
      BY Indices DEF Published
  <2>2. ASSUME NEW r \in Readers
        PROVE  /\ Published - Cursor(r) \in 0..LOOM_CAPACITY
               /\ \A i \in loans[r] : Published - i <= LOOM_CAPACITY
    <3>1. /\ Cursor(r) = Consumed(r) /\ Consumed(r) \in Nat
          /\ Consumed(r) = Newest(ReadIdx(r)) - 1 /\ Newest(ReadIdx(r)) \in Nat
          /\ view[r][WriteIdx] \in Nat /\ view[r][WriteIdx] <= Newest(WriteIdx)
          /\ Newest(ReadIdx(r)) <= view[r][WriteIdx]
        BY Indices DEF Consumed
    <3>2. Written - Consumed(r) <= LOOM_CAPACITY
        BY DEF LoomInv, PopperKnows
    <3>3. \A i \in loans[r] : i \in Nat /\ Consumed(r) <= i
        BY DEF LoomInv, LoomTypeOK, PopperKnows
    <3> QED
        BY <2>1, <3>1, <3>2, <3>3, Sizes
  <2> QED
      BY <2>1, <2>2 DEF BoundaryHeld
<1> QED
    BY <1>1, LoomInvHolds, PTL

(* Woken means visible: a thread that has seen n signals sees at least n   *)
(* messages published, through publish and signal order alone.             *)
THEOREM WokenMeansVisible == Spec => []WokenSeesPublish
<1>1. LoomInv => WokenSeesPublish
  <2> SUFFICES ASSUME LoomInv, NEW r \in Readers
               PROVE  mem[WriteIdx][view[r][WriteIdx]].val
                         >= mem[Notify][view[r][Notify]].val
      BY DEF WokenSeesPublish
  <2>1. r \in Threads /\ WriteIdx \in Locs /\ Notify \in Locs
      BY Sizes, AllPlaced
  <2>2. /\ view[r][WriteIdx] \in Nat /\ view[r][Notify] \in Nat
        /\ view[r][WriteIdx] \in 1..Newest(WriteIdx)
        /\ view[r][Notify] \in 1..Newest(Notify)
      BY <2>1, MemTyped DEF LoomInv
  <2>3. view[r][Notify] <= view[r][WriteIdx]
      BY <2>1 DEF LoomInv, ViewsSound, Sound
  <2>4. /\ mem[WriteIdx][view[r][WriteIdx]].val = view[r][WriteIdx] - 1
        /\ mem[Notify][view[r][Notify]].val = view[r][Notify] - 1
      BY <2>2 DEF LoomInv, StoresCount
  <2> QED
      BY <2>2, <2>3, <2>4
<1> QED
    BY <1>1, LoomInvHolds, PTL
=============================================================================
