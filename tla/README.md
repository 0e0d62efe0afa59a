# shm-rings: TLA+ models and proofs

`shm-rings` is a single-producer, multi-consumer broadcast ring in a
memory-mapped file, with zero-copy loans, an eventfd wakeup and a small
status-file facility. This directory holds TLA+ models of it, the TLC runs that
check them and TLAPS proofs of the safety properties of every part. Source paths are relative to the
repository root.

## 1. Inventory

| component | source | state | operations | model |
|---|---|---|---|---|
| ring core | `src/ring.rs` | header words `write_idx`, `read_indices[8]`, `total_written`, slots | `try_push`, `try_pop`, `peek` | `SpmcRing` |
| header | `src/header.rs` | the words above, `magic`, `version`, `num_readers`, `capacity_mask` | `new`, `validate`, accessors, `slowest_read_idx` | `SpmcRing` (index words), `RingFile` (identity words) |
| file lifecycle | `src/ring.rs`, `src/header.rs` | directory entry, file length, header bytes | `create_new(_with_readers)`, `open_existing` | `RingFile` |
| diagnostics | `src/ring.rs` | none | `len`, `is_empty`, `slowest_lag`, `total_written` | `RingObserver`; `total_written` in `SpmcRing` |
| loans | `src/loan.rs` | handle-local `claim_base`, `loan_depth`; `Loan` values | `claim`, `commit`, `abort`, drop | `LoanRing` |
| notification | `src/notify.rs` | eventfd counter | `signal`, `wait(_timeout)`, `try_wait`, `push_notified`, `pop_blocking(_timeout)` | `NotifiedRing` |
| status files | `src/status.rs` | one POD struct in a file | `create`, `read`, `update`, `cleanup` | `StatusFile` |
| errors | `src/error.rs` | none | none | outcomes of the calls of `RingFile` and `StatusFile`; guards elsewhere |
| loom double | `src/loom_ring.rs` | the ring's atomics restated for loom | `try_push`, `try_pop`, `claim`, `LoomLoan`, four models | `LoomRing` |
| crate root | `src/lib.rs` | none | re-exports | none |

**How they interact.** The producer and the readers share nothing but the mapped
file: the producer writes `write_idx`, `total_written` and slots, reader *r*
writes only `read_indices[r]`. A loan is a second way for a reader to move the
same cursor; the handle-local gate `loan_depth` keeps `try_pop` out while loans
are open, and `claim_base` lets several loans run ahead of the cursor.
Notification wraps `try_push` and `try_pop`: publish then signal, against check
then drain then poll, over one kernel counter.

**What is hard.** The producer decides on a minimum of cursors it loads one by
one while they move. Payloads are copied in pieces. A process may die between
any two stores and its successor sees only the file. Claims of several threads
race through three loads and a compare-exchange, and commits load and store the
cursor in separate steps. Wakeups must not fall between an empty check and a
sleep. On a weakly ordered machine loads return old values, and slot bytes and
indices need not become visible in program order. A file may be opened while its
header is being written, or be some other program's. `PROJECT.json` lists these
hazards by line, each with the properties that would catch it going wrong.

**What makes each part correct.** Ring: no overwrite of a slot some participant
has not read, no torn copy, in-order delivery to each participant, progress.
Loans: an open loan's slot is pinned and lent once, no message is lost between
cursor and pipeline head, the gate is balanced. Notification: no sleep over a
message without a unit or a signal on its way, deadlines kept, no message pushed
twice without an error to its pusher. Diagnostics: an answer still holds when the
one who asked acts on it. Orderings: no data race on a slot. Files: creation
happens once, an open handle fits the file, a push through it stays, a completed
status write stands and a read returns one record.

## 2. Modules

### `BroadcastLog`: what the ring promises

An append-only `log`, a `cursor` per participating reader and the record last
handed to it. `Publish` is enabled while no participant lags by `Capacity`;
`Consume(p)` hands over `log[cursor[p] + 1]`. `FairSpec` adds that a reader is
eventually handed its next message.

### `SpmcRing`: the ring core

The mapped file is `write_idx`, `read_indices`, `total_written`, `slots`; the
locals of a call in progress are `ppc`, `pw`, `pscan`, `pmin`, ... for the
producer and `rpc[r]`, `rw[r]`, `rr[r]`, `rbuf[r]`, ... for reader *r*.

* `try_push` is `PushLoadWriteIdx`, one `PushScanCursor` per participating
  reader, `PushBackpressure` (return false) or `PushRoom`, one `PushWriteWord`
  per word in any order, `PushPublish`, `PushBumpTotal`.
* `try_pop` is `PopLoadWriteIdx`, `PopEmpty` or `PopLoadCursor`, one
  `PopReadWord` per word in any order, `PopAdvance`.
* `peek` is `PeekLoadWriteIdx` and `PeekReturn`; `peeked[r]` remembers the index
  behind the pointer until the reader's next `try_pop` or `peek`.
* `ProducerCrash` and `ReaderCrash` drop the locals of a call between any two
  steps; the file stays, and a new process continues.

`check_reader` and the loan gate are guards; a refused call changes nothing.
Records are functions from `Words` to values, so a mixed copy is visible as a
record that is no message. The `u64` indices are naturals: they count messages,
and 2^64 of them are out of reach of the program as well as of the model; what
could underflow, `w - min_read`, is covered by `ScanSandwich`.
The ghosts are `log` (what was published), `out[r]` (the last record handed
over), `pfloor` (the slowest cursor when `try_push` was called) and `crashes`.

### `RingObserver`: the diagnostics

Extends `SpmcRing`. `len(r)` (and `is_empty`, which compares it with 0) and
`slowest_lag` load `write_idx`, then one cursor or all of them (`ObserveCursor`), and
return the difference, wrapping (`Lag`). The caller is the reader or the producer
itself, which takes no other step meanwhile, or a monitor in another process. The
ghosts `seen[r]` and `room` remember an answer until it is used. `peek`, which
stores nothing, is left to `SpmcRing`.

### `LoomRing`: the orderings, under weak memory

`src/loom_ring.rs` restates the ring for the loom checker; its atomics and their
orderings are those of `ring.rs`. In `LoomRing` a location is the history of its
stores and each thread has a view of every location. A load returns any store not
older than the view; a Release store carries its thread's view and an Acquire load
takes it over. Slots are plain memory: their reads and writes are recorded as
locations of their own, so that a missing happens-before edge is a property of a
state (`NoDataRace`). The orderings are definitions of their own (`PublishOrder`,
`ObserveOrder`, `AdvanceOrder`, ...). A reader thread pops, lends or waits for a
signal, as in the four loom models; their bounded numbers of attempts are unbounded
retries here. `claim` is a load of `write_idx` and updates of words that only the
claiming thread touches. `abort` is restricted to the youngest loan (`LoanRing`
shows what happens otherwise).

### `LoanRing`: loans on the same ring

Extends `SpmcRing` and leaves its actions as they are. A loan id is one `Loan`
value together with the thread that drives it, so any number of claims and
resolutions of one reader interleave at every access. `claim` is
`ClaimRaiseGate`, `ClaimLoadWriteIdx`, `ClaimLoadCursor`, `ClaimLoadBase`, then
`ClaimEmpty`, `ClaimTake` or `ClaimRetry` (the compare-exchange may fail
spuriously). `commit` is check, store, resolve; `abort` is rewind, resolve;
drop is `DropAtCursor` and `DropStore`, or `DropElsewhere`, then resolve. A
committed `Loan` lives on (`commit` takes `&mut self`) until `DropDone`.
The contract of `loan.rs:66-74`, no claim races a `try_pop` of the same reader, is
a guard of `ClaimRaiseGate`; from there on the modelled gate itself keeps
`try_pop` out. `peek` changes no shared state and is left to `SpmcRing`.
`HandleCrash` loses the handle with its
gate, pipeline and loans; `open_existing` makes fresh ones. `Ops` selects what
the consumers do, in particular abort in any order or youngest first, drop in
any order or oldest first. Youngest first (`Youngest`) means that no later loan of
the reader is open; claims may be in flight, before or after they loaded the head.

### `NotifiedRing`: the eventfd handshake

`try_push` and `try_pop` are single steps here, which `SpmcRing` justifies by
refining `BroadcastLog`. `push_notified` is `PushOk` then `Signal` (a full counter
swallows the unit, as `EAGAIN` is taken for success) or `SignalFails`, an error or
the death of the producer, after which the caller pushes the message again;
`stream` holds message numbers, so a duplicate shows. A blocking call (`call[c]`,
with its locals) is `FindEmpty`, for a timed call the clock (`DeadlinePassed`,
`TimeLeft`), then `Drain` or `Park`, then `PollReadable`, `PollInterrupted` (EINTR)
or `PollTimeout`. The read of the eventfd empties it, because it is created without
`EFD_SEMAPHORE`. Time is in ticks, `TicksPerMs` to the millisecond, so that
`as_millis` is the truncation it is; `PollMax` is the clamp to `i32::MAX`. The kernel's
eventfd, the clock and process death are external.

### `RingFile`: creating and opening a ring

The state before `SpmcRing` starts: the directory entry, the file's length and the
words of the header. The path may already name a file, of any form
(`Found`). `create_new_with_readers` is `CreateCheck` (the capacity, then
`path.exists()`), `CreateOpen` (O_EXCL) or `CreateLosesRace`, `CreateSetLen` and one
`CreateWriteHeader` per word in any order (the header is a plain `ptr::write`);
`CreateAbandoned` is an I/O error or the death of the creator, after which the
file stays. `open_existing` is `OpenFile`, `OpenCheckFloor`, the three loads of
`validate`, and `OpenCheckLength`, in the wrapping arithmetic of a release build
(`USIZE`), as is the length that `create` computes (`Layout` is what is meant,
`FileLen` what is computed). No capacity is excluded: `set_len` refuses a length beyond
`i64::MAX` and takes a wrapped one. The calls end in the error kinds of `error.rs`. `FirstPush` and
`FirstPushPanics` are the first `try_push` on a handle, which is where an unvalidated
`num_readers` shows. Creators and openers have record sizes of their own. The ghost
`settled` says that a creation had returned before the open began.

### `StatusFile`: status files

The path names an inode or nothing; inodes have a length and words. A leftover file
may be shorter or longer than the record, or of another magic or version. `create`
truncates or makes an inode, sets the length and copies words; `update` opens and, by
the `Verdict` of its checks, is refused with one of three errors, panics on a file longer
than the record (`UpdatePanics`) or copies; `read` opens, maps,
copies words in any order and validates the copy; `cleanup` looks and removes. The
record may be one whose magic was never stamped. One writer, which may die anywhere;
a read of a mapping whose file was truncated is killed (`ReadKilled`). The ghost
`stands` is the set of payloads that the words at the path may come from.

### The proof modules

`SpmcRingProofs`, `RingObserverProofs`, `LoomRingProofs`, `LoanRingProofs`,
`NotifiedRingProofs`, `RingFileProofs` and `StatusFileProofs` each extend the module
they are named after; `RingObserverProofs` and `LoanRingProofs` also build on
`SpmcRingProofs`. `Remainders` holds the arithmetic of `%` that several of them need.
See section 5.

## 3. Runs

All runs check for deadlock.

| run | instance | shows |
|---|---|---|
| `ring_safety` | 2 of 3 cursors participate, 2 slots, 2 words, 4 messages, 1 crash; 361 468 states | seven safety invariants, the inductive invariant (with the type invariant in it), and that the ring implements `BroadcastLog` |
| `ring_liveness` | `RingObserver`, 2 readers, 2 slots, 1 word, 3 messages, 1 crash, 1 diagnostic call; 315 129 states | the fair `BroadcastLog`; every message reaches every participant; answers hold until they are used |
| `ring_orderings` | `LoomRing`, 2 readers that pop, lend or wait, 2 slots, 3 messages; 106 896 states | no data race, reads in stream order, the capacity boundary, woken means visible |
| `loan_pipeline` | 1 reader, 2 loan threads, 2 slots, 3 messages, 1 crash; commits and drops in any order, aborts youngest first, pops; 500 113 states | the inductive invariant `LoanInv` (with the type invariant in it), pinning, single lending, views, the gate, and still `BroadcastLog` |
| `loan_liveness` | as above without crash and pop; drops oldest first; 61 829 states | no message is stranded; the stream is drained |
| `notify_one_consumer` | 1 consumer, 4 messages, counter limit 2, two timeouts, 6 ticks, 1 fault; 227 722 states | no lost wakeup, duplicates only after an error, delivery, timeouts less than 1 ms early |
| `file_lifecycle` | 2 creators, 1 opener, capacities 1 to 4 and 32, two record sizes, foreign files; 1.3 million states | exclusive creation, handles that fit unless the size wraps, finished rings of two slots or more open, pushes stay |
| `status_lifecycle` | 1 writer, 1 reader, 2 cleaners, 2 payload words, 2 inodes, 2 writes, 1 crash, leftover files; 5.2 million states | completed writes stand, reads are identified and exact when undisturbed |
| `loan_abort_unpins` | aborts in any order | **violated**: `LoanPinned` |
| `loan_drop_strands` | drops in any order | **violated**: `NoStrandedMessage` |
| `loan_deref_after_commit` | commits only | **violated**: `DerefRaceFree` |
| `file_open_wraps` | 1 creator, 1 opener, 32 slots of 2 units at `USIZE` = 64 | **violated**: `OpenHandleFits` |

**Why the bounds are enough.** The ring's hazards are about one producer against
the slowest of several readers around one wrap: two slots and four messages
wrap twice, two participants make the scan non-atomic, the third cursor is one
that must not count, two words make a copy tearable. One crash meets every
half-done operation; the proofs cover every other size, here and in the other modules. Two loan threads are
enough for every race of two claims, of a claim with a resolution and of two
resolutions; three messages on two slots let a loan see its slot reused. An
eventfd limit of 2 makes the counter saturate; a timeout of 6 ticks exceeds `PollMax`,
one of 3 is no whole number of milliseconds. A diagnostic stores nothing, so calls do
not disturb each other and one at any point of a behaviour (`MaxCalls`) stands for
all. In `LoomRing` three messages on two slots reuse a slot, which is where
both edges are needed; `MaxReads` bounds the looks at a lent slot, and `Roles` pairs a
popping reader with one that pops, lends or waits (two lenders at a time are more than
TLC enumerates in minutes). Two creators race for one path; one opener is enough because all it
stores is its push. Capacity 1 is the edge `validate` treats differently, 3 one that
`create` refuses, 32 one whose slots of size 2 wrap at `USIZE` = 64, as do the foreign
masks 31 and, in `validate`, 63. Two payload words let an update that is cut short
leave a mixed record. Two inodes let a status file be removed and created anew under a reader.
`MaxPush`, `MaxCrashes`, `MaxFaults`, `MaxCalls`, `MaxReads`, `LoanIds`, `MaxTime`,
`MaxInodes`, `MaxWrites`, `ForeignMasks` and `ForeignLens` are the bounds; `U64_MAX`
stands for the start value of the minimum scan. Symmetry: over message values, loan
ids, creators and cleaners, and only in runs without liveness properties.

**Fairness.** `ring_liveness` assumes callers that keep calling: the producer
retries `try_push` (it returns `false` and the caller polls, `ring.rs:435-442`),
readers keep calling `try_pop`, and a call that was begun, a diagnostic included,
ends (it contains no loop that waits). All of it is weak fairness. Nothing is assumed
of crashes, or of anyone starting a diagnostic. `loan_liveness` adds that
`compare_exchange_weak` does not fail spuriously for ever and that a consumer does
not abort the same message for ever. `notify_one_consumer` assumes that the kernel
wakes a poll on a readable descriptor; it assumes neither that signals interrupt a
poll nor that the clock moves.

## 4. Where code and documentation disagree

1. **Abort below open loans** (`loan_abort_unpins`, `loan.rs:271`). `abort` rewinds
   `claim_base` below younger loans; their indices are lent again, and committing
   the duplicates moves the cursor past the older loan of the same index.
   `loan.rs:261`: "Loans claimed after this one stay alive and their slots stay
   pinned". Aborting youngest first is safe (`loan_pipeline`).
2. **Drop away from the cursor** (`loan_drop_strands`, `loan.rs:317`). The message
   is neither consumed nor given back: no later claim returns it, later commits
   fail, and the producer stalls. `loan.rs:315-316`: "a drop can never corrupt the
   pipeline". (`try_pop`, once all loans are gone, still gets past it.) Dropping
   oldest first is safe (`loan_liveness`).
3. **A committed loan can be dereferenced** (`loan_deref_after_commit`,
   `loan.rs:235`). `commit(&mut self)` leaves a `Loan` whose slot the producer may
   be writing. `loan.rs:225`: "consuming the loan"; `loan.rs:292-293`: "no
   concurrent write to this slot while the loan is alive".
4. **Wrapped file lengths** (`file_open_wraps`, `ring.rs:303`, `ring.rs:390`).
   `HEADER_SIZE + capacity * size_of::<T>()` wraps in release builds. `create_new`, which
   has no bound on the capacity, makes a file of the wrapped length and returns a handle
   whose slots lie outside it, and the length check of `open_existing` wraps likewise and
   passes. `ring.rs:339-340`: "checks the file is large enough for the header plus the
   `capacity * size_of::<T>()` slots"; `lib.rs:107-108`: "the mapping covers exactly
   `HEADER_SIZE + capacity * size_of::<T>()` bytes"; REQ-SR-200 (`REQUIREMENTS.md:41`) and
   T2 (`THREAT-MODEL.md:26`) rely on it. `CreatedHandleFits` states the creator's half.
   `OpenHandleSound` holds for sizes that do not wrap.

Others have no run of their own. Where a definition is named, it states what the
documentation says; added as an invariant to `file_lifecycle.cfg` or
`status_lifecycle.cfg`, TLC refutes it.

*Files.* A ring of capacity 1 cannot be opened (`header.rs:133`, `FinishedRingOpens`):
`create_new` accepts it and `validate` refuses its mask. `fuzz_open.rs:4-5`: "a file that
`create_new` accepts must be accepted by `open_existing` unchanged"; `header.rs:129-130`
says that the constructor rejects capacity 1. `LargerRingsOpen` holds for all others.
And a ring can be opened before it is complete (`ring.rs:322`, `PushStays`): the creator's
store of `write_idx` takes back a push through a handle that was opened on a half-written
header; `num_readers`, which `validate` does not look at, may be 0 there too.
`ring.rs:313-315`: the header "is fully initialized before any other thread or process
can map this brand-new file". What is validated is sound even so (`OpenHandleSound`), and
handles opened after the creation returned keep their push (`SettledPushStays`).

*Notification.* One `EventNotify` does not serve several consumers: it has no
`EFD_SEMAPHORE`, one read takes all units (`notify.rs:204`), and the consumer that did
not read sleeps on a message that is in the ring. `NoLostWakeup` fails as soon as
`notify_one_consumer.cfg` has two `Consumers`; with a semaphore one signal for two
readers would not do either. `notify.rs:22-25` says both that one "serves any number of consumers" ("each
`read` consumes one unit") and that strict wakeups take "one semaphore eventfd per
consumer group", which `EventNotify` cannot make. A wait whose poll is interrupted
polls again with the whole timeout (`notify.rs:183`), so it may overstay, or never end,
although `notify.rs:153` gives it "a deadline"; no bound holds that a property could
state. The remaining time of a timed call is cut to milliseconds, so it may
report a timeout up to a millisecond early (`notify.rs:173`), and a wait longer than
`i32::MAX` ms gives up when its clamped poll does (`notify.rs:174-175`), although
`notify.rs:280-281` promises the deadline; `TimeoutWithinOneMs` is what does hold.

*Ring.* A claim with commit ends the window in which a peeked pointer is valid,
which `ring.rs:519-521` only says of `try_pop` and `peek`. `ring.rs:551` calls
`r <= w` an invariant of `len`; it is one of the file, but a monitor that loads
`write_idx` first may see a cursor past it and report a number near 2^64
(`ReportWrapsOnlyOnPublish`).

*Status files.* The second of two cleanups that both saw the file fails (`status.rs:277`,
`CleanupIdempotent`), although "any of several cooperating processes may clean up
first" (`status.rs:273-274`) and REQ-SR-007 asks for idempotence. `update` panics in
`copy_from_slice` on a file longer than the record (`status.rs:266`, `UpdateNeverPanics`),
which it says it has verified (`status.rs:261-262`); the record survives
(`LastWriteStands`). `create` truncates in place, and a reader that has checked the length
is killed by SIGBUS at its next access (`status.rs:140`, `ReadNotKilled`), although the
check "guards every subsequent byte access" (`status.rs:176-177`). `status.rs:171-173` says the value is materialized after the checks; it is
read first and checked then, which is the sound order (`ReadIdentified`). Neither
`create` nor `update` looks whether the record was stamped; stamping is the caller's
part (`status.rs:111-112`), and the file is unreadable without.

*Loom double.* `loom_ring.rs:140-141` says an open loan blocks the modelled `try_pop`,
which never reads `loan_depth`. Model 2 uses two readers of which only one
pops, so its third push never succeeds and the assertion after it is vacuous.

## 5. Proofs

Every safety property that a passing run checks is proved for every value of the
constants, by one inductive invariant per module; `PROJECT.json` lists the theorems.
The invariants are conjunctions of named parts in the module they belong to. None of
the properties is inductive alone: a store is safe because of loads that happened
several steps earlier, and the invariant says what the thread in between relies on.

**Hypotheses.** The assumptions on constants are the `ASSUME`s of the modules: sizes
are positive, `U64_MAX` is no smaller than an index in use, record words are disjoint
from the identity words of a status file, capacities are values of a `usize`
(`FileAssumption`; the file length that follows may wrap, and foreign files are not
restricted), the set of loans is finite. Some theorems have a hypothesis of their own; section 4 shows what
goes wrong without it: the theorems of `LoanRingProofs` assume that aborts go youngest
first (`"abort" \notin Ops`: no later loan is open at an abort, while claims may be in
flight; as `LoomRing`'s `Abort` does in its guard; finding 1), `NothingStranded` also that drops go oldest
first (finding 2), `NoWakeupLost` that the eventfd has one consumer
(see *Notification* there). Bounds such as `MaxPush` or `MaxCrashes` are arbitrary numbers.

**`SpmcRing`: `IndInv`.** `LogMatchesIndex`: the ghost stream is as long as
`write_idx`. `ProducerKnows`: during a scan the running minimum is a lower bound for
the cursors already passed (they only grow) and `pfloor` for all of them; during a
write every participant lags by less than the capacity, and the words already copied
are in the slot. `ReaderKnows(r)`: the loaded `write_idx` lies between cursor and
`write_idx`, the words already copied are those of the message at the cursor, a valid
peeked index is the cursor. The arithmetic core is that two indices less than the
capacity apart have different slots (`SlotsDistinct`). From it follow `TypeCorrect`,
`BackpressureSafe`, `NoOverwrite`, `NoTornReads`, `SlotRaceFree`, `PeekWindowSound`,
`ScanExact`, `TotalWrittenClose` and `Refinement`, where `PushPublish` maps to
`Publish`, `PopAdvance` to `Consume` and every other step, crashes included, to a
stutter.

**`RingObserver`: `ObserverInv`.** `IndInv`, which diagnostics do not disturb, and:
`CallKnows`, the minimum that a call has loaded is within one capacity of the
`write_idx` it loaded as long as nothing was published since, and the caller's own
index stands still; `AnswersKnow`, what a reader was told is still before it, also when
its next `try_pop` has loaded `write_idx`, and a free slot the producer was told of is
still free when its `try_push` scans. Hence `DiagnosticsHold` and
`ReportsWrapOnlyOnPublish`.

**`LoomRing`: `LoomInv`.** The invariant is about views (`Sound`): one that has
`write_idx` past a message has the write of its slot, unless that slot was written
again since; one that has a cursor past the message that a slot last held has that
reader's reads of the slot; and no view has more signals than messages. All views are
sound, the carried ones too (`ViewsSound`), and the join of two sound views is sound,
which is why an Acquire load may return any store. `Written`, which is ahead of `Published` while the
producer is between its slot store and its publish, makes the first part inductive.
There is one lemma per kind of store (`WriteSound`, `PublishSound`, `SignalSound`,
`ReadSound`, `AdvanceSound`), for a view that stays behind and for that of the storing
thread. `PusherKnows` says that the scanned minimum is below the cursors in the
producer's view, so old cursors only make it more careful. Hence `OrderingsSuffice` (no
data race), `ReadsAreInStream`, `StaleScansAreSafe`, `WokenMeansVisible`.

**`LoanRing`: `LoanInv`.** `IndInv`, the properties themselves, and `LoanKnows(l)`: a
claim's loaded cursor may be stale, but then the pipeline head has moved with the real
one, so that the larger of the two is not behind the cursor; every unresolved index is
below `claim_base`; a commit between check and store is still at the cursor. An abort
rewinds the head to an index that is pinned, hence not behind the cursor, and so does
not mislead a claim in flight.
`NothingStranded` adds that the head covers the cursor. Hence `LoansStayPinned`,
`NeverLentTwice`, `GateExact`, `LoanViewStable`, and `LoansRefineBroadcast`, where a pop, a
commit and a drop at the cursor all map to `Consume`.

**`NotifiedRing`: `NotifyInv` and `SoleConsumerInv`.** The first holds for any number of
consumers: what the pusher has published and signalled, and that the times a call has
stored bound the moment it gives up (`DuplicatesExplained`, `TimeoutPrecision`). The
second holds for one: from its look at the empty ring on, a publish leaves a unit, a
signal on its way or an error (`NoWakeupLost`).

**`RingFile`: `FileInv`.** `MakerKnows`: one creator's `create_new` succeeded at most,
and the file is what it has written so far. `OpenerKnows(o)`: the length is final once
it covers the header, and a mask that validates is the final one, because it is 0
before it is written; none of this depends on whether the length wrapped. Hence `CreationIsExclusive`, `HandlesAreSound`,
`CreatedRingsOpen`, `FirstPushLasts`.

**`StatusFile`: `StatusInv`.** `WriterKnows`: the inode of a write in progress is the one
at the path, or unlinked; words that go over a standing record make one again.
`ReaderKnows(r)`: what a reader has opened is the record it was, as long as no write
touched it, and the copied words are its words. Hence `LastWriteLasts`,
`ReadsAreIdentified`, `UndisturbedReads`.

`IndInv` and `LoanInv` are invariants of the runs of section 3. `FileInv`, `StatusInv`,
`ObserverInv`, `LoomInv`, `NotifyInv` and `SoleConsumerInv` were checked the same way on
the instances of `file_lifecycle`, `status_lifecycle`, `ring_liveness` (with two diagnostic
calls), `ring_orderings` and `notify_one_consumer` before they were proved; the runs keep the
properties that follow from them.

**Model-checked only.** Liveness: `StreamDelivered`, `AllDelivered`, and the fair half of the
refinement of `BroadcastLog` (`ImplementsFairBroadcastLog`); fairness is out of the
prover's reach.

## 6. Not modelled

* Weak memory beyond `LoomRing`: loans of several threads on one reader id,
  crashes, and the modules other than `LoomRing`, whose steps interleave
  sequentially consistently. `NoDataRace` is what makes that a fair reading.
* Two producers, two handles lending for one reader id, or loans racing a pop of
  the same reader: excluded by the documented contracts.
* Files that change under a mapping by other means than this crate's calls.
* Several consumers with a descriptor each: every pair of producer and descriptor is
  `notify_one_consumer`, and the code has no call that signals several.
* The fields and wording of errors, alignment and size assertions, formatting.

## 7. Plan

The ring and its proofs came first, then loans, notification, the files, weak memory
and the diagnostics, then the proofs of all of them. What is left:

1. `LoanRing` under weak memory: several threads that lend on one reader id share
   `claim_base` and `loan_depth`, whose orderings (`loan.rs`) only `LoanRing`'s
   interleavings cover so far.
2. `LoomRing` as a refinement of `BroadcastLog`: a publish is the store of `write_idx`, a
   consumption the store of a cursor, and old loads are stutters.
