------------------------------ MODULE RingFile ------------------------------
(***************************************************************************)
(* The life of a ring file up to the point where SpmcRing starts:          *)
(* create_new_with_readers and open_existing (src/ring.rs),                *)
(* RingHeader::{new, validate} (src/header.rs) and the errors of           *)
(* src/error.rs they return, called by several processes at a time on one  *)
(* path, which may already name a file of some other origin.               *)
(*                                                                         *)
(* Each file-system call is a step, and so is each word of the plain       *)
(* header write, in any order, and each Acquire load of validate.  A       *)
(* creator may fail or die anywhere; what it left behind stays.  Sizes are *)
(* counted in units of which the header takes HeaderSize, in the wrapping  *)
(* arithmetic of a release build: neither constructor bounds the capacity. *)
(***************************************************************************)
EXTENDS Integers

CONSTANTS Creators, Openers,  \* processes, one call at a time each
          Capacities,         \* capacities asked for
          RecordSizes,        \* size_of::<T>(), per call
          ForeignMasks,       \* capacity_mask words of a file found at the path
          ForeignLens,        \* its length
          MaxReaders,         \* MAX_READERS
          HeaderSize,         \* HEADER_SIZE
          USIZE,              \* 2^64, scaled down
          MAGIC, VERSION

ASSUME FileAssumption ==
    /\ ForeignMasks \cup ForeignLens \subseteq Nat
    /\ RecordSizes \subseteq Nat \ {0}
    /\ MaxReaders \in Nat \ {0} /\ HeaderSize \in Nat \ {0} /\ USIZE \in Nat \ {0}
    /\ Capacities \subseteq 0..(USIZE - 1)
    /\ MAGIC \in Nat \ {0} /\ VERSION \in Nat \ {0}

VARIABLES
    exists, len, header,   \* the directory entry, the file and its words
    make,                  \* make[c]: c's create_new_with_readers
    call                   \* call[o]: o's open_existing, and its first push;
                           \* settled: a creation had returned when it began

fileVars == <<exists, len, header>>
vars == <<fileVars, make, call>>

Fields == {"magic", "version", "num_readers", "capacity_mask", "write_idx"}
Blank  == [f \in Fields |-> 0]

Args   == [capacity : Capacities, readers : 1..MaxReaders, size : RecordSizes]
NoArgs == [capacity |-> 0, readers |-> 0, size |-> 0]

(* Not 0, and no odd divisor but 1.                                        *)
IsPowerOfTwo(n) == n # 0 /\ \A d \in 2..n : n % d = 0 => d % 2 = 0

(* What the header and the slots take, and what the usize expression of    *)
(* both constructors computes for it: the length create gives the file and *)
(* open_existing expects.                                                  *)
Layout(capacity, sz)  == HeaderSize + capacity * sz
FileLen(capacity, sz) == Layout(capacity, sz) % USIZE

Mask(a) == a.capacity - 1

(* Mutant: the number of readers is not stored.                            *)
ReadersUnset(a) == 0

ReaderCount(a) == a.readers

(* RingHeader::new; the indices start at 0.                                *)
NewHeader(a) ==
    [magic |-> MAGIC, version |-> VERSION, num_readers |-> ReaderCount(a),
     capacity_mask |-> Mask(a), write_idx |-> 0]

(* No file, or one this crate need not have written.                       *)
Found ==
    \/ exists = FALSE /\ len = 0 /\ header = Blank
    \/ /\ exists = TRUE /\ len \in ForeignLens
       /\ header \in [magic : {0, MAGIC}, version : {VERSION, VERSION + 1},
                      num_readers : 0..(MaxReaders + 1),
                      capacity_mask : ForeignMasks, write_idx : {0}]

NotMade   == [pc |-> "idle", args |-> NoArgs, todo |-> {}]
NotOpened == [pc |-> "idle", size |-> 0, len |-> 0, mask |-> 0,
              settled |-> FALSE]

Init ==
    /\ Found
    /\ make = [c \in Creators |-> NotMade]
    /\ call = [o \in Openers |-> NotOpened]

-----------------------------------------------------------------------------
(* create_new_with_readers *)

CreatorGoes(c, pc) == make' = [make EXCEPT ![c].pc = pc]

(* The capacity is checked first, then path.exists().                      *)
CreateCheck(c, a) ==
    /\ make[c].pc = "idle"
    /\ make' = [make EXCEPT ![c] =
           [NotMade EXCEPT !.args = a,
                           !.pc = CASE ~IsPowerOfTwo(a.capacity) -> "InvalidCapacity"
                                    [] exists                    -> "AlreadyExists"
                                    [] OTHER                     -> "open"]]
    /\ UNCHANGED <<fileVars, call>>

(* Mutant: create + truncate, relying on the earlier exists().             *)
Truncating == TRUE

(* create_new: O_EXCL.                                                     *)
Exclusive == ~exists

(* The file springs into being, empty.                                     *)
CreateOpen(c) ==
    /\ make[c].pc = "open"
    /\ Exclusive
    /\ exists' = TRUE /\ len' = 0 /\ header' = Blank
    /\ CreatorGoes(c, "setLen")
    /\ UNCHANGED call

(* Another creator came first since path.exists().                         *)
CreateLosesRace(c) ==
    /\ make[c].pc = "open"
    /\ exists
    /\ CreatorGoes(c, "AlreadyExists")
    /\ UNCHANGED <<fileVars, call>>

(* set_len, which takes no length beyond i64::MAX, and map.                *)
CreateSetLen(c) ==
    /\ make[c].pc = "setLen"
    /\ 2 * FileLen(make[c].args.capacity, make[c].args.size) < USIZE
    /\ len' = FileLen(make[c].args.capacity, make[c].args.size)
    /\ make' = [make EXCEPT ![c].pc = "header", ![c].todo = Fields]
    /\ UNCHANGED <<exists, header, call>>

(* One word of header.write(RingHeader::new(..)); after the last one the   *)
(* call returns the handle.                                                *)
CreateWriteHeader(c, f) ==
    /\ make[c].pc = "header"
    /\ f \in make[c].todo
    /\ header' = [header EXCEPT ![f] = NewHeader(make[c].args)[f]]
    /\ make' = [make EXCEPT ![c].todo = @ \ {f},
                            ![c].pc = IF make[c].todo = {f} THEN "ok" ELSE @]
    /\ UNCHANGED <<exists, len, call>>

(* open, set_len or mmap fails, or the process dies: the file stays.       *)
CreateAbandoned(c) ==
    /\ make[c].pc \in {"open", "setLen", "header"}
    /\ make' = [make EXCEPT ![c].pc = "Io", ![c].todo = {}]
    /\ UNCHANGED <<fileVars, call>>

CreateStep(c) ==
    \/ \E a \in Args : CreateCheck(c, a)
    \/ CreateOpen(c)
    \/ CreateLosesRace(c)
    \/ CreateSetLen(c)
    \/ \E f \in Fields : CreateWriteHeader(c, f)
    \/ CreateAbandoned(c)

-----------------------------------------------------------------------------
(* open_existing *)

OpenerGoes(o, pc) == call' = [call EXCEPT ![o].pc = pc]

Finished(c) == make[c].pc = "ok"

(* open(path), for records of size sz.                                     *)
OpenFile(o, sz) ==
    /\ call[o].pc = "idle"
    /\ call' = [call EXCEPT ![o] =
           [NotOpened EXCEPT !.size = sz,
                             !.pc = IF exists THEN "stat" ELSE "Io",
                             !.settled = \E c \in Creators : Finished(c)]]
    /\ UNCHANGED <<fileVars, make>>

(* metadata: the length floor, then map.                                   *)
OpenCheckFloor(o) ==
    /\ call[o].pc = "stat"
    /\ call' = [call EXCEPT ![o].len = len,
                   ![o].pc = IF len < HeaderSize THEN "FileTooShort" ELSE "magic"]
    /\ UNCHANGED <<fileVars, make>>

(* validate: magic, then version, ...                                      *)
ValidateMagic(o) ==
    /\ call[o].pc = "magic"
    /\ OpenerGoes(o, IF header["magic"] = MAGIC THEN "version"
                                                ELSE "HeaderCorruption")
    /\ UNCHANGED <<fileVars, make>>

ValidateVersion(o) ==
    /\ call[o].pc = "version"
    /\ OpenerGoes(o, IF header["version"] = VERSION THEN "mask"
                                                    ELSE "VersionMismatch")
    /\ UNCHANGED <<fileVars, make>>

(* Mutant: the mask itself is tested for a power of two.                   *)
ValidMaskOfPower(m) == m # 0 /\ IsPowerOfTwo(m)

(* ... and the form of the mask: 2^k - 1, and not 0.                       *)
ValidMask(m) == m # 0 /\ IsPowerOfTwo((m + 1) % USIZE)

ValidateMask(o) ==
    /\ call[o].pc = "mask"
    /\ OpenerGoes(o, IF ValidMask(header["capacity_mask"]) THEN "loadMask"
                                                ELSE "HeaderCorruption")
    /\ UNCHANGED <<fileVars, make>>

(* Mutant: one record type for all.                                        *)
TooShortForUnits(o, m) == call[o].len < FileLen(m + 1, 1)

(* The slots that the mask implies, of this process's record type, exceed  *)
(* the length seen before.                                                 *)
TooShort(o, m) == call[o].len < FileLen(m + 1, call[o].size)

(* Back in open_existing: load the mask again, check the length, return.   *)
OpenCheckLength(o) ==
    /\ call[o].pc = "loadMask"
    /\ call' = [call EXCEPT ![o].mask = header["capacity_mask"],
                   ![o].pc = IF TooShort(o, header["capacity_mask"])
                             THEN "FileTooShort" ELSE "ok"]
    /\ UNCHANGED <<fileVars, make>>

(* The handle's first try_push, as one step.  Nothing validated            *)
(* num_readers.  With 0 the minimum over no cursors is u64::MAX, the lag   *)
(* wraps to 1 and the push is accepted.                                    *)
FirstPush(o) ==
    /\ call[o].pc = "ok"
    /\ header["write_idx"] = 0
    /\ header["num_readers"] <= MaxReaders
    /\ header' = [header EXCEPT !["write_idx"] = @ + 1]
    /\ OpenerGoes(o, "pushed")
    /\ UNCHANGED <<exists, len, make>>

(* A count beyond MAX_READERS overruns the cursor slice; with 0 readers a  *)
(* build with overflow checks stops at the subtraction.                    *)
FirstPushPanics(o) ==
    /\ call[o].pc = "ok"
    /\ header["num_readers"] \notin 1..MaxReaders
    /\ OpenerGoes(o, "panicked")
    /\ UNCHANGED <<fileVars, make>>

(* The caller retries after an error, or closes its handle; or its process *)
(* dies.                                                                   *)
OpenAgain(o) ==
    /\ call[o].pc # "idle"
    /\ call' = [call EXCEPT ![o] = NotOpened]
    /\ UNCHANGED <<fileVars, make>>

OpenStep(o) ==
    \/ \E sz \in RecordSizes : OpenFile(o, sz)
    \/ OpenCheckFloor(o)
    \/ ValidateMagic(o)
    \/ ValidateVersion(o)
    \/ ValidateMask(o)
    \/ OpenCheckLength(o)
    \/ FirstPush(o)
    \/ FirstPushPanics(o)
    \/ OpenAgain(o)

Next ==
    \/ \E c \in Creators : CreateStep(c)
    \/ \E o \in Openers : OpenStep(o)

Spec == Init /\ [][Next]_vars

-----------------------------------------------------------------------------
Refusals == {"FileTooShort", "HeaderCorruption", "VersionMismatch", "Io"}

(* Creation is exclusive (ring.rs:242-245): a ring whose creation returned *)
(* keeps the length and the geometry its creator asked for, whatever other *)
(* creators that had passed path.exists() go on to do.                     *)
CreatedRingIntact ==
    \A c \in Creators : Finished(c) =>
        /\ exists
        /\ len = FileLen(make[c].args.capacity, make[c].args.size)
        /\ \A f \in Fields \ {"write_idx"} : header[f] = NewHeader(make[c].args)[f]

(* All slots of a handle from open_existing lie inside the file, whatever  *)
(* file it found and even if the header was being written while it was     *)
(* validated (ring.rs:339-340), as long as the layout's size is a 64-bit   *)
(* number (OpenHandleFits is about the others); and if the file was made   *)
(* by a creator, the handle has the capacity that creator chose.           *)
OpenHandleSound ==
    \A o \in Openers : call[o].pc \in {"ok", "pushed", "panicked"} =>
        LET capacity == call[o].mask + 1
            need     == Layout(capacity, call[o].size)
        IN  /\ need < USIZE => need <= len
            /\ \A c \in Creators : make[c].pc \in {"setLen", "header", "ok"} =>
                   capacity = make[c].args.capacity

(* o was refused because the slots of c's ring, in o's record type, do not *)
(* fit in the file.                                                        *)
DoesNotFit(c, o) ==
    /\ call[o].pc = "FileTooShort"
    /\ Layout(make[c].args.capacity, call[o].size) > len

Explained(o) ==
    \A c \in Creators :
        (Finished(c) /\ make[c].args.capacity # 1) => DoesNotFit(c, o)

(* A ring of two slots or more that was created before the call is refused *)
(* only for slots that do not fit, whatever half-made states it went       *)
(* through and whoever else tried to create it.  (One of a single slot is  *)
(* always refused, header.rs:133: FinishedRingOpens fails.)                *)
LargerRingsOpen ==
    \A o \in Openers : (call[o].pc \in Refusals /\ call[o].settled) => Explained(o)

(* A handle opened after the creation returned works: its first push does  *)
(* not panic on the number of readers and is never taken back.  (A handle  *)
(* opened earlier, on a half-written header that validates, has neither    *)
(* guarantee: num_readers may still be 0, and PushStays fails.)            *)
SettledPushStays ==
    \A o \in Openers : call[o].settled =>
        /\ call[o].pc # "panicked"
        /\ call[o].pc = "pushed" => header["write_idx"] = 1
-----------------------------------------------------------------------------
(* What the documentation says and the code does not do: TLC refutes each  *)
(* of these.                                                               *)

(* The mapping of a ring that was just created covers its slots            *)
(* (ring.rs:425-428, lib.rs:107-109).                                      *)
CreatedHandleFits ==
    \A c \in Creators : Finished(c) =>
        Layout(make[c].args.capacity, make[c].args.size) <= len

(* A file shorter than the header plus the slots its mask implies is       *)
(* refused (ring.rs:339-340, REQUIREMENTS.md:41): the slots of every       *)
(* handle from open_existing lie inside the file.                          *)
OpenHandleFits ==
    \A o \in Openers : call[o].pc \in {"ok", "pushed", "panicked"} =>
        Layout(call[o].mask + 1, call[o].size) <= len

(* "A file that create_new accepts must be accepted by open_existing"      *)
(* (fuzz_open.rs:4-5, 49-52): a ring created before the call opens, unless *)
(* it is opened for a record type whose slots do not fit.                  *)
FinishedRingOpens ==
    \A o \in Openers : (call[o].pc \in Refusals /\ call[o].settled) =>
        \A c \in Creators : Finished(c) => DoesNotFit(c, o)

(* The header is complete before another process can map the file          *)
(* (ring.rs:312-316): what the first push through any handle publishes is  *)
(* never taken back by the creator's store of write_idx.                   *)
PushStays ==
    \A o \in Openers : call[o].pc = "pushed" => header["write_idx"] = 1

-----------------------------------------------------------------------------
(* Why these hold: the parts of an inductive invariant.                    *)

FileTypeOK ==
    /\ exists \in BOOLEAN /\ len \in Nat
    /\ header \in [Fields -> Nat]
    /\ make \in [Creators ->
          [pc : {"idle", "InvalidCapacity", "AlreadyExists", "open", "setLen",
                 "header", "ok", "Io"},
           args : Args \cup {NoArgs}, todo : SUBSET Fields]]
    /\ call \in [Openers ->
          [pc : {"idle", "stat", "magic", "version", "mask", "loadMask", "ok",
                 "pushed", "panicked"} \cup Refusals,
           size : Nat, len : Nat, mask : Nat, settled : BOOLEAN]]

(* The creator whose create_new succeeded.                                 *)
Maker(c) == make[c].pc \in {"setLen", "header", "ok"}

(* There is one, it asked for a power of two, and the file is what it has  *)
(* written so far: an empty one, then the full length over fresh pages and *)
(* the header words it has done.                                           *)
MakerKnows ==
    /\ \A c, d \in Creators : Maker(c) /\ Maker(d) => c = d
    /\ \A c \in Creators :
        /\ make[c].pc \in {"open", "setLen", "header", "ok"} =>
              make[c].args \in Args /\ IsPowerOfTwo(make[c].args.capacity)
        /\ Maker(c) => exists
        /\ make[c].pc = "setLen" => len = 0 /\ \A f \in Fields : header[f] = 0
        /\ make[c].pc \in {"header", "ok"} =>
              /\ len = FileLen(make[c].args.capacity, make[c].args.size)
              /\ \A f \in Fields \ {"write_idx"} :
                    header[f] = IF f \in make[c].todo THEN 0
                                ELSE NewHeader(make[c].args)[f]
        /\ make[c].pc = "ok" => make[c].todo = {}

HasHandle(o) == call[o].pc \in {"ok", "pushed", "panicked"}

(* What open_existing has checked still holds when it is used: the length  *)
(* is final once it covers the header, and a mask that validates is the    *)
(* final one, because before it is written it is 0.                        *)
OpenerKnows(o) ==
    /\ call[o].pc \notin {"idle", "Io"} => exists
    /\ (call[o].pc \in {"magic", "version", "mask", "loadMask"} \/ HasHandle(o)) =>
          call[o].len = len /\ HeaderSize <= len
    /\ call[o].pc = "loadMask" => ValidMask(header["capacity_mask"])
    /\ HasHandle(o) =>
          /\ call[o].mask = header["capacity_mask"]
          /\ ValidMask(call[o].mask)
          /\ ~TooShort(o, call[o].mask)
    /\ call[o].settled => \E c \in Creators : Finished(c)

FileInv ==
    /\ FileTypeOK
    /\ MakerKnows
    /\ \A o \in Openers : OpenerKnows(o)
    /\ LargerRingsOpen
    /\ SettledPushStays
=============================================================================
