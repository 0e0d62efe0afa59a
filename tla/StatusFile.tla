----------------------------- MODULE StatusFile -----------------------------
(***************************************************************************)
(* Status files (src/status.rs): create, read, update and cleanup of       *)
(* one plain-old-data record at one path, by one writer and any number of  *)
(* readers and cleaners in processes of their own.  The path may already   *)
(* name a file: one of an earlier run, of another layout, or of another    *)
(* length.                                                                 *)
(*                                                                         *)
(* Each file-system call and each word moved through a mapping is a step.  *)
(* The path names an inode or nothing; a process keeps the inode it opened *)
(* whatever happens to the path.  Touching a mapping whose file has been   *)
(* truncated kills the process (SIGBUS).  The writer may die anywhere.     *)
(* flush, which changes nothing another process sees, is left out.         *)
(***************************************************************************)
EXTENDS Integers

CONSTANTS Readers, Cleaners,
          Values,        \* payloads the writer writes
          Old,           \* the payload of a file found at the path
          Payload,       \* the words behind magic and version
          MAGIC, VERSION,
          Size,          \* size_of::<T>()
          MaxInodes,     \* bound: files created at the path
          MaxWrites,     \* bound: calls of create and update
          MaxCrashes     \* bound: deaths of the writer

ASSUME StatusAssumption ==
    /\ 0 \notin Values \cup {Old, MAGIC, VERSION} /\ Old \notin Values
    /\ Payload \cap {"magic", "version"} = {}
    /\ Size \in Nat \ {0}
    /\ MaxInodes \in Nat \ {0} /\ MaxWrites \in Nat /\ MaxCrashes \in Nat

VARIABLES
    dir,              \* the inode at the path, 0 for none
    inodes,           \* how many inodes were made
    file,             \* file[i]: length and words of inode i
    wr,               \* the writer's call: record, inode, words to do
    rd,               \* rd[r]: each reader's call
    kpc,              \* each cleaner's call
    writes, crashes,
    (* Ghosts.  stands: the payloads whose words the file at the path may
       hold (one, unless an update was cut short), {} if it may be no valid
       record.  rd[r].began: stands when read was called, {} once a write
       touched the inode it reads. *)
    stands

dirVars    == <<dir, inodes, file>>
countVars  == <<writes, crashes>>
vars == <<dirVars, wr, rd, kpc, countVars, stands>>

Inodes == 1..MaxInodes
Words  == {"magic", "version"} \cup Payload

Blank == [k \in Words |-> 0]

(* The bytes of a record: the magic (which set_magic stamps; a record that *)
(* was not stamped has 0 there), the version and the payload.              *)
Bytes(magic, v) == [k \in Words |-> CASE k = "magic"   -> magic
                                      [] k = "version" -> VERSION
                                      [] OTHER         -> v]

magic_matches(b)   == b["magic"] = MAGIC
version_matches(b) == b["version"] = VERSION

(* A file as some earlier program left it: the record in a file of its     *)
(* length, shorter or longer, or one with another magic or version.        *)
Leftover ==
    [len : {Size - 1, Size, Size + 1}, words : {Bytes(MAGIC, Old)}]
    \cup [len : {Size}, words : {Bytes(0, Old),
                                 [Bytes(MAGIC, Old) EXCEPT !["version"] = 0]}]

Empty == [len |-> 0, words |-> Blank]

Readable(f) ==
    f.len >= Size /\ magic_matches(f.words) /\ version_matches(f.words)

NoWrite == [pc |-> "idle", bytes |-> Blank, ino |-> 0, todo |-> {}]
NoRead  == [pc |-> "idle", ino |-> 0, buf |-> Blank, todo |-> {}, began |-> {}]

Init ==
    /\ \/ dir = 0 /\ inodes = 0 /\ file = [i \in Inodes |-> Empty]
       \/ /\ dir = 1 /\ inodes = 1
          /\ \E f \in Leftover : file = [i \in Inodes |-> IF i = 1 THEN f ELSE Empty]
    /\ stands = {v \in {Old} : dir = 1 /\ Readable(file[1])}
    /\ wr = NoWrite
    /\ rd = [r \in Readers |-> NoRead]
    /\ kpc = [k \in Cleaners |-> "idle"]
    /\ writes = 0 /\ crashes = 0

-----------------------------------------------------------------------------
(* The writer.                                                             *)

Refusals == {"FileTooShort", "HeaderCorruption", "VersionMismatch"}

(* Where the writer is inside a call; elsewhere it has no call or the      *)
(* answer of its last one, and may make the next.                          *)
Writing == {"setLen", "check", "copy"}

(* What the writer does to inode i spoils the reads of i in progress.      *)
Touches(i) ==
    rd' = [r \in Readers |-> IF rd[r].ino = i THEN [rd[r] EXCEPT !.began = {}]
                                              ELSE rd[r]]

(* open with create + truncate: the file at the path, or a new one.        *)
CreatedInode == IF dir = 0 THEN inodes + 1 ELSE dir

CreateOpen(b) ==
    /\ wr.pc \notin Writing /\ writes < MaxWrites
    /\ dir = 0 => inodes < MaxInodes
    /\ dir' = CreatedInode
    /\ inodes' = IF dir = 0 THEN CreatedInode ELSE inodes
    /\ file' = [file EXCEPT ![CreatedInode] = Empty]
    /\ wr' = [pc |-> "setLen", bytes |-> b, ino |-> CreatedInode, todo |-> {}]
    /\ Touches(CreatedInode)
    /\ writes' = writes + 1
    /\ stands' = {}
    /\ UNCHANGED <<kpc, crashes>>

(* set_len and map.                                                        *)
CreateSetLen ==
    /\ wr.pc = "setLen"
    /\ file' = [file EXCEPT ![wr.ino].len = Size]
    /\ wr' = [wr EXCEPT !.pc = "copy", !.todo = Words]
    /\ UNCHANGED <<dir, inodes, rd, kpc, countVars, stands>>

(* update: open without create, map.  No file: Io.                         *)
UpdateOpen(b) ==
    /\ wr.pc \notin Writing /\ writes < MaxWrites
    /\ dir # 0
    /\ wr' = [pc |-> "check", bytes |-> b, ino |-> dir, todo |-> {}]
    /\ writes' = writes + 1
    /\ UNCHANGED <<dirVars, rd, kpc, crashes, stands>>

(* The checks of update, in order, and what copy_from_slice makes of a     *)
(* file they let through: its panic if the two lengths differ.             *)
Verdict(f) == CASE f.len < Size              -> "FileTooShort"
                [] ~magic_matches(f.words)   -> "HeaderCorruption"
                [] ~version_matches(f.words) -> "VersionMismatch"
                [] f.len # Size              -> "panicked"
                [] OTHER                     -> "copy"

UpdateRefused ==
    /\ wr.pc = "check"
    /\ Verdict(file[wr.ino]) \in Refusals
    /\ wr' = [NoWrite EXCEPT !.pc = Verdict(file[wr.ino])]
    /\ UNCHANGED <<dirVars, rd, kpc, countVars, stands>>

(* The process goes on if it catches the unwind.                           *)
UpdatePanics ==
    /\ wr.pc = "check"
    /\ Verdict(file[wr.ino]) = "panicked"
    /\ wr' = [NoWrite EXCEPT !.pc = "panicked"]
    /\ UNCHANGED <<dirVars, rd, kpc, countVars, stands>>

UpdateAccepted ==
    /\ wr.pc = "check"
    /\ Verdict(file[wr.ino]) = "copy"
    /\ wr' = [wr EXCEPT !.pc = "copy", !.todo = Words]
    /\ stands' = IF magic_matches(wr.bytes) /\ stands # {}
                 THEN stands \cup {wr.bytes[k] : k \in Payload} ELSE {}
    /\ UNCHANGED <<dirVars, rd, kpc, countVars>>

(* Mutant: the mapping is private, the bytes never reach the file.         *)
PrivateCopy(words, k) == words

SharedCopy(words, k) == [words EXCEPT ![k] = wr.bytes[k]]

(* One word of copy_from_slice.                                            *)
CopyWord(k) ==
    /\ wr.pc = "copy" /\ k \in wr.todo
    /\ file' = [file EXCEPT ![wr.ino].words = SharedCopy(@, k)]
    /\ wr' = [wr EXCEPT !.todo = @ \ {k}]
    /\ Touches(wr.ino)
    /\ UNCHANGED <<dir, inodes, kpc, countVars, stands>>

(* All copied: return Ok.                                                  *)
WriteDone ==
    /\ wr.pc = "copy" /\ wr.todo = {}
    /\ stands' = {wr.bytes[k] : k \in {j \in Payload : magic_matches(wr.bytes)}}
    /\ wr' = NoWrite
    /\ UNCHANGED <<dirVars, rd, kpc, countVars>>

WriterDies ==
    /\ crashes < MaxCrashes
    /\ wr.pc \in Writing
    /\ crashes' = crashes + 1
    /\ wr' = NoWrite
    /\ UNCHANGED <<dirVars, rd, kpc, writes, stands>>

WriterStep ==
    \/ \E v \in Values, magic \in {0, MAGIC} :
           CreateOpen(Bytes(magic, v)) \/ UpdateOpen(Bytes(magic, v))
    \/ CreateSetLen
    \/ UpdateRefused
    \/ UpdatePanics
    \/ UpdateAccepted
    \/ \E k \in Words : CopyWord(k)
    \/ WriteDone
    \/ WriterDies

-----------------------------------------------------------------------------
(* read *)

(* open; no file: Io.                                                      *)
ReadOpen(r) ==
    /\ rd[r].pc = "idle"
    /\ dir # 0
    /\ rd' = [rd EXCEPT ![r] = [NoRead EXCEPT !.pc = "map", !.ino = dir,
                                              !.began = stands]]
    /\ UNCHANGED <<dirVars, wr, kpc, countVars, stands>>

(* map, and the check of the mapping's length.                             *)
ReadMap(r) ==
    /\ rd[r].pc = "map"
    /\ rd' = [rd EXCEPT ![r].pc = IF file[rd[r].ino].len < Size
                                  THEN "FileTooShort" ELSE "words",
                        ![r].todo = Words]
    /\ UNCHANGED <<dirVars, wr, kpc, countVars, stands>>

(* Mutant: each word is looked up through the path.                        *)
PathWord(r, k) == file[IF dir = 0 THEN rd[r].ino ELSE dir].words[k]

MappedWord(r, k) == file[rd[r].ino].words[k]

(* One word of ptr::read.                                                  *)
ReadWord(r, k) ==
    /\ rd[r].pc = "words" /\ k \in rd[r].todo
    /\ file[rd[r].ino].len # 0
    /\ rd' = [rd EXCEPT ![r].buf = [@ EXCEPT ![k] = MappedWord(r, k)],
                        ![r].todo = @ \ {k}]
    /\ UNCHANGED <<dirVars, wr, kpc, countVars, stands>>

(* The page is gone: create truncated the file under the mapping.          *)
ReadKilled(r) ==
    /\ rd[r].pc = "words" /\ rd[r].todo # {}
    /\ file[rd[r].ino].len = 0
    /\ rd' = [rd EXCEPT ![r].pc = "killed"]
    /\ UNCHANGED <<dirVars, wr, kpc, countVars, stands>>

(* Mutant: the identity is checked in the mapping, not in the copy.        *)
CheckedInPlace(r) == file[rd[r].ino].words

CheckedCopy(r) == rd[r].buf

(* magic_matches and version_matches on the materialised value.            *)
ReadValidate(r) ==
    /\ rd[r].pc = "words" /\ rd[r].todo = {}
    /\ rd' = [rd EXCEPT ![r].pc =
                  CASE ~magic_matches(CheckedCopy(r))   -> "HeaderCorruption"
                    [] ~version_matches(CheckedCopy(r)) -> "VersionMismatch"
                    [] OTHER                            -> "ok"]
    /\ UNCHANGED <<dirVars, wr, kpc, countVars, stands>>

Ended == {"ok", "killed"} \cup Refusals

(* The caller is done with the result, and may read again.                 *)
ReadAgain(r) ==
    /\ rd[r].pc \in Ended
    /\ rd' = [rd EXCEPT ![r] = NoRead]
    /\ UNCHANGED <<dirVars, wr, kpc, countVars, stands>>

ReadStep(r) ==
    \/ ReadOpen(r)
    \/ ReadMap(r)
    \/ \E k \in Words : ReadWord(r, k)
    \/ ReadKilled(r)
    \/ ReadValidate(r)
    \/ ReadAgain(r)

-----------------------------------------------------------------------------
(* cleanup *)

(* path.exists()                                                           *)
PathExists == dir # 0

(* A missing file is success, after which the cleaner is as before.        *)
CleanLook(k) ==
    /\ kpc[k] \in {"idle", "failed"}
    /\ kpc' = [kpc EXCEPT ![k] = IF PathExists THEN "remove" ELSE "idle"]
    /\ UNCHANGED <<dirVars, wr, rd, countVars, stands>>

CleanRemove(k) ==
    /\ kpc[k] = "remove"
    /\ dir # 0
    /\ dir' = 0
    /\ kpc' = [kpc EXCEPT ![k] = "idle"]
    /\ UNCHANGED <<inodes, file, wr, rd, countVars, stands>>

(* remove_file finds nothing: Io(NotFound).                                *)
CleanFails(k) ==
    /\ kpc[k] = "remove"
    /\ dir = 0
    /\ kpc' = [kpc EXCEPT ![k] = "failed"]
    /\ UNCHANGED <<dirVars, wr, rd, countVars, stands>>

CleanStep(k) == CleanLook(k) \/ CleanRemove(k) \/ CleanFails(k)

-----------------------------------------------------------------------------
Next ==
    \/ WriterStep
    \/ \E r \in Readers : ReadStep(r)
    \/ \E k \in Cleaners : CleanStep(k)

Spec == Init /\ [][Next]_vars

-----------------------------------------------------------------------------
Held   == Values \cup {Old}
Record == [Words -> Held \cup {0, MAGIC, VERSION}]

(* The types of the state.                                                 *)
StatusTypeOK ==
    /\ inodes \in 0..MaxInodes /\ dir \in 0..inodes
    /\ file \in [Inodes -> [len : Nat, words : Record]]
    /\ wr \in [pc : {"idle", "panicked"} \cup Writing \cup Refusals, bytes : Record,
               ino : 0..inodes, todo : SUBSET Words]
    /\ rd \in [Readers -> [pc : {"idle", "map", "words"} \cup Ended,
                           ino : 0..inodes, buf : Record, todo : SUBSET Words,
                           began : SUBSET Held]]
    /\ kpc \in [Cleaners -> {"idle", "remove", "failed"}]
    /\ writes \in 0..MaxWrites /\ crashes \in 0..MaxCrashes
    /\ stands \in SUBSET Held

(* b is a record whose payload words are all from the payloads in s.       *)
RecordOf(b, s) ==
    magic_matches(b) /\ version_matches(b) /\ \A k \in Payload : b[k] \in s

(* What create or update returned Ok for is what the path shows as long as *)
(* it shows anything, although cleaners may unlink the file while the      *)
(* writer works on it and a later create makes a new one.  An update that  *)
(* was cut short by a crash leaves the identity whole and each word of the *)
(* payload old or new (status.rs:261-267); one that is refused, or panics, *)
(* leaves everything.                                                      *)
LastWriteStands ==
    (stands # {} /\ dir # 0) =>
        file[dir].len >= Size /\ RecordOf(file[dir].words, stands)

(* read only ever returns a value that carries magic and version, even if  *)
(* create empties and refills the file while it is copied, and whatever    *)
(* file was found (status.rs:163-173).                                     *)
ReadIdentified ==
    \A r \in Readers : rd[r].pc = "ok" =>
        magic_matches(rd[r].buf) /\ version_matches(rd[r].buf)

(* A read that no write overlaps succeeds if a valid record stood when it  *)
(* was called and returns that record, whole, even if the file is cleaned  *)
(* up and created anew meanwhile; after an update that was cut short it    *)
(* still succeeds, with words of the two records.  (A read that a write    *)
(* overlaps may mix the two as well.)                                      *)
UndisturbedReadExact ==
    \A r \in Readers : (rd[r].pc \in Ended /\ rd[r].began # {}) =>
        rd[r].pc = "ok" /\ RecordOf(rd[r].buf, rd[r].began)

-----------------------------------------------------------------------------
(* What the documentation says and the code does not do: TLC refutes each  *)
(* of these.                                                               *)

(* cleanup is idempotent: a missing file is success, whichever of several  *)
(* cooperating processes cleans up first (status.rs:273-274).              *)
CleanupIdempotent == \A k \in Cleaners : kpc[k] # "failed"

(* A file that passed the checks of update has the length of the record    *)
(* that is copied into it, "matching the verified mapping length"          *)
(* (status.rs:261-263): update answers, it does not panic.                 *)
UpdateNeverPanics == wr.pc # "panicked"

(* The length check of read "guards every subsequent byte access"          *)
(* (status.rs:176-177): what was mapped long enough stays readable.        *)
ReadNotKilled == \A r \in Readers : rd[r].pc # "killed"

-----------------------------------------------------------------------------
(* Why these hold: the parts of an inductive invariant.                    *)

(* The inode of a write in progress is the one at the path, or unlinked:   *)
(* only the writer creates.  What it copied is in the file, and words that *)
(* go over a standing record make one again.                               *)
WriterKnows ==
    wr.pc \in Writing =>
        /\ wr.ino # 0 /\ dir \in {0, wr.ino}
        /\ version_matches(wr.bytes) /\ \A k \in Payload : wr.bytes[k] \in Values
        /\ wr.pc = "setLen" => stands = {}
        /\ wr.pc = "copy" =>
              /\ file[wr.ino].len = Size
              /\ \A k \in Words \ wr.todo : file[wr.ino].words[k] = wr.bytes[k]
              /\ stands # {} => RecordOf(wr.bytes, stands)

(* As long as no write touched it, the inode r reads is the record it was  *)
(* when r opened it, and r has copied its words.                           *)
ReaderKnows(r) ==
    /\ rd[r].pc # "idle" => rd[r].ino # 0
    /\ (rd[r].pc \in {"map", "words"} /\ rd[r].began # {}) =>
          /\ file[rd[r].ino].len >= Size
          /\ RecordOf(file[rd[r].ino].words, rd[r].began)
          /\ rd[r].pc = "words" => \A k \in Words \ rd[r].todo :
                                      rd[r].buf[k] = file[rd[r].ino].words[k]

(* The state has its types, the file at the path is never one the writer   *)
(* is not working on, and what writer and readers rely on between two      *)
(* file-system calls stays true (status.rs:134-270).                       *)
StatusInv ==
    /\ StatusTypeOK
    /\ WriterKnows
    /\ \A r \in Readers : ReaderKnows(r)
    /\ LastWriteStands
    /\ ReadIdentified
    /\ UndisturbedReadExact
=============================================================================
