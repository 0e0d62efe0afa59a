---------------------------- MODULE BroadcastLog ----------------------------
(***************************************************************************)
(* What SpmcRingBuffer promises, with no memory layout in sight: one       *)
(* append-only stream of messages, and for each participating reader a     *)
(* position in it.  Every reader walks the whole stream in order           *)
(* (broadcast), and the stream may run ahead of the slowest reader by at   *)
(* most Capacity messages (backpressure, no overwrite mode).               *)
(***************************************************************************)
EXTENDS Integers, Sequences

CONSTANTS Participants,  \* the readers that take part in backpressure
          Messages,      \* the payloads a producer may publish
          Capacity,      \* how far the stream may run ahead of a reader
          Nothing        \* what a reader holds before its first message

VARIABLES log,           \* every message ever published, oldest first
          cursor,        \* cursor[p]: how many messages reader p has consumed
          out            \* out[p]: the last message handed to reader p

vars == <<log, cursor, out>>

Init ==
    /\ log = <<>>
    /\ cursor = [p \in Participants |-> 0]
    /\ out = [p \in Participants |-> Nothing]

Publish(m) ==
    /\ \A p \in Participants : Len(log) - cursor[p] < Capacity
    /\ log' = Append(log, m)
    /\ UNCHANGED <<cursor, out>>

Consume(p) ==
    /\ cursor[p] < Len(log)
    /\ cursor' = [cursor EXCEPT ![p] = @ + 1]
    /\ out' = [out EXCEPT ![p] = log[cursor[p] + 1]]
    /\ UNCHANGED log

Next ==
    \/ \E m \in Messages : Publish(m)
    \/ \E p \in Participants : Consume(p)

Spec == Init /\ [][Next]_vars

(* A reader that keeps asking is eventually handed its next message.       *)
FairSpec == Spec /\ \A p \in Participants : WF_vars(Consume(p))
=============================================================================
