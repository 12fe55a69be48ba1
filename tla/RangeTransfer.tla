----------------------------- MODULE RangeTransfer -----------------------------
(***************************************************************************)
(* What serving a byte range promises, whatever reads it: a range of the   *)
(* file is accepted once, its bytes are sent from the first one on, in     *)
(* order and each once, and the answer ends when all are sent.  It breaks  *)
(* off only when a chunk is lost or the client leaves.                     *)
(***************************************************************************)
EXTENDS Integers, Sequences

CONSTANT Size     \* of the file

VARIABLES
    status,       \* of the answer
    request,      \* the range [start, end] asked for
    sent,         \* the bytes sent; a byte is its position in the file
    fault         \* the input of the moment: a chunk is lost, the client left
vars == <<status, request, sent, fault>>

Ranges == {r \in [start : 0 .. Size - 1, end : 0 .. Size - 1] : r.start <= r.end}
Left == request.end - request.start + 1 - Len(sent)

Init == /\ status = "idle" /\ request = [start |-> 0, end |-> 0]
        /\ sent = <<>> /\ fault = FALSE

Accept == /\ status = "idle" /\ status' = "reading"
          /\ request' \in Ranges
          /\ UNCHANGED sent
Reject == status = "idle" /\ status' = "rejected" /\ UNCHANGED <<request, sent>>

(* The next n bytes; the last one ends the answer. *)
Send(n) ==
    /\ status = "reading" /\ n <= Left
    /\ sent' = sent \o [i \in 1 .. n |-> request.start + Len(sent) + i - 1]
    /\ status' = IF n = Left THEN "sent" ELSE "reading"
    /\ UNCHANGED request

BreakOff == /\ status = "reading"
            /\ \/ status' = "failed" /\ fault
               \/ status' = "closed"
            /\ UNCHANGED <<request, sent>>

Wait == UNCHANGED <<status, request, sent>>

Next == \/ Accept \/ Reject \/ BreakOff \/ Wait
        \/ \E n \in 1 .. Size : Send(n)

Spec == Init /\ [][Next /\ fault' \in BOOLEAN]_vars
=============================================================================
