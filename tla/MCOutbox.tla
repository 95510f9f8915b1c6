------------------------------- MODULE MCOutbox -------------------------------
(***************************************************************************)
(* Outbox for TLC: sockets that hold as much as the longest message, so    *)
(* that a message can find all, some or none of the room it needs.         *)
(***************************************************************************)
EXTENDS Outbox

=============================================================================
