------------------------------- MODULE MCOutbox -------------------------------
(* Small instances of Outbox: two small frames fill the backlog, a large one *)
(* fits only when it is nearly empty.                                        *)
EXTENDS Outbox

MCLengths == {2, 3}
=============================================================================
