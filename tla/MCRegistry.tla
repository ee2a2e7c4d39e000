------------------------------ MODULE MCRegistry ------------------------------
(* Small instances of Registry: one board plugged in twice, which makes two *)
(* devices of the same id; a second id is never found.                      *)
EXTENDS Registry, TLC

CONSTANTS d1, d2

MCIds   == {"board", "other"}
MCIdOf  == [d \in Devices |-> "board"]

\* Clients are interchangeable.
ClientSymmetry == Permutations(Clients)
=============================================================================
