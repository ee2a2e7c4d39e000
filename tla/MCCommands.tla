----------------------------- MODULE MCCommands -----------------------------
(* A small instance of Commands: two clients on a device of any kind, two    *)
(* streams, so that a POST of gains may fail at the second.                  *)
EXTENDS Commands

TwoStreams == <<"v", "i">>
=============================================================================
