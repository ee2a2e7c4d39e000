------------------------------ MODULE MCCapture ------------------------------
(* Small instances of Capture.  A packet of 2 does not divide 3 samples, so *)
(* a bounded capture overshoots; changing the packet size between captures  *)
(* makes late transfers of another size.                                    *)
EXTENDS Capture

Captures(backend) ==
  { [backend |-> backend, samples |-> 3, continuous |-> FALSE, packet |-> 2],
    [backend |-> backend, samples |-> 2, continuous |-> TRUE,  packet |-> 1] }

M1kConfigs == Captures("m1k")
CeeConfigs == Captures("cee")
MCConfigs  == M1kConfigs \cup CeeConfigs
=============================================================================
