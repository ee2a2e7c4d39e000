-------------------------------- MODULE MCM1k --------------------------------
(* A small instance of M1k.  The default capture is continuous, in transfers *)
(* of two packets; a client may configure a bounded one of three packets, in *)
(* transfers of one.                                                         *)
EXTENDS M1k

Endless == [packets |-> 3, continuous |-> TRUE,  ppt |-> 2]
Bounded == [packets |-> 3, continuous |-> FALSE, ppt |-> 1]
MCConfigs == {Endless, Bounded}
=============================================================================
