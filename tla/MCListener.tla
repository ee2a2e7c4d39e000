------------------------------ MODULE MCListener ------------------------------
(* Small instances of Listener.                                             *)
EXTENDS Listener

Request(sink, dec, start, count, trig, repeat, hold, off, force) ==
  [sink |-> sink, decimate |-> dec, start |-> start, count |-> count,
   trigger |-> trig, repeat |-> repeat, holdoff |-> hold, offset |-> off,
   force |-> force]

\* Listeners without a trigger: followers and replays, counted and endless.
PlainRequests ==
  { Request("ws", dec, start, count, "none", FALSE, 0, 0, 0) :
      dec \in {1, 2, 3}, start \in {-1, -3, 0, 5}, count \in {0, 1, 3} }

\* GET /input: the same code with a client that can hang up.
RestRequests ==
  { Request("rest", dec, start, count, "none", FALSE, 0, 0, 0) :
      dec \in {1, 2}, start \in {-1, 0}, count \in {0, 3} }

\* Triggered sweeps.  Negative offsets come with hold-offs below, at and
\* above the clamp.
TriggerRequests ==
  { Request("ws", dec, 0, 2, trig, rep, hold, off, force) :
      dec \in {1, 2}, trig \in {"in", "out"}, rep \in BOOLEAN,
      hold \in {0, 3}, off \in {-3, -2, 0, 1}, force \in {0, 3} }

\* Negative hold-offs: the longest that still goes on from the start of the
\* sweep, the first that does not, and one that goes back before sample 0.
BackRequests ==
  { Request("ws", 1, 0, 2, trig, TRUE, hold, off, force) :
      trig \in {"in", "out"}, hold \in {-1, -2, -5}, off \in {-2, 0, 1}, force \in {0, 3} }

MCRequests == PlainRequests \cup RestRequests \cup BackRequests
              \cup {r \in TriggerRequests : r.decimate = 1 \/ r.repeat}

EdgeRequests == { Request("ws", 1, 0, 1, "in", FALSE, 0, 0, 0) }

\* No edge, an early edge, edges around packet boundaries, a dense signal.
MCWaves == { {}, {2, 3, 6, 7, 8}, {1, 4, 5, 9}, {0, 2, 4, 6, 8, 10} }

\* The signal rises with the first sample of the second packet.
EdgeWaves == { {3, 4, 5, 8, 9} }

Capture(samples, continuous) == [samples |-> samples, continuous |-> continuous]

\* A ring that wraps, and a bounded capture whose last packet overshoots.
MCCaptures == { Capture(7, TRUE), Capture(7, FALSE) }

EdgeCaptures == { Capture(20, TRUE) }

\* No number of these instances comes near to the word: what is proved of
\* CaughtUp and SweepsAdvance applies to them.
ASSUME MCRoom == RoomFor(5)
=============================================================================
