------------------------- MODULE MC_AddrconfStatic -------------------------
(* Model-checking instance of AddrconfStatic alone: two network         *)
(* interfaces and an object that is not one, two dict configurations,   *)
(* and at most two leaked requests (calls go on without end; the state   *)
(* constraint stops exploring once two requests have piled up).         *)
EXTENDS AddrconfStatic

MC_Objects    == {"eth0", "eth1", "factory"}
MC_InitNetifs == {"eth0", "eth1"}
MC_AddrSets   == {"cfgA", "cfgB"}

MC_MaxLive == 2

LiveBound == live <= MC_MaxLive
=============================================================================
