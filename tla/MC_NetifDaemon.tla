-------------------------- MODULE MC_NetifDaemon --------------------------
(* Model-checking instance of NetifDaemon: an ethernet link eth0 and a    *)
(* free name mv0, the macvlan factory object (not an interface), two dict *)
(* configurations, and at most one leaked request and one unput          *)
(* configuration netdev at a time (the state constraint).               *)
EXTENDS NetifDaemon

MC_IfNames   == {"eth0", "mv0"}
MC_Objects   == MC_IfNames \cup {"factory"}
MC_InitLinks == [n \in MC_IfNames |-> IF n = "eth0" THEN "other" ELSE "none"]
MC_AddrSets  == {"cfgA", "cfgB"}

MC_MaxLive == 1

LiveBound == live <= MC_MaxLive /\ cfgLive <= MC_MaxLive
=============================================================================
