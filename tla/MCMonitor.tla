------------------------------ MODULE MCMonitor ------------------------------
(***************************************************************************)
(* Instances of Monitor for TLC.  The configurations give the constants    *)
(* model values: one connection and one handler thread, which is enough    *)
(* for every race between a poll and a command, and two starts before the  *)
(* monitor gives up.  MCMonitorMove gives the connection a second host to  *)
(* move to.                                                                *)
(***************************************************************************)
EXTENDS Monitor, TLC

\* Nothing tells one host from another but its name.
HostsAreAlike == Permutations(Hosts)
=============================================================================
