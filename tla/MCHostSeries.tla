---------------------------- MODULE MCHostSeries ----------------------------
(***************************************************************************)
(* Small instances of HostSeries: two hosts, up to two samples, the        *)
(* multiples NaN, 0 and 2 and up to two visits of the route.               *)
(***************************************************************************)
EXTENDS HostSeries

=============================================================================
