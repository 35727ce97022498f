----------------------------- MODULE MCTimeline -----------------------------
(***************************************************************************)
(* Small instance of Timeline: two services, two timestamps, the actions  *)
(* "start", "die" and one other ("kill"), up to three events.              *)
(***************************************************************************)
EXTENDS Timeline

MCActions == {"start", "die", "kill"}

=============================================================================
