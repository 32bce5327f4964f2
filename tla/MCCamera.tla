------------------------------ MODULE MCCamera ------------------------------
(* Instances of Camera for TLC. *)
EXTENDS Camera, TLC

AllRules == {"exclusive", "order", "streaming", "trigger", "motion"}

\* Two tasks switch the camera on and off without an agreement of their own.
NotExclusive == AllRules \ {"exclusive"}
=============================================================================
