----------------------------- MODULE MCCampaign -----------------------------
(***************************************************************************)
(* Two points of two repetitions, run twice into the same directories.     *)
(***************************************************************************)
EXTENDS Campaign

=============================================================================
