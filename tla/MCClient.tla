------------------------------ MODULE MCClient ------------------------------
(***************************************************************************)
(* One request under every plan: streaming or not, no cancel, an elapsed   *)
(* cancel, an output-tokens cancel.                                        *)
(***************************************************************************)
EXTENDS Client, TLC

=============================================================================
