----------------------------- MODULE MCRecorder -----------------------------
(***************************************************************************)
(* A small recorder: more events than the channel and the bufio buffer     *)
(* hold together, so producers block, the buffer spills and a write fails  *)
(* at every point.                                                         *)
(***************************************************************************)
EXTENDS Recorder, TLC

CONSTANTS e1, e2, e3, e4, e5

FiveEvents == {e1, e2, e3, e4, e5}

=============================================================================
