-------------------------------- MODULE MCRun -------------------------------
(***************************************************************************)
(* Small runs: plans of two or three items.  Offsets leave room both for   *)
(* items due at once and for an item the scheduler has to wait for.        *)
(***************************************************************************)
EXTENDS Run, TLC

PairOffsets == <<0, 2>>
TripleOffsets == <<0, 1, 1>>
SecondItem == {2}
NoItem == {}
AllStatuses == Statuses
OkOnly == {"ok"}

=============================================================================
