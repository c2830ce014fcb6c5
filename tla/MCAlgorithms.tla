---------------------------- MODULE MCAlgorithms ----------------------------
(***************************************************************************)
(* The two sequential algorithms, which no other part of the system reads  *)
(* or writes while they run: Schedule on the workloads of MCSchedule, and  *)
(* Knee on all curves of six points over a few values - below, at and      *)
(* above one and a half times a plateau of 2 - listed in sorted, reversed  *)
(* and shuffled order, and on sweeps the code must refuse: too short, with *)
(* a duplicate rate, with a non-positive value.                            *)
(***************************************************************************)
EXTENDS MCSchedule, Knee

Orders == {<<1, 2, 3, 5, 6, 8>>, <<8, 6, 5, 3, 2, 1>>, <<3, 8, 1, 6, 2, 5>>,
           <<1, 2, 3, 5, 5, 8>>, <<1, 2, 3, 5, 6>>}
Curves == [1..6 -> {2, 3, 4}] \cup {[i \in 1..6 |-> i - 1]}

MCSweeps ==
  {[i \in DOMAIN o |-> [rate |-> o[i], value |-> c[i]]] : o \in Orders, c \in Curves}
MCPlateauPoints == {0, 3, 6}
MCFactor == <<3, 2>>

\* One of the two computes, the other has not been called.
AlgorithmsInit ==
  \/ /\ Init
     /\ points = <<>> /\ plateau_points = 0 /\ verdict = [kind |-> "uncalled"]
  \/ /\ KneeInit
     /\ w = (CHOOSE x \in Workloads : TRUE) /\ pc = "uncalled"
     /\ t = 0 /\ offsets = <<>> /\ groups = <<>> /\ shared = 0

AlgorithmsNext ==
  \/ Next /\ UNCHANGED kneeVars
  \/ Detect /\ UNCHANGED vars

AlgorithmsSpec == AlgorithmsInit /\ [][AlgorithmsNext]_<<vars, kneeVars>>

=============================================================================
