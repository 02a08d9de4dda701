---------------------------- MODULE MCFclonesJob ----------------------------
(***************************************************************************)
(* FclonesJob for TLC: which configurations the processes are started with,*)
(* and the symmetry of processes and of report names.                      *)
(***************************************************************************)
EXTENDS FclonesJob, TLC

(***************************************************************************)
(* Every two settings meet in all their values, and the usual daemon (it   *)
(* mutates, under a deadline) is among them.                               *)
(***************************************************************************)
PairConfigs == {[once |-> TRUE, action |-> "mutate", deadline |-> TRUE],
                [once |-> TRUE, action |-> "group", deadline |-> FALSE],
                [once |-> FALSE, action |-> "mutate", deadline |-> FALSE],
                [once |-> FALSE, action |-> "group", deadline |-> TRUE],
                [once |-> FALSE, action |-> "mutate", deadline |-> TRUE]}

(***************************************************************************)
(* For the temporal runs: a mutating daemon with a deadline, one without,  *)
(* and a report-only run-once container without.                           *)
(***************************************************************************)
SomeConfigs == {[once |-> FALSE, action |-> "mutate", deadline |-> TRUE],
                [once |-> FALSE, action |-> "mutate", deadline |-> FALSE],
                [once |-> TRUE, action |-> "group", deadline |-> FALSE]}

MCSymmetry == Permutations(Procs) \union Permutations(Files)
=============================================================================
