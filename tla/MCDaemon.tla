------------------------------ MODULE MCDaemon ------------------------------
(***************************************************************************)
(* Daemon for TLC: the clients are interchangeable.                        *)
(***************************************************************************)
EXTENDS Daemon, TLC

MCSymmetry == Permutations(Clients)
=============================================================================
