----------------------- MODULE MCConnectionLifecycle -----------------------
(* Instances of ConnectionLifecycle for TLC. *)
EXTENDS ConnectionInvariant, TLC

(* Connections are interchangeable; sound for the runs without liveness. *)
ConnSymmetry == Permutations(Conns)

=============================================================================
