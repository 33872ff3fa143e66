--------------------------- MODULE MC_FleetMonitor ---------------------------
(* Instantiates FleetMonitor for TLC: worker ids as model values, and     *)
(* thresholds scaled to ticks with the order of main.go (health 1 min <    *)
(* idle 5 min); the queue lengths are given in each configuration.         *)
EXTENDS FleetMonitor, TLC

CONSTANTS w1, w2, w3

(* Three ids, for the run with liveness, which cannot use symmetry. *)
MC_Ids3 == {w1, w2, w3}

(* Two ids: one worker dies while the other stays healthy. *)
MC_Ids2 == {w1, w2}

=============================================================================
