----------------------------- MODULE MC_EventBus -----------------------------
(* Instantiation of EventBus for TLC: one topic, two handler functions    *)
(* (enough for a duplicate subscription and for one handler to shift      *)
(* into another's slot), two client goroutines (a publisher beside a      *)
(* subscriber), slices up to three long, so that append grows the        *)
(* backing array from capacity 1 to 2 to 4.                               *)
EXTENDS EventBus, TLC

CONSTANTS t1, f1, f2, c1, c2

MC_Topics == {t1}
MC_Funcs == {f1, f2}
MC_Clients == {c1, c2}
MC_AllOps == OpNames
MC_BusOps == {"Subscribe", "Publish"}

MC_Symmetry == Permutations(MC_Clients) \cup Permutations(MC_Funcs)
=============================================================================
