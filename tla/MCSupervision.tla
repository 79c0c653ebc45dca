--------------------------- MODULE MCSupervision ---------------------------
(* Instances of Supervision for TLC. *)
EXTENDS Supervision

MixedKind == [a \in {"t", "c"} |-> IF a = "t" THEN "meshtastic" ELSE "meshcore"]
CoreKind  == [a \in {"c"} |-> "meshcore"]
TasticKind == [a \in {"t"} |-> "meshtastic"]
LiveKind  == [a \in {"c", "d"} |-> IF a = "c" THEN "meshcore" ELSE "demo"]
=============================================================================
