--------------------------- MODULE MCConfigFinder ---------------------------
(* Three GPUs: a dear fast one, a cheap slow one and a small carved-out    *)
(* one of the fast type.                                                   *)
EXTENDS ConfigFinder

CONSTANTS big, cheap, part, fast, slow

GpusMC == {big, cheap, part}

GpuMC ==
  [g \in GpusMC |->
     IF g = big THEN [type |-> fast, sm |-> 2, memory |-> 3, cost |-> 4, virtual |-> FALSE]
     ELSE IF g = cheap THEN [type |-> slow, sm |-> 2, memory |-> 2, cost |-> 2, virtual |-> FALSE]
     ELSE [type |-> fast, sm |-> 1, memory |-> 1, cost |-> 4, virtual |-> TRUE]]

(* Rates by type, SM and quota.  Half the time on half of the slow GPU was *)
(* not measured.                                                           *)
RateMC ==
  [t \in {fast, slow} |->
     IF t = fast THEN << <<3, 5>>, <<4, 7>> >> ELSE << <<0, 2>>, <<2, 4>> >>]
=============================================================================
