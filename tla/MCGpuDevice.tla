---------------------------- MODULE MCGpuDevice ----------------------------
(* One GPU and three configurations, quotas in halves.                     *)
EXTENDS GpuDevice

CONSTANTS flat, tall, other, narrow, alone

(* On three SM units: one that fills a low shelf and two that leave room   *)
(* on a higher one.                                                        *)
RaceShape ==
  [c \in {flat, tall, other} |->
     [sm |-> IF c = flat THEN 1 ELSE 2, quota |-> IF c = flat THEN 2 ELSE 1,
      memoryReq |-> 1, exclusive |-> FALSE]]

(* On two: a narrow one, a full-height one and an exclusive one.           *)
MCShape ==
  [c \in {narrow, tall, alone} |->
     CASE c = narrow -> [sm |-> 1, quota |-> 1, memoryReq |-> 1, exclusive |-> FALSE]
       [] c = tall   -> [sm |-> 2, quota |-> 1, memoryReq |-> 2, exclusive |-> FALSE]
       [] c = alone  -> [sm |-> 1, quota |-> 1, memoryReq |-> 1, exclusive |-> TRUE]]
=============================================================================
