------------------------------- MODULE Scaler -------------------------------
(***************************************************************************)
(* The scaling of one function: UpdateFunction (fastfunc_scale.go) with    *)
(* scaleDownFaSTFunc (fastfunc_reconcile.go) and AddFastPods               *)
(* (fastpod_add.go), called by the ten-second loop of persistentReconcile. *)
(* A check whose Prometheus query fails calls nothing and is a stuttering  *)
(* step.                                                                   *)
(*                                                                         *)
(* The GPUs are seen through what they offer: a configuration of some      *)
(* rate per replica, some number of replicas, of which the commit may      *)
(* grant fewer; GpuDevice models that part.  The Kubernetes API is seen    *)
(* through its answers.  Rates are in a unit in which every measured rate  *)
(* is even, so that 1.5 times a rate is a whole number.                    *)
(***************************************************************************)
EXTENDS Integers, Sequences, FiniteSetsExt

CONSTANTS
  Rates,          \* the rates Prometheus may report
  MinRps,         \* MinQps of the function
  Qps,            \* the rates a replica may have
  MaxReplicas,    \* bound on the replicas a GPU offers
  MaxConfigs      \* bound on the configurations ever made

ASSUME RatesAssumption == Rates \subseteq Nat /\ MinRps \in Nat
                          /\ \A r \in Rates \cup {MinRps} : r % 2 = 0
ASSUME QpsAssumption   == Qps \subseteq Nat \ {0}
ASSUME BoundAssumption == MaxReplicas \in Nat /\ MaxConfigs \in Nat

ScaleDownConsecutiveRequired == 3

Configs == 1..MaxConfigs

VARIABLES
  known,      \* fastFuncMap has the function
  config,     \* the configurations made so far, each [qps, replica]
  live,       \* the keys of configUUIDToConfig
  capacity,   \* currentRPSCapacity
  count,      \* scaleDownConsecutiveCount
  slots,      \* GPU slots each configuration holds (len(shelfItems))
  pods,       \* replicas of the FaSTPod of each configuration, 0 if there is none
  job,        \* UpdateFunction's progress and its local variables
  last,       \* history: the verdict of the last check
  lowBefore,  \* history: how many checks right before it were low (2: two or more)
  cuts        \* history: how often a configuration was reduced (2: twice or more)

vars == <<known, config, live, capacity, count, slots, pods, job, last, lowBefore, cuts>>

Verdicts == {"none", "up", "down", "low", "stable"}

(* pc.  up: GPUs are asked for configurations.  pods: the FaSTPods of the  *)
(* new ones are created.  plan: the loop of scaleDownFaSTFunc.  drop and   *)
(* resize: its two loops of API calls.  apply: the books are changed.      *)
Idle == [pc |-> "idle", rps |-> 0, rest |-> 0, new |-> << >>,
         todo |-> << >>, toRemove |-> << >>, toUpdate |-> << >>,
         removed |-> << >>, updated |-> << >>]

Init ==
  /\ known = FALSE
  /\ config = << >>
  /\ live = {}
  /\ capacity = 0
  /\ count = 0
  /\ slots = [c \in Configs |-> 0]
  /\ pods = [c \in Configs |-> 0]
  /\ job = Idle
  /\ last = "none"
  /\ lowBefore = 0
  /\ cuts = [c \in Configs |-> 0]

AllocatedRPS(c) == config[c].qps * config[c].replica

SumOver(Rate(_), S) == SumFunction([x \in S |-> Rate(x)])

-----------------------------------------------------------------------------
(* UpdateFunction up to its decision.                                      *)

PredictedRate(rps10s, earlier) == Max({rps10s, rps10s + (rps10s - earlier), MinRps})

EstimatedFutureDemand(predicted) == (predicted * 3) \div 2

LowLoad(rps10s) == capacity <= 0 \/ 2 * rps10s < capacity

Verdict(demand, rps10s, rps30s) ==
  IF demand > capacity \/ ~known THEN "up"
  ELSE IF ~(LowLoad(rps10s) /\ Cardinality(live) > 1 /\ rps10s <= rps30s) THEN "stable"
  ELSE IF count + 1 >= ScaleDownConsecutiveRequired THEN "down" ELSE "low"

(* Fault: a stable check does not reset the counter.                       *)
NextCountKept(verdict) ==
  CASE verdict = "low" -> count + 1 [] verdict = "stable" -> count [] OTHER -> 0

NextCount(verdict) == IF verdict = "low" THEN count + 1 ELSE 0

(* The orders sort.Slice may leave the configurations in: ascending in     *)
(* AllocatedRPS, ties and the order of the Go map being arbitrary.         *)
Orders(S) ==
  {o \in [1..Cardinality(S) -> S] :
     /\ \A c \in S : \E i \in DOMAIN o : o[i] = c
     /\ \A i \in 2..Cardinality(S) : AllocatedRPS(o[i - 1]) <= AllocatedRPS(o[i])}

StartUp(demand) ==
  job' = [Idle EXCEPT !.pc = "up", !.rps = demand, !.rest = demand - capacity]

(* Fault: scaled down to the requested rate, which is negative here.       *)
StartDownToRequest(predicted) ==
  \E order \in Orders(live) :
    job' = [Idle EXCEPT !.pc = "plan", !.todo = order, !.rest = SumOver(AllocatedRPS, live),
                        !.rps = EstimatedFutureDemand(predicted) - capacity]

StartDown(predicted) ==
  \E order \in Orders(live) :
    job' = [Idle EXCEPT !.pc = "plan", !.rps = predicted, !.todo = order,
                        !.rest = SumOver(AllocatedRPS, live)]

Check(rps10s, rps30s, earlier) ==
  /\ job.pc = "idle"
  /\ LET predicted == PredictedRate(rps10s, earlier)
         demand    == EstimatedFutureDemand(predicted)
         verdict   == Verdict(demand, rps10s, rps30s)
     IN  /\ count' = NextCount(verdict)
         /\ last' = verdict
         /\ lowBefore' = IF last = "low" THEN Min({2, lowBefore + 1}) ELSE 0
         /\ \/ verdict = "up" /\ StartUp(demand)
            \/ verdict = "down" /\ StartDown(predicted)
            \/ verdict \in {"low", "stable"} /\ UNCHANGED job
  /\ known' = TRUE
  /\ UNCHANGED <<config, live, capacity, slots, pods, cuts>>

-----------------------------------------------------------------------------
(* Scale up.                                                               *)

CeilDiv(a, b) == (a + b - 1) \div b

(* The next GPU in GetConfigs' order has a configuration with room for max *)
(* replicas of rate qps; PrepareConfigsRequirements gets granted of the    *)
(* replicas it requires, none if the node or its virtual GPU cannot be     *)
(* had.                                                                    *)
RequiredReplica(qps, max) == Min({max, CeilDiv(job.rest, qps)})

Allocate(qps, max, granted) ==
  /\ job.pc = "up" /\ job.rest > 0
  /\ granted <= RequiredReplica(qps, max)
  /\ LET c == Len(config) + 1
     IN  /\ job' = [job EXCEPT !.rest = @ - qps * RequiredReplica(qps, max),
                               !.new = IF granted > 0 THEN Append(@, c) ELSE @]
         /\ \/ granted = 0 /\ UNCHANGED <<config, slots>>
            \/ /\ granted > 0 /\ c \in Configs
               /\ config' = Append(config, [qps |-> qps, replica |-> granted])
               /\ slots' = [slots EXCEPT ![c] = granted]
  /\ UNCHANGED <<known, live, capacity, count, pods, last, lowBefore, cuts>>

(* The remaining rate is served, or no GPU is left.                        *)
EndAllocate ==
  /\ job.pc = "up"
  /\ job' = IF job.new = << >> THEN Idle ELSE [job EXCEPT !.pc = "pods"]
  /\ UNCHANGED <<known, config, live, capacity, count, slots, pods, last, lowBefore, cuts>>

(* AddFastPods returns once it has created the first FaSTPod.  The update  *)
(* of an existing FaSTPod is never reached: the configurations are new.    *)
AddFastPods ==
  /\ job.pc = "pods"
  /\ pods' = [pods EXCEPT ![Head(job.new)] = config[Head(job.new)].replica]
  /\ live' = live \cup Range(job.new)
  /\ capacity' = capacity + SumOver(AllocatedRPS, Range(job.new))
  /\ job' = Idle
  /\ UNCHANGED <<known, config, count, slots, last, lowBefore, cuts>>

(* Get or Create fails: UpdateFunction returns, the GPU slots stay taken.  *)
AddFastPodsFails ==
  /\ job.pc = "pods"
  /\ job' = Idle
  /\ UNCHANGED <<known, config, live, capacity, count, slots, pods, last, lowBefore, cuts>>

-----------------------------------------------------------------------------
(* Scale down.                                                             *)

(* Fault: the replicas to remove are rounded up.                           *)
MaxRemovableCeil(c) == CeilDiv(job.rest - job.rps, config[c].qps)

MaxRemovable(c) == (job.rest - job.rps) \div config[c].qps

EndPlan == job' = [job EXCEPT !.pc = "drop", !.todo = << >>]

(* maxRemovableReplicas >= AllocatedReplica: the whole configuration goes. *)
PlanRemoval(c) ==
  /\ MaxRemovable(c) >= config[c].replica
  /\ IF job.rest - AllocatedRPS(c) >= job.rps
     THEN job' = [job EXCEPT !.rest = @ - AllocatedRPS(c), !.todo = Tail(@),
                             !.toRemove = Append(@, c)]
     ELSE EndPlan

(* Some of its replicas go.  ReducedDelta is what the code computes: the   *)
(* current rate less the rate that goes.                                   *)
PlanReduction(c) ==
  /\ 0 < MaxRemovable(c) /\ MaxRemovable(c) < config[c].replica
  /\ LET newReplica == Max({1, config[c].replica - MaxRemovable(c)})
         delta == job.rest - (AllocatedRPS(c) - newReplica * config[c].qps)
     IN  IF job.rest - delta >= job.rps
         THEN job' = [job EXCEPT !.rest = @ - delta, !.todo = Tail(@),
                                 !.toUpdate = Append(@, [cfg |-> c, newReplica |-> newReplica,
                                                         reducedDelta |-> delta])]
         ELSE EndPlan

(* One round of the loop.                                                  *)
PlanDown ==
  /\ job.pc = "plan"
  /\ IF job.todo = << >> \/ job.rest <= job.rps
     THEN EndPlan
     ELSE LET c == Head(job.todo)
          IN  \/ PlanRemoval(c)
              \/ PlanReduction(c)
              \/ MaxRemovable(c) = 0 /\ job' = [job EXCEPT !.todo = Tail(@)]
  /\ UNCHANGED <<known, config, live, capacity, count, slots, pods, last, lowBefore, cuts>>

(* The FaSTPod of a configuration to remove is deleted, or was not there;  *)
(* on any other error the configuration is kept.                           *)
DropPod(ok) ==
  /\ job.pc = "drop" /\ job.toRemove # << >>
  /\ LET c == Head(job.toRemove)
     IN  /\ pods' = IF ok THEN [pods EXCEPT ![c] = 0] ELSE pods
         /\ job' = [job EXCEPT !.toRemove = Tail(@),
                               !.removed = IF ok THEN Append(@, c) ELSE @]
  /\ UNCHANGED <<known, config, live, capacity, count, slots, last, lowBefore, cuts>>

EndDrop ==
  /\ job.pc = "drop" /\ job.toRemove = << >>
  /\ job' = [job EXCEPT !.pc = "resize"]
  /\ UNCHANGED <<known, config, live, capacity, count, slots, pods, last, lowBefore, cuts>>

(* Fault: a failed update is applied to the GPU all the same.              *)
ResizedAnyway(ok, u) == <<u>>

Resized(ok, u) == IF ok THEN <<u>> ELSE << >>

(* The FaSTPod of a reduced configuration is updated, or was not there.    *)
ResizePod(ok) ==
  /\ job.pc = "resize" /\ job.toUpdate # << >>
  /\ LET u == Head(job.toUpdate)
     IN  /\ pods' = IF ok /\ pods[u.cfg] > 0 THEN [pods EXCEPT ![u.cfg] = u.newReplica]
                                             ELSE pods
         /\ job' = [job EXCEPT !.toUpdate = Tail(@),
                               !.updated = @ \o Resized(ok, u)]
  /\ UNCHANGED <<known, config, live, capacity, count, slots, last, lowBefore, cuts>>

(* ReduceConfig: as many slots as AllocatedReplica exceeds the new number, *)
(* or all there are.  AllocatedReplica itself stays.                       *)
ReducedSlots(u) == Max({0, slots[u.cfg] - (config[u.cfg].replica - u.newReplica)})

(* Fault: the rate of removed configurations stays in the books.           *)
LostRateOfUpdates(updates, removed) == SumOver(LAMBDA u : u.reducedDelta, updates)

LostRate(updates, removed) ==
  SumOver(LAMBDA u : u.reducedDelta, updates) + SumOver(AllocatedRPS, removed)

(* UpdateFunction's last two loops: ReduceConfig and DeallocateConfig.     *)
Apply ==
  /\ job.pc = "resize" /\ job.toUpdate = << >>
  /\ LET updates == Range(job.updated)
         removed == Range(job.removed)
     IN  /\ capacity' = capacity - LostRate(updates, removed)
         /\ slots' = [c \in Configs |->
                        IF c \in removed THEN 0
                        ELSE IF \E u \in updates : u.cfg = c
                             THEN ReducedSlots(CHOOSE u \in updates : u.cfg = c)
                             ELSE slots[c]]
         /\ cuts' = [c \in Configs |->
                       IF \E u \in updates : u.cfg = c THEN Min({2, cuts[c] + 1}) ELSE cuts[c]]
         /\ live' = live \ removed
  /\ job' = Idle
  /\ UNCHANGED <<known, config, count, pods, last, lowBefore>>

-----------------------------------------------------------------------------
ScaleUpStep ==
  \/ \E qps \in Qps, max \in 1..MaxReplicas : \E granted \in 0..max : Allocate(qps, max, granted)
  \/ EndAllocate
  \/ AddFastPods
  \/ AddFastPodsFails

ScaleDownStep ==
  \/ PlanDown
  \/ \E ok \in BOOLEAN : DropPod(ok)
  \/ EndDrop
  \/ \E ok \in BOOLEAN : ResizePod(ok)
  \/ Apply

Next ==
  \/ \E rps10s, rps30s, earlier \in Rates : Check(rps10s, rps30s, earlier)
  \/ ScaleUpStep
  \/ ScaleDownStep

Spec == Init /\ [][Next]_vars

-----------------------------------------------------------------------------
(* Properties.                                                             *)

Update == [cfg : Configs, newReplica : Nat \ {0}, reducedDelta : Int]

Job == [pc : {"idle", "up", "pods", "plan", "drop", "resize"}, rps : Int, rest : Int,
        new : Seq(Configs), todo : Seq(Configs),
        toRemove : Seq(Configs), toUpdate : Seq(Update),
        removed : Seq(Configs), updated : Seq(Update)]

(* The function's entry, its configurations and the local variables of     *)
(* UpdateFunction.                                                         *)
TypeOK ==
  /\ known \in BOOLEAN
  /\ config \in Seq([qps : Qps, replica : 1..MaxReplicas]) /\ Len(config) <= MaxConfigs
  /\ live \subseteq DOMAIN config
  /\ capacity \in Int
  /\ count \in 0..(ScaleDownConsecutiveRequired - 1)
  /\ slots \in [Configs -> 0..MaxReplicas]
  /\ pods \in [Configs -> 0..MaxReplicas]
  /\ job \in Job
  /\ last \in Verdicts /\ lowBefore \in 0..2
  /\ cuts \in [Configs -> 0..2]

(* A scale-down is the third low check in a row: the two checks before it  *)
(* were low, and neither scaled down itself.                               *)
ScalesDownPatiently == last = "down" => lowBefore = 2

(* What the configurations will serve once the plan made so far is done.   *)
KeptReplicas(c) ==
  IF c \in Range(job.toRemove) THEN 0
  ELSE IF \E u \in Range(job.toUpdate) : u.cfg = c
       THEN (CHOOSE u \in Range(job.toUpdate) : u.cfg = c).newReplica
       ELSE slots[c]

KeptRate == SumOver(LAMBDA c : config[c].qps * KeptReplicas(c), live)

(* The plan of a scale-down, although its running total is wrong from the  *)
(* first reduction on, never gives up so much that the function can no     *)
(* longer serve the predicted rate, as long as no configuration was        *)
(* reduced before.                                                         *)
PlanServesDemand ==
  job.pc = "plan" /\ (\A c \in live : cuts[c] = 0) => KeptRate >= job.rps

(* The same without that restriction: "if current after reduction is still *)
(* greater than newRPS, then we can reduce the replicas".                  *)
PlanAlwaysServesDemand == job.pc = "plan" => KeptRate >= job.rps

(* currentRPSCapacity is the "current rps of the function based on the     *)
(* current configs": the rate of the slots they hold.                      *)
CapacityIsCurrent ==
  job.pc = "idle" => capacity = SumOver(LAMBDA c : config[c].qps * slots[c], live)

(* That holds, through failing API calls and partly granted requests, as   *)
(* long as no configuration was ever reduced.                              *)
CapacityExact ==
  job.pc = "idle" /\ (\A c \in Configs : cuts[c] = 0) =>
    capacity = SumOver(LAMBDA c : config[c].qps * slots[c], live)

(* A function that must serve some rate never loses its last               *)
(* configuration to scale-downs.                                           *)
NeverScalesToZero == [][MinRps > 0 /\ live # {} => live' # {}]_vars

(* No FaSTPod has more replicas than the GPUs have slots for it: slots are *)
(* taken before the FaSTPod exists and given back after it shrank, through *)
(* every failure in between.  Only a second reduction of the same          *)
(* configuration breaks this, from its update of the FaSTPod on.           *)
BeingReduced(c) == \E u \in Range(job.updated) : u.cfg = c

PodsBacked ==
  \A c \in Configs :
    cuts[c] = 0 \/ (cuts[c] = 1 /\ ~BeingReduced(c)) => pods[c] <= slots[c]

(* A recorded configuration has a FaSTPod: "if the FaSTPod is not created, *)
(* create the FaSTod".                                                     *)
ConfigsHavePods == \A c \in live : job.pc = "idle" => pods[c] > 0

(* A scale-down never gives a FaSTPod more replicas: "reduce the replicas  *)
(* of the config".                                                         *)
ScaleDownOnlyReduces ==
  [][job.pc \in {"drop", "resize"} => \A c \in Configs : pods'[c] <= pods[c]]_vars
=============================================================================
