---------------------------- MODULE ConfigFinder ----------------------------
(***************************************************************************)
(* GetConfigs over all GPUs of the cluster: which GPUs a request may use,  *)
(* in which order they are asked (sortGPUInfos), which size a replica gets *)
(* on each (getConfig) and how many replicas, until the demand is covered. *)
(* PrepareConfigsRequirements then commits the plan.  Replicas of other    *)
(* functions are taken off meanwhile, also while getConfig is at work: the *)
(* deletion handler does not wait for nodesMtx, and getConfig's queries do *)
(* not wait for the packer's lock.                                         *)
(*                                                                         *)
(* Rates, prices and sizes are whole numbers in suitable units; fractions  *)
(* are compared by multiplying out.  One model, whose memory is known: for *)
(* an unknown one GetConfigs fails at once.                                *)
(***************************************************************************)
EXTENDS Shelf

CONSTANTS
  Gpus,            \* GPUs in the lists of the nodes
  Gpu,             \* each one's [type, sm, memory, cost, virtual]
  Rate,            \* profile store: type -> sm -> quota -> rate of a replica, 0 if not measured
  MemoryReq,       \* GetModelMemory
  Granularity,     \* SMAllocationGranularity
  AllocationTypes, \* allocation types of requests, "exclusive" among them
  AnyType,         \* no preferred type of GPU
  Demands,         \* rates asked for
  MaxRepeats,      \* bound on the entries beyond the first that GPUs have in the lists
  MaxRequests      \* bound on the requests

ASSUME GpusAssumption == IsFiniteSet(Gpus)
ASSUME GpuAssumption ==
  \A g \in Gpus : /\ Gpu[g].sm \in Nat \ {0} /\ Gpu[g].memory \in Nat \ {0}
                  /\ Gpu[g].cost \in Nat \ {0} /\ Gpu[g].virtual \in BOOLEAN
ASSUME RateAssumption ==
  \A g \in Gpus : \A sm \in 1..Gpu[g].sm, q \in 1..FullWidth : Rate[Gpu[g].type][sm][q] \in Nat
ASSUME RequestAssumption ==
  /\ MemoryReq \in Nat \ {0} /\ Granularity \in Nat \ {0}
  /\ Demands \subseteq Nat \ {0} /\ MaxRequests \in Nat /\ MaxRepeats \in Nat

VARIABLES
  usage,      \* the packer of each GPU
  usageMemory,\* UsageMemory of each GPU
  allocType,  \* allocationType of each GPU
  req,        \* the request: [qps, type]
  offered,    \* GPUs the request may use
  todo,       \* those still to be asked, in their order
  window,     \* the packers getConfig may have met on the one it is asking
  remaining,  \* remainingRequiredQPS
  plan,       \* the configurations chosen
  committed,  \* how many of them PrepareConfigsRequirements has committed
  asked,      \* requests so far
  useless     \* history: GPUs that had nothing to offer when they were asked

vars == <<usage, usageMemory, allocType, req, offered, todo, window, remaining, plan, committed,
          asked, useless>>

NoRequest == [qps |-> 0, type |-> "none"]

Init ==
  /\ usage = [g \in Gpus |-> NewShelf(Gpu[g].sm)]
  /\ usageMemory = [g \in Gpus |-> 0]
  /\ allocType = [g \in Gpus |-> "none"]
  /\ req = NoRequest
  /\ offered = {}
  /\ todo = << >>
  /\ window = {}
  /\ remaining = 0
  /\ plan = << >>
  /\ committed = 0
  /\ asked = 0
  /\ useless = {}

AvailableMemory(g) == Gpu[g].memory - usageMemory[g]

QpsAt(g, sm, quota) == Rate[Gpu[g].type][sm][quota]

-----------------------------------------------------------------------------
(* The order of the GPUs.                                                  *)

Matches(g, type) == allocType[g] = type

(* Rate per price of the whole GPU, g's over h's and the other way round.  *)
Value(g, h) == QpsAt(g, Gpu[g].sm, FullWidth) * Gpu[h].cost

Distance(a, b) == IF a >= b THEN a - b ELSE b - a

(* The difference between the used shares of SMs and memory.               *)
Imbalance(g) ==
  Distance(usage[g].usedHeight * Gpu[g].memory, usageMemory[g] * Gpu[g].sm)

Balance(g, h) == Imbalance(g) * Gpu[h].sm * Gpu[h].memory

FreeSM(g) == Gpu[g].sm - usage[g].usedHeight

(* Fault: the dearer GPU comes first.                                      *)
BeforeByPrice(g, h, type) ==
  \/ Matches(g, type) /\ ~Matches(h, type)
  \/ (Matches(g, type) <=> Matches(h, type)) /\ Value(g, h) < Value(h, g)

(* The comparison of sortGPUInfos: matching type, rate per price, balance, *)
(* free SMs, and last the one with less free memory.                       *)
Before(g, h, type) ==
  \/ Matches(g, type) /\ ~Matches(h, type)
  \/ /\ Matches(g, type) <=> Matches(h, type)
     /\ \/ Value(g, h) > Value(h, g)
        \/ /\ Value(g, h) = Value(h, g)
           /\ \/ Balance(g, h) < Balance(h, g)
              \/ /\ Balance(g, h) = Balance(h, g)
                 /\ \/ FreeSM(g) > FreeSM(h)
                    \/ FreeSM(g) = FreeSM(h) /\ AvailableMemory(g) < AvailableMemory(h)

(* A virtual GPU that has yet to be carved out: every entry of such a GPU  *)
(* in the lists is another one.                                            *)
Uncarved(g) == Gpu[g].virtual /\ allocType[g] = "none"

(* The lists with the GPUs S, ordered.  A release appends the list to the  *)
(* list, so that a GPU may come more than once.  sort.Slice leaves equal   *)
(* elements in any order.                                                  *)
Sorted(S, type) ==
  {s \in UNION {[1..(Cardinality(S) + n) -> S] : n \in 0..MaxRepeats} :
     /\ Range(s) = S
     /\ \A i, j \in DOMAIN s :
          i < j => ~Before(s[j], s[i], type) /\ (s[i] # s[j] \/ ~Uncarved(s[i]))}

(* extractGPUSFromNode leaves GPUs in exclusive use out.                   *)
Extract(ready) == {g \in ready : allocType[g] # "exclusive"}

(* GetConfigs begins: the GPUs of the nodes that are Ready, of the type    *)
(* preferred.                                                              *)
GetConfigs(qps, type, ready, preferred) ==
  LET gpuInfos == {g \in Extract(ready) : preferred \in {AnyType, Gpu[g].type}}
  IN  /\ req = NoRequest /\ asked < MaxRequests
      /\ gpuInfos # {}
      /\ req' = [qps |-> qps, type |-> type]
      /\ offered' = gpuInfos
      /\ todo' \in Sorted(gpuInfos, type)
      /\ remaining' = qps
      /\ asked' = asked + 1
      /\ useless' = {}
      /\ UNCHANGED <<usage, usageMemory, allocType, window, plan, committed>>

-----------------------------------------------------------------------------
(* The size of a replica.                                                  *)

(* The sizes getConfig tries, in its order.                                *)
Sizes(g, type) ==
  IF type = "exclusive" THEN << <<Gpu[g].sm, FullWidth>> >>
  ELSE [i \in 1..(Gpu[g].sm * FullWidth) |->
          <<((i - 1) \div FullWidth) + 1, ((i - 1) % FullWidth) + 1>>]

(* The answers of Fits, for sizes of which a rate was measured.            *)
Fits(g, size) ==
  {fit /\ MemoryReq <= AvailableMemory(g) : fit \in CanFit(usage[g], window, size[2], size[1])}

Measured(g, type) == {s \in Range(Sizes(g, type)) : QpsAt(g, s[1], s[2]) > 0}

(* The sizes that may be found to fit, and those that must be.             *)
Fitting(g, type) == {s \in Measured(g, type) : MemoryReq <= Gpu[g].memory /\ TRUE \in Fits(g, s)}

SurelyFitting(g, type) == {s \in Fitting(g, type) : FALSE \notin Fits(g, s)}

Ceil(a, b) == (a + b - 1) \div b

(* The least of what the shelves and the memory have room for.             *)
Room(g, best) ==
  {Min({n, AvailableMemory(g) \div MemoryReq}) :
     n \in MaxInsertableItems(usage[g], window, best.quota, best.sm)}

(* Fault: a replica too many when the last one is used up exactly.         *)
ReplicasOneMore(g, best) ==
  {IF best.qps * room > remaining THEN remaining \div best.qps + 1 ELSE room :
     room \in Room(g, best)}

(* possibleReplicas; when the packer changes meanwhile it may be zero or   *)
(* negative.                                                               *)
Replicas(g, best) ==
  {IF best.qps * room > remaining THEN Ceil(remaining, best.qps) ELSE room :
     room \in Room(g, best)}

Candidate(g, size) ==
  [gpu |-> g, sm |-> size[1], quota |-> size[2], qps |-> QpsAt(g, size[1], size[2])]

NoCandidate == [gpu |-> AnyType, sm |-> 1, quota |-> 1, qps |-> 0]

(* Fault: the highest rate is taken for the highest efficiency.            *)
FasterThan(a, b) == a.qps > b.qps

(* efficiencyScore: rate per SM and quota.  The first of equals stays.     *)
MoreEfficient(a, b) == a.qps * b.sm * b.quota > b.qps * a.sm * a.quota

(* One round of getConfig's loops, of which the sizes fit were found to.   *)
Try(best, g, size, fit) ==
  LET config == Candidate(g, size)
  IN  IF size \in fit /\ (best = NoCandidate \/ MoreEfficient(config, best))
      THEN config ELSE best

(* The best of the first n sizes.                                          *)
BestOf(g, fit) ==
  LET sizes == Sizes(g, req.type)
      best[n \in 0..Len(sizes)] == IF n = 0 THEN NoCandidate ELSE Try(best[n - 1], g, sizes[n], fit)
  IN  best

(* getConfig, without the replicas.                                        *)
BestConfig(g, fit) == BestOf(g, fit)[Len(Sizes(g, req.type))]

NewConfig(best, n) ==
  [gpu |-> best.gpu, sm |-> best.sm, quota |-> best.quota, qps |-> best.qps, replicas |-> n]

Satisfiable(config) == config.qps * config.replicas

(* GetConfigs comes to the next GPU of the list.                           *)
BeginAsk ==
  /\ todo # << >> /\ window = {}
  /\ window' = {usage[Head(todo)]}
  /\ UNCHANGED <<usage, usageMemory, allocType, req, offered, todo, remaining, plan, committed,
                 asked, useless>>

(* Fault: the first GPU without room ends the search.                      *)
AskUntilOneFails(best, left) ==
  IF left <= 0 \/ best = NoCandidate THEN << >> ELSE Tail(todo)

StillToAsk(best, left) == IF left <= 0 THEN << >> ELSE Tail(todo)

(* A configuration on it, if there is one.  The loop ends with the demand  *)
(* or with the GPUs.                                                       *)
AskGpu ==
  /\ todo # << >> /\ window # {}
  /\ LET g == Head(todo)
     IN  /\ \E fit \in SUBSET Fitting(g, req.type) :
              LET best == BestConfig(g, fit)
              IN  /\ SurelyFitting(g, req.type) \subseteq fit
                  /\ \/ best = NoCandidate /\ UNCHANGED <<plan, remaining>>
                     \/ /\ best # NoCandidate
                        /\ \E n \in Replicas(g, best) :
                             /\ plan' = Append(plan, NewConfig(best, n))
                             /\ remaining' = remaining - Satisfiable(NewConfig(best, n))
                  /\ todo' = StillToAsk(best, remaining')
         /\ useless' = IF SurelyFitting(g, req.type) # {} THEN useless ELSE useless \cup {g}
  /\ window' = {}
  /\ UNCHANGED <<usage, usageMemory, allocType, req, offered, committed, asked>>

-----------------------------------------------------------------------------
(* The commit.                                                             *)

Planned == req # NoRequest /\ todo = << >>

Items(p) == Cardinality(DOMAIN p.itemLocation)

(* What a commit subtracts from UsageMemory: the memory of the replicas    *)
(* required, less that of the missing ones after a failed insertion.       *)
Replaced(config, before, after) ==
  MemoryReq * (IF config.replicas < 0 THEN config.replicas ELSE Items(after) - Items(before))

(* AllocateAndCommitConfig; GpuDevice has its insertions one by one.       *)
Commit ==
  /\ Planned /\ committed < Len(plan)
  /\ LET config == plan[committed + 1]
         before == usage[config.gpu]
         after  == InsertMany(before, config.quota, config.sm, config.replicas).sp
     IN  /\ usage' = [usage EXCEPT ![config.gpu] = after]
         /\ usageMemory' = [usageMemory EXCEPT ![config.gpu] = @ - Replaced(config, before, after)]
         /\ allocType' = [allocType EXCEPT ![config.gpu] = req.type]
  /\ committed' = committed + 1
  /\ UNCHANGED <<req, offered, todo, window, remaining, plan, asked, useless>>

(* RequestVirtualGPU fails: the configuration is passed over.              *)
SkipCommit ==
  /\ Planned /\ committed < Len(plan)
  /\ Uncarved(plan[committed + 1].gpu)
  /\ committed' = committed + 1
  /\ UNCHANGED <<usage, usageMemory, allocType, req, offered, todo, window, remaining, plan, asked,
                 useless>>

(* Everything is committed, or there was nothing to commit.                *)
Finish ==
  /\ Planned /\ committed = Len(plan)
  /\ req' = NoRequest
  /\ offered' = {}
  /\ remaining' = 0
  /\ plan' = << >>
  /\ committed' = 0
  /\ useless' = {}
  /\ UNCHANGED <<usage, usageMemory, allocType, todo, window, asked>>

(* The deletion handler takes a replica off: ReduceConfig subtracts its    *)
(* memory.                                                                 *)
Free(g, id) ==
  /\ id \in DOMAIN usage[g].itemLocation
  /\ usage' = [usage EXCEPT ![g] = Remove(@, id)]
  /\ usageMemory' = [usageMemory EXCEPT ![g] = @ - MemoryReq]
  /\ window' = IF window # {} /\ g = Head(todo) THEN window \cup RemovalStates(usage[g], id)
                                               ELSE window
  /\ UNCHANGED <<allocType, req, offered, todo, remaining, plan, committed, asked, useless>>

Next ==
  \/ \E qps \in Demands, type \in AllocationTypes, ready \in SUBSET Gpus,
        preferred \in {AnyType} \cup {Gpu[g].type : g \in Gpus} :
       GetConfigs(qps, type, ready, preferred)
  \/ BeginAsk \/ AskGpu \/ Commit \/ SkipCommit \/ Finish
  \/ \E g \in Gpus : \E id \in DOMAIN usage[g].itemLocation : Free(g, id)

Spec == Init /\ [][Next]_vars

-----------------------------------------------------------------------------
(* Properties.                                                             *)

Config ==
  [gpu : Gpus, sm : Nat \ {0}, quota : 1..FullWidth, qps : Nat \ {0}, replicas : Int]

(* The packers are sound, also those getConfig has met.                    *)
TypeOK ==
  /\ DOMAIN usage = Gpus /\ \A g \in Gpus : Sound(usage[g])
  /\ usageMemory \in [Gpus -> Int]
  /\ allocType \in [Gpus -> AllocationTypes \cup {"none"}]
  /\ req \in [qps : Demands \cup {0}, type : AllocationTypes \cup {"none"}]
  /\ offered \subseteq Gpus /\ useless \subseteq Gpus
  /\ todo \in Seq(Gpus)
  /\ \A p \in window : IsPacker(p)
  /\ remaining \in Int
  /\ plan \in Seq(Config)
  /\ committed \in 0..Len(plan)
  /\ asked \in 0..MaxRequests

Chosen == {plan[i].gpu : i \in DOMAIN plan}

Total == SumFunction([i \in DOMAIN plan |-> Satisfiable(plan[i])])

(* A finished plan covers the demand, or has every GPU that had anything   *)
(* to offer: no GPU is skipped while demand is left.                       *)
PlanCoversDemand ==
  Planned => Total >= req.qps \/ offered \subseteq Chosen \cup useless

(* A plan takes no more than it must: without the last replica the demand  *)
(* is missed.                                                              *)
PlanIsTight ==
  Planned /\ plan # << >> => Total - plan[Len(plan)].qps < req.qps

(* Is h better than g for this request, by type and by rate per price?     *)
Better(h, g) ==
  \/ Matches(h, req.type) /\ ~Matches(g, req.type)
  \/ (Matches(h, req.type) <=> Matches(g, req.type)) /\ Value(h, g) > Value(g, h)

(* No GPU is chosen while a better one that could serve the request is     *)
(* left alone.                                                             *)
BetterFirst ==
  Planned /\ committed = 0 =>
    \A g \in Chosen, h \in offered \ (Chosen \cup useless) : ~Better(h, g)

(* What is added to a plan is a size that fits, and every other one that   *)
(* does is less efficient, or as efficient with more SMs, or a longer      *)
(* quota.                                                                  *)
AddsBestSize ==
  Len(plan') > Len(plan) =>
    LET config == plan'[Len(plan')]
        g      == config.gpu
    IN  /\ <<config.sm, config.quota>> \in Fitting(g, req.type)
        /\ \A s \in SurelyFitting(g, req.type) :
             LET ours   == config.qps * (s[1] * s[2])
                 theirs == QpsAt(g, s[1], s[2]) * (config.sm * config.quota)
             IN  \/ ours > theirs
                 \/ /\ ours = theirs
                    /\ config.sm < s[1] \/ (config.sm = s[1] /\ config.quota <= s[2])

(* The size chosen on a GPU is the most efficient one that fits there, and *)
(* of several the one with the fewest SMs: the two loops of getConfig      *)
(* against their meaning.  Where removals run meanwhile, it beats all that *)
(* fitted the whole time.                                                  *)
SizeIsBest == [][AddsBestSize]_vars

(* "sm cant be assigned arbitrary, it has to be a multiple of" the GPU's   *)
(* SMAllocationGranularity.                                                *)
SizeIsGranular == \A i \in DOMAIN plan : plan[i].sm % Granularity = 0

(* "for exclusive allocation, only consider virtual GPUs (not physical)".  *)
ExclusiveOnVirtual ==
  req.type = "exclusive" => \A g \in Chosen : Gpu[g].virtual
=============================================================================
