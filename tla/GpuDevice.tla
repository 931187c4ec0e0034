----------------------------- MODULE GpuDevice -----------------------------
(***************************************************************************)
(* One GPU of internal/controller/gpu_manager.go as its two users see it.  *)
(*                                                                         *)
(* The scaling loop (persistentReconcile) plans a configuration on the GPU *)
(* (GetConfigs), commits it replica by replica (PrepareConfigsRequirements,*)
(* AllocateAndCommitConfig) and later reduces or deallocates it.  The      *)
(* deletion handler (handleDeletedFaSTFunc) runs in the goroutine of       *)
(* Reconcile and takes the configurations of a deleted function off the    *)
(* GPU.  Insert and Remove of the packer are locked and are steps here.    *)
(* Its queries are not: GetConfigs looks at the packer (Look) and plans    *)
(* with what it saw (Plan), and may have seen several packers in between.  *)
(*                                                                         *)
(* A configuration is a name for the UUID the code makes up; it is used    *)
(* once.  Rates are left out: the replicas a plan still wants,             *)
(* ceil(remaining / qps), are an input.                                    *)
(***************************************************************************)
EXTENDS Shelf

CONSTANTS
  Configs,       \* the configurations that may be planned on this GPU
  NoConfig,      \* not a configuration
  Shape,         \* Configs -> [sm, quota, memoryReq, exclusive]
  TotalSM,       \* TotalSMPercentage, the height of the bin
  TotalMemory,   \* memory of the GPU
  Virtual,       \* the GPU was carved out on request and can be given back
  Entries,       \* how often availableGPUs lists this GPU (a release appends again)
  MaxWant,       \* bound on the replicas a plan may want
  MaxDrift       \* bound: no reduction starts with UsageMemory below -MaxDrift

ASSUME ConfigsAssumption == NoConfig \notin Configs
ASSUME TotalSMAssumption == TotalSM \in Nat \ {0}
ASSUME MemoryAssumption  == TotalMemory \in Nat
ASSUME VirtualAssumption == Virtual \in BOOLEAN
ASSUME EntriesAssumption == Entries \in Nat \ {0}
ASSUME BoundsAssumption  == MaxWant \in Nat /\ MaxDrift \in Nat
ASSUME ShapeAssumption ==
  Shape \in [Configs -> [sm : 1..TotalSM, quota : 1..FullWidth,
                         memoryReq : Nat \ {0}, exclusive : BOOLEAN]]

VARIABLES
  usage,          \* g.Usage, the packer
  usageMemory,    \* g.UsageMemory
  allocationType, \* g.allocationType
  required,       \* RequiredReplica of each configuration
  allocated,      \* AllocatedReplica
  shelfItems,     \* the packer's items of each configuration
  status,         \* where the code keeps the configuration, see Status
  plan,           \* planned configurations still to be committed
  window,         \* the packers GetConfigs may have met since it began to look
  down,           \* [cfg, to]: what a scale-down has yet to do on this GPU
  scaler,         \* the scaling loop's progress
  deleter,        \* the deletion handler's progress
  scheduled,      \* history: a release was scheduled since the last insertion
  firm            \* history: planned undisturbed, and nothing committed since

vars == <<usage, usageMemory, allocationType, required, allocated, shelfItems,
          status, plan, window, down, scaler, deleter, scheduled, firm>>

(* new: no such configuration yet.  planned: held by the scaling loop.     *)
(* live: in configUUIDToConfig of its function.  dropped: planned, but     *)
(* never recorded.  gone: taken out of configUUIDToConfig.                 *)
Status == {"new", "planned", "live", "dropped", "gone"}

Types == {"none", "shared", "exclusive"}

SM(c)    == IF Shape[c].exclusive THEN TotalSM ELSE Shape[c].sm
Quota(c) == IF Shape[c].exclusive THEN FullWidth ELSE Shape[c].quota
Mem(c)   == Shape[c].memoryReq

AllocationType(c) == IF Shape[c].exclusive THEN "exclusive" ELSE "shared"

AvailableMemory == TotalMemory - usageMemory

FitsMemory(memory) == memory <= TotalMemory

Fits(sm, quota, memory) ==
  /\ memory <= AvailableMemory
  /\ quota <= FullWidth
  /\ TRUE \in CanFit(usage, window, quota, sm)

(* Fault: the room on the shelves is not looked at.                        *)
ReplicasByMemory(c, want) == {Min({AvailableMemory \div Mem(c), want})}

(* min(MaxInsertableItems, memory left / memory per replica), cut to what  *)
(* the demand still wants.  Of a packer that changes meanwhile the result  *)
(* may be zero or negative.                                                *)
PossibleReplicas(c, want) ==
  {Min({n, AvailableMemory \div Mem(c), want}) :
     n \in MaxInsertableItems(usage, window, Quota(c), SM(c))}

Idle == [pc |-> "idle", cfg |-> NoConfig, left |-> 0]

NoDeletion == [pc |-> "idle", cfg |-> NoConfig, left |-> 0, todo |-> {}, done |-> {}]

Init ==
  /\ usage = NewShelf(TotalSM)
  /\ usageMemory = 0
  /\ allocationType = "none"
  /\ required = [c \in Configs |-> 0]
  /\ allocated = [c \in Configs |-> 0]
  /\ shelfItems = [c \in Configs |-> {}]
  /\ status = [c \in Configs |-> "new"]
  /\ plan = << >>
  /\ window = {}
  /\ down = {}
  /\ scaler = Idle
  /\ deleter = NoDeletion
  /\ scheduled = FALSE
  /\ firm = {}

-----------------------------------------------------------------------------
(* The scaling loop: scale up.                                             *)

(* extractGPUSFromNode leaves out a GPU in exclusive use.                  *)
Listed == allocationType # "exclusive"

(* GetConfigs comes to an entry of this GPU; one in exclusive use is not   *)
(* even looked at.  A second entry of a GPU that has yet to be carved out  *)
(* stands for another GPU.                                                 *)
Look ==
  /\ scaler.pc \in {"idle", "plan"}
  /\ plan = << >> \/ (Len(plan) < Entries /\ ~(Virtual /\ allocationType = "none"))
  /\ Listed
  /\ window' = {usage}
  /\ scaler' = [Idle EXCEPT !.pc = "look"]
  /\ UNCHANGED <<usage, usageMemory, allocationType, required, allocated, shelfItems, status,
                 plan, down, deleter, scheduled, firm>>

(* getConfig looks at the sizes that fit.  Which of them is the most       *)
(* efficient depends on the profiled rates: here it may be any.            *)
MayBeBest(c) == Fits(SM(c), Quota(c), Mem(c))

(* getConfig returns a configuration.  One request has one allocation      *)
(* type.  Nothing is reserved, so two entries promise the same room twice. *)
Plan(c, want) ==
  /\ scaler.pc = "look"
  /\ status[c] = "new"
  /\ \A i \in DOMAIN plan : AllocationType(plan[i]) = AllocationType(c)
  /\ FitsMemory(Mem(c)) /\ MayBeBest(c)
  /\ \E n \in PossibleReplicas(c, want) : required' = [required EXCEPT ![c] = n]
  /\ status' = [status EXCEPT ![c] = "planned"]
  /\ plan' = Append(plan, c)
  /\ firm' = IF window = {usage} THEN firm \cup {c} ELSE firm
  /\ window' = {}
  /\ scaler' = [Idle EXCEPT !.pc = "plan"]
  /\ UNCHANGED <<usage, usageMemory, allocationType, allocated, shelfItems, down, deleter,
                 scheduled>>

(* It returns none: no size fits, or none that fits was measured.          *)
PlanNothing ==
  /\ scaler.pc = "look"
  /\ window' = {}
  /\ scaler' = [Idle EXCEPT !.pc = IF plan = << >> THEN "idle" ELSE "plan"]
  /\ UNCHANGED <<usage, usageMemory, allocationType, required, allocated, shelfItems, status,
                 plan, down, deleter, scheduled, firm>>

(* PrepareConfigsRequirements takes the next planned configuration, and    *)
(* AllocateAndCommitConfig begins.  The memory is subtracted from the      *)
(* usage, as in the code.                                                  *)
BeginCommit ==
  /\ scaler.pc \in {"plan", "commit"}
  /\ plan # << >>
  /\ LET c == Head(plan)
     IN  /\ allocationType' = AllocationType(c)
         /\ usageMemory' = usageMemory - Mem(c) * required[c]
         /\ scaler' = [pc |-> "insert", cfg |-> c, left |-> required[c]]
         /\ firm' = firm \cap {c}
  /\ plan' = Tail(plan)
  /\ UNCHANGED <<usage, required, allocated, shelfItems, status, window, down, deleter,
                 scheduled>>

(* A virtual GPU is carved out when the first configuration is committed   *)
(* to it.  When RequestVirtualGPU fails the configuration is passed over.  *)
SkipCommit ==
  /\ scaler.pc \in {"plan", "commit"}
  /\ plan # << >>
  /\ Virtual /\ allocationType = "none"
  /\ plan' = Tail(plan)
  /\ scaler' = [Idle EXCEPT !.pc = "commit"]
  /\ UNCHANGED <<usage, usageMemory, allocationType, required, allocated, shelfItems, status,
                 window, down, deleter, scheduled, firm>>

(* Fault: the ID of a failed insertion is recorded.                        *)
InsertReplicaUnchecked ==
  /\ scaler.pc = "insert" /\ scaler.left > 0
  /\ LET c == scaler.cfg
     IN  /\ usage' = Insert(usage, Quota(c), SM(c))
         /\ shelfItems' = [shelfItems EXCEPT ![c] = @ \cup {usage.nextItemID}]
         /\ scaler' = [pc |-> "insert", cfg |-> c, left |-> scaler.left - 1]
  /\ scheduled' = FALSE
  /\ UNCHANGED <<usageMemory, allocationType, required, allocated, status, plan, window, down,
                 deleter, firm>>

(* One round of its loop.  A failed insertion gives the memory of the      *)
(* missing replicas back and ends the loop.                                *)
InsertReplica ==
  /\ scaler.pc = "insert" /\ scaler.left > 0
  /\ LET c == scaler.cfg
     IN  /\ usage' = Insert(usage, Quota(c), SM(c))
         /\ \/ /\ InsertSucceeds(usage, Quota(c), SM(c))
               /\ shelfItems' = [shelfItems EXCEPT ![c] = @ \cup {usage.nextItemID}]
               /\ scaler' = [pc |-> "insert", cfg |-> c, left |-> scaler.left - 1]
               /\ scheduled' = FALSE
               /\ UNCHANGED usageMemory
            \/ /\ ~InsertSucceeds(usage, Quota(c), SM(c))
               /\ usageMemory' = usageMemory + Mem(c) * scaler.left
               /\ scaler' = [pc |-> "settle", cfg |-> c, left |-> scaler.left]
               /\ UNCHANGED <<shelfItems, scheduled>>
  /\ UNCHANGED <<allocationType, required, allocated, status, plan, window, down, deleter,
                 firm>>

SuccessfulReplicas == IF required[scaler.cfg] < 0 THEN 0 ELSE required[scaler.cfg] - scaler.left

EndCommit ==
  /\ scaler.pc = "settle" \/ (scaler.pc = "insert" /\ scaler.left <= 0)
  /\ allocated' = [allocated EXCEPT ![scaler.cfg] = SuccessfulReplicas]
  /\ scaler' = [Idle EXCEPT !.pc = "commit"]
  /\ UNCHANGED <<usage, usageMemory, allocationType, required, shelfItems, status, plan, window,
                 down, deleter, scheduled, firm>>

(* Everything is committed.  Configurations without replicas are dropped;  *)
(* the others are recorded unless AddFastPods fails, in which case their   *)
(* replicas stay on the shelves.                                           *)
Record(podsAdded) ==
  /\ scaler.pc = "commit" /\ plan = << >>
  /\ status' = [c \in Configs |->
                  IF status[c] # "planned" THEN status[c]
                  ELSE IF allocated[c] > 0 /\ podsAdded THEN "live" ELSE "dropped"]
  /\ scaler' = Idle
  /\ UNCHANGED <<usage, usageMemory, allocationType, required, allocated, shelfItems, plan,
                 window, down, deleter, scheduled, firm>>

-----------------------------------------------------------------------------
(* The scaling loop: scale down, once the FaSTPod is deleted or updated.   *)

(* scaleDownFaSTFunc has chosen configurations of a function, S of them    *)
(* on this GPU, each with the replicas it keeps, and has changed their     *)
(* FaSTPods.  What follows works on the Config objects, also when the      *)
(* deletion handler has been there first.                                  *)
ScaleDown(S, to) ==
  /\ scaler.pc = "idle"
  /\ S # {} /\ \A c \in S : status[c] = "live" /\ to[c] < allocated[c]
  /\ usageMemory >= -MaxDrift
  /\ down' = {[cfg |-> c, to |-> to[c]] : c \in S}
  /\ scaler' = [Idle EXCEPT !.pc = "down"]
  /\ UNCHANGED <<usage, usageMemory, allocationType, required, allocated, shelfItems, status,
                 plan, window, deleter, scheduled, firm>>

(* The next of them, or what follows the last.                             *)
NextDown == [Idle EXCEPT !.pc = IF down = {} THEN "idle" ELSE "down"]

(* configsRemoved, when configsUpdated are done.                           *)
StartDeallocate(d) ==
  /\ scaler.pc = "down"
  /\ \A e \in down : e.to = 0
  /\ down' = down \ {d}
  /\ scaler' = [pc |-> "dealloc", cfg |-> d.cfg, left |-> 0]
  /\ UNCHANGED <<usage, usageMemory, allocationType, required, allocated, shelfItems, status,
                 plan, window, deleter, scheduled, firm>>

(* Fault: the item stays in shelfItems.                                    *)
TakeOffKeepItem(c, id) ==
  /\ usage' = Remove(usage, id)
  /\ UNCHANGED shelfItems

TakeOff(c, id) ==
  /\ usage' = Remove(usage, id)
  /\ shelfItems' = [shelfItems EXCEPT ![c] = @ \ {id}]

DeallocateReplica(id) ==
  /\ scaler.pc = "dealloc"
  /\ id \in shelfItems[scaler.cfg]
  /\ TakeOff(scaler.cfg, id)
  /\ UNCHANGED <<usageMemory, allocationType, required, allocated, status, plan, window, down,
                 scaler, deleter, scheduled, firm>>

(* Fault: the answer of IsEmpty is dropped.                                *)
ScheduleNever == UNCHANGED scheduled

(* scheduleForDeletion, called when IsEmpty answered true.                 *)
ScheduleIfEmpty == scheduled' = (scheduled \/ IsEmpty(usage))

EndDeallocate ==
  /\ scaler.pc = "dealloc"
  /\ shelfItems[scaler.cfg] = {}
  /\ usageMemory' = usageMemory + Mem(scaler.cfg) * allocated[scaler.cfg]
  /\ ScheduleIfEmpty
  /\ status' = [status EXCEPT ![scaler.cfg] = "gone"]
  /\ scaler' = NextDown
  /\ UNCHANGED <<usage, allocationType, required, allocated, shelfItems, plan, window, down,
                 deleter, firm>>

(* ReduceConfig.  The replicas to take off are counted from                *)
(* AllocatedReplica, which no reduction updates.                           *)
StartReduce(d) ==
  /\ scaler.pc = "down"
  /\ d.to > 0
  /\ down' = down \ {d}
  /\ usageMemory' = usageMemory - Mem(d.cfg) * (allocated[d.cfg] - d.to)
  /\ scaler' = [pc |-> "reduce", cfg |-> d.cfg, left |-> allocated[d.cfg] - d.to]
  /\ UNCHANGED <<usage, allocationType, required, allocated, shelfItems, status, plan, window,
                 deleter, scheduled, firm>>

ReduceReplica(id) ==
  /\ scaler.pc = "reduce" /\ scaler.left > 0
  /\ id \in shelfItems[scaler.cfg]
  /\ TakeOff(scaler.cfg, id)
  /\ scaler' = [pc |-> "reduce", cfg |-> scaler.cfg, left |-> scaler.left - 1]
  /\ UNCHANGED <<usageMemory, allocationType, required, allocated, status, plan, window, down,
                 deleter, scheduled, firm>>

EndReduce ==
  /\ scaler.pc = "reduce"
  /\ scaler.left = 0 \/ shelfItems[scaler.cfg] = {}
  /\ ScheduleIfEmpty
  /\ scaler' = NextDown
  /\ UNCHANGED <<usage, usageMemory, allocationType, required, allocated, shelfItems, status,
                 plan, window, down, deleter, firm>>

-----------------------------------------------------------------------------
(* The deletion handler, on the configurations S a deleted function has on *)
(* this GPU: ReduceConfig(config, 0) on each, then the function goes.      *)

StartDelete(S) ==
  /\ deleter.pc = "idle"
  /\ S # {} /\ \A c \in S : status[c] = "live"
  /\ deleter' = [pc |-> "next", cfg |-> NoConfig, left |-> 0, todo |-> S, done |-> {}]
  /\ UNCHANGED <<usage, usageMemory, allocationType, required, allocated, shelfItems, status,
                 plan, window, down, scaler, scheduled, firm>>

(* Fault: one replica is kept, as in a scale-down.                         *)
AllButOneReplica(c) == allocated[c] - 1

ReplicaReduceCount(c) == allocated[c]

DeleteNext(c) ==
  /\ deleter.pc = "next"
  /\ c \in deleter.todo
  /\ usageMemory' = usageMemory - Mem(c) * ReplicaReduceCount(c)
  /\ deleter' = [pc |-> "delete", cfg |-> c, left |-> ReplicaReduceCount(c),
                 todo |-> deleter.todo \ {c}, done |-> deleter.done]
  /\ UNCHANGED <<usage, allocationType, required, allocated, shelfItems, status, plan, window,
                 down, scaler, scheduled, firm>>

DeleteReplica(id) ==
  /\ deleter.pc = "delete" /\ deleter.left > 0
  /\ id \in shelfItems[deleter.cfg]
  /\ TakeOff(deleter.cfg, id)
  /\ window' = IF scaler.pc = "look" THEN window \cup RemovalStates(usage, id) ELSE window
  /\ deleter' = [pc |-> "delete", cfg |-> deleter.cfg, left |-> deleter.left - 1,
                 todo |-> deleter.todo, done |-> deleter.done]
  /\ UNCHANGED <<usageMemory, allocationType, required, allocated, status, plan, down, scaler,
                 scheduled, firm>>

(* Fault: the loop waits for its count although no item is left.           *)
DeletedByCount == deleter.left = 0

DeletedAll == deleter.left = 0 \/ shelfItems[deleter.cfg] = {}

DeleteDone ==
  /\ deleter.pc = "delete" /\ DeletedAll
  /\ scheduled' = (scheduled \/ (IsEmpty(usage) /\ Virtual))
  /\ deleter' = [pc |-> "next", cfg |-> NoConfig, left |-> 0,
                 todo |-> deleter.todo, done |-> deleter.done \cup {deleter.cfg}]
  /\ UNCHANGED <<usage, usageMemory, allocationType, required, allocated, shelfItems, status,
                 plan, window, down, scaler, firm>>

EndDelete ==
  /\ deleter.pc = "next" /\ deleter.todo = {}
  /\ status' = [c \in Configs |-> IF c \in deleter.done THEN "gone" ELSE status[c]]
  /\ deleter' = NoDeletion
  /\ UNCHANGED <<usage, usageMemory, allocationType, required, allocated, shelfItems, plan,
                 window, down, scaler, scheduled, firm>>

-----------------------------------------------------------------------------
ScaleUpStep ==
  \/ Look
  \/ PlanNothing
  \/ \E c \in Configs, want \in 1..MaxWant : Plan(c, want)
  \/ BeginCommit
  \/ SkipCommit
  \/ InsertReplica
  \/ EndCommit
  \/ \E podsAdded \in BOOLEAN : Record(podsAdded)

ScaleDownStep ==
  \/ \E S \in SUBSET Configs : \E to \in [S -> 0..MaxWant] : ScaleDown(S, to)
  \/ \E d \in down : StartDeallocate(d)
  \/ \E c \in Configs : \E id \in shelfItems[c] : DeallocateReplica(id)
  \/ EndDeallocate
  \/ \E d \in down : StartReduce(d)
  \/ \E c \in Configs : \E id \in shelfItems[c] : ReduceReplica(id)
  \/ EndReduce

DeleteStep ==
  \/ \E S \in SUBSET Configs : StartDelete(S)
  \/ \E c \in Configs : DeleteNext(c)
  \/ \E c \in Configs : \E id \in shelfItems[c] : DeleteReplica(id)
  \/ DeleteDone
  \/ EndDelete

Next == ScaleUpStep \/ ScaleDownStep \/ DeleteStep

Spec == Init /\ [][Next]_vars

(* Both goroutines keep running.  They are not obliged to begin anything,  *)
(* so fairness is on the steps that continue what was begun.               *)
Continue ==
  \/ PlanNothing \/ BeginCommit \/ SkipCommit \/ InsertReplica \/ EndCommit
  \/ \E d \in down : StartReduce(d) \/ StartDeallocate(d)
  \/ \E podsAdded \in BOOLEAN : Record(podsAdded)
  \/ \E c \in Configs : \E id \in shelfItems[c] : DeallocateReplica(id) \/ ReduceReplica(id)
  \/ EndDeallocate \/ EndReduce

ContinueDelete ==
  \/ \E c \in Configs : DeleteNext(c)
  \/ \E c \in Configs : \E id \in shelfItems[c] : DeleteReplica(id)
  \/ DeleteDone \/ EndDelete

FairSpec == Spec /\ WF_vars(Continue) /\ WF_vars(ContinueDelete)

-----------------------------------------------------------------------------
(* Properties.                                                             *)

(* The fields of the GPU, the configurations and the two goroutines.       *)
TypeOK ==
  /\ IsPacker(usage) /\ usage.maxHeight = TotalSM
  /\ usageMemory \in Int
  /\ allocationType \in Types
  /\ required \in [Configs -> Int]
  /\ allocated \in [Configs -> Nat]
  /\ shelfItems \in [Configs -> SUBSET Nat]
  /\ status \in [Configs -> Status]
  /\ plan \in Seq(Configs)
  /\ \A p \in window : IsPacker(p)
  /\ down \in SUBSET [cfg : Configs, to : Nat]
  /\ scaler \in [pc : {"idle", "look", "plan", "commit", "insert", "settle", "down", "dealloc",
                       "reduce"},
                 cfg : Configs \cup {NoConfig}, left : Int]
  /\ scaler.pc \in {"insert", "settle", "dealloc", "reduce"} => scaler.cfg \in Configs
  /\ deleter \in [pc : {"idle", "next", "delete"}, cfg : Configs \cup {NoConfig}, left : Nat,
                  todo : SUBSET Configs, done : SUBSET Configs]
  /\ deleter.pc = "delete" => deleter.cfg \in Configs
  /\ scheduled \in BOOLEAN
  /\ firm \in SUBSET Configs

(* Every item on the GPU's shelves belongs to exactly one configuration,   *)
(* has the size that configuration was planned with, and every item a      *)
(* configuration holds is on the shelves: with two goroutines taking items *)
(* off, possibly of the same configuration, no slot is left without an     *)
(* owner or freed twice.                                                   *)
ItemsOwnedOnce ==
  /\ \A c, d \in Configs : c # d => shelfItems[c] \cap shelfItems[d] = {}
  /\ \A id \in DOMAIN usage.itemLocation : \E c \in Configs : id \in shelfItems[c]
  /\ \A c \in Configs : \A id \in shelfItems[c] :
       /\ id \in DOMAIN usage.itemLocation
       /\ ItemsOf(usage)[id] = [width |-> Quota(c), height |-> SM(c)]

(* ItemsOwnedOnce with what makes it inductive: a sound packer with exact  *)
(* totals, and the goroutines working on configurations.                   *)
IInv ==
  /\ Sound(usage) /\ TotalsExact(usage) /\ usage.maxHeight = TotalSM
  /\ shelfItems \in [Configs -> SUBSET Nat]
  /\ plan \in Seq(Configs)
  /\ \A d \in down : d.cfg \in Configs
  /\ scaler.pc \in {"insert", "settle", "dealloc", "reduce"} => scaler.cfg \in Configs
  /\ deleter.pc = "delete" => deleter.cfg \in Configs
  /\ ItemsOwnedOnce

(* AllocateAndCommitConfig is under way.                                   *)
Inserting == scaler.pc \in {"insert", "settle"}

(* What GetConfigs promises is still there when it is committed, whatever  *)
(* the deletion handler takes off the GPU in between, unless a removal ran *)
(* in the middle of its unlocked queries or another entry of this GPU was  *)
(* committed first: then, and only then, can AllocateAndCommitConfig come  *)
(* to its error branch.                                                    *)
PromiseKept ==
  /\ \A i \in DOMAIN plan : plan[i] \in firm =>
       Takes(usage, Quota(plan[i]), SM(plan[i]), required[plan[i]])
  /\ scaler.pc = "insert" /\ scaler.cfg \in firm =>
       Takes(usage, Quota(scaler.cfg), SM(scaler.cfg), scaler.left)
  /\ scaler.pc = "settle" => scaler.cfg \notin firm

(* An exclusive replica has the GPU to itself.                             *)
ExclusiveAlone ==
  \A c \in Configs :
    Shape[c].exclusive /\ shelfItems[c] # {} =>
      /\ Cardinality(shelfItems[c]) = 1
      /\ \A d \in Configs \ {c} : shelfItems[d] = {}

(* A configuration that left its function's map holds no slot, although    *)
(* the number of slots to free is computed from AllocatedReplica, which a  *)
(* reduction leaves stale.                                                 *)
GoneHoldsNothing == \A c \in Configs : status[c] = "gone" => shelfItems[c] = {}

(* What makes GoneHoldsNothing inductive: a configuration never holds more *)
(* slots than AllocatedReplica says, except while they are being inserted, *)
(* and no goroutine frees slots of a configuration that is still planned.  *)
SlotsCounted ==
  \A c \in Configs :
    (Inserting /\ c = scaler.cfg) \/ Cardinality(shelfItems[c]) <= allocated[c]

InsertionCounted ==
  Inserting => /\ status[scaler.cfg] = "planned"
               /\ scaler.left <= required[scaler.cfg]
               /\ Cardinality(shelfItems[scaler.cfg]) <= required[scaler.cfg] - scaler.left

PlanFresh ==
  \A i \in DOMAIN plan :
    /\ status[plan[i]] = "planned" /\ shelfItems[plan[i]] = {}
    /\ Inserting => plan[i] # scaler.cfg
    /\ \A j \in DOMAIN plan : plan[i] = plan[j] => i = j

Freed == {"live", "gone"}

FreeingRecorded ==
  /\ \A d \in down : status[d.cfg] \in Freed
  /\ scaler.pc \in {"dealloc", "reduce"} => status[scaler.cfg] \in Freed
  /\ \A c \in deleter.todo \cup deleter.done : status[c] \in Freed
  /\ \A c \in deleter.done : shelfItems[c] = {}
  /\ deleter.pc = "delete" => /\ status[deleter.cfg] \in Freed
                              /\ Cardinality(shelfItems[deleter.cfg]) <= deleter.left

BooksInv ==
  /\ \A c \in Configs : status[c] = "new" => shelfItems[c] = {}
  /\ SlotsCounted /\ InsertionCounted /\ PlanFresh /\ FreeingRecorded
  /\ GoneHoldsNothing

(* An emptied virtual GPU does not go unnoticed: when nobody is in the     *)
(* middle of freeing slots and the GPU, once used, is empty, its release   *)
(* has been scheduled; each goroutine asks IsEmpty after its own last      *)
(* removal, so one of them gets the answer true.                           *)
EmptyIsScheduled ==
  ( /\ Virtual /\ IsEmpty(usage)
    /\ \E c \in Configs : status[c] = "gone"
    /\ scaler.pc \notin {"dealloc", "reduce"}
    /\ deleter.pc # "delete" )
  => scheduled

(* What makes it inductive: a configuration the deletion handler is done   *)
(* with counts already.                                                    *)
NoticedInv ==
  ( /\ Virtual /\ IsEmpty(usage)
    /\ deleter.done # {} \/ \E c \in Configs : status[c] = "gone"
    /\ scaler.pc \notin {"dealloc", "reduce"}
    /\ deleter.pc # "delete" )
  => scheduled

(* A deletion always comes to its end and leaves none of the function's    *)
(* slots behind, even when a reduction already took some of them.          *)
DeletionCompletes ==
  \A c \in Configs : c \in deleter.todo ~> (status[c] = "gone" /\ shelfItems[c] = {})

(* The memory of the replicas placed on the GPU does not exceed it: Fits   *)
(* refuses a replica whose memory "is greater than available GPU memory".  *)
MemoryFits ==
  MapThenSumSet(LAMBDA c : Cardinality(shelfItems[c]) * Mem(c), Configs) <= TotalMemory
=============================================================================
