# Verification of the FaST-GShare autoscaler

TLA+ models of the autoscaler's own logic: how GPU slots are packed, planned,
taken and freed, how a function is scaled up and down, how functions come and
go, how GPUs are carved out and released, and how nodes connect. TLC checks the
models on small instances, TLAPS proves the central invariants for every value of
the constants. File names below are relative to
`src/internal/` unless they begin with `src/`.

## 1. The system

A `FaSTFunc` is a function for model inference. The controller keeps enough
replicas of it on the GPUs of the cluster to serve its request rate.

| Part | State | Operations | Talks to |
|---|---|---|---|
| Shelf packer, `shelf/shelf.go` | shelves with items, `UsedHeight`, `itemLocation`, `nextItemID`; one per GPU | `Insert`, `Remove`, `Reset`, `CanFit`, `MaxInsertableItems`, `IsEmpty` | called by GPUInfo |
| GPU, `controller/gpu_manager.go` | packer, `UsageMemory`, `allocationType` | `Fits`, `AllocateAndCommitConfig`, `DeallocateConfig`, `ReduceConfig` | the configuration finder, UpdateFunction, the deletion handler |
| Configuration finder, `controller/config_finder.go`, `gpu_sort.go`, `model_memory.go` | none of its own; reads the nodes and their GPUs | `GetConfigs` plans, `PrepareConfigsRequirements` commits | node manager's map, node daemon (gRPC), profile store |
| Scaling decision, `controller/fastfunc_scale.go`, `fastfunc_reconcile.go`, `fastpod_add.go`, `config_to_fastpod.go` | `fastFuncMap`: configurations, `currentRPSCapacity`, `scaleDownConsecutiveCount` | `UpdateFunction`, `scaleDownFaSTFunc`, `AddFastPods` | Prometheus, Kubernetes API, GPUs |
| Reconcile loop, `fastfunc_reconcile.go` | ten-second ticker | `persistentReconcile` calls UpdateFunction for each function in turn | |
| Controller, `controller/fastfunc_controller.go` | release queue, `processingGPUs` | `Reconcile`, `handleDeletedFaSTFunc`, the release worker | GPUs, node daemon |
| Node manager, `controller/node_manager.go` | `nodes` map: status, client, `availableGPUs`, `physicalGPUsMap` | one goroutine per connection: handshake, registration, heartbeats | node daemon (TCP, gRPC) |
| Profile store, `profiling/profiling_retrieve.go` | rates by model, GPU type, SM, quota | `Set`, `Get`, `GetQPS` | read by the finder |

The scaling loop is one goroutine. `Reconcile` (with the deletion handler), the
release worker, the timers of `scheduleForDeletion` and the connections of
nodes are others. The packer's `Insert`, `Remove` and `Reset` hold its lock; its queries `CanFit`
(`shelf/shelf.go:92`), `IsEmpty` (`:140`) and `MaxInsertableItems` (`:145`) do not, and
may read in the middle of a `Remove`, which shifts the slice of shelves in place. The
nodes map is mostly locked by `nodesMtx`; `fastFuncMap`, `shelfItems` and `UsageMemory`
are not locked.

Hard in this code: plans made on a state that changes before they are carried
out; two goroutines freeing slots of the same configuration; several API calls
of which some fail; totals kept by increments; a delayed release; a node that
reconnects while its old connection lives. `PROJECT.json` lists these under
"hazards", each at its line, with the properties that cover it.

What makes each part correct:

* packer: no overcommitment, two indexes that agree, exact totals, a promise
  (`MaxInsertableItems`) that `Insert` can keep, also after removals;
* GPU: every slot has one owner, an exclusive replica is alone, what leaves the
  books leaves the shelves, an emptied virtual GPU is noticed;
* scaling: the rate that is kept serves the predicted rate, the recorded
  capacity is the real one, FaSTPods have slots, no scale-down in haste;
* nodes: a node in use is served by a connection; silence is noticed;
* release: an emptied virtual GPU is given back, one in use is not, and the
  node's books match the daemon's;
* finder: the plan covers the demand with the best GPUs and sizes and wastes no
  replica;
* functions: each one that stays is served, each deleted one leaves neither an
  entry nor slots behind;
* profiles: what was measured is found, estimates stay within it.

## 2. Modules

| Module | Models | Notes |
|---|---|---|
| `Shelf` | the packer's operations as operators on packers | used by the next two |
| `ShelfPacker` | one packer as a state machine, one action per method that changes it | refines `ItemLedger` |
| `ItemLedger` | what clients rely on: a map from ID to size, IDs never reused until a reset | abstract specification |
| `GpuDevice` | one GPU, the scaling loop and the deletion handler as two processes | uses `Shelf` |
| `Scaler` | UpdateFunction for one function, step by step | GPUs and Kubernetes are seen through their answers |
| `NodeManager` | connections, registration, heartbeats, status | |
| `GpuRelease` | the GPUs of one node: lists, books, carving out, timers, release queue and worker, re-registration | composes the scaling loop, the deletion handler, the worker, a registering connection and the daemon |
| `Autoscaler` | several functions: Reconcile, the cleanup, the loop over the list, `fastFuncMap` | composes the loop, the deletion handler and Kubernetes |
| `ConfigFinder` | GetConfigs, sortGPUInfos, getConfig and the commit over several GPUs | uses `Shelf` |
| `QpsStore` | the profile store | |
| `SumTheorems` | sums over finite sets, and division | lemmas the proofs use |
| `Shelf_proofs`, `ShelfPacker_proofs`, `GpuDevice_proofs`, `Scaler_proofs`, `GpuRelease_proofs`, `Autoscaler_proofs`, `ConfigFinder_proofs` | theorems | section 5 |
| `MCShelfPacker`, `MCGpuDevice`, `MCConfigFinder`, `MCAutoscaler` | small instances | the other modules need only a cfg |

`QpsStore` and `NodeManager` name their specifications `StoreSpec` and `NodeSpec`, so
that one module of theorems can extend them together with the finder, which reads
both. Their variables stay apart.

Definitions marked "Fault" in the modules are wrong variants of the definition
that follows them. They are used to make sure that each property can fail:
putting the variant in place of the original must break the property
(`PROJECT.json`, "mutants").

### Shelf and ShelfPacker

`sp` is the struct `ShelfPacker`, field by field. Shelf indices start at 1
instead of 0. A failed insertion for lack of room spends its ID, as in the code.

Widths are the quotas 0.1 ... 1.0 counted in a unit that divides 1.0 (`FullWidth`).
Sums of widths are exact, so a `UsedWidth` that has drifted is outside the model.
Quotients are not: `int(remainingWidth/width)` of `MaxInsertableItems` may come out
one too low on each shelf where the division has no rest (`Quotients`), as 0.6/0.2
gives 2. The answer of that query is therefore a set of numbers.

The queries take no lock. `CanFit` and `MaxInsertableItems` have a parameter `W`, the
packers they meet on their way: the one they begin with and every one a `Remove`
leaves meanwhile, between and after its two writes (`RemovalStates`). Each field
of each shelf may be read from any of them (`Views`), so a shelf that moves up is
counted twice or not at all. With `W = {sp}` nobody writes. `IsEmpty` reads one length
only.

### GpuDevice

`usage`, `usageMemory`, `allocationType` are the fields of `GPUInfo`;
`required`, `allocated`, `shelfItems` those of `Config`. A configuration stands
for a UUID and is used once. `plan` holds the configurations GetConfigs chose on
this GPU and PrepareConfigsRequirements has not committed; `scaler` and `deleter`
are program counters of the two goroutines, `down` is what a scale-down has yet to do
on this GPU. `window` holds the packers the queries may meet: it is set when the
scaling loop begins to look and grows with every removal until it has planned.
`scheduled` records that `scheduleForDeletion` was called since the last insertion,
`firm` the planned configurations whose queries no removal disturbed and before
which no other plan was committed.

* scale up: `Look` and `Plan` or `PlanNothing` (GetConfigs and getConfig, nothing
  reserved), `BeginCommit` or `SkipCommit` (PrepareConfigsRequirements; the latter when
  the virtual GPU cannot be had), `InsertReplica` per round of the insertion loop, `EndCommit`,
  `Record` (AddFastPods succeeded or failed);
* scale down: `ScaleDown` (the choice of scaleDownFaSTFunc), then, on the objects
  chosen and without a second look at them, `StartReduce`, `ReduceReplica`, `EndReduce`
  for each that shrinks and `StartDeallocate`, `DeallocateReplica`, `EndDeallocate` for
  each that goes;
* deletion: `StartDelete`, then per configuration `DeleteNext`,
  `DeleteReplica`, `DeleteDone`, and `EndDelete`.

Otherwise one step is one locked call of the packer together with the assignments
around it. `AvailableMemory` is read when the plan is made. `Usage.Remove(id)` and
`delete(shelfItems, id)` are one step (`TakeOff`): a second removal of the same ID in between returns an error nobody reads and
changes nothing. Concurrent access to the Go map `shelfItems` itself is a data
race and outside the model. The sign of `UsageMemory` is the code's: allocation
subtracts. Which size is the most efficient, and how many replicas the demand
wants, are inputs. `Entries` is how often `availableGPUs` lists the GPU: a
release appends the node's whole list again, so it may be more than once. A
virtual GPU that has yet to be carved out is listed once: a second entry stands for
another GPU. `GpuRelease` has the release itself.

### Scaler

`config[c]` is [QpsPerReplica, AllocatedReplica]; neither changes once it is
made, `AllocatedRPS` is their product. `live` is configUUIDToConfig, `capacity`
is currentRPSCapacity, `count` is scaleDownConsecutiveCount, `slots[c]` is
len(shelfItems), `pods[c]` the replicas of the FaSTPod. `job` holds the local
variables of the UpdateFunction call under way:

    Check -> up (Allocate per GPU, EndAllocate) -> AddFastPods | AddFastPodsFails
    Check -> plan (PlanDown per configuration) -> drop (DropPod per FaSTPod)
          -> resize (ResizePod per FaSTPod) -> Apply

`Allocate` joins, per GPU, the planning of GetConfigs and the commit of
PrepareConfigsRequirements; `granted` is how many replicas the commit got
(none if the node or the virtual GPU could not be had). The order of the
configurations in a scale-down is any order `sort.Slice` may produce. The API
calls succeed, find no object, or fail. The update branch of AddFastPods is
unreachable, since configurations are new. FaSTFuncs are taken to be in the
namespace of the FaSTPods (`fast-gshare-fn`, as in all samples), where setting the
owner reference succeeds. Rates are in a unit in which measured rates are even,
so that `SCALE_FACTOR` = 1.5 keeps them whole.

### NodeManager

`status[n]` is the node's entry in the map, `conn[c]` the stage of a connection's
goroutine, `peer[c]` the name its hello led to. `Crash` is the environment: the
node or the network dies and the connection does not end.

### GpuRelease

`available` and `physical` are the node's `availableGPUs` and
`physicalGPUsMap`, `provisioned` is what the daemon really has. A GPUInfo is an
object of its own: several may stand for one GPU, and what a configuration
holds it holds on one of them (`holder`). The code's objects are told apart by a
number that is used again when nothing refers to the old one; so are the UUIDs
of GPUs that are gone. The list counts each entry up to "twice or more".

* scale up: `GetConfigs`, then per configuration `UseKnown`, `UsePhysical`, or
  `RequestVirtualGPU` with `ReceiveGPU` or `RequestFails`, then `Commit`, and at
  the end `Record`;
* freeing: `Deallocate` and `EndDeallocate` in the loop, `DeleteConfig` and
  `EndDeleteConfig` in the deletion handler, which alone looks at `virtual`;
* release: `Fire` (the ten-second timer), `Take`, `ReleaseVirtualGPU` with
  `Released`, or `ReleaseFails` and `Retry`;
* reconnection: `FetchList`, `Register`. The worker may still hold the old Node.

The daemon's side (`DaemonList`, `CarveOut`) is modelled from how the code uses
it: a list of everything it has and could carve out, unique UUIDs, and calls
that fail before or, with `LostAnswers`, after they were carried out.
`allocationType` is only ever overwritten by the next commit, so a GPU that once
was exclusive is never offered again while it stays in the map, even if empty:
for a virtual one until its release, for a physical one until the node
registers again.

### Autoscaler

`object[f]` is the uid of the FaSTFunc in the cluster, `requests` the merged work
queue of controller-runtime, `handler` Reconcile, `loop` persistentReconcile with
the list it got and the UpdateFunction it is in. `status[c]` says who can find
a configuration: the entry in the map ("entry"), an entry only the loop still
points to ("detached"), nobody ("lost"), or nobody because AddFastPods failed
("leaked"). `raced` is a history variable: names for which scaling and cleanup
overlapped. The properties that hold exclude them; the configurations
`MCAutoscalerCleanup`, `MCAutoscalerRevived` and `MCAutoscalerOrphans` show what
happens there. The measured rates are abstracted to a demand counted
in configurations; whether three low checks are behind it is a choice (`Scaler`
counts them). A function outside the namespace `fast-gshare-fn` gets no FaSTPod,
since its owner reference cannot be set (`Foreign`).

### ConfigFinder

`usage` has the packer of each GPU, `todo` the entries of the lists still to be asked in
the order of sortGPUInfos (any order of equals, as `sort.Slice` is not stable),
`remaining` is remainingRequiredQPS, `plan` the configurations chosen. A GPU may be listed
again, up to `MaxRepeats` times in all. Each entry is asked in two steps: with `BeginAsk`
the loop of getConfig begins to look, with `AskGpu` it has its answer. In between `Free`
takes replicas of other functions off: the deletion handler does not wait for nodesMtx,
and `window` collects the packers the unlocked queries may have met. Each size the packer
was asked about may be found to fit if it did in one view, and must be if it did in all
of them (`Fitting`, `SurelyFitting`). `Free` is ReduceConfig, which subtracts the memory
(`controller/gpu_manager.go:106`); here only the deletion handler frees.

`Commit` is AllocateAndCommitConfig for one configuration in one step, with its
insertions up to the first that fails (`GpuDevice` has them one by one); `SkipCommit`
is a failed RequestVirtualGPU. The sort itself is one step (`Sorted` is the set
of orders it may leave the GPUs in): what a removal changes during it are `UsedHeight` and
the memory, the third criterion and those behind it. The two counting loops, over the
sizes of a GPU and over the replicas of a commit, are recursive functions (`BestOf`,
`InsertMany`) whose value at n is what n rounds leave behind. Efficiency and
utilisation are fractions in the code and are compared by multiplying out; equal
floats that differ in the last bit are outside the model.
A request for a model without a known memory, or without any GPU, changes
nothing and is left out.

### QpsStore

`data` is the map for one model and one type of GPU, `rows` a history of what was
read. Quotas are in thousandths, so that the rounding to hundredths is visible.
The controller itself asks with `roundBy` = 0; the estimate for other values is
checked as a function. `StoreAssumption` says what the tables are: rates
and SM percentages are naturals, quotas are whole hundredths, the drift of a summed quota is below half a
hundredth.

## 3. Runs

| Run | Asks | Instance | Result |
|---|---|---|---|
| `shelf` | exact book-keeping, safe answers, refinement of the ledger | bin of height 3, width 4, all sizes from 0 to one above the limit, 4 IDs | passes |
| `gpu` | slots and promises in every interleaving of scaling and deletion | 3 SM units, quotas in halves, the GPU listed twice, one configuration that fills a low shelf and two that leave room on a high one | passes |
| `gpu_memory` | memory of the replicas within the GPU | 2 SM units, memory 2, a narrow, a full-height and an exclusive configuration | violated |
| `scaler` | decisions, plans, books and FaSTPods under partial failure | rates 2 and 4, minimum 2, replicas of rate 2 and 3, at most 3 per GPU, 3 configurations | passes |
| `nodes` | status with several connections per node | 2 nodes, 3 connections | passes |
| `release` | every emptied GPU is pursued and settled | two UUIDs for the GPU to carve out, two shared configurations, lost answers, one release under way | passes |
| `release_books` | one GPUInfo per GPU, books as the daemon's, exclusive configurations alone | a physical and a virtual GPU, two exclusive configurations, plans of two, lost answers, two releases under way, one reconnection | passes |
| `release_in_use` | only an empty GPU is released | one GPU | violated |
| `autoscaler` | nothing is left behind and no FaSTPod loses its slots, except by overlaps | 2 functions created up to twice, 2 configurations, all calls may fail | passes |
| `autoscaler_live` | functions are served and cleaned up | 3 functions, one with a bad annotation, created once, no failing calls | passes |
| `finder` | plans cover the demand, tightly, with the best GPUs and sizes | a fast, a slow cheap and a small GPU, one of them perhaps listed twice; 2 requests of two rates, shared or exclusive; removals while getConfig looks | passes |
| `qps_store` | best rows, drift, estimates | 3 SMs, 2 quotas, 4 rows, points on, between and beside the grid | passes |

Each module has a `TypeOK` (`StoreTypeOK`, `NodeTypeOK`) that documents its variables; it is the first
conjunct of the inductive invariants of section 5. Only the packer's is part of a
run.

Configurations outside the regular runs. Each of these states what a comment or
a test says of the program, and TLC finds a counterexample in it
(`tlc -config <cfg> <module>`); section 4 says what is behind each.

| Configuration | Module | Property that is false | Section 4 |
|---|---|---|---|
| `MCShelfPackerTest` | `MCShelfPacker` | `SecondItemOpensShelf` | 1 |
| `MCScalerCapacity` | `Scaler` | `CapacityIsCurrent` | 3 |
| `MCScalerPods` | `Scaler` | `ConfigsHavePods` | 4 |
| `MCScalerDemand`, `MCScalerRegrow` | `Scaler` | `PlanAlwaysServesDemand`, `ScaleDownOnlyReduces` | 5 |
| `MCNodeManagerSilence` | `NodeManager` | `SilenceIsNoticed` | 6 |
| `MCGpuReleasePhysical` | `GpuRelease` | `OnlyVirtualReleased` | 8 |
| `MCGpuReleaseQueue`, `MCGpuReleaseRetries` | `GpuRelease` | `RetryNotQueuedTwice`, `GivesUpAfterThree` | 9 |
| `MCGpuReleaseStaleList` | `GpuRelease` | `PhysicalIsPhysical` | 10 |
| `MCGpuReleaseReconnect` | `GpuRelease` | `ExclusiveExcluded` | 11 |
| `MCAutoscalerRecreated` | `MCAutoscaler` | `Served` (functions created twice) | 12 |
| `MCAutoscalerRevived`, `MCAutoscalerOrphans` | `MCAutoscaler` | `DeletedStaysOut`, `AllReleased` | 13 |
| `MCAutoscalerCleanup`, `MCAutoscalerNames` | `MCAutoscaler` | `PodsKeepSlots` (functions created twice, two namespaces) | 14 |
| `MCQpsStoreInterpolation` | `QpsStore` | `Interpolates` | 15 |
| `MCConfigFinderGranular`, `MCConfigFinderExclusive` | `MCConfigFinder` | `SizeIsGranular`, `ExclusiveOnVirtual` | 16 |

Two further configurations pass. `MCGpuDeviceExclusive` (module `MCGpuDevice`) has an
exclusive configuration beside shared ones on a GPU listed twice, and checks `ExclusiveAlone`,
too. `MCGpuReleaseExclusive` (module `GpuRelease`) checks `ExclusiveHasGpu` with a shared
configuration beside two exclusive ones.

Bounds. The bin of `shelf` holds up to three shelves, so collapses happen in the
middle and several indices shift; with 4 IDs every order of inserting and
removing them occurs. `gpu` has the shapes that hurt: while the queries run the
deletion handler may empty the first of two shelves, the higher one moves up, is seen
twice, and more is promised than fits; and with two entries room is
promised twice. `MaxWant` lets a configuration have two replicas so that a reduction
leaves one, and `MaxDrift` stops the ever falling `UsageMemory`. In `scaler` three
configurations allow a plan that removes two and reduces the third, and a
reduction of one reduced before. Two reductions in one plan cannot happen: if
another configuration of at least its size is to come, then whatever may still go
is either all of the first one or too little to be kept as a running total. In `nodes`
three connections allow two on one node and one on the other, or three on one.
In `release*` the retry limit is 0 instead of 10 (one retry, then it is given up)
where the number does not matter; `MCGpuReleaseRetries` has the code's 10.
`MaxPending` keeps slots from being freed while as many releases are under way,
so that the queue stays short; in `release_books` there may be two, enough for a
second item behind a failing one. Two UUIDs let a new GPU appear while the release of the old one is pending.
`release_books` has exclusive configurations only, so that plans, of one request or of
two, meet GPUs they must leave alone before and after the reconnection;
`MCGpuReleaseExclusive` adds a shared one.
`autoscaler` lets each function be deleted and created again while the loop still
has its old list; two configurations are two scale-ups of one function or one of
each. `autoscaler_live` has no failing calls, since a call that fails for ever
serves nobody. In `finder` the second request meets GPUs that hold another's
replicas, with gaps, and loses some of them while it looks; the demand 9 takes more than one GPU, the demand 4 leaves
one half used. The rates are such that the most efficient size, the fastest one
and the smallest one differ, and one size was not measured.

Deadlock is not checked in `gpu*` (every configuration is used once and
nothing may fit), `nodes*` (every connection is used once), `finder*` (requests
are bounded), `release*` and `autoscaler*` (nothing need happen when all
configurations have leaked or no function is left); the real system would go
on with new ones or wait.

Fairness. `gpu`: a goroutine that began to free or insert slots goes on (weak
fairness of its steps); none is obliged to begin. `nodes`: a daemon that has not
crashed goes on sending heartbeats. `release`: timers fire, the worker goes on,
its calls are answered or fail, and what the loop or the handler has begun they
end. `autoscaler_live`: each request is handled, garbage is collected, and the
loop's ticker goes on; nobody has to create or delete anything. All of these are
weak: each is a goroutine, a timer or a work queue of its own, which nothing
else disables for ever. `DeletionCompletes`, `ServedBecomesReady`,
`EmptyIsSettled`, `Served` and `CleanupHappens` use them.

What the passing runs show beyond the obvious:

* `PromisesAreSafe`, `RemovalKeepsPromises` and `PromiseKept` together: the replicas planned
  by GetConfigs are there at the commit although others are removed in between, for a
  first-fit packer gives up no room for one size when an item of another goes. There are
  two ways to fail, and `PromiseKept` names them: a removal in the middle of the queries,
  or an entry of the same GPU that was committed first.
* `PlanServesDemand`: the running total of a scale-down's plan is wrong from
  the first reduction on, but a reduction is always the last thing a plan does,
  because the configurations behind it are at least as large; so the plan is
  safe as long as no configuration was reduced earlier.
* `PodsBacked`: slots are taken before a FaSTPod exists and given back after it
  shrank. The one exception is a configuration that is reduced again: its
  AllocatedReplica is stale, and the update of the FaSTPod may ask for more
  replicas than there are slots (disagreement 5). The exception begins with that
  update, one step before ReduceConfig is called.
* `GoneHoldsNothing`, `DeletionCompletes`: deletion counts slots from a stale
  AllocatedReplica; it is never too small, so nothing is left.
* `EmptyIsPursued`: although the check before a retry looks at a mark that is
  already gone, that is what keeps a failed release alive: with the mark still
  there (the fault `QueueUnlessMarked`) the GPU would be forgotten.
* `BooksMatchDaemon`: an answer applied to the Node object of an earlier
  registration does no harm, since the new object starts without GPUs.
* `OneBookPerGpu`: every plan makes fresh GPUInfos for GPUs not in the map, but
  PrepareConfigsRequirements looks in the map again before it uses one.
* `ExclusiveHasGpu`: a plan may hold two configurations for one GPU, each with a fresh
  GPUInfo, and nobody looks at `allocationType` again before the commit. No second
  configuration comes to a GPU that one has to itself all the same, for
  PrepareConfigsRequirements takes the GPUInfo it finds in the map, and there the insertion
  fails. With the fault `FoundAtPlanning` two would share it. The case in which the code
  fails is a registration, which starts new books: disagreement 11.
* `SlotsLostOnlyIfRecreated`: through creations, deletions, scale-downs and failing calls a
  FaSTPod of a function that exists keeps its slots. What the cleanup does to a function
  that was created again is left out here and is disagreement 14.
* `PlanIsTight`: rounding up happens on the last GPU only, because each earlier
  one is filled to less than the demand.
* `BetterFirst`, `SizeIsBest`: the first two of the five criteria of sortGPUInfos decide
  which GPU is used before which (the other three only order equals and have no property),
  and the running maximum of getConfig is the best size, also when removals run
  meanwhile: it beats every size that fitted the whole time.

## 4. Disagreements found

2 and 7 are shown by the runs `gpu_memory` and `release_in_use`, the others by the
configurations listed in section 3.

1. `shelf_test.go:36-43` inserts an item that "fits in same shelf" and expects
   two shelves. The code is first-fit and uses one.
2. `gpu_manager.go:60`: allocation subtracts from `UsageMemory`. Memory never
   limits the replicas of a GPU.
3. `fastfunc_reconcile.go:240`: `ReducedDelta` is the rate that stays, not the
   rate that goes. `currentRPSCapacity` is wrong after a reduction.
4. `fastpod_add.go:26`: only the first FaSTPod of a scale-up is created; the
   other configurations are recorded and counted all the same.
5. `gpu_manager.go:97-122`: `ReduceConfig` leaves `AllocatedReplica` and
   `AllocatedRPS` stale. A later scale-down may plan below the demand
   (`MCScalerDemand`) or raise the replicas of a FaSTPod while it takes slots
   away (`MCScalerRegrow`).
6. `node_manager.go:85-95`: `CheckNodeLiveness` is never called.
7. `fastfunc_reconcile.go:169`: the release of an emptied GPU is not reconsidered
   when the timer fires; a GPU in use again is released.
8. `fastfunc_scale.go:146,156`: a scale-down schedules physical GPUs for release,
   too; only the deletion handler checks `virtual`.
9. `fastfunc_controller.go:173`: the check whether an item is already queued
   never finds anything. `:166`: the worker gives up after eleven retries, not 3.
10. `fastfunc_controller.go:234`: the answer's list is appended, so a released GPU
    stays listed; a later plan takes it for a physical one.
11. `node_manager.go:246`: a node that registers again forgets its GPUs in use;
    exclusive ones are offered as empty.
12. `fastfunc_controller.go:112`: a function deleted and created again between
    two requests keeps the old entry with its capacity and is never served.
13. `fastfunc_scale.go:32,129`: UpdateFunction brings a deleted function back into
    the map, or records configurations in an entry that was removed.
14. `fastfunc_controller.go:309`: the cleanup goes by the name in the map: it hits
    a function created again after `Get`, or one of another namespace.
15. `profiling_retrieve.go:137,164`: the mean of two neighbours is no interpolation.
16. `gpu_manager.go:24`, `config_finder.go:265`: `SMAllocationGranularity` is never
    read. `config_finder.go:126`: `FilterGPUs` has no caller, so exclusive requests
    get physical GPUs.

## 5. Proofs

The theorems hold for every value of the constants that meets the assumptions
named in the modules: positive `FullWidth` and `TotalSM`, shapes within the GPU,
even rates in a unit that keeps `SCALE_FACTOR` whole, finitely many
configurations in `GpuRelease`, finitely many GPUs in `ConfigFinder`, quotas of
whole hundredths in `QpsStore`, a name for every function. One theorem has a further
hypothesis, which its statement gives: SlotsStayUnlessRecreated, that functions have names
of their own. All are safety properties of the specifications without their fairness.

**Packer.** `ShelfPacker_proofs`: TypeOK, LocationsConsistent, NoOvercommit,
EmptyMeansNoItem, AccountingExact, PromisesAreSafe, RemovalKeepsPromises and the
refinement of `ItemLedger`. The inductive invariant is `Sound` (types, agreeing
indexes, no empty shelf, bounds) with `TotalsExact` (the totals are sums). "No empty
shelf" is needed for `IsEmpty` and makes a removal either shrink a shelf or delete
it. `Shelf_proofs` holds one lemma per operator: an insertion on a shelf, on a
new shelf, a removal, a collapse keep a packer sound and its totals exact; what
they do to the items a client sees. How many items of a size fit (`ExactRoom`, a sum
of exact quotients over the shelves and the height left) falls by one with an insertion of
that size and never with a removal; no answer of `MaxInsertableItems` is above it, and
`InsertMany` succeeds for every number up to it.

**Sums.** `SumTheorems` says what a sum over a finite set does when an element is
added, taken out, changed or renamed. The library defines the sum by a recursive
function over sets; the lemmas follow from a smallest set for which they
would fail, which needs no induction rule.

**GPU.** `GpuDevice_proofs`:
* ItemsOwnedOnce, from `IInv` (a sound packer with exact totals, program counters that name
  configurations); failed insertions are covered;
* ExclusiveAlone: an item as wide and as high as the bin leaves, by the sums, no
  room for any other;
* TypeOK and GoneHoldsNothing, from `BooksInv`: a configuration never holds more
  slots than AllocatedReplica says (it is stale after a reduction, but only ever
  too large), and nobody frees a configuration that is still planned;
* EmptyIsScheduled, from `NoticedInv`: a configuration the deletion handler is done
  with counts before it leaves the map;
* PromiseKept, from `PromiseInv`, for any number of listings: what is `firm` fits still,
  by the lemmas on removals, and insertions go to the configuration that is being
  committed only.

**Scaling.** `Scaler_proofs`: TypeOK, ScalesDownPatiently, CapacityExact,
PlanServesDemand, PodsBacked, NeverScalesToZero. One invariant carries all; its parts
are named in the module.
* `Patience`: the counter is the number of low checks in a row.
* `Granted`: a configuration nobody reduced holds a slot per replica.
* `Planned`: a plan removes or reduces recorded configurations, each once.
* `Backed`: a FaSTPod shrinks before its slots are given back.
* `Books`: the capacity never exceeds the sum of what was granted, although
  ReducedDelta is the wrong rate, and equals it before the first reduction. With
  the sums of `SumTheorems` this gives CapacityExact.
* `Planning`: the running total of the loop is right until the first reduction;
  from then on it is smaller than every configuration to come, since they are
  sorted. So none of those is removed. This gives PlanServesDemand.
* `Survivor`: what is removed is never everything, as the rate that stays is positive.

**Finder.** `ConfigFinder_proofs`: TypeOK, PlanCoversDemand, PlanIsTight,
BetterFirst and the action property SizeIsBest, for any number of
GPUs, entries, sizes, replicas and requests. The invariant is TypeOK with the parts
* `Packers`: every GPU's packer is sound with exact totals and keeps its height;
  only GPUs the model fits on are used;
* `Asking`: what remains is the demand less what is planned; while something
  remains, every GPU offered is chosen, useless or still to be asked; without the
  last replica something would remain;
* `Ordered`: no GPU left alone is better than one chosen, and none is asked before
  a better one. The further criteria of sortGPUInfos only order GPUs that are
  equal by type and rate per price.

The answers of the queries enter only as sets: nothing in these proofs depends on
which packers the query met.

The two loops are functions on 0..n defined by recursion. That they exist, and
that the best of n sizes is one nothing beats, follows from a smallest n for which
it would fail (`RunExists`, `SearchExists`, `BestOfIsBest`), as with the sums above.
Efficiency is compared by products of rates and areas; that the comparison carries
over from one size to the next (`BeatsCarries`) needs only that factors cancel.

**Profiles.** In the same module, which also extends `QpsStore`: BestOfRows,
DriftAbsorbed and EstimateIsBounded. The invariant is that the map holds, per key,
the highest rate among the rows read, or 0 if there is none. The drift is
absorbed because stored quotas are whole hundredths; a finer table would lose rates. An estimate is one neighbour's rate or the
mean of two, hence between them; `Neighbours` shows that the two grid points GetQPS
looks at are the nearest ones.

**Nodes.** Also there, from `NodeManager`: HeartbeatFindsNode and ReadyIsServed,
inductive together with the types, for any nodes and connections.

**Release.** `GpuRelease_proofs`: TypeOK, EmptyIsPursued, BooksMatchDaemon,
OneBookPerGpu, ExclusiveHasGpu. TypeOK includes that a number for a new GPUInfo
can always be found: at most as many are referred to as there are configurations,
which is a counting argument and the reason `Configs` is finite. The invariant adds
what the loop, the worker and the handler hold between their steps: from the
answer of the daemon to the commit nobody else puts a GPUInfo into the map; a
GPU just carved out is known to nobody else; the worker's mark is gone when a
retry looks at it; and, for ExclusiveHasGpu, a GPUInfo that an exclusive configuration
holds slots on has no other holder (`Alone`, which holds across registrations; with
OneBookPerGpu it gives the GPU itself).

**Functions.** `Autoscaler_proofs`: TypeOK, CleanDeletion, SlotsAccounted, and
SlotsLostOnlyIfRecreated if names are unique. The invariant says which configurations each
goroutine can find, and that whenever scaling and cleanup of a name overlap, `raced` has
the name.
An overlap alone takes no slots of an existing function's FaSTPod, as the function of a
first creation is gone when its cleanup begins; the second creation is what
it needs (disagreement 14). Two functions of one name in two namespaces do not even need
an overlap (`MCAutoscalerNames`), so the hypothesis is necessary.

Only model-checked: DeletionCompletes, ServedBecomesReady, EmptyIsSettled, Served
and CleanupHappens. They are liveness, which rests on fairness and ENABLED and is
out of the prover's reach. Every other property of a passing run has a theorem.

## 6. Not modelled

Left out for good: generated code and manifests, `src/cmd/main.go`, the HTTP
listing of configurations, the text of FaSTPods, the table of prices, floating
point, Go's data races on maps, and the node daemon and Kubernetes beyond the
answers the code handles. A restart of the controller loses all its state by
design of the code (nothing is read back), so there is no recovery to model.
