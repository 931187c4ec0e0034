----------------------------- MODULE GpuRelease -----------------------------
(***************************************************************************)
(* The GPUs of one node: which ones the node daemon has, which ones the    *)
(* controller lists (availableGPUs) and keeps books for (physicalGPUsMap), *)
(* how a virtual GPU is carved out when a configuration needs it, and how  *)
(* an emptied one is released: a ten-second timer, a work queue, a worker  *)
(* with retries.                                                           *)
(*                                                                         *)
(* Five goroutines meet here: the scaling loop, the deletion handler, the  *)
(* timers, the release worker and the connection of a node that registers  *)
(* again.  GetConfigs, PrepareConfigsRequirements and the registration     *)
(* exclude each other by nodesMtx; the worker takes only node.lock, which  *)
(* nobody else takes.                                                      *)
(*                                                                         *)
(* A configuration is placed as a whole, GpuDevice has the single slots.   *)
(* Its name stands for a UUID and can be used again when it is gone.       *)
(***************************************************************************)
EXTENDS Integers, Sequences, FiniteSetsExt

CONSTANTS
  Physical,          \* UUIDs of the GPUs the node always has
  Virtual,           \* names for the UUIDs of GPUs carved out on request
  Unprovisioned,     \* the list's entry for a GPU that could be carved out
  Slots,             \* how many GPUs can be carved out at a time
  Configs,           \* configurations
  Exclusive,         \* those of functions that ask for a GPU of their own
  Room,              \* shared configurations that fit on a GPU
  RetryLimit,        \* the 10 of runGPUReleaseWorker
  LostAnswers,       \* a call may fail after the daemon has carried it out
  MaxPlan,           \* bound on the configurations of one plan
  MaxPending,        \* bound: with as many releases under way nothing is freed
  MaxRegistrations   \* bound on the registrations of the node

Gpus    == Physical \cup Virtual
Entries == Gpus \cup {Unprovisioned}

ASSUME GpusAssumption      == Physical \cap Virtual = {} /\ Unprovisioned \notin Gpus
ASSUME ConfigsAssumption   == Exclusive \subseteq Configs /\ IsFiniteSet(Configs)
ASSUME ReleaseAssumption   == RetryLimit \in Nat /\ LostAnswers \in BOOLEAN
ASSUME GpuBoundsAssumption ==
  /\ Slots \in Nat \ {0} /\ Room \in Nat \ {0} /\ MaxPlan \in Nat \ {0}
  /\ MaxPending \in Nat /\ MaxRegistrations \in Nat

(* GPUInfo objects.  Several may stand for one GPU; a number tells them    *)
(* apart.                                                                  *)
Devices  == [uuid : Gpus, virtual : BOOLEAN, nr : 1..(Cardinality(Configs) + 1)]
NoDevice == [uuid |-> Unprovisioned, virtual |-> TRUE, nr |-> 0]

VARIABLES
  provisioned,    \* daemon: the virtual GPUs that exist
  available,      \* node.availableGPUs: how often it has each entry (2: twice or more)
  physical,       \* node.physicalGPUsMap: the GPUInfo of each GPU, NoDevice if it has none
  exclusive,      \* the GPUInfo objects whose allocationType is exclusive
  holder,         \* the GPUInfo on which each configuration has its slots
  status,         \* where the code keeps a configuration
  loop,           \* the scaling loop
  handler,        \* the GPUInfo the deletion handler has just taken slots from
  timers,         \* pending timers of scheduleForDeletion, per GPU
  queue,          \* gpuReleaseQueue
  worker,         \* the release worker and the item it has
  processing,     \* processingGPUs
  snapshot,       \* the list a registering connection got from the daemon
  registrations,  \* which Node object is in the nodes map
  lost,           \* history: GPUs released by a call that failed
  givenUp         \* history: GPUs whose release was given up since their last use

loopVars    == <<loop, holder, status, exclusive>>
releaseVars == <<timers, queue, worker, processing>>
nodeVars    == <<available, physical>>
vars == <<provisioned, nodeVars, loopVars, handler, releaseVars, snapshot, registrations,
          lost, givenUp>>

(* No list: the daemon never sends an empty one.                           *)
NoList  == [e \in Entries |-> 0]

Idle    == [pc |-> "idle", todo |-> << >>, dev |-> NoDevice, gpu |-> Unprovisioned,
            answer |-> NoList]
Resting == [pc |-> "idle", gpu |-> Unprovisioned, retry |-> 0, node |-> 0, answer |-> NoList]

(* GetAvailableGPUs, and the list in the answers of the other two calls.   *)
DaemonList(prov) ==
  [e \in Entries |->
     IF e = Unprovisioned THEN (IF Cardinality(prov) < Slots THEN 1 ELSE 0)
     ELSE IF e \in Physical \cup prov THEN 1 ELSE 0]

Init ==
  /\ provisioned = {}
  /\ available = DaemonList({})
  /\ physical = [u \in Gpus |-> NoDevice]
  /\ exclusive = {}
  /\ holder = [c \in Configs |-> NoDevice]
  /\ status = [c \in Configs |-> "new"]
  /\ loop = Idle
  /\ handler = NoDevice
  /\ timers = [u \in Gpus |-> 0]
  /\ queue = << >>
  /\ worker = Resting
  /\ processing = {}
  /\ snapshot = NoList
  /\ registrations = 1
  /\ lost = {}
  /\ givenUp = {}

(* Releases of a GPU under way.                                            *)
Items(u) == Cardinality({i \in DOMAIN queue : queue[i].gpu = u})

Pending(u) == timers[u] + Items(u) + (IF worker.gpu = u THEN 1 ELSE 0)

UnderWay == MapThenSumSet(Pending, Gpus)

Holders(d) == {c \in Configs : holder[c] = d}

(* CanFit, with a configuration as the unit.                               *)
Fits(d, c) ==
  IF c \in Exclusive THEN Holders(d) = {}
  ELSE Holders(d) \cap Exclusive = {} /\ Cardinality(Holders(d)) < Room

Referenced(d) ==
  \/ \E u \in Gpus : physical[u] = d
  \/ Holders(d) # {} \/ loop.dev = d \/ handler = d
  \/ \E i \in DOMAIN loop.todo : loop.todo[i].dev = d

(* A new GPUInfo takes the number of one that nothing refers to any more.  *)
NewDevice(u, virtual) ==
  LET device(n) == [uuid |-> u, virtual |-> virtual, nr |-> n]
  IN  device(CHOOSE n \in 1..(Cardinality(Configs) + 1) : ~Referenced(device(n)))

-----------------------------------------------------------------------------
(* The scaling loop: scale up.                                             *)

DeviceOf(e) == IF e \in Gpus THEN physical[e] ELSE NoDevice

(* extractGPUSFromNode finds the entry's GPUInfo in the map or makes a     *)
(* fresh, empty one; one in exclusive use is left out.                     *)
Offers(c, e) ==
  /\ available[e] > 0
  /\ DeviceOf(e) # NoDevice => DeviceOf(e) \notin exclusive /\ Fits(DeviceOf(e), c)

(* GetConfigs: one configuration on each of some entries, all of the       *)
(* request's allocation type.  Nothing is reserved, so an entry listed     *)
(* more than once, how often is not counted, may be chosen again.          *)
GetConfigs ==
  /\ loop.pc = "idle"
  /\ \E n \in 1..MaxPlan : \E cfg \in [1..n -> Configs], entry \in [1..n -> Entries] :
       /\ \A i \in 1..n : status[cfg[i]] = "new" /\ Offers(cfg[i], entry[i])
       /\ \A i, j \in 1..n : i # j =>
            /\ cfg[i] # cfg[j] /\ (cfg[i] \in Exclusive <=> cfg[j] \in Exclusive)
            /\ entry[i] = entry[j] => available[entry[i]] > 1
       /\ loop' = [Idle EXCEPT !.pc = "planned",
                               !.todo = [i \in 1..n |-> [cfg |-> cfg[i], entry |-> entry[i],
                                                         dev |-> DeviceOf(entry[i])]]]
       /\ status' = [c \in Configs |-> IF \E i \in 1..n : cfg[i] = c THEN "planned"
                                                                     ELSE status[c]]
  /\ UNCHANGED <<provisioned, nodeVars, holder, exclusive, handler, releaseVars, snapshot,
                 registrations, lost, givenUp>>

Next1 == Head(loop.todo)
Rest  == Tail(loop.todo)

(* associatedGpu as the plan has it: a fresh one is virtual exactly if it  *)
(* has yet to be carved out, in which case no key of the map fits.         *)
Planned ==
  IF Next1.dev # NoDevice \/ Next1.entry = Unprovisioned THEN Next1.dev
  ELSE NewDevice(Next1.entry, FALSE)

(* Fault: a GPU not yet in the map when the plan was made is not looked    *)
(* for in it.                                                              *)
FoundAtPlanning ==
  IF Planned = NoDevice \/ Next1.dev = NoDevice THEN NoDevice ELSE physical[Planned.uuid]

Found == IF Planned = NoDevice THEN NoDevice ELSE physical[Planned.uuid]

Preparing == loop.pc \in {"planned", "prepare"} /\ loop.todo # << >>

(* PrepareConfigsRequirements finds the GPU in the map.                    *)
UseKnown ==
  /\ Preparing /\ Found # NoDevice
  /\ loop' = [loop EXCEPT !.pc = "commit", !.dev = Found]
  /\ UNCHANGED <<provisioned, nodeVars, holder, status, exclusive, handler, releaseVars,
                 snapshot, registrations, lost, givenUp>>

(* It is not in the map and not virtual: it is taken for a physical one.   *)
UsePhysical ==
  /\ Preparing /\ Found = NoDevice /\ ~Planned.virtual
  /\ physical' = [physical EXCEPT ![Planned.uuid] = Planned]
  /\ exclusive' = IF Next1.dev = NoDevice THEN exclusive \ {Planned} ELSE exclusive
  /\ loop' = [loop EXCEPT !.pc = "commit", !.dev = Planned]
  /\ UNCHANGED <<provisioned, available, holder, status, handler, releaseVars, snapshot,
                 registrations, lost, givenUp>>

NeedsGPU == Preparing /\ Found = NoDevice /\ Planned.virtual

(* UUIDs are unique: the name of a new one is one nothing refers to.       *)
Fresh(u) ==
  /\ u \notin provisioned
  /\ available[u] = 0 /\ snapshot[u] = 0
  /\ Pending(u) = 0
  /\ \A d \in Devices : d.uuid = u => ~Referenced(d)

(* RequestVirtualGPU at the daemon, which carves out u.                    *)
CarveOut(u) ==
  /\ Cardinality(provisioned) < Slots /\ Fresh(u)
  /\ provisioned' = provisioned \cup {u}
  /\ lost' = lost \ {u} /\ givenUp' = givenUp \ {u}

RequestVirtualGPU(u) ==
  /\ NeedsGPU /\ CarveOut(u)
  /\ loop' = [loop EXCEPT !.pc = "answer", !.gpu = u, !.answer = DaemonList(provisioned')]
  /\ UNCHANGED <<nodeVars, holder, status, exclusive, handler, releaseVars, snapshot,
                 registrations>>

(* The call fails, perhaps after it was carried out; the configuration is  *)
(* passed over.                                                            *)
RequestFails ==
  /\ NeedsGPU
  /\ \/ UNCHANGED <<provisioned, lost, givenUp>>
     \/ LostAnswers /\ \E u \in Virtual : CarveOut(u)
  /\ status' = [status EXCEPT ![Next1.cfg] = "new"]
  /\ loop' = [Idle EXCEPT !.pc = "prepare", !.todo = Rest]
  /\ UNCHANGED <<nodeVars, holder, exclusive, handler, releaseVars, snapshot, registrations>>

(* The answer replaces the list; the GPU enters the map.                   *)
ReceiveGPU ==
  /\ loop.pc = "answer"
  /\ LET created == NewDevice(loop.gpu, TRUE)
     IN  /\ physical' = [physical EXCEPT ![loop.gpu] = created]
         /\ exclusive' = exclusive \ {created}
         /\ loop' = [loop EXCEPT !.pc = "commit", !.dev = created, !.gpu = Unprovisioned,
                                 !.answer = NoList]
  /\ available' = loop.answer
  /\ UNCHANGED <<provisioned, holder, status, handler, releaseVars, snapshot, registrations,
                 lost, givenUp>>

(* AllocateAndCommitConfig sets the allocation type, then inserts; without *)
(* a replica the configuration is dropped.                                 *)
Commit ==
  /\ loop.pc = "commit"
  /\ LET c == Next1.cfg  d == loop.dev
     IN  /\ exclusive' = IF c \in Exclusive THEN exclusive \cup {d} ELSE exclusive \ {d}
         /\ holder' = [holder EXCEPT ![c] = IF Fits(d, c) THEN d ELSE NoDevice]
         /\ status' = [status EXCEPT ![c] = IF Fits(d, c) THEN "planned" ELSE "new"]
         /\ givenUp' = givenUp \ {d.uuid}
  /\ loop' = [Idle EXCEPT !.pc = "prepare", !.todo = Rest]
  /\ UNCHANGED <<provisioned, nodeVars, handler, releaseVars, snapshot, registrations, lost>>

(* The FaSTPods are added and the configurations recorded, or AddFastPods  *)
(* fails and their slots stay taken.                                       *)
Record(ok) ==
  /\ loop.pc = "prepare" /\ loop.todo = << >>
  /\ status' = [c \in Configs |-> IF status[c] # "planned" THEN status[c]
                                  ELSE IF ok THEN "live" ELSE "leaked"]
  /\ loop' = Idle
  /\ UNCHANGED <<provisioned, nodeVars, holder, exclusive, handler, releaseVars, snapshot,
                 registrations, lost, givenUp>>

-----------------------------------------------------------------------------
(* Freeing slots, and what follows when the GPU is then empty.             *)

Free(c) ==
  /\ status[c] = "live"
  /\ UnderWay < MaxPending
  /\ holder' = [holder EXCEPT ![c] = NoDevice]
  /\ status' = [status EXCEPT ![c] = "new"]

ScheduleForDeletion(d) == timers' = [timers EXCEPT ![d.uuid] = @ + 1]

(* A scale-down: DeallocateConfig frees the slots ...                      *)
Deallocate(c) ==
  /\ loop.pc = "idle"
  /\ Free(c)
  /\ loop' = [Idle EXCEPT !.pc = "free", !.dev = holder[c]]
  /\ UNCHANGED <<provisioned, nodeVars, exclusive, handler, releaseVars, snapshot, registrations,
                 lost, givenUp>>

(* ... and asks whether the GPU is empty.                                  *)
EndDeallocate ==
  /\ loop.pc = "free"
  /\ IF Holders(loop.dev) = {} THEN ScheduleForDeletion(loop.dev) ELSE UNCHANGED timers
  /\ loop' = Idle
  /\ UNCHANGED <<provisioned, nodeVars, holder, status, exclusive, handler, queue, worker,
                 processing, snapshot, registrations, lost, givenUp>>

(* The same for a configuration of a deleted function.                     *)
DeleteConfig(c) ==
  /\ handler = NoDevice
  /\ Free(c)
  /\ handler' = holder[c]
  /\ UNCHANGED <<provisioned, nodeVars, loop, exclusive, releaseVars, snapshot, registrations,
                 lost, givenUp>>

EndDeleteConfig ==
  /\ handler # NoDevice
  /\ IF Holders(handler) = {} /\ handler.virtual
     THEN ScheduleForDeletion(handler) ELSE UNCHANGED timers
  /\ handler' = NoDevice
  /\ UNCHANGED <<provisioned, nodeVars, loopVars, queue, worker, processing, snapshot,
                 registrations, lost, givenUp>>

-----------------------------------------------------------------------------
(* The release.                                                            *)

(* Ten seconds later.  Items carry a timestamp, so none equals another and *)
(* the queue merges none.                                                  *)
Fire(u) ==
  /\ timers[u] > 0
  /\ timers' = [timers EXCEPT ![u] = @ - 1]
  /\ queue' = Append(queue, [gpu |-> u, retry |-> 0])
  /\ UNCHANGED <<provisioned, nodeVars, loopVars, handler, worker, processing, snapshot,
                 registrations, lost, givenUp>>

(* runGPUReleaseWorker takes an item; processGPUReleaseItem marks it and   *)
(* gets the node, which is never missing.                                  *)
Take ==
  /\ worker.pc = "idle" /\ queue # << >>
  /\ worker' = [pc |-> "call", gpu |-> Head(queue).gpu, retry |-> Head(queue).retry,
                node |-> registrations, answer |-> NoList]
  /\ queue' = Tail(queue)
  /\ processing' = processing \cup {Head(queue).gpu}
  /\ UNCHANGED <<provisioned, nodeVars, loopVars, handler, timers, snapshot, registrations,
                 lost, givenUp>>

(* ReleaseVirtualGPU at the daemon.                                        *)
ReleaseVirtualGPU ==
  /\ worker.pc = "call"
  /\ worker.gpu \in provisioned
  /\ provisioned' = provisioned \ {worker.gpu}
  /\ worker' = [worker EXCEPT !.pc = "answer", !.answer = DaemonList(provisioned')]
  /\ UNCHANGED <<nodeVars, loopVars, handler, timers, queue, processing, snapshot,
                 registrations, lost, givenUp>>

(* The call fails, perhaps after it was carried out.                       *)
ReleaseFails ==
  /\ worker.pc = "call"
  /\ \/ UNCHANGED <<provisioned, lost>>
     \/ /\ LostAnswers /\ worker.gpu \in provisioned
        /\ provisioned' = provisioned \ {worker.gpu}
        /\ lost' = lost \cup {worker.gpu}
  /\ worker' = [worker EXCEPT !.pc = "retry"]
  /\ processing' = processing \ {worker.gpu}
  /\ UNCHANGED <<nodeVars, loopVars, handler, timers, queue, snapshot, registrations, givenUp>>

AtLeastTwice(n) == IF n > 2 THEN 2 ELSE n

(* Fault: the GPU stays in the map.                                        *)
ApplyListOnly ==
  /\ available' = [e \in Entries |-> AtLeastTwice(available[e] + worker.answer[e])]
  /\ UNCHANGED physical

(* The answer's list is appended to the old one, the GPU leaves the map.   *)
ApplyAnswer ==
  /\ available' = [e \in Entries |-> AtLeastTwice(available[e] + worker.answer[e])]
  /\ physical' = [physical EXCEPT ![worker.gpu] = NoDevice]

(* If the node registered in the meantime, this changes its old object.    *)
Released ==
  /\ worker.pc = "answer"
  /\ IF worker.node = registrations THEN ApplyAnswer ELSE UNCHANGED nodeVars
  /\ processing' = processing \ {worker.gpu}
  /\ worker' = Resting
  /\ UNCHANGED <<provisioned, loopVars, handler, timers, queue, snapshot, registrations,
                 lost, givenUp>>

(* Fault: the mark is looked at before it is taken away.                   *)
QueueUnlessMarked == UNCHANGED queue

(* Fault: the retry count stays as it was.                                 *)
QueueUncounted == queue' = Append(queue, [gpu |-> worker.gpu, retry |-> worker.retry])

(* The mark is gone by the time it is looked at.                           *)
QueueAgain ==
  queue' = IF worker.gpu \in processing THEN queue
           ELSE Append(queue, [gpu |-> worker.gpu, retry |-> worker.retry + 1])

TooManyRetries == worker.retry > RetryLimit

Retry ==
  /\ worker.pc = "retry"
  /\ \/ TooManyRetries /\ givenUp' = givenUp \cup {worker.gpu} /\ UNCHANGED queue
     \/ ~TooManyRetries /\ QueueAgain /\ UNCHANGED givenUp
  /\ worker' = Resting
  /\ UNCHANGED <<provisioned, nodeVars, loopVars, handler, timers, processing, snapshot,
                 registrations, lost>>

-----------------------------------------------------------------------------
(* The node comes back on a new connection: its list of GPUs is fetched,   *)
(* then the node is replaced by one whose map is empty.                    *)

FetchList ==
  /\ snapshot = NoList /\ registrations < MaxRegistrations
  /\ snapshot' = DaemonList(provisioned)
  /\ UNCHANGED <<provisioned, nodeVars, loopVars, handler, releaseVars, registrations, lost,
                 givenUp>>

Register ==
  /\ snapshot # NoList
  /\ ~(loop.pc \in {"prepare", "answer", "commit"} /\ loop.todo # << >>)
  /\ available' = snapshot
  /\ physical' = [u \in Gpus |-> NoDevice]
  /\ registrations' = registrations + 1
  /\ snapshot' = NoList
  /\ UNCHANGED <<provisioned, loopVars, handler, releaseVars, lost, givenUp>>

-----------------------------------------------------------------------------
Continue ==
  \/ UseKnown \/ UsePhysical
  \/ \E u \in Virtual : RequestVirtualGPU(u)
  \/ RequestFails \/ ReceiveGPU \/ Commit
  \/ \E ok \in BOOLEAN : Record(ok)
  \/ EndDeallocate

Work == Take \/ ReleaseVirtualGPU \/ ReleaseFails \/ Released \/ Retry

Next ==
  \/ GetConfigs
  \/ Continue
  \/ \E c \in Configs : Deallocate(c) \/ DeleteConfig(c)
  \/ EndDeleteConfig
  \/ \E u \in Gpus : Fire(u)
  \/ Work
  \/ FetchList \/ Register

Spec == Init /\ [][Next]_vars

(* What has begun goes on: the loop and the handler, the timers, and the   *)
(* worker, whose calls are answered or fail.  Nobody has to begin.         *)
FairSpec ==
  /\ Spec
  /\ WF_vars(Continue) /\ WF_vars(EndDeleteConfig) /\ WF_vars(Work)
  /\ \A u \in Gpus : WF_vars(Fire(u))

-----------------------------------------------------------------------------
(* Properties.                                                             *)

Counts == [Entries -> 0..2]

(* What the plan, the queue, the loop and the worker hold.                 *)
PlanItems  == [cfg : Configs, entry : Entries, dev : Devices \cup {NoDevice}]
QueueItems == [gpu : Gpus, retry : 0..(RetryLimit + 1)]
Loops ==
  [pc : {"idle", "planned", "prepare", "answer", "commit", "free"}, todo : Seq(PlanItems),
   dev : Devices \cup {NoDevice}, gpu : Entries, answer : Counts]
Workers ==
  [pc : {"idle", "call", "answer", "retry"}, gpu : Entries, retry : 0..(RetryLimit + 1),
   node : Nat, answer : Counts]

(* The daemon's GPUs, the node's books, the queue and the goroutines.      *)
TypeOK ==
  /\ provisioned \subseteq Virtual
  /\ available \in Counts
  /\ physical \in [Gpus -> Devices \cup {NoDevice}]
  /\ exclusive \subseteq Devices
  /\ holder \in [Configs -> Devices \cup {NoDevice}]
  /\ status \in [Configs -> {"new", "planned", "live", "leaked"}]
  /\ loop \in Loops
  /\ handler \in Devices \cup {NoDevice}
  /\ timers \in [Gpus -> Nat]
  /\ queue \in Seq(QueueItems)
  /\ worker \in Workers
  /\ processing \subseteq Gpus
  /\ snapshot \in Counts
  /\ registrations \in Nat \ {0}
  /\ lost \subseteq Gpus /\ givenUp \subseteq Gpus

Users(u) == {c \in Configs : holder[c] # NoDevice /\ holder[c].uuid = u}

AtWork(d) ==
  \/ loop.pc \in {"commit", "free"} /\ loop.dev = d
  \/ handler = d

(* A virtual GPU in the books, empty and not being worked on.              *)
Unused(u) ==
  /\ physical[u] # NoDevice /\ physical[u].virtual
  /\ Holders(physical[u]) = {} /\ ~AtWork(physical[u])

(* An empty virtual GPU is never forgotten: a timer, an item of the queue  *)
(* or the worker has its release, unless it was given up.  That takes the  *)
(* loop, the handler, the timers, the worker and its retries together, in  *)
(* any order.                                                              *)
EmptyIsPursued == \A u \in Gpus : Unused(u) => Pending(u) > 0 \/ u \in givenUp

(* It does not stay that way: it is released, used again or given up.      *)
EmptyIsSettled == \A u \in Gpus : Unused(u) ~> (~Unused(u) \/ u \in givenUp)

(* The books agree with the daemon: a virtual GPU in physicalGPUsMap       *)
(* exists, but for a release whose answer is under way or was lost.        *)
BooksMatchDaemon ==
  \A u \in Gpus :
    physical[u] # NoDevice /\ physical[u].virtual =>
      \/ u \in provisioned \cup lost
      \/ worker.pc = "answer" /\ worker.gpu = u

(* Every configuration on a physical GPU is on the one GPUInfo the map has *)
(* for it, although every plan makes fresh ones for GPUs not yet in the    *)
(* map and the list may name a GPU twice: until the node registers again   *)
(* there is one set of books per GPU.                                      *)
OneBookPerGpu ==
  registrations = 1 =>
    \A u \in Physical : \A c \in Users(u) : holder[c] = physical[u]

(* A configuration that asks for a GPU of its own shares a physical one    *)
(* with no other, neither with those of the same plan nor with those of    *)
(* later ones: only a registration, which starts new books, makes the code *)
(* forget what is on the GPU.                                              *)
ExclusiveHasGpu ==
  registrations = 1 =>
    \A u \in Physical : \A c \in Users(u) \cap Exclusive : Users(u) = {c}

(* A GPU is released when it is empty: the deletion handler says "release  *)
(* the GPU" of one for which isEmpty holds.                                *)
OnlyEmptyReleased ==
  [][\A u \in Gpus : u \in provisioned /\ u \notin provisioned' => Users(u) = {}]_vars

(* Only a GPU that "can ... be deleted", which GPUInfo's field virtual     *)
(* tells, is asked back from the daemon.                                   *)
OnlyVirtualReleased == worker.pc = "call" => worker.gpu \in Virtual

(* A failed release is queued again only after a "check if the item is     *)
(* already in the queue".                                                  *)
RetryNotQueuedTwice ==
  [][\A u \in Gpus : worker.pc = "retry" /\ worker.gpu = u /\ Items(u) > 0
                       => queue' = queue]_vars

(* The worker gives up "after 3 retries".                                  *)
GivesUpAfterThree == \A i \in DOMAIN queue : queue[i].retry <= 3

(* A GPU that is not in the map and not virtual is a "physical gpu".       *)
PhysicalIsPhysical ==
  [][UsePhysical => Planned.uuid \in Physical]_vars

(* extractGPUSFromNode means to "exclude exclusive gpus": no plan names a  *)
(* GPU a configuration has to itself.                                      *)
ExclusiveExcluded ==
  loop.pc = "planned" =>
    \A i \in DOMAIN loop.todo : loop.todo[i].entry \in Gpus =>
      Users(loop.todo[i].entry) \cap Exclusive = {}
=============================================================================
