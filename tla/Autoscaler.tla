----------------------------- MODULE Autoscaler -----------------------------
(***************************************************************************)
(* The controller as a whole: FaSTFuncs come and go, Reconcile cleans up   *)
(* after deleted ones, and the loop of persistentReconcile goes over the   *)
(* list it got and scales each function.  The two meet in fastFuncMap,     *)
(* which nothing locks.                                                    *)
(*                                                                         *)
(* A configuration stands for what one scale-up gets, its FaSTPod and its  *)
(* slots; a scale-down gives one of them up.  Scaler and GpuDevice have    *)
(* the details.                                                            *)
(***************************************************************************)
EXTENDS Naturals, FiniteSets

CONSTANTS
  Functions,        \* FaSTFuncs, by namespace and name
  Names,            \* their names without the namespace
  Name,             \* the name of each function
  Foreign,          \* those outside the namespace of the FaSTPods
  BadMinQps,        \* those whose annotation min-qps is not a number
  Configs,          \* configurations
  Nobody,           \* no function, no configuration
  Faults,           \* calls may fail and GPUs may be full
  MaxDemand,        \* bound on a function's demand, in configurations
  MaxIncarnations   \* bound on how often a function is created

ASSUME NameAssumption == Name \in [Functions -> Names]
ASSUME SetsAssumption == Foreign \subseteq Functions /\ BadMinQps \subseteq Functions
ASSUME NobodyAssumption == Nobody \notin Functions \cup Configs
ASSUME FaultsAssumption == Faults \in BOOLEAN
ASSUME LimitsAssumption == MaxDemand \in Nat \ {0} /\ MaxIncarnations \in Nat

VARIABLES
  object,       \* the cluster's FaSTFuncs: the uid of each, 0 if there is none
  created,      \* uids given out
  requests,     \* the queue in front of Reconcile
  handler,      \* the goroutine that runs Reconcile
  started,      \* the release queue, its worker and the loop have been started
  fastFuncMap,  \* names that have an entry
  loop,         \* persistentReconcile and the UpdateFunction it is in
  status,       \* where a configuration is kept
  owner,        \* the function a configuration was made for
  slots,        \* configurations that have slots on a GPU
  pod,          \* the uid in the owner reference of each FaSTPod, 0 if there is none
  raced         \* history: names whose cleanup and scaling overlapped

objectVars == <<object, created>>
configVars == <<status, owner, slots, pod>>
vars == <<objectVars, requests, handler, started, fastFuncMap, loop, configVars, raced>>

NoList  == [f \in Functions |-> 0]
Waiting == [pc |-> "idle", fn |-> Nobody, todo |-> {}]
Resting == [pc |-> "idle", list |-> NoList, fn |-> Nobody, uid |-> 0, cfg |-> Nobody,
            attached |-> TRUE]

Init ==
  /\ object = NoList
  /\ created = NoList
  /\ requests = {}
  /\ handler = Waiting
  /\ started = FALSE
  /\ fastFuncMap = {}
  /\ loop = Resting
  /\ status = [c \in Configs |-> "new"]
  /\ owner = [c \in Configs |-> Nobody]
  /\ slots = {}
  /\ pod = [c \in Configs |-> 0]
  /\ raced = {}

(* The configurations of an entry: of the one in the map, or of the one    *)
(* that only the loop still has a pointer to.                              *)
EntryOf(n, where) == {c \in Configs : status[c] = where /\ Name[owner[c]] = n}

(* A function is scaled for an object that is not the one there is, or     *)
(* while its entry is being cleaned up.                                    *)
Overlap ==
  {n \in Names : /\ loop.fn # Nobody /\ Name[loop.fn] = n
                 /\ \/ object[loop.fn] # loop.uid
                    \/ handler.fn # Nobody /\ Name[handler.fn] = n}

Note == raced' = raced \cup Overlap'

-----------------------------------------------------------------------------
(* The cluster.  Every change of a FaSTFunc leads to a request; requests   *)
(* for one function are merged.                                            *)

Create(f) ==
  /\ object[f] = 0 /\ created[f] < MaxIncarnations
  /\ created' = [created EXCEPT ![f] = @ + 1]
  /\ object' = [object EXCEPT ![f] = created'[f]]
  /\ requests' = requests \cup {f}
  /\ UNCHANGED <<handler, started, fastFuncMap, loop, configVars>>
  /\ Note

Delete(f) ==
  /\ object[f] # 0
  /\ object' = [object EXCEPT ![f] = 0]
  /\ requests' = requests \cup {f}
  /\ UNCHANGED <<created, handler, started, fastFuncMap, loop, configVars>>
  /\ Note

(* FaSTPods go with the object their owner reference names.                *)
CollectGarbage(c) ==
  /\ pod[c] # 0 /\ pod[c] # object[owner[c]]
  /\ pod' = [pod EXCEPT ![c] = 0]
  /\ UNCHANGED <<objectVars, requests, handler, started, fastFuncMap, loop, status, owner, slots>>
  /\ Note

-----------------------------------------------------------------------------
(* Reconcile.  If Get fails the request is queued again and nothing else   *)
(* happens.                                                                *)

ReconcileFound(f) ==
  /\ handler.pc = "idle" /\ f \in requests
  /\ object[f] # 0
  /\ requests' = requests \ {f}
  /\ started' = TRUE
  /\ UNCHANGED <<objectVars, handler, fastFuncMap, loop, configVars>>
  /\ Note

(* Fault: any error of Get is taken for a missing object.                  *)
AnyError(f) == TRUE

NotFound(f) == object[f] = 0

ReconcileDeleted(f) ==
  /\ handler.pc = "idle" /\ f \in requests
  /\ NotFound(f)
  /\ requests' = requests \ {f}
  /\ handler' = [Waiting EXCEPT !.pc = "lookup", !.fn = f]
  /\ UNCHANGED <<objectVars, started, fastFuncMap, loop, configVars>>
  /\ Note

(* Fault: configurations without a FaSTPod are left out.                   *)
ConfigsWithPods(n) == {c \in EntryOf(n, "entry") : pod[c] # 0}

CurrentConfigs(n) == EntryOf(n, "entry")

(* handleDeletedFaSTFunc finds the entry and copies its configurations ... *)
Lookup ==
  /\ handler.pc = "lookup"
  /\ LET n == Name[handler.fn]
     IN  handler' = IF n \in fastFuncMap
                    THEN [handler EXCEPT !.pc = "free", !.todo = CurrentConfigs(n)]
                    ELSE Waiting
  /\ UNCHANGED <<objectVars, requests, started, fastFuncMap, loop, configVars>>
  /\ Note

(* ... takes their slots, one configuration after the other ...            *)
FreeConfig(c) ==
  /\ handler.pc = "free" /\ c \in handler.todo
  /\ slots' = slots \ {c}
  /\ handler' = [handler EXCEPT !.todo = @ \ {c}]
  /\ UNCHANGED <<objectVars, requests, started, fastFuncMap, loop, status, owner, pod>>
  /\ Note

(* Fault: the entry stays.                                                 *)
KeepEntry(n) == fastFuncMap

WithoutEntry(n) == fastFuncMap \ {n}

(* ... and removes the entry.  The loop may have a pointer to it.          *)
EndDelete ==
  /\ handler.pc = "free" /\ handler.todo = {}
  /\ LET n    == Name[handler.fn]
         held == loop.fn # Nobody /\ Name[loop.fn] = n
     IN  /\ fastFuncMap' = WithoutEntry(n)
         /\ loop' = [loop EXCEPT !.attached = @ /\ ~held]
         /\ status' = [c \in Configs |-> IF c \notin EntryOf(n, "entry") THEN status[c]
                                         ELSE IF held THEN "detached" ELSE "lost"]
  /\ handler' = Waiting
  /\ UNCHANGED <<objectVars, requests, started, owner, slots, pod>>
  /\ Note

-----------------------------------------------------------------------------
(* The loop.  A list that could not be had, or is empty, is tried again.   *)

List ==
  /\ started /\ loop.pc = "idle"
  /\ object # NoList
  /\ loop' = [Resting EXCEPT !.pc = "next", !.list = object]
  /\ UNCHANGED <<objectVars, requests, handler, started, fastFuncMap, configVars>>
  /\ Note

Without(list, f) == [list EXCEPT ![f] = 0]

Continue(list) ==
  [Resting EXCEPT !.pc = IF list = NoList THEN "idle" ELSE "next", !.list = list]

(* Fault: the other functions of the list are passed over, too.            *)
SkipRest(f) == Resting

SkipOne(f) == Continue(Without(loop.list, f))

(* The minimal rate or the measured one cannot be had.                     *)
Skip(f) ==
  /\ loop.pc = "next" /\ loop.list[f] # 0
  /\ Faults \/ f \in BadMinQps
  /\ loop' = SkipOne(f)
  /\ UNCHANGED <<objectVars, requests, handler, started, fastFuncMap, configVars>>
  /\ Note

(* Scale up, down or not at all; down only if it was possible before.      *)
Decide(isOld, capacity, demand) ==
  IF ~isOld \/ demand > capacity THEN {"up"}
  ELSE IF demand < capacity /\ capacity > 1 THEN {"next", "down"} ELSE {"next"}

WithEntry(n) == fastFuncMap \cup {n}

(* UpdateFunction gets or makes the entry and decides by the capacity in   *)
(* it.                                                                     *)
UpdateFunction(f) ==
  /\ loop.pc = "next" /\ loop.list[f] # 0
  /\ f \notin BadMinQps
  /\ LET n    == Name[f]
         rest == Without(loop.list, f)
     IN  /\ fastFuncMap' = WithEntry(n)
         /\ \E demand \in 1..MaxDemand :
            \E pc \in Decide(n \in fastFuncMap, Cardinality(EntryOf(n, "entry")), demand) :
              loop' = IF pc = "next" THEN Continue(rest)
                      ELSE [pc |-> pc, list |-> rest, fn |-> f, uid |-> loop.list[f],
                            cfg |-> Nobody, attached |-> TRUE]
  /\ UNCHANGED <<objectVars, requests, handler, started, configVars>>
  /\ Note

Mine == EntryOf(Name[loop.fn], IF loop.attached THEN "entry" ELSE "detached")

(* The call ends.  An entry that is not in the map goes with the last      *)
(* pointer to it.                                                          *)
EndUpdate(st) ==
  /\ loop' = Continue(loop.list)
  /\ status' = [c \in Configs |-> IF st[c] = "detached" THEN "lost" ELSE st[c]]

(* Configurations are new: one is told by a name nothing else has.         *)
Unused(c) ==
  /\ status[c] \in {"new", "lost"}
  /\ c \notin slots \cup handler.todo /\ pod[c] = 0

(* GetConfigs and PrepareConfigsRequirements take slots ...                *)
TakeSlots(c) ==
  /\ loop.pc = "up" /\ Unused(c)
  /\ status' = [status EXCEPT ![c] = "taken"]
  /\ owner' = [owner EXCEPT ![c] = loop.fn]
  /\ slots' = slots \cup {c}
  /\ loop' = [loop EXCEPT !.pc = "add", !.cfg = c]
  /\ UNCHANGED <<objectVars, requests, handler, started, fastFuncMap, pod>>
  /\ Note

(* ... or find no GPU.                                                     *)
NoneSuitable ==
  /\ loop.pc = "up"
  /\ Faults \/ \A c \in Configs : ~Unused(c)
  /\ EndUpdate(status)
  /\ UNCHANGED <<objectVars, requests, handler, started, fastFuncMap, owner, slots, pod>>
  /\ Note

(* ConvertConfigs2FaSTPods cannot set an owner in another namespace and    *)
(* returns no FaSTPods, with an error nobody looks at; AddFastPods then    *)
(* has nothing to do.                                                      *)
AddFastPods ==
  /\ loop.pc = "add"
  /\ pod' = IF loop.fn \in Foreign THEN pod ELSE [pod EXCEPT ![loop.cfg] = loop.uid]
  /\ loop' = [loop EXCEPT !.pc = "record"]
  /\ UNCHANGED <<objectVars, requests, handler, started, fastFuncMap, status, owner, slots>>
  /\ Note

(* If the FaSTPod cannot be created the slots stay taken.                  *)
AddFastPodsFails ==
  /\ loop.pc = "add" /\ Faults /\ loop.fn \notin Foreign
  /\ EndUpdate([status EXCEPT ![loop.cfg] = "leaked"])
  /\ UNCHANGED <<objectVars, requests, handler, started, fastFuncMap, owner, slots, pod>>
  /\ Note

(* The configuration enters the entry the loop has.                        *)
Record ==
  /\ loop.pc = "record"
  /\ EndUpdate([status EXCEPT ![loop.cfg] = IF loop.attached THEN "entry" ELSE "detached"])
  /\ UNCHANGED <<objectVars, requests, handler, started, fastFuncMap, owner, slots, pod>>
  /\ Note

(* A scale-down deletes a FaSTPod, or finds it gone ...                    *)
DeletePod(c) ==
  /\ loop.pc = "down" /\ c \in Mine
  /\ pod' = [pod EXCEPT ![c] = 0]
  /\ loop' = [loop EXCEPT !.pc = "free", !.cfg = c]
  /\ UNCHANGED <<objectVars, requests, handler, started, fastFuncMap, status, owner, slots>>
  /\ Note

DeletePodFails ==
  /\ loop.pc = "down" /\ Faults
  /\ EndUpdate(status)
  /\ UNCHANGED <<objectVars, requests, handler, started, fastFuncMap, owner, slots, pod>>
  /\ Note

(* ... and then gives its slots back.                                      *)
Deallocate ==
  /\ loop.pc = "free"
  /\ slots' = slots \ {loop.cfg}
  /\ EndUpdate([status EXCEPT ![loop.cfg] = "lost"])
  /\ UNCHANGED <<objectVars, requests, handler, started, fastFuncMap, owner, pod>>
  /\ Note

-----------------------------------------------------------------------------
Reconcile(f) == ReconcileFound(f) \/ ReconcileDeleted(f)

Cleanup == Lookup \/ (\E c \in Configs : FreeConfig(c)) \/ EndDelete

Scaling ==
  \/ List
  \/ \E f \in Functions : Skip(f) \/ UpdateFunction(f)
  \/ \E c \in Configs : TakeSlots(c) \/ DeletePod(c)
  \/ NoneSuitable \/ AddFastPods \/ AddFastPodsFails \/ Record
  \/ DeletePodFails \/ Deallocate

Next ==
  \/ \E f \in Functions : Create(f) \/ Delete(f) \/ Reconcile(f)
  \/ \E c \in Configs : CollectGarbage(c)
  \/ Cleanup
  \/ Scaling

Spec == Init /\ [][Next]_vars

(* Requests are handled, the loop goes on, garbage is collected.  Nobody   *)
(* has to create or delete a function.                                     *)
FairSpec ==
  /\ Spec
  /\ \A f \in Functions : WF_vars(Reconcile(f))
  /\ \A c \in Configs : WF_vars(CollectGarbage(c))
  /\ WF_vars(Cleanup) /\ WF_vars(Scaling)

-----------------------------------------------------------------------------
(* Properties.                                                             *)

Uids == 0..MaxIncarnations

Statuses == {"new", "taken", "entry", "detached", "lost", "leaked"}

Loops ==
  [pc : {"idle", "next", "up", "add", "record", "down", "free"}, list : [Functions -> Uids],
   fn : Functions \cup {Nobody}, uid : Uids, cfg : Configs \cup {Nobody}, attached : BOOLEAN]

(* The objects, the goroutines and the configurations.                     *)
TypeOK ==
  /\ object \in [Functions -> Uids] /\ created \in [Functions -> Uids]
  /\ requests \subseteq Functions
  /\ handler \in [pc : {"idle", "lookup", "free"}, fn : Functions \cup {Nobody},
                  todo : SUBSET Configs]
  /\ started \in BOOLEAN
  /\ fastFuncMap \subseteq Names
  /\ loop \in Loops
  /\ status \in [Configs -> Statuses]
  /\ owner \in [Configs -> Functions \cup {Nobody}]
  /\ slots \subseteq Configs
  /\ pod \in [Configs -> Uids]
  /\ raced \subseteq Names

Gone(n) ==
  \A f \in Functions : Name[f] = n =>
    object[f] = 0 /\ f \notin requests /\ handler.fn # f /\ loop.fn # f

(* When the last function of a name has been deleted and reconciled, its   *)
(* entry is gone, unless the cleanup met a scaling of that function: of    *)
(* creations, deletions, merged requests and lists in any order.           *)
CleanDeletion == \A n \in Names \ raced : Gone(n) => n \notin fastFuncMap

(* Slots that no entry accounts for come from a failed AddFastPods or from *)
(* such a meeting, and from nothing else.                                  *)
SlotsAccounted ==
  \A c \in slots : status[c] = "lost" => Name[owner[c]] \in raced

(* A FaSTPod of a function that exists has its slots: scaling up takes     *)
(* them before, scaling down gives them back after, and the cleanup takes  *)
(* them from deleted functions.  Only a function that is created again     *)
(* while the cleanup is still at work can lose them.                       *)
SlotsLostOnlyIfRecreated ==
  \A c \in Configs :
    pod[c] # 0 /\ pod[c] = object[owner[c]] /\ c \notin slots =>
      created[owner[c]] > 1 /\ Name[owner[c]] \in raced

(* Every function that stays gets a FaSTPod, whatever happens to others.   *)
Served ==
  \A f \in Functions \ BadMinQps :
    object[f] # 0 ~> (object[f] = 0 \/ \E c \in Configs : owner[c] = f /\ pod[c] = object[f])

(* The entry of a deleted function goes away.                              *)
CleanupHappens ==
  \A n \in Names :
    (\A f \in Functions : Name[f] = n => object[f] = 0) ~>
      (n \notin fastFuncMap \/ n \in raced \/ \E f \in Functions : Name[f] = n /\ object[f] # 0)

(* The handler says it is "removing the fastfunc from the fastfunc map":   *)
(* afterwards it is not there.                                             *)
DeletedStaysOut == \A n \in Names : Gone(n) => n \notin fastFuncMap

(* It means to "release all GPUs": no slots are left without an entry.     *)
AllReleased == \A c \in slots : status[c] # "lost"

(* It means those of a function that is deleted: a FaSTPod of one that     *)
(* exists has its slots, created again or not.                             *)
PodsKeepSlots ==
  \A c \in Configs : pod[c] # 0 /\ pod[c] = object[owner[c]] => c \in slots
=============================================================================
