-------------------------- MODULE GpuDevice_proofs --------------------------
(***************************************************************************)
(* What a GPU's books promise, for any GPU, any set of configurations of   *)
(* any shape, and any interleaving of the scaling loop with the deletion   *)
(* handler: every slot has one owner, an exclusive configuration has the   *)
(* GPU for itself, a configuration that is gone holds nothing, an emptied  *)
(* GPU is scheduled for release, and what a plan promised can be           *)
(* committed.                                                              *)
(***************************************************************************)
EXTENDS GpuDevice, Shelf_proofs

(* The slot a configuration asks for is a pair of integers Insert accepts. *)
LEMMA ShapeIsInt ==
  ASSUME NEW c \in Configs
  PROVE  SM(c) \in Int /\ Quota(c) \in Int
BY ShapeAssumption, TotalSMAssumption, FullWidthAssumption DEF SM, Quota

(* Taking one of its items off the GPU for a configuration keeps IInv.     *)
LEMMA TakeOffKeepsOwnership ==
  ASSUME IInv, NEW c \in Configs, NEW id \in shelfItems[c], TakeOff(c, id)
  PROVE  /\ Sound(usage)' /\ TotalsExact(usage)' /\ usage'.maxHeight = TotalSM
         /\ shelfItems' \in [Configs -> SUBSET Nat]
         /\ ItemsOwnedOnce'
<1>1. /\ Sound(usage) /\ id \in DOMAIN usage.itemLocation /\ usage' = Remove(usage, id)
      /\ shelfItems \in [Configs -> SUBSET Nat]
      /\ shelfItems' = [shelfItems EXCEPT ![c] = @ \ {id}]
  BY DEF IInv, ItemsOwnedOnce, TakeOff
<1>2. Sound(usage)' /\ TotalsExact(usage)' /\ usage'.maxHeight = TotalSM
  BY <1>1, RemoveSound, RemoveTotals DEF IInv
<1>3. shelfItems' \in [Configs -> SUBSET Nat]
  BY <1>1
<1>4. ItemsOf(usage') = Unbind(ItemsOf(usage), id)
  BY <1>1, RemoveItems
<1>5. /\ DOMAIN usage'.itemLocation = DOMAIN usage.itemLocation \ {id}
      /\ \A k \in DOMAIN usage'.itemLocation : ItemsOf(usage')[k] = ItemsOf(usage)[k]
  <2>1. /\ DOMAIN ItemsOf(usage) = DOMAIN usage.itemLocation
        /\ DOMAIN ItemsOf(usage') = DOMAIN usage'.itemLocation
    BY DEF ItemsOf
  <2> QED
    BY <1>4, <2>1 DEF Unbind, Restrict
<1>6. \A d \in Configs : shelfItems'[d] = shelfItems[d] \ {id}
  BY <1>1 DEF IInv, ItemsOwnedOnce
<1>7. ItemsOwnedOnce'
  <2>1. \A d, e \in Configs : d # e => shelfItems'[d] \cap shelfItems'[e] = {}
    BY <1>6 DEF IInv, ItemsOwnedOnce
  <2>2. \A k \in DOMAIN usage'.itemLocation : \E d \in Configs : k \in shelfItems'[d]
    BY <1>5, <1>6 DEF IInv, ItemsOwnedOnce
  <2>3. \A d \in Configs : \A k \in shelfItems'[d] :
          /\ k \in DOMAIN usage'.itemLocation
          /\ ItemsOf(usage')[k] = [width |-> Quota(d), height |-> SM(d)]
    BY <1>5, <1>6 DEF IInv, ItemsOwnedOnce
  <2> QED
    BY <2>1, <2>2, <2>3 DEF ItemsOwnedOnce
<1> QED
  BY <1>2, <1>3, <1>7

(* Inserting a replica for a configuration keeps it, the item being new.   *)
LEMMA InsertKeepsOwnership ==
  ASSUME IInv, scaler.cfg \in Configs, InsertReplica
  PROVE  /\ Sound(usage)' /\ TotalsExact(usage)' /\ usage'.maxHeight = TotalSM
         /\ shelfItems' \in [Configs -> SUBSET Nat]
         /\ ItemsOwnedOnce'
<1> DEFINE c    == scaler.cfg
           id   == usage.nextItemID
           item == [width |-> Quota(c), height |-> SM(c)]
<1>1. /\ Sound(usage) /\ usage' = Insert(usage, Quota(c), SM(c))
      /\ shelfItems \in [Configs -> SUBSET Nat]
      /\ Quota(c) \in Int /\ SM(c) \in Int
      /\ id \in Nat /\ id \notin DOMAIN usage.itemLocation
  BY ShapeIsInt DEF IInv, InsertReplica, Sound, IsPacker, LocationsAgree
<1>2. Sound(usage)' /\ TotalsExact(usage)' /\ usage'.maxHeight = TotalSM
  BY <1>1, InsertSound, InsertTotals DEF IInv
<1>3. /\ DOMAIN ItemsOf(usage) = DOMAIN usage.itemLocation
      /\ DOMAIN ItemsOf(usage') = DOMAIN usage'.itemLocation
  BY DEF ItemsOf
<1>4. CASE InsertSucceeds(usage, Quota(c), SM(c))
  <2>1. shelfItems' = [shelfItems EXCEPT ![c] = @ \cup {id}]
    BY <1>4 DEF InsertReplica
  <2>2. ItemsOf(usage') = Bind(ItemsOf(usage), id, item)
    BY <1>1, <1>4, InsertItems
  <2>3. /\ DOMAIN usage'.itemLocation = DOMAIN usage.itemLocation \cup {id}
        /\ \A k \in DOMAIN usage.itemLocation : ItemsOf(usage')[k] = ItemsOf(usage)[k]
        /\ ItemsOf(usage')[id] = item
    BY <1>1, <1>3, <2>2 DEF Bind
  <2>4. \A d \in Configs : id \notin shelfItems[d]
    BY <1>1 DEF IInv, ItemsOwnedOnce
  <2>5. /\ shelfItems'[c] = shelfItems[c] \cup {id}
        /\ \A d \in Configs : d # c => shelfItems'[d] = shelfItems[d]
    BY <1>1, <2>1
  <2>6. \A d, e \in Configs : d # e => shelfItems'[d] \cap shelfItems'[e] = {}
    BY <2>4, <2>5 DEF IInv, ItemsOwnedOnce
  <2>7. \A k \in DOMAIN usage'.itemLocation : \E d \in Configs : k \in shelfItems'[d]
    BY <2>3, <2>5 DEF IInv, ItemsOwnedOnce
  <2>8. \A d \in Configs : \A k \in shelfItems'[d] :
          /\ k \in DOMAIN usage'.itemLocation
          /\ ItemsOf(usage')[k] = [width |-> Quota(d), height |-> SM(d)]
    BY <1>1, <2>3, <2>4, <2>5 DEF IInv, ItemsOwnedOnce
  <2> QED
    BY <1>1, <1>2, <2>1, <2>6, <2>7, <2>8 DEF ItemsOwnedOnce
<1>5. CASE ~InsertSucceeds(usage, Quota(c), SM(c))
  <2>1. shelfItems' = shelfItems
    BY <1>5 DEF InsertReplica
  <2>2. ItemsOf(usage') = ItemsOf(usage)
    BY <1>1, <1>5, InsertItems
  <2> QED
    BY <1>1, <1>2, <1>3, <2>1, <2>2 DEF IInv, ItemsOwnedOnce
<1> QED
  BY <1>4, <1>5

(* IInv is inductive: the actions that touch the shelves by the two        *)
(* lemmas, the others because they leave usage and shelfItems alone.       *)
LEMMA Inductive == Spec => []IInv
<1> DEFINE Untouched == UNCHANGED <<usage, shelfItems>>
<1>1. Init => IInv
  <2> SUFFICES ASSUME Init PROVE IInv
    OBVIOUS
  <2>1. /\ Sound(usage) /\ TotalsExact(usage) /\ usage.maxHeight = TotalSM
        /\ DOMAIN usage.itemLocation = {}
    BY TotalSMAssumption, NewShelfSound, NewShelfTotals DEF Init, NewShelf, EmptyMap
  <2>2. /\ shelfItems = [c \in Configs |-> {}]
        /\ plan = << >> /\ scaler.pc = "idle" /\ deleter.pc = "idle" /\ down = {}
    BY DEF Init, Idle, NoDeletion
  <2>3. ItemsOwnedOnce
    BY <2>1, <2>2 DEF ItemsOwnedOnce
  <2> QED
    BY <2>1, <2>2, <2>3 DEF IInv
<1>2. IInv /\ [Next]_vars => IInv'
  <2> SUFFICES ASSUME IInv, [Next]_vars
               PROVE  IInv'
    OBVIOUS
  <2>1. ASSUME Untouched
        PROVE  /\ Sound(usage)' /\ TotalsExact(usage)' /\ usage'.maxHeight = TotalSM
               /\ shelfItems' \in [Configs -> SUBSET Nat]
               /\ ItemsOwnedOnce'
    <3>1. usage' = usage /\ shelfItems' = shelfItems
      BY <2>1
    <3> QED
      BY <3>1 DEF IInv, ItemsOwnedOnce
  <2>2. CASE ScaleUpStep
    <3>1. ASSUME NEW c \in Configs, NEW want \in 1..MaxWant, Plan(c, want)
          PROVE  IInv'
      <4>1. plan' \in Seq(Configs)
        BY <3>1 DEF Plan, IInv
      <4> QED
        BY <2>1, <3>1, <4>1 DEF Plan, Idle, IInv
    <3>2. CASE BeginCommit
      <4>1. Head(plan) \in Configs /\ plan' \in Seq(Configs)
        BY <3>2 DEF BeginCommit, IInv
      <4>2. Untouched /\ scaler'.cfg \in Configs /\ deleter' = deleter /\ down' = down
        BY <3>2, <4>1 DEF BeginCommit
      <4> QED
        BY <2>1, <4>1, <4>2 DEF IInv
    <3>3. CASE InsertReplica
      <4>1. scaler.cfg \in Configs
        BY <3>3 DEF InsertReplica, IInv
      <4>2. scaler'.cfg = scaler.cfg /\ plan' = plan /\ deleter' = deleter /\ down' = down
        BY <3>3 DEF InsertReplica
      <4> QED
        BY <3>3, <4>1, <4>2, InsertKeepsOwnership DEF IInv
    <3>4. CASE EndCommit
      BY <2>1, <3>4 DEF EndCommit, Idle, IInv
    <3>5. ASSUME NEW podsAdded \in BOOLEAN, Record(podsAdded)
          PROVE  IInv'
      BY <2>1, <3>5 DEF Record, Idle, IInv
    <3>6. CASE SkipCommit
      <4>1. plan' \in Seq(Configs)
        BY <3>6 DEF SkipCommit, IInv
      <4> QED
        BY <2>1, <3>6, <4>1 DEF SkipCommit, Idle, IInv
    <3>7. CASE Look
      BY <2>1, <3>7 DEF Look, Idle, IInv
    <3>8. CASE PlanNothing
      BY <2>1, <3>8 DEF PlanNothing, Idle, IInv
    <3> QED
      BY <2>2, <3>1, <3>2, <3>3, <3>4, <3>5, <3>6, <3>7, <3>8 DEF ScaleUpStep
  <2>3. CASE ScaleDownStep
    <3>1. ASSUME NEW d \in down, StartDeallocate(d)
          PROVE  IInv'
      <4>1. d.cfg \in Configs
        BY DEF IInv
      <4> QED
        BY <2>1, <3>1, <4>1 DEF StartDeallocate, IInv
    <3>2. ASSUME NEW id, DeallocateReplica(id)
          PROVE  IInv'
      <4>1. /\ scaler.cfg \in Configs /\ id \in shelfItems[scaler.cfg]
            /\ TakeOff(scaler.cfg, id)
            /\ plan' = plan /\ scaler' = scaler /\ deleter' = deleter /\ down' = down
        BY <3>2 DEF DeallocateReplica, IInv
      <4> QED
        BY <4>1, TakeOffKeepsOwnership DEF IInv
    <3>3. CASE EndDeallocate
      BY <2>1, <3>3 DEF EndDeallocate, NextDown, Idle, IInv
    <3>4. ASSUME NEW d \in down, StartReduce(d)
          PROVE  IInv'
      <4>1. d.cfg \in Configs
        BY DEF IInv
      <4> QED
        BY <2>1, <3>4, <4>1 DEF StartReduce, IInv
    <3>5. ASSUME NEW id, ReduceReplica(id)
          PROVE  IInv'
      <4>1. /\ scaler.cfg \in Configs /\ id \in shelfItems[scaler.cfg]
            /\ TakeOff(scaler.cfg, id)
            /\ plan' = plan /\ scaler'.cfg = scaler.cfg /\ deleter' = deleter /\ down' = down
        BY <3>5 DEF ReduceReplica, IInv
      <4> QED
        BY <4>1, TakeOffKeepsOwnership DEF IInv
    <3>6. CASE EndReduce
      BY <2>1, <3>6 DEF EndReduce, NextDown, Idle, IInv
    <3>7. ASSUME NEW S \in SUBSET Configs, NEW to \in [S -> 0..MaxWant], ScaleDown(S, to)
          PROVE  IInv'
      <4>1. \A e \in down' : e.cfg \in Configs
        BY <3>7 DEF ScaleDown
      <4> QED
        BY <2>1, <3>7, <4>1 DEF ScaleDown, Idle, IInv
    <3> QED
      BY <2>3, <3>1, <3>2, <3>3, <3>4, <3>5, <3>6, <3>7 DEF ScaleDownStep
  <2>4. CASE DeleteStep
    <3>1. ASSUME NEW S \in SUBSET Configs, StartDelete(S)
          PROVE  IInv'
      BY <2>1, <3>1 DEF StartDelete, IInv
    <3>2. ASSUME NEW c \in Configs, DeleteNext(c)
          PROVE  IInv'
      BY <2>1, <3>2 DEF DeleteNext, IInv
    <3>3. ASSUME NEW id, DeleteReplica(id)
          PROVE  IInv'
      <4>1. /\ deleter.cfg \in Configs /\ id \in shelfItems[deleter.cfg]
            /\ TakeOff(deleter.cfg, id)
            /\ plan' = plan /\ scaler' = scaler /\ deleter'.cfg = deleter.cfg /\ down' = down
        BY <3>3 DEF DeleteReplica, IInv
      <4> QED
        BY <4>1, TakeOffKeepsOwnership DEF IInv
    <3>4. CASE DeleteDone
      BY <2>1, <3>4 DEF DeleteDone, IInv
    <3>5. CASE EndDelete
      BY <2>1, <3>5 DEF EndDelete, NoDeletion, IInv
    <3> QED
      BY <2>4, <3>1, <3>2, <3>3, <3>4, <3>5 DEF DeleteStep
  <2>5. CASE UNCHANGED vars
    BY <2>1, <2>5 DEF vars, IInv
  <2> QED
    BY <2>2, <2>3, <2>4, <2>5 DEF Next
<1> QED
  BY <1>1, <1>2, PTL DEF Spec

(* No slot of a GPU is without an owner, shared or freed twice, whatever   *)
(* the scaling loop and the deletion handler do to it, in whatever order.  *)
THEOREM SlotsOwnedOnce == Spec => []ItemsOwnedOnce
<1>1. IInv => ItemsOwnedOnce
  BY DEF IInv
<1> QED
  BY <1>1, Inductive, PTL

-----------------------------------------------------------------------------
(* An exclusive configuration asks for a slot as large as the GPU, and the *)
(* sums of the packer leave no room beside it.                             *)
THEOREM ExclusiveHasGpu == Spec => []ExclusiveAlone
<1>1. IInv => ExclusiveAlone
  <2> SUFFICES ASSUME IInv, NEW c \in Configs, Shape[c].exclusive, shelfItems[c] # {}
               PROVE  /\ Cardinality(shelfItems[c]) = 1
                      /\ \A d \in Configs \ {c} : shelfItems[d] = {}
    BY DEF ExclusiveAlone
  <2>1. PICK id \in shelfItems[c] : TRUE
    OBVIOUS
  <2>2. /\ Sound(usage) /\ TotalsExact(usage) /\ usage.maxHeight = TotalSM
        /\ id \in DOMAIN usage.itemLocation
        /\ ItemsOf(usage)[id] = [width |-> Quota(c), height |-> SM(c)]
        /\ \A d \in Configs : shelfItems[d] \subseteq DOMAIN usage.itemLocation
        /\ \A d \in Configs : d # c => shelfItems[c] \cap shelfItems[d] = {}
    BY <2>1 DEF IInv, ItemsOwnedOnce
  <2>3. Quota(c) = FullWidth /\ SM(c) = TotalSM
    BY DEF Quota, SM
  <2>4. DOMAIN usage.itemLocation = {id}
    BY <2>2, <2>3, FullItemAlone
  <2>5. shelfItems[c] = {id}
    BY <2>1, <2>2, <2>4
  <2>6. Cardinality({id}) = 1
    BY FS_Singleton
  <2> QED
    BY <2>2, <2>4, <2>5, <2>6
<1> QED
  BY <1>1, Inductive, PTL

-----------------------------------------------------------------------------
(* Types.                                                                  *)

(* The least of three integers is one of them.                             *)
LEMMA MinOfThree ==
  ASSUME NEW a \in Int, NEW b \in Int, NEW c \in Int
  PROVE  Min({a, b, c}) \in Int /\ Min({a, b, c}) <= a
<1>1. \E x \in {a, b, c} : \A y \in {a, b, c} : x <= y
  <2>1. CASE a <= b /\ a <= c
    BY <2>1
  <2>2. CASE b <= a /\ b <= c
    BY <2>2
  <2>3. CASE c <= a /\ c <= b
    BY <2>3
  <2> QED
    BY <2>1, <2>2, <2>3
<1> QED
  BY <1>1 DEF Min

(* A plan asks for a number of replicas, and when nobody disturbed the     *)
(* look at the packer for no more than there is room for.                  *)
LEMMA PossibleIsRoom ==
  ASSUME Sound(usage), TotalsExact(usage), \A p \in window : IsPacker(p),
         usageMemory \in Int, NEW c \in Configs, NEW want \in 1..MaxWant,
         NEW r \in PossibleReplicas(c, want)
  PROVE  r \in Int /\ (window = {usage} => r <= ExactRoom(usage, Quota(c), SM(c)))
<1>1. PICK n \in MaxInsertableItems(usage, window, Quota(c), SM(c)) :
        r = Min({n, AvailableMemory \div Mem(c), want})
  BY DEF PossibleReplicas
<1>2. Quota(c) \in Int /\ SM(c) \in Int
  BY ShapeIsInt
<1>3. n \in Int
  BY <1>2, AnswersAreInts DEF Sound
<1>4. window = {usage} => n <= ExactRoom(usage, Quota(c), SM(c))
  BY <1>2, AnswerIsRoom
<1>5. AvailableMemory \div Mem(c) \in Int
  <2>1. Mem(c) \in Nat \ {0} /\ AvailableMemory \in Int
    BY ShapeAssumption, MemoryAssumption DEF Mem, AvailableMemory
  <2> QED
    BY <2>1
<1>6. want \in Int
  OBVIOUS
<1> DEFINE m == AvailableMemory \div Mem(c)
<1> HIDE DEF m
<1>7. r \in Int /\ r <= n
  BY <1>1, <1>3, <1>5, <1>6, MinOfThree DEF m
<1>8. ExactRoom(usage, Quota(c), SM(c)) \in Nat
  BY <1>2, InsertableNat
<1> QED
  BY <1>3, <1>4, <1>7, <1>8

(* The types that IInv does not settle.                                    *)
FieldTypes ==
  /\ usageMemory \in Int
  /\ allocationType \in Types
  /\ required \in [Configs -> Int]
  /\ allocated \in [Configs -> Nat]
  /\ status \in [Configs -> Status]
  /\ \A p \in window : IsPacker(p)
  /\ down \in SUBSET [cfg : Configs, to : Nat]
  /\ scaler \in [pc : {"idle", "look", "plan", "commit", "insert", "settle", "down", "dealloc",
                       "reduce"},
                 cfg : Configs \cup {NoConfig}, left : Int]
  /\ deleter \in [pc : {"idle", "next", "delete"}, cfg : Configs \cup {NoConfig}, left : Nat,
                  todo : SUBSET Configs, done : SUBSET Configs]
  /\ scheduled \in BOOLEAN
  /\ firm \in SUBSET Configs
  /\ Inserting => /\ scaler.left <= required[scaler.cfg]
                  /\ scaler.left < 0 => scaler.left = required[scaler.cfg]

(* Every step keeps them.                                                  *)
LEMMA TypesStep ==
  ASSUME IInv, FieldTypes, [Next]_vars
  PROVE  FieldTypes'
<1> USE DEF FieldTypes
<1>1. CASE ScaleUpStep
  <2>1. ASSUME NEW c \in Configs, NEW want \in 1..MaxWant, Plan(c, want)
        PROVE  FieldTypes'
    <3>1. PICK n \in PossibleReplicas(c, want) : required' = [required EXCEPT ![c] = n]
      BY <2>1 DEF Plan
    <3>2. n \in Int
      BY PossibleIsRoom DEF IInv
    <3> QED
      BY <2>1, <3>1, <3>2 DEF Plan, Idle, Status, Inserting
  <2>2. CASE BeginCommit
    <3>1. Head(plan) \in Configs
      BY <2>2 DEF BeginCommit, IInv
    <3>2. Mem(Head(plan)) \in Nat /\ AllocationType(Head(plan)) \in Types
      BY <3>1, ShapeAssumption DEF Mem, AllocationType, Types
    <3>3. required[Head(plan)] \in Int
      BY <3>1
    <3>4. usageMemory - Mem(Head(plan)) * required[Head(plan)] \in Int
      BY <3>2, <3>3
    <3> QED
      BY SMTT(30), <2>2, <3>1, <3>2, <3>3, <3>4 DEF BeginCommit, Inserting
  <2>3. CASE SkipCommit
    BY <2>3 DEF SkipCommit, Idle, Inserting
  <2>4. CASE InsertReplica
    <3>1. scaler.cfg \in Configs /\ scaler.left \in Nat \ {0}
      BY <2>4 DEF InsertReplica, IInv
    <3>2. Mem(scaler.cfg) \in Nat
      BY <3>1, ShapeAssumption DEF Mem
    <3>3. usageMemory + Mem(scaler.cfg) * scaler.left \in Int
      BY <3>1, <3>2
    <3>4. usageMemory' \in Int /\ scheduled' \in BOOLEAN
      BY <2>4, <3>3 DEF InsertReplica
    <3>5. /\ scaler'.cfg = scaler.cfg /\ scaler'.left \in Nat /\ scaler'.left <= scaler.left
          /\ scaler' \in [pc : {"insert", "settle"}, cfg : Configs, left : Nat]
      BY <2>4, <3>1 DEF InsertReplica
    <3>6. scaler.left <= required[scaler.cfg] /\ required[scaler.cfg] \in Int
      BY <2>4, <3>1 DEF InsertReplica, Inserting
    <3>7. scaler'.left <= required[scaler.cfg] /\ ~(scaler'.left < 0)
      BY <3>1, <3>5, <3>6
    <3> QED
      BY <2>4, <3>4, <3>5, <3>7 DEF InsertReplica, Inserting
  <2>5. CASE EndCommit
    <3>1. /\ scaler.cfg \in Configs /\ scaler.left <= required[scaler.cfg]
          /\ scaler.left \in Int /\ required[scaler.cfg] \in Int
      BY <2>5 DEF EndCommit, IInv, Inserting
    <3>2. SuccessfulReplicas \in Nat
      BY <3>1 DEF SuccessfulReplicas
    <3>3. allocated' \in [Configs -> Nat]
      BY <2>5, <3>2 DEF EndCommit
    <3>4. scaler' \in [pc : {"commit"}, cfg : Configs \cup {NoConfig}, left : Int] /\ ~Inserting'
      BY <2>5 DEF EndCommit, Idle, Inserting
    <3> QED
      BY <2>5, <3>3, <3>4 DEF EndCommit
  <2>6. ASSUME NEW podsAdded \in BOOLEAN, Record(podsAdded)
        PROVE  FieldTypes'
    BY <2>6 DEF Record, Idle, Status, Inserting
  <2>7. CASE Look
    BY <2>7 DEF Look, Idle, Inserting, IInv, Sound
  <2>8. CASE PlanNothing
    BY <2>8 DEF PlanNothing, Idle, Inserting
  <2> QED
    BY <1>1, <2>1, <2>2, <2>3, <2>4, <2>5, <2>6, <2>7, <2>8 DEF ScaleUpStep
<1>2. CASE ScaleDownStep
  <2>1. ASSUME NEW d \in down, StartDeallocate(d)
        PROVE  FieldTypes'
    BY <2>1 DEF StartDeallocate, Inserting
  <2>2. ASSUME NEW id, DeallocateReplica(id)
        PROVE  FieldTypes'
    BY <2>2 DEF DeallocateReplica, Inserting
  <2>3. CASE EndDeallocate
    <3>1. scaler.cfg \in Configs /\ allocated[scaler.cfg] \in Nat
      BY <2>3 DEF EndDeallocate, IInv
    <3>2. Mem(scaler.cfg) \in Nat
      BY <3>1, ShapeAssumption DEF Mem
    <3>3. usageMemory + Mem(scaler.cfg) * allocated[scaler.cfg] \in Int
      BY <3>1, <3>2
    <3>4. scheduled' \in BOOLEAN
      BY <2>3 DEF EndDeallocate, ScheduleIfEmpty
    <3> QED
      BY <2>3, <3>1, <3>3, <3>4 DEF EndDeallocate, NextDown, Idle, Status, Inserting
  <2>4. ASSUME NEW d \in down, StartReduce(d)
        PROVE  FieldTypes'
    <3>1. d.cfg \in Configs /\ allocated[d.cfg] \in Nat /\ d.to \in Nat
      OBVIOUS
    <3>2. Mem(d.cfg) \in Nat
      BY <3>1, ShapeAssumption DEF Mem
    <3>3. allocated[d.cfg] - d.to \in Int
      BY <3>1
    <3>4. usageMemory - Mem(d.cfg) * (allocated[d.cfg] - d.to) \in Int
      BY <3>2, <3>3
    <3> QED
      BY <2>4, <3>1, <3>3, <3>4 DEF StartReduce, Inserting
  <2>5. ASSUME NEW id, ReduceReplica(id)
        PROVE  FieldTypes'
    <3>1. scaler.left - 1 \in Int /\ scaler.cfg \in Configs
      BY <2>5 DEF ReduceReplica, IInv
    <3> QED
      BY <2>5, <3>1 DEF ReduceReplica, Inserting
  <2>6. CASE EndReduce
    <3>1. scheduled' \in BOOLEAN
      BY <2>6 DEF EndReduce, ScheduleIfEmpty
    <3> QED
      BY <2>6, <3>1 DEF EndReduce, NextDown, Idle, Inserting
  <2>7. ASSUME NEW S \in SUBSET Configs, NEW to \in [S -> 0..MaxWant], ScaleDown(S, to)
        PROVE  FieldTypes'
    <3>1. down' \in SUBSET [cfg : Configs, to : Nat]
      <4>1. \A c \in S : c \in Configs /\ to[c] \in Nat
        OBVIOUS
      <4>2. down' = {[cfg |-> c, to |-> to[c]] : c \in S}
        BY <2>7 DEF ScaleDown
      <4> QED
        BY <4>1, <4>2
    <3> QED
      BY <2>7, <3>1 DEF ScaleDown, Idle, Inserting
  <2> QED
    BY <1>2, <2>1, <2>2, <2>3, <2>4, <2>5, <2>6, <2>7 DEF ScaleDownStep
<1>3. CASE DeleteStep
  <2>1. ASSUME NEW S \in SUBSET Configs, StartDelete(S)
        PROVE  FieldTypes'
    BY <2>1 DEF StartDelete, Inserting
  <2>2. ASSUME NEW c \in Configs, DeleteNext(c)
        PROVE  FieldTypes'
    <3>1. allocated[c] \in Nat
      OBVIOUS
    <3>2. Mem(c) \in Nat
      BY ShapeAssumption DEF Mem
    <3>3. usageMemory - Mem(c) * allocated[c] \in Int
      BY <3>1, <3>2
    <3> QED
      BY <2>2, <3>1, <3>3 DEF DeleteNext, ReplicaReduceCount, Inserting
  <2>3. ASSUME NEW id, DeleteReplica(id)
        PROVE  FieldTypes'
    <3>1. deleter.left - 1 \in Nat /\ deleter.cfg \in Configs
      BY <2>3 DEF DeleteReplica, IInv
    <3>2. \A p \in window' : IsPacker(p)
      BY <2>3, RemovalStatesArePackers DEF DeleteReplica, IInv
    <3> QED
      BY <2>3, <3>1, <3>2 DEF DeleteReplica, Inserting
  <2>4. CASE DeleteDone
    <3>1. deleter.cfg \in Configs
      BY <2>4 DEF DeleteDone, IInv
    <3>2. scheduled' \in BOOLEAN
      BY <2>4 DEF DeleteDone
    <3> QED
      BY <2>4, <3>1, <3>2 DEF DeleteDone, Inserting
  <2>5. CASE EndDelete
    BY <2>5 DEF EndDelete, NoDeletion, Status, Inserting
  <2> QED
    BY <1>3, <2>1, <2>2, <2>3, <2>4, <2>5 DEF DeleteStep
<1>4. CASE UNCHANGED vars
  BY <1>4 DEF vars, Inserting
<1> QED
  BY <1>1, <1>2, <1>3, <1>4 DEF Next

-----------------------------------------------------------------------------
(* Slots and counters.                                                     *)

(* A configuration holds finitely many slots.                              *)
LEMMA HeldFinite ==
  ASSUME IInv, NEW c \in Configs
  PROVE  IsFiniteSet(shelfItems[c]) /\ Cardinality(shelfItems[c]) \in Nat
<1>1. IsFiniteSet(DOMAIN usage.itemLocation)
  BY PackerFinite DEF IInv, Sound
<1>2. shelfItems[c] \subseteq DOMAIN usage.itemLocation
  BY DEF IInv, ItemsOwnedOnce
<1> QED
  BY <1>1, <1>2, FS_Subset, FS_CardinalityType

(* Taking a slot off lowers the count of its configuration by one, and     *)
(* changes nothing of the others.                                          *)
LEMMA TakeOffCount ==
  ASSUME IInv, NEW c \in Configs, NEW id \in shelfItems[c], TakeOff(c, id)
  PROVE  /\ Cardinality(shelfItems'[c]) = Cardinality(shelfItems[c]) - 1
         /\ \A d \in Configs : Cardinality(shelfItems'[d]) <= Cardinality(shelfItems[d])
         /\ \A d \in Configs : Cardinality(shelfItems'[d]) \in Nat
         /\ \A d \in Configs : shelfItems[d] = {} => shelfItems'[d] = {}
<1>1. /\ shelfItems'[c] = shelfItems[c] \ {id}
      /\ \A d \in Configs \ {c} : shelfItems'[d] = shelfItems[d]
  BY DEF TakeOff, IInv
<1>2. \A d \in Configs : IsFiniteSet(shelfItems[d]) /\ Cardinality(shelfItems[d]) \in Nat
  BY HeldFinite
<1>3. /\ Cardinality(shelfItems[c] \ {id}) = Cardinality(shelfItems[c]) - 1
      /\ IsFiniteSet(shelfItems[c] \ {id})
  BY <1>2, FS_RemoveElement
<1>4. Cardinality(shelfItems[c] \ {id}) \in Nat
  BY <1>3, FS_CardinalityType
<1>5. \A d \in Configs : /\ Cardinality(shelfItems'[d]) <= Cardinality(shelfItems[d])
                         /\ Cardinality(shelfItems'[d]) \in Nat
                         /\ shelfItems[d] = {} => shelfItems'[d] = {}
  <2> TAKE d \in Configs
  <2>1. CASE d = c
    <3>1. /\ Cardinality(shelfItems'[c]) = Cardinality(shelfItems[c]) - 1
          /\ Cardinality(shelfItems'[c]) \in Nat
      BY <1>1, <1>3, <1>4, Zenon
    <3>2. shelfItems[c] # {}
      OBVIOUS
    <3>3. Cardinality(shelfItems[c]) \in Nat
      BY <1>2
    <3> QED
      BY <2>1, <3>1, <3>2, <3>3
  <2>2. CASE d # c
    BY <1>1, <1>2, <2>2
  <2> QED
    BY <2>1, <2>2
<1> QED
  BY <1>1, <1>3, <1>5

(* No slot held, no slot counted.                                          *)
LEMMA NoneCounted ==
  ASSUME IInv, NEW c \in Configs
  PROVE  shelfItems[c] = {} <=> Cardinality(shelfItems[c]) <= 0
BY HeldFinite, FS_EmptySet

(* Every step keeps the books.                                             *)
LEMMA BooksStep ==
  ASSUME IInv, FieldTypes, BooksInv, [Next]_vars
  PROVE  BooksInv'
<1> USE DEF BooksInv, SlotsCounted, InsertionCounted, PlanFresh, FreeingRecorded,
            GoneHoldsNothing, Freed, Inserting
<1>0. \A c \in Configs : /\ Cardinality(shelfItems[c]) \in Nat
                         /\ shelfItems[c] = {} <=> Cardinality(shelfItems[c]) <= 0
  BY HeldFinite, NoneCounted
<1>T. /\ required \in [Configs -> Int] /\ allocated \in [Configs -> Nat]
      /\ status \in [Configs -> Status] /\ plan \in Seq(Configs)
      /\ scaler.left \in Int /\ deleter.left \in Nat
      /\ \A d \in down : d.cfg \in Configs
      /\ deleter.todo \subseteq Configs /\ deleter.done \subseteq Configs
      /\ scaler.pc \in {"insert", "settle", "dealloc", "reduce"} => scaler.cfg \in Configs
      /\ deleter.pc = "delete" => deleter.cfg \in Configs
  BY DEF IInv, FieldTypes
<1>P. /\ Len(plan) \in Nat /\ DOMAIN plan = 1..Len(plan)
      /\ \A i \in DOMAIN plan : plan[i] \in Configs
  BY <1>T
<1>1. CASE ScaleUpStep
  <2>1. ASSUME NEW c \in Configs, NEW want \in 1..MaxWant, Plan(c, want)
        PROVE  BooksInv'
    <3>1. /\ scaler'.pc = "plan" /\ status[c] = "new"
          /\ status' = [status EXCEPT ![c] = "planned"] /\ plan' = Append(plan, c)
          /\ UNCHANGED <<shelfItems, allocated, down, deleter>>
          /\ scaler.pc = "look"
      BY <2>1 DEF Plan, Idle
    <3>2. DOMAIN plan' = 1..(Len(plan) + 1)
      BY <1>T, <1>P, <3>1
    <3>3. plan'[Len(plan) + 1] = c /\ \A i \in 1..Len(plan) : plan'[i] = plan[i]
      BY <1>T, <1>P, <3>1
    <3>4. PlanFresh'
      <4>1. \A i \in 1..Len(plan) : plan[i] # c
        BY <1>P, <3>1
      <4>2. \A i \in DOMAIN plan' : i \in 1..Len(plan) \/ i = Len(plan) + 1
        BY <1>P, <3>2
      <4>3. status'[c] = "planned" /\ \A d \in Configs \ {c} : status'[d] = status[d]
        BY <1>T, <3>1
      <4>4. shelfItems' = shelfItems /\ shelfItems[c] = {}
        BY <3>1
      <4>5. \A i \in DOMAIN plan' : status'[plan'[i]] = "planned" /\ shelfItems'[plan'[i]] = {}
        BY <1>P, <3>3, <4>1, <4>2, <4>3, <4>4
      <4>6. \A i, j \in DOMAIN plan' : plan'[i] = plan'[j] => i = j
        BY <1>P, <3>3, <4>1, <4>2
      <4> QED
        BY <3>1, <4>5, <4>6
    <3> QED
      BY SMTT(30), <1>T, <3>1, <3>4
  <2>2. CASE BeginCommit
    <3> DEFINE c == plan[1]
    <3>1. /\ plan # << >>
          /\ scaler' = [pc |-> "insert", cfg |-> Head(plan), left |-> required[Head(plan)]]
          /\ plan' = Tail(plan) /\ UNCHANGED <<shelfItems, allocated, required, status, down, deleter>>
          /\ scaler.pc \in {"plan", "commit"}
      BY <2>2 DEF BeginCommit
    <3>2. 1 \in DOMAIN plan /\ Head(plan) = c
      BY <1>T, <1>P, <3>1
    <3>3. /\ DOMAIN plan' = 1..(Len(plan) - 1)
          /\ \A i \in DOMAIN plan' : plan'[i] = plan[i + 1]
          /\ \A i \in DOMAIN plan' : i + 1 \in DOMAIN plan /\ i + 1 # 1
      BY SMTT(30), <1>T, <1>P, <3>1
    <3>4. c \in Configs /\ status[c] = "planned" /\ shelfItems[c] = {}
      BY <1>P, <3>2
    <3>5. \A i \in DOMAIN plan' : plan'[i] # c
      BY <3>2, <3>3
    <3>6. PlanFresh'
      <4>1. \A i, j \in DOMAIN plan' : plan'[i] = plan'[j] => i = j
        <5> TAKE i, j \in DOMAIN plan'
        <5>1. plan'[i] = plan'[j] => i + 1 = j + 1
          BY <3>3
        <5>2. i \in Int /\ j \in Int
          BY <3>3
        <5> QED
          BY <5>1, <5>2
      <4>2. \A i \in DOMAIN plan' : status[plan'[i]] = "planned" /\ shelfItems[plan'[i]] = {}
        BY <3>3
      <4> HIDE DEF c
      <4> QED
        BY <3>1, <3>2, <3>5, <4>1, <4>2
    <3>7. Cardinality(shelfItems[c]) <= required[c] - required[c] /\ required[c] \in Int
      <4> HIDE DEF c
      <4>1. required[c] \in Int
        BY <1>T, <3>4
      <4>2. Cardinality(shelfItems[c]) <= 0 /\ Cardinality(shelfItems[c]) \in Nat
        BY <1>0, <3>4
      <4> QED
        BY <4>1, <4>2
    <3> HIDE DEF c
    <3>8. SlotsCounted' /\ InsertionCounted'
      <4>1. /\ scaler'.pc = "insert" /\ scaler'.cfg = c /\ scaler'.left = required[c]
            /\ UNCHANGED <<shelfItems, allocated, required, status>>
        BY <3>1, <3>2
      <4>2. SlotsCounted'
        BY <3>1, <4>1
      <4>3. InsertionCounted'
        <5>1. /\ shelfItems'[scaler'.cfg] = shelfItems[c] /\ status'[scaler'.cfg] = status[c]
              /\ required'[scaler'.cfg] = required[c] /\ scaler'.left = required[c]
          BY <4>1
        <5>2. required[c] <= required[c]
          BY <3>7
        <5> QED
          BY <3>4, <3>7, <5>1, <5>2
      <4> QED
        BY <4>2, <4>3
    <3>9. FreeingRecorded'
      BY <3>1
    <3> QED
      BY <3>1, <3>6, <3>8, <3>9
  <2>3. CASE SkipCommit
    <3>1. /\ plan # << >> /\ scaler'.pc = "commit" /\ plan' = Tail(plan)
          /\ UNCHANGED <<shelfItems, allocated, required, status, down, deleter>>
          /\ scaler.pc \in {"plan", "commit"}
      BY <2>3 DEF SkipCommit, Idle
    <3>2. /\ DOMAIN plan' = 1..(Len(plan) - 1)
          /\ \A i \in DOMAIN plan' : plan'[i] = plan[i + 1]
          /\ \A i \in DOMAIN plan' : i + 1 \in DOMAIN plan
      BY <1>T, <1>P, <3>1
    <3>3. \A i, j \in DOMAIN plan' : plan'[i] = plan'[j] => i = j
      <4> TAKE i, j \in DOMAIN plan'
      <4>1. plan'[i] = plan'[j] => i + 1 = j + 1
        BY <3>2
      <4>2. i \in Int /\ j \in Int
        BY <3>2
      <4> QED
        BY <4>1, <4>2
    <3>4. \A i \in DOMAIN plan' : status[plan'[i]] = "planned" /\ shelfItems[plan'[i]] = {}
      BY <3>2
    <3> QED
      BY <3>1, <3>3, <3>4
  <2>4. CASE InsertReplica
    <3> DEFINE c == scaler.cfg
    <3>1. /\ c \in Configs /\ scaler.pc = "insert" /\ scaler.left > 0 /\ scaler'.cfg = c
          /\ UNCHANGED <<required, allocated, status, plan, down, deleter>>
      BY <1>T, <2>4 DEF InsertReplica
    <3>2. CASE InsertSucceeds(usage, Quota(c), SM(c))
      <4>1. /\ shelfItems' = [shelfItems EXCEPT ![c] = @ \cup {usage.nextItemID}]
            /\ scaler'.pc = "insert" /\ scaler'.left = scaler.left - 1
        BY <2>4, <3>2 DEF InsertReplica
      <4>2. /\ shelfItems'[c] = shelfItems[c] \cup {usage.nextItemID}
            /\ \A d \in Configs \ {c} : shelfItems'[d] = shelfItems[d]
        BY <3>1, <4>1 DEF IInv
      <4>3. Cardinality(shelfItems'[c]) <= Cardinality(shelfItems[c]) + 1
        <5>1. IsFiniteSet(shelfItems[c]) /\ Cardinality(shelfItems[c]) \in Nat
          BY <3>1, HeldFinite
        <5>2. Cardinality(shelfItems[c] \cup {usage.nextItemID}) =
                IF usage.nextItemID \in shelfItems[c] THEN Cardinality(shelfItems[c])
                                                      ELSE Cardinality(shelfItems[c]) + 1
          BY <5>1, FS_AddElement
        <5> QED
          BY <4>2, <5>1, <5>2
      <4>4. Cardinality(shelfItems'[c]) \in Nat
        <5>1. IsFiniteSet(shelfItems[c])
          BY <3>1, HeldFinite
        <5>2. IsFiniteSet(shelfItems[c] \cup {usage.nextItemID})
          BY <5>1, FS_AddElement
        <5> QED
          BY <4>2, <5>2, FS_CardinalityType
      <4>5. InsertionCounted'
        BY SMTT(30), <1>0, <1>T, <3>1, <4>1, <4>3, <4>4
      <4>6. status[c] = "planned" /\ \A i \in DOMAIN plan : plan[i] # c
        BY <3>1
      <4> HIDE DEF c
      <4>7. \A d \in Configs : status[d] # "planned" => shelfItems'[d] = shelfItems[d]
        BY <4>2, <4>6
      <4>8. PlanFresh'
        BY <1>P, <3>1, <4>1, <4>2, <4>6
      <4>9. FreeingRecorded'
        BY <1>T, <3>1, <4>1, <4>7
      <4>10. SlotsCounted'
        BY <3>1, <4>1, <4>2 DEF c
      <4> QED
        BY <3>1, <4>5, <4>7, <4>8, <4>9, <4>10
    <3>3. CASE ~InsertSucceeds(usage, Quota(c), SM(c))
      <4>1. /\ shelfItems' = shelfItems /\ scaler'.pc = "settle" /\ scaler'.left = scaler.left
        BY <2>4, <3>3 DEF InsertReplica
      <4> QED
        BY <3>1, <4>1
    <3> QED
      BY <3>2, <3>3
  <2>5. CASE EndCommit
    <3>1. /\ scaler.cfg \in Configs /\ Inserting /\ scaler'.pc = "commit"
          /\ allocated' = [allocated EXCEPT ![scaler.cfg] = SuccessfulReplicas]
          /\ UNCHANGED <<required, shelfItems, status, plan, down, deleter>>
      BY <1>T, <2>5 DEF EndCommit, Idle
    <3>2. SlotsCounted'
      <4>1. /\ scaler.left <= required[scaler.cfg]
            /\ scaler.left < 0 => scaler.left = required[scaler.cfg]
        BY <3>1 DEF FieldTypes
      <4>2. Cardinality(shelfItems[scaler.cfg]) <= SuccessfulReplicas
        BY <1>T, <3>1, <4>1 DEF SuccessfulReplicas
      <4> QED
        BY <1>T, <3>1, <4>2
    <3> QED
      BY <3>1, <3>2
  <2>6. ASSUME NEW podsAdded \in BOOLEAN, Record(podsAdded)
        PROVE  BooksInv'
    <3>1. /\ scaler.pc = "commit" /\ scaler'.pc = "idle" /\ plan = << >>
          /\ UNCHANGED <<required, allocated, shelfItems, plan, down, deleter>>
          /\ \A c \in Configs : /\ status'[c] # "gone" \/ status[c] = "gone"
                                /\ status'[c] = "new" => status[c] = "new"
                                /\ status[c] \in Freed => status'[c] = status[c]
      BY <1>T, <2>6 DEF Record, Idle, Status
    <3>2. DOMAIN plan = {}
      BY <3>1
    <3> QED
      BY <1>T, <3>1, <3>2
  <2>7. CASE Look \/ PlanNothing
    <3>1. /\ scaler'.pc \in {"look", "idle", "plan"} /\ ~Inserting
          /\ UNCHANGED <<required, allocated, shelfItems, status, plan, down, deleter>>
      BY <2>7 DEF Look, PlanNothing, Idle
    <3> QED
      BY <1>T, <1>P, <3>1
  <2> QED
    BY <1>1, <2>1, <2>2, <2>3, <2>4, <2>5, <2>6, <2>7 DEF ScaleUpStep
<1>2. CASE ScaleDownStep
  <2>1. ASSUME NEW d \in down, StartDeallocate(d) \/ StartReduce(d)
        PROVE  BooksInv'
    <3>1. /\ scaler'.pc \in {"dealloc", "reduce"} /\ scaler'.cfg = d.cfg /\ ~Inserting
          /\ down' \subseteq down
          /\ UNCHANGED <<required, allocated, shelfItems, status, plan, deleter>>
      BY <2>1 DEF StartDeallocate, StartReduce
    <3>2. status[d.cfg] \in Freed
      OBVIOUS
    <3> QED
      BY <1>T, <1>P, <3>1, <3>2
  <2>2. ASSUME NEW id, DeallocateReplica(id)
        PROVE  BooksInv'
    <3>1. /\ scaler.pc = "dealloc" /\ scaler.cfg \in Configs /\ id \in shelfItems[scaler.cfg]
          /\ TakeOff(scaler.cfg, id)
          /\ UNCHANGED <<required, allocated, status, plan, down, scaler, deleter>>
      BY <1>T, <2>2 DEF DeallocateReplica
    <3>2. /\ \A d \in Configs : Cardinality(shelfItems'[d]) <= Cardinality(shelfItems[d])
          /\ \A d \in Configs : shelfItems[d] = {} => shelfItems'[d] = {}
      BY <3>1, TakeOffCount
    <3>3. \A d \in Configs : Cardinality(shelfItems'[d]) \in Nat
      BY <3>1, TakeOffCount
    <3>4. SlotsCounted' /\ InsertionCounted'
      BY <1>0, <1>T, <3>1, <3>2, <3>3
    <3>5. PlanFresh'
      BY <1>P, <3>1, <3>2
    <3>6. FreeingRecorded'
      <4>1. ASSUME deleter.pc = "delete"
            PROVE  Cardinality(shelfItems'[deleter.cfg]) <= deleter.left
        <5>1. /\ deleter.cfg \in Configs /\ deleter.left \in Nat
              /\ Cardinality(shelfItems[deleter.cfg]) <= deleter.left
          BY <1>T, <4>1
        <5> QED
          BY <1>0, <3>2, <3>3, <5>1
      <4>2. \A c \in deleter.done : shelfItems'[c] = {}
        BY <1>T, <3>2
      <4> QED
        BY <3>1, <4>1, <4>2
    <3> QED
      BY <1>T, <3>1, <3>2, <3>4, <3>5, <3>6
  <2>3. CASE EndDeallocate
    <3>1. /\ scaler.pc = "dealloc" /\ scaler.cfg \in Configs /\ shelfItems[scaler.cfg] = {}
          /\ scaler'.pc \in {"idle", "down"}
          /\ status' = [status EXCEPT ![scaler.cfg] = "gone"]
          /\ UNCHANGED <<required, allocated, shelfItems, plan, down, deleter>>
          /\ status[scaler.cfg] \in Freed
      BY <1>T, <2>3 DEF EndDeallocate, NextDown, Idle
    <3>2. \A i \in DOMAIN plan : plan[i] # scaler.cfg
      BY <3>1
    <3> QED
      BY <1>T, <1>P, <3>1, <3>2
  <2>4. ASSUME NEW S \in SUBSET Configs, NEW to \in [S -> 0..MaxWant], ScaleDown(S, to)
        PROVE  BooksInv'
    <3>1. /\ scaler.pc = "idle" /\ scaler'.pc = "down"
          /\ UNCHANGED <<required, allocated, shelfItems, status, plan, deleter>>
          /\ \A e \in down' : status[e.cfg] \in Freed
      BY <2>4 DEF ScaleDown, Idle
    <3> QED
      BY <1>T, <1>P, <3>1
  <2>5. ASSUME NEW id, ReduceReplica(id)
        PROVE  BooksInv'
    <3>1. /\ scaler.pc = "reduce" /\ scaler.cfg \in Configs /\ id \in shelfItems[scaler.cfg]
          /\ TakeOff(scaler.cfg, id) /\ scaler'.pc = "reduce" /\ scaler'.cfg = scaler.cfg
          /\ UNCHANGED <<required, allocated, status, plan, down, deleter>>
      BY <1>T, <2>5 DEF ReduceReplica
    <3>2. /\ \A d \in Configs : Cardinality(shelfItems'[d]) <= Cardinality(shelfItems[d])
          /\ \A d \in Configs : shelfItems[d] = {} => shelfItems'[d] = {}
      BY <3>1, TakeOffCount
    <3>3. \A d \in Configs : Cardinality(shelfItems'[d]) \in Nat
      BY <3>1, TakeOffCount
    <3>4. SlotsCounted' /\ InsertionCounted'
      BY <1>0, <1>T, <3>1, <3>2, <3>3
    <3>5. PlanFresh'
      BY <1>P, <3>1, <3>2
    <3>6. FreeingRecorded'
      <4>1. ASSUME deleter.pc = "delete"
            PROVE  Cardinality(shelfItems'[deleter.cfg]) <= deleter.left
        <5>1. /\ deleter.cfg \in Configs /\ deleter.left \in Nat
              /\ Cardinality(shelfItems[deleter.cfg]) <= deleter.left
          BY <1>T, <4>1
        <5> QED
          BY <1>0, <3>2, <3>3, <5>1
      <4>2. \A c \in deleter.done : shelfItems'[c] = {}
        BY <1>T, <3>2
      <4> QED
        BY <3>1, <4>1, <4>2
    <3> QED
      BY <1>T, <3>1, <3>2, <3>4, <3>5, <3>6
  <2>6. CASE EndReduce
    <3>1. /\ scaler.pc = "reduce" /\ scaler'.pc \in {"idle", "down"}
          /\ UNCHANGED <<required, allocated, shelfItems, status, plan, down, deleter>>
      BY <2>6 DEF EndReduce, NextDown, Idle
    <3> QED
      BY <1>T, <1>P, <3>1
  <2> QED
    BY <1>2, <2>1, <2>2, <2>3, <2>4, <2>5, <2>6 DEF ScaleDownStep
<1>3. CASE DeleteStep
  <2>1. ASSUME NEW S \in SUBSET Configs, StartDelete(S)
        PROVE  BooksInv'
    BY <1>T, <1>P, <2>1 DEF StartDelete
  <2>2. ASSUME NEW c \in Configs, DeleteNext(c)
        PROVE  BooksInv'
    <3>1. /\ c \in deleter.todo /\ deleter'.cfg = c /\ deleter'.left = allocated[c]
          /\ deleter'.todo \subseteq deleter.todo /\ deleter'.done = deleter.done
          /\ UNCHANGED <<required, allocated, shelfItems, status, plan, down, scaler>>
      BY <2>2 DEF DeleteNext, ReplicaReduceCount
    <3>2. Cardinality(shelfItems[c]) <= allocated[c]
      BY <3>1
    <3> QED
      BY <1>T, <1>P, <3>1, <3>2
  <2>3. ASSUME NEW id, DeleteReplica(id)
        PROVE  BooksInv'
    <3>1. /\ deleter.cfg \in Configs /\ id \in shelfItems[deleter.cfg]
          /\ TakeOff(deleter.cfg, id) /\ deleter.pc = "delete"
          /\ deleter'.cfg = deleter.cfg /\ deleter'.left = deleter.left - 1
          /\ deleter'.todo = deleter.todo /\ deleter'.done = deleter.done
          /\ UNCHANGED <<required, allocated, status, plan, down, scaler>>
      BY <1>T, <2>3 DEF DeleteReplica
    <3>2. /\ Cardinality(shelfItems'[deleter.cfg]) = Cardinality(shelfItems[deleter.cfg]) - 1
          /\ \A d \in Configs : Cardinality(shelfItems'[d]) <= Cardinality(shelfItems[d])
          /\ \A d \in Configs : shelfItems[d] = {} => shelfItems'[d] = {}
      BY <3>1, TakeOffCount
    <3>3. \A d \in Configs : Cardinality(shelfItems'[d]) \in Nat
      BY <3>1, TakeOffCount
    <3>4. SlotsCounted' /\ InsertionCounted'
      BY SMTT(30), <1>0, <1>T, <3>1, <3>2, <3>3
    <3>5. PlanFresh'
      BY <1>P, <3>1, <3>2
    <3>6. FreeingRecorded'
      <4>1. Cardinality(shelfItems'[deleter.cfg]) <= deleter.left - 1
        <5>1. Cardinality(shelfItems[deleter.cfg]) <= deleter.left
          BY <3>1
        <5> QED
          BY <1>0, <1>T, <3>1, <3>2, <5>1
      <4>2. \A c \in deleter.done : shelfItems'[c] = {}
        BY <1>T, <3>2
      <4> QED
        BY <3>1, <4>1, <4>2
    <3> QED
      BY <1>T, <3>1, <3>2, <3>4, <3>5, <3>6
  <2>4. CASE DeleteDone
    <3>1. /\ deleter.cfg \in Configs /\ deleter.pc = "delete" /\ DeletedAll
          /\ deleter'.pc = "next" /\ deleter'.todo = deleter.todo
          /\ deleter'.done = deleter.done \cup {deleter.cfg}
          /\ UNCHANGED <<required, allocated, shelfItems, status, plan, down, scaler>>
      BY <1>T, <2>4 DEF DeleteDone
    <3>2. shelfItems[deleter.cfg] = {}
      BY <1>0, <3>1 DEF DeletedAll
    <3> QED
      BY <1>T, <1>P, <3>1, <3>2
  <2>5. CASE EndDelete
    <3>1. /\ deleter'.pc = "idle" /\ deleter'.todo = {} /\ deleter'.done = {}
          /\ UNCHANGED <<required, allocated, shelfItems, plan, down, scaler>>
          /\ \A c \in Configs : status'[c] = IF c \in deleter.done THEN "gone" ELSE status[c]
      BY <2>5 DEF EndDelete, NoDeletion
    <3>2. \A i \in DOMAIN plan : status'[plan[i]] = status[plan[i]]
      BY <1>T, <1>P, <3>1
    <3> QED
      BY ZenonT(60), <1>T, <1>P, <3>1, <3>2
  <2> QED
    BY <1>3, <2>1, <2>2, <2>3, <2>4, <2>5 DEF DeleteStep
<1>4. CASE UNCHANGED vars
  BY <1>4 DEF vars
<1> QED
  BY <1>1, <1>2, <1>3, <1>4 DEF Next

-----------------------------------------------------------------------------
(* Types and books together.                                               *)
LEMMA BooksInductive == Spec => [](FieldTypes /\ BooksInv)
<1>1. Init => FieldTypes /\ BooksInv
  <2> SUFFICES ASSUME Init PROVE FieldTypes /\ BooksInv
    OBVIOUS
  <2>1. FieldTypes
    <3>1. /\ scaler \in [pc : {"idle"}, cfg : {NoConfig}, left : {0}]
          /\ deleter \in [pc : {"idle"}, cfg : {NoConfig}, left : {0}, todo : {{}}, done : {{}}]
          /\ ~Inserting
      BY DEF Init, Idle, NoDeletion, Inserting
    <3>2. usageMemory \in Int /\ allocationType \in Types /\ status \in [Configs -> Status]
      BY DEF Init, Types, Status
    <3>3. required \in [Configs -> Int] /\ allocated \in [Configs -> Nat]
      BY DEF Init
    <3>4. scheduled \in BOOLEAN /\ window = {} /\ down = {} /\ firm = {}
      BY DEF Init
    <3> QED
      BY <3>1, <3>2, <3>3, <3>4 DEF FieldTypes
  <2>2. /\ shelfItems = [c \in Configs |-> {}] /\ allocated = [c \in Configs |-> 0]
        /\ status = [c \in Configs |-> "new"] /\ DOMAIN plan = {}
        /\ scaler.pc = "idle" /\ deleter.pc = "idle" /\ deleter.todo = {} /\ deleter.done = {}
        /\ down = {}
    BY DEF Init, Idle, NoDeletion
  <2>3. Cardinality({}) = 0
    BY FS_EmptySet
  <2>4. BooksInv
    BY <2>2, <2>3 DEF BooksInv, SlotsCounted, InsertionCounted, PlanFresh, FreeingRecorded,
                      GoneHoldsNothing, Inserting
  <2> QED
    BY <2>1, <2>4
<1>2. IInv /\ FieldTypes /\ BooksInv /\ [Next]_vars => (FieldTypes /\ BooksInv)'
  BY TypesStep, BooksStep
<1> QED
  BY <1>1, <1>2, Inductive, PTL DEF Spec

(* Every field of the GPU, its configurations and the two goroutines keeps *)
(* its type; in particular no commit ends with a negative number of        *)
(* replicas, although a plan that met a removal may ask for one.           *)
THEOREM TypesCorrect == Spec => []TypeOK
<1>1. IInv /\ FieldTypes => TypeOK
  BY DEF IInv, FieldTypes, TypeOK, Sound
<1> QED
  BY <1>1, Inductive, BooksInductive, PTL

(* A configuration that left the map of its function holds no slot: the    *)
(* stale AllocatedReplica only ever asks for too many removals.            *)
THEOREM GoneIsEmpty == Spec => []GoneHoldsNothing
<1>1. BooksInv => GoneHoldsNothing
  BY DEF BooksInv
<1> QED
  BY <1>1, BooksInductive, PTL

-----------------------------------------------------------------------------
(* The release of an emptied GPU.                                          *)

(* IsEmpty is true of a sound packer exactly when it holds no item.        *)
LEMMA EmptyHoldsNone ==
  ASSUME NEW p, Sound(p)
  PROVE  IsEmpty(p) <=> DOMAIN p.itemLocation = {}
<1>1. Len(p.shelves) \in Nat /\ DOMAIN p.shelves = 1..Len(p.shelves)
  BY DEF Sound, IsPacker
<1>2. ASSUME Len(p.shelves) = 0 PROVE DOMAIN p.itemLocation = {}
  BY <1>1, <1>2 DEF Sound, LocationsAgree
<1>3. ASSUME Len(p.shelves) # 0 PROVE DOMAIN p.itemLocation # {}
  <2>1. 1 \in DOMAIN p.shelves
    BY <1>1, <1>3
  <2> QED
    BY <2>1 DEF Sound, NoEmptyShelf, LocationsAgree
<1> QED
  BY <1>2, <1>3 DEF IsEmpty

(* Every step that could leave the GPU empty unnoticed asks IsEmpty.       *)
LEMMA NoticedStep ==
  ASSUME IInv, IInv', FieldTypes, NoticedInv, [Next]_vars
  PROVE  NoticedInv'
<1> USE DEF NoticedInv
<1>0. scheduled \in BOOLEAN /\ status \in [Configs -> Status] /\ deleter.done \subseteq Configs
  BY DEF FieldTypes
<1>1. CASE ScaleUpStep
  <2>1. ASSUME NEW c \in Configs, NEW want \in 1..MaxWant, Plan(c, want)
        PROVE  NoticedInv'
    BY <1>0, <2>1 DEF Plan, Idle
  <2>2. CASE BeginCommit
    BY <2>2 DEF BeginCommit
  <2>3. CASE SkipCommit
    BY <2>3 DEF SkipCommit, Idle
  <2>4. CASE InsertReplica
    <3> DEFINE c == scaler.cfg
    <3>1. /\ c \in Configs /\ scaler.pc = "insert" /\ UNCHANGED <<status, deleter>>
          /\ usage' = Insert(usage, Quota(c), SM(c))
      BY <2>4 DEF InsertReplica, IInv
    <3>2. Quota(c) \in Int /\ SM(c) \in Int /\ Sound(usage) /\ Sound(usage')
      BY <3>1, ShapeIsInt DEF IInv
    <3>3. /\ DOMAIN ItemsOf(usage) = DOMAIN usage.itemLocation
          /\ DOMAIN ItemsOf(usage') = DOMAIN usage'.itemLocation
      BY DEF ItemsOf
    <3>4. CASE InsertSucceeds(usage, Quota(c), SM(c))
      <4>1. usage.nextItemID \in DOMAIN usage'.itemLocation
        <5>1. ItemsOf(usage') =
                Bind(ItemsOf(usage), usage.nextItemID, [width |-> Quota(c), height |-> SM(c)])
          BY <3>1, <3>2, <3>4, InsertItems
        <5> QED
          BY <3>3, <5>1 DEF Bind
      <4>2. ~IsEmpty(usage')
        BY <3>2, <4>1, EmptyHoldsNone
      <4> QED
        BY <4>2
    <3>5. CASE ~InsertSucceeds(usage, Quota(c), SM(c))
      <4>1. DOMAIN usage'.itemLocation = DOMAIN usage.itemLocation
        BY <3>1, <3>2, <3>3, <3>5, InsertItems
      <4>2. IsEmpty(usage') <=> IsEmpty(usage)
        BY <3>2, <4>1, EmptyHoldsNone
      <4>3. scheduled' = scheduled
        BY <2>4, <3>5 DEF InsertReplica
      <4> QED
        BY <3>1, <4>2, <4>3
    <3> QED
      BY <3>4, <3>5
  <2>5. CASE EndCommit
    BY <2>5 DEF EndCommit, Idle
  <2>6. ASSUME NEW podsAdded \in BOOLEAN, Record(podsAdded)
        PROVE  NoticedInv'
    BY <1>0, <2>6 DEF Record, Idle
  <2>7. CASE Look \/ PlanNothing
    BY <2>7 DEF Look, PlanNothing, Idle
  <2> QED
    BY <1>1, <2>1, <2>2, <2>3, <2>4, <2>5, <2>6, <2>7 DEF ScaleUpStep
<1>2. CASE ScaleDownStep
  <2>1. ASSUME NEW d \in down, StartDeallocate(d)
        PROVE  NoticedInv'
    BY <2>1 DEF StartDeallocate
  <2>2. ASSUME NEW id, DeallocateReplica(id)
        PROVE  NoticedInv'
    BY <2>2 DEF DeallocateReplica
  <2>3. CASE EndDeallocate
    BY <2>3 DEF EndDeallocate, ScheduleIfEmpty
  <2>4. ASSUME NEW d \in down, StartReduce(d)
        PROVE  NoticedInv'
    BY <2>4 DEF StartReduce
  <2>5. ASSUME NEW id, ReduceReplica(id)
        PROVE  NoticedInv'
    BY <2>5 DEF ReduceReplica
  <2>6. CASE EndReduce
    BY <2>6 DEF EndReduce, ScheduleIfEmpty
  <2>7. ASSUME NEW S \in SUBSET Configs, NEW to \in [S -> 0..MaxWant], ScaleDown(S, to)
        PROVE  NoticedInv'
    BY <2>7 DEF ScaleDown
  <2> QED
    BY <1>2, <2>1, <2>2, <2>3, <2>4, <2>5, <2>6, <2>7 DEF ScaleDownStep
<1>3. CASE DeleteStep
  <2>1. ASSUME NEW S \in SUBSET Configs, StartDelete(S)
        PROVE  NoticedInv'
    BY <2>1 DEF StartDelete
  <2>2. ASSUME NEW c \in Configs, DeleteNext(c)
        PROVE  NoticedInv'
    BY <2>2 DEF DeleteNext
  <2>3. ASSUME NEW id, DeleteReplica(id)
        PROVE  NoticedInv'
    BY <2>3 DEF DeleteReplica
  <2>4. CASE DeleteDone
    BY <2>4 DEF DeleteDone
  <2>5. CASE EndDelete
    BY <1>0, <2>5 DEF EndDelete, NoDeletion
  <2> QED
    BY <1>3, <2>1, <2>2, <2>3, <2>4, <2>5 DEF DeleteStep
<1>4. CASE UNCHANGED vars
  BY <1>4 DEF vars
<1> QED
  BY <1>1, <1>2, <1>3, <1>4 DEF Next

(* A virtual GPU that was used and is empty has been scheduled for         *)
(* release, whichever of the two goroutines took the last slot off.        *)
THEOREM EmptyIsNoticed == Spec => []EmptyIsScheduled
<1>1. Init => NoticedInv
  BY DEF Init, NoticedInv, NoDeletion
<1>2. IInv /\ IInv' /\ FieldTypes /\ NoticedInv /\ [Next]_vars => NoticedInv'
  BY NoticedStep
<1>3. NoticedInv => EmptyIsScheduled
  BY DEF NoticedInv, EmptyIsScheduled
<1> QED
  BY <1>1, <1>2, <1>3, Inductive, BooksInductive, PTL DEF Spec

-----------------------------------------------------------------------------
(* The promise of a plan.                                                  *)

(* The room a packer has for replicas of a configuration.                  *)
Room(p, c) == ExactRoom(p, Quota(c), SM(c))

(* It grows when a slot is taken off.                                      *)
LEMMA RoomGrows ==
  ASSUME IInv, NEW d, NEW id, TakeOff(d, id), NEW c \in Configs
  PROVE  Room(usage, c) <= Room(usage', c) /\ Room(usage, c) \in Nat /\ Room(usage', c) \in Nat
<1>1. Sound(usage) /\ TotalsExact(usage) /\ usage' = Remove(usage, id)
  BY DEF IInv, TakeOff
<1>2. SM(c) \in Int /\ Quota(c) \in Int
  BY ShapeIsInt
<1>3. Sound(usage') /\ TotalsExact(usage')
  BY <1>1, RemoveSound, RemoveTotals
<1> QED
  BY <1>1, <1>2, <1>3, RemoveMakesRoom, InsertableNat DEF Room

(* PromiseKept in terms of room, with what makes it inductive: what was    *)
(* firm has been planned, and while a configuration is committed no other  *)
(* is firm.                                                                *)
PromiseInv ==
  /\ \A c \in firm : status[c] # "new"
  /\ Inserting => firm \subseteq {scaler.cfg}
  /\ \A i \in DOMAIN plan : plan[i] \in firm => required[plan[i]] <= Room(usage, plan[i])
  /\ scaler.pc = "insert" /\ scaler.cfg \in firm => scaler.left <= Room(usage, scaler.cfg)
  /\ scaler.pc = "settle" => scaler.cfg \notin firm

(* Every step keeps it.                                                    *)
LEMMA PromiseStep ==
  ASSUME IInv, FieldTypes, BooksInv, PromiseInv, [Next]_vars
  PROVE  PromiseInv'
<1> USE DEF PromiseInv
<1>T. /\ required \in [Configs -> Int] /\ plan \in Seq(Configs) /\ scaler.left \in Int
      /\ status \in [Configs -> Status] /\ firm \subseteq Configs
      /\ scaler.pc \in {"insert", "settle", "dealloc", "reduce"} => scaler.cfg \in Configs
  BY DEF IInv, FieldTypes
<1>P. /\ Len(plan) \in Nat /\ DOMAIN plan = 1..Len(plan)
      /\ \A i \in DOMAIN plan : plan[i] \in Configs
  BY <1>T
<1>F. \A i \in DOMAIN plan : /\ status[plan[i]] = "planned"
                             /\ Inserting => plan[i] # scaler.cfg
                             /\ \A j \in DOMAIN plan : plan[i] = plan[j] => i = j
  BY DEF BooksInv, PlanFresh
<1>N. \A c \in Configs : Room(usage, c) \in Nat
  BY ShapeIsInt, InsertableNat DEF Room, IInv
<1> USE DEF Inserting
<1>3. ASSUME UNCHANGED <<usage, required, plan, firm>>,
             scaler'.pc \notin {"insert", "settle"} \/ scaler' = scaler,
             \A c \in firm : status'[c] # "new"
      PROVE  PromiseInv'
  BY <1>3
<1>4. ASSUME NEW d, NEW id, TakeOff(d, id), UNCHANGED <<required, plan, firm, status>>,
             scaler'.pc \notin {"insert", "settle"} \/ scaler' = scaler
      PROVE  PromiseInv'
  <2>1. \A c \in Configs : /\ Room(usage, c) <= Room(usage', c)
                           /\ Room(usage, c) \in Nat /\ Room(usage', c) \in Nat
    BY <1>4, RoomGrows
  <2>2. \A i \in DOMAIN plan : plan[i] \in firm => required[plan[i]] <= Room(usage', plan[i])
    <3> TAKE i \in DOMAIN plan
    <3> DEFINE c == plan[i]
    <3>1. c \in Configs /\ required[c] \in Int
      BY <1>T, <1>P
    <3>2. c \in firm => required[c] <= Room(usage, c)
      OBVIOUS
    <3> HIDE DEF c
    <3>3. c \in firm => required[c] <= Room(usage', c)
      BY <2>1, <3>1, <3>2
    <3> QED
      BY <3>3 DEF c
  <2>3. scaler.pc = "insert" /\ scaler.cfg \in firm => scaler.left <= Room(usage', scaler.cfg)
    BY <1>T, <2>1
  <2> QED
    BY <1>4, <2>2, <2>3
<1>5. CASE ScaleUpStep
  <2>1. ASSUME NEW c \in Configs, NEW want \in 1..MaxWant, Plan(c, want)
        PROVE  PromiseInv'
    <3>1. /\ status[c] = "new" /\ status' = [status EXCEPT ![c] = "planned"]
          /\ plan' = Append(plan, c) /\ scaler'.pc = "plan" /\ usage' = usage
          /\ firm' = IF window = {usage} THEN firm \cup {c} ELSE firm
      BY <2>1 DEF Plan, Idle
    <3>2. PICK n \in PossibleReplicas(c, want) : required' = [required EXCEPT ![c] = n]
      BY <2>1 DEF Plan
    <3>3. n \in Int /\ (window = {usage} => n <= Room(usage, c))
      BY PossibleIsRoom DEF IInv, FieldTypes, Room
    <3>4. /\ \A i \in 1..Len(plan) : plan'[i] = plan[i] /\ plan[i] # c
          /\ plan'[Len(plan) + 1] = c /\ DOMAIN plan' = 1..(Len(plan) + 1)
      BY <1>T, <1>P, <1>F, <3>1
    <3>5. c \notin firm
      BY <3>1
    <3>6. ASSUME NEW i \in DOMAIN plan', plan'[i] \in firm'
          PROVE  required'[plan'[i]] <= Room(usage, plan'[i])
      <4>1. CASE i = Len(plan) + 1
        <5>1. plan'[i] = c /\ window = {usage}
          BY <3>1, <3>4, <3>5, <3>6, <4>1
        <5>2. required'[c] = n
          BY <1>T, <3>2
        <5> QED
          BY <3>3, <5>1, <5>2
      <4>2. CASE i # Len(plan) + 1
        <5>1. i \in 1..Len(plan) /\ plan'[i] = plan[i] /\ plan[i] # c /\ plan[i] \in Configs
          BY <1>P, <3>4, <4>2
        <5>2. plan[i] \in firm
          BY <3>1, <3>6, <5>1
        <5>3. required'[plan[i]] = required[plan[i]]
          BY <1>T, <3>2, <5>1
        <5>4. required[plan[i]] <= Room(usage, plan[i])
          BY <1>P, <5>1, <5>2
        <5> QED
          BY <5>1, <5>3, <5>4
      <4> QED
        BY <4>1, <4>2
    <3>7. \A d \in firm' : status'[d] # "new"
      BY <1>T, <3>1
    <3> QED
      BY <3>1, <3>6, <3>7
  <2>2. CASE BeginCommit
    <3> DEFINE c == plan[1]
    <3>1. /\ plan # << >> /\ Head(plan) = plan[1] /\ plan' = Tail(plan)
          /\ scaler' = [pc |-> "insert", cfg |-> Head(plan), left |-> required[Head(plan)]]
          /\ firm' = firm \cap {Head(plan)} /\ UNCHANGED <<usage, required, status>>
      BY <1>T, <2>2 DEF BeginCommit
    <3>2. 1 \in DOMAIN plan
      BY <1>P, <1>T, <3>1
    <3>3. /\ DOMAIN plan' = 1..(Len(plan) - 1)
          /\ \A i \in DOMAIN plan' : plan'[i] = plan[i + 1] /\ i + 1 \in DOMAIN plan /\ i + 1 # 1
      BY SMTT(30), <1>T, <1>P, <3>1
    <3>4. \A i \in DOMAIN plan' : plan'[i] # c
      BY <1>F, <3>2, <3>3
    <3>5. c \in firm => required[c] <= Room(usage, c)
      BY <3>2
    <3> HIDE DEF c
    <3>6. firm' = firm \cap {c} /\ scaler'.pc = "insert" /\ scaler'.cfg = c
          /\ scaler'.left = required[c]
      BY <3>1 DEF c
    <3> QED
      BY <3>1, <3>4, <3>5, <3>6
  <2>3. CASE SkipCommit
    <3>1. plan # << >> /\ plan' = Tail(plan) /\ scaler'.pc = "commit"
          /\ UNCHANGED <<usage, required, status, firm>>
      BY <2>3 DEF SkipCommit, Idle
    <3>2. \A i \in DOMAIN plan' : plan'[i] = plan[i + 1] /\ i + 1 \in DOMAIN plan
      BY SMTT(30), <1>T, <1>P, <3>1
    <3> QED
      BY <3>1, <3>2
  <2>4. CASE InsertReplica
    <3> DEFINE c == scaler.cfg
    <3>1. /\ c \in Configs /\ scaler.pc = "insert" /\ scaler.left > 0
          /\ usage' = Insert(usage, Quota(c), SM(c)) /\ scaler'.cfg = c
          /\ UNCHANGED <<plan, firm, status, required>> /\ firm \subseteq {c}
      BY <1>T, <2>4 DEF InsertReplica
    <3>2. \A i \in DOMAIN plan : plan[i] \notin firm
      BY <1>F, <3>1
    <3>3. Quota(c) \in Int /\ SM(c) \in Int /\ Sound(usage) /\ TotalsExact(usage)
      BY <3>1, ShapeIsInt DEF IInv
    <3>4. CASE c \in firm
      <4>1. scaler.left <= Room(usage, c) /\ Room(usage, c) \in Nat
        BY <1>N, <3>1, <3>4
      <4>2. InsertSucceeds(usage, Quota(c), SM(c))
        BY <1>T, <3>1, <3>3, <4>1, InsertableNat DEF Room
      <4>3. scaler'.pc = "insert" /\ scaler'.left = scaler.left - 1
        BY <2>4, <4>2 DEF InsertReplica
      <4>4. Room(usage', c) = Room(usage, c) - 1
        BY <3>1, <3>3, <4>2, InsertUsesOne DEF Room
      <4> QED
        BY <1>T, <3>1, <3>2, <4>1, <4>3, <4>4
    <3>5. CASE c \notin firm
      <4>1. scaler'.pc \in {"insert", "settle"}
        BY <2>4 DEF InsertReplica
      <4> QED
        BY <3>1, <3>2, <3>5, <4>1
    <3> QED
      BY <3>4, <3>5
  <2>5. CASE EndCommit
    BY <1>3, <2>5 DEF EndCommit, Idle
  <2>6. ASSUME NEW podsAdded \in BOOLEAN, Record(podsAdded)
        PROVE  PromiseInv'
    <3>1. \A c \in firm : status'[c] # "new"
      BY <1>T, <2>6 DEF Record
    <3> QED
      BY <1>3, <2>6, <3>1 DEF Record, Idle
  <2>7. CASE Look \/ PlanNothing
    BY <1>3, <2>7 DEF Look, PlanNothing, Idle
  <2> QED
    BY <1>5, <2>1, <2>2, <2>3, <2>4, <2>5, <2>6, <2>7 DEF ScaleUpStep
<1>6. CASE ScaleDownStep
  <2>1. ASSUME NEW S \in SUBSET Configs, NEW to \in [S -> 0..MaxWant], ScaleDown(S, to)
        PROVE  PromiseInv'
    BY <1>3, <2>1 DEF ScaleDown, Idle
  <2>2. ASSUME NEW id, DeallocateReplica(id)
        PROVE  PromiseInv'
    BY <1>4, <2>2 DEF DeallocateReplica
  <2>3. CASE EndDeallocate
    <3>1. \A c \in firm : status'[c] # "new"
      BY <1>T, <2>3 DEF EndDeallocate
    <3> QED
      BY <1>3, <2>3, <3>1 DEF EndDeallocate, NextDown, Idle
  <2>4. ASSUME NEW d \in down, StartReduce(d) \/ StartDeallocate(d)
        PROVE  PromiseInv'
    BY <1>3, <2>4 DEF StartReduce, StartDeallocate
  <2>5. ASSUME NEW id, ReduceReplica(id)
        PROVE  PromiseInv'
    BY <1>4, <2>5 DEF ReduceReplica
  <2>6. CASE EndReduce
    BY <1>3, <2>6 DEF EndReduce, NextDown, Idle
  <2> QED
    BY <1>6, <2>1, <2>2, <2>3, <2>4, <2>5, <2>6 DEF ScaleDownStep
<1>7. CASE DeleteStep
  <2>1. ASSUME NEW S \in SUBSET Configs, StartDelete(S)
        PROVE  PromiseInv'
    BY <1>3, <2>1 DEF StartDelete
  <2>2. ASSUME NEW c \in Configs, DeleteNext(c)
        PROVE  PromiseInv'
    BY <1>3, <2>2 DEF DeleteNext
  <2>3. ASSUME NEW id, DeleteReplica(id)
        PROVE  PromiseInv'
    BY <1>4, <2>3 DEF DeleteReplica
  <2>4. CASE DeleteDone
    BY <1>3, <2>4 DEF DeleteDone
  <2>5. CASE EndDelete
    <3>1. \A c \in firm : status'[c] # "new"
      BY <1>T, <2>5 DEF EndDelete
    <3> QED
      BY <1>3, <2>5, <3>1 DEF EndDelete
  <2> QED
    BY <1>7, <2>1, <2>2, <2>3, <2>4, <2>5 DEF DeleteStep
<1>8. CASE UNCHANGED vars
  BY <1>3, <1>8 DEF vars
<1> QED
  BY <1>5, <1>6, <1>7, <1>8 DEF Next

(* The insertions that have room all succeed.                              *)
LEMMA RoomIsPromise ==
  ASSUME IInv, NEW c \in Configs, NEW n \in Int, n <= Room(usage, c)
  PROVE  Takes(usage, Quota(c), SM(c), n)
<1>1. Quota(c) \in Int /\ SM(c) \in Int /\ Sound(usage) /\ TotalsExact(usage)
  BY ShapeIsInt DEF IInv
<1> QED
  BY <1>1, RoomIsTaken DEF Room

(* However often availableGPUs lists the GPU: what was promised without a  *)
(* removal in the middle of the queries can be committed, whatever is      *)
(* removed afterwards, as long as nothing else is committed first.         *)
THEOREM PlansAreKept == Spec => []PromiseKept
<1>1. Init => PromiseInv
  BY DEF Init, Idle, PromiseInv, Inserting
<1>2. IInv /\ FieldTypes /\ BooksInv /\ PromiseInv /\ [Next]_vars => PromiseInv'
  BY PromiseStep
<1>3. IInv /\ FieldTypes /\ PromiseInv => PromiseKept
  <2> SUFFICES ASSUME IInv, FieldTypes, PromiseInv PROVE PromiseKept
    OBVIOUS
  <2>1. ASSUME NEW i \in DOMAIN plan, plan[i] \in firm
        PROVE  Takes(usage, Quota(plan[i]), SM(plan[i]), required[plan[i]])
    <3>1. plan[i] \in Configs /\ required[plan[i]] \in Int
      BY DEF IInv, FieldTypes
    <3> QED
      BY <2>1, <3>1, RoomIsPromise DEF PromiseInv
  <2>2. ASSUME scaler.pc = "insert", scaler.cfg \in firm
        PROVE  Takes(usage, Quota(scaler.cfg), SM(scaler.cfg), scaler.left)
    <3>1. scaler.cfg \in Configs /\ scaler.left \in Int
      BY <2>2 DEF IInv, FieldTypes
    <3> QED
      BY <2>2, <3>1, RoomIsPromise DEF PromiseInv
  <2> QED
    BY <2>1, <2>2 DEF PromiseKept, PromiseInv
<1> QED
  BY <1>1, <1>2, <1>3, Inductive, BooksInductive, PTL DEF Spec
=============================================================================
