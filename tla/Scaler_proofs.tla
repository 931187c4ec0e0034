--------------------------- MODULE Scaler_proofs ----------------------------
(***************************************************************************)
(* The scaling of one function, for any rates, any number of               *)
(* configurations and any number of replicas: how patient it is, what its  *)
(* plan keeps, what its books say and what its FaSTPods run on.            *)
(***************************************************************************)
EXTENDS Scaler, SumTheorems, SequenceTheorems

USE DEF Job

-----------------------------------------------------------------------------
(* Sequences, and the largest and the smallest of a few numbers.           *)

(* Appending an element adds it to the range.                              *)
LEMMA RangeAppend ==
  ASSUME NEW S, NEW s \in Seq(S), NEW x \in S
  PROVE  Append(s, x) \in Seq(S) /\ Range(Append(s, x)) = Range(s) \cup {x}
<1>1. /\ Append(s, x) \in Seq(S) /\ Len(Append(s, x)) = Len(s) + 1
      /\ \A i \in 1..Len(s) : Append(s, x)[i] = s[i]
      /\ Append(s, x)[Len(s) + 1] = x
  BY AppendProperties
<1>2. DOMAIN Append(s, x) = 1..(Len(s) + 1) /\ DOMAIN s = 1..Len(s) /\ Len(s) \in Nat
  BY <1>1
<1> QED
  BY <1>1, <1>2 DEF Range

(* A non-empty sequence is its head and its tail.                          *)
LEMMA RangeTail ==
  ASSUME NEW S, NEW s \in Seq(S), s # << >>
  PROVE  /\ Head(s) \in S /\ Tail(s) \in Seq(S)
         /\ Range(s) = Range(Tail(s)) \cup {Head(s)}
<1>1. /\ Head(s) \in S /\ Tail(s) \in Seq(S) /\ Len(Tail(s)) = Len(s) - 1
      /\ \A i \in 1..Len(Tail(s)) : Tail(s)[i] = s[i + 1]
  BY HeadTailProperties
<1>2. DOMAIN s = 1..Len(s) /\ DOMAIN Tail(s) = 1..(Len(s) - 1) /\ Len(s) \in Nat \ {0}
  BY <1>1
<1>3. Head(s) = s[1]
  OBVIOUS
<1>4. Range(Tail(s)) \cup {Head(s)} \subseteq Range(s)
  BY <1>1, <1>2, <1>3 DEF Range
<1>5. \A i \in 1..Len(s) : s[i] \in Range(Tail(s)) \cup {Head(s)}
  <2> SUFFICES ASSUME NEW i \in 1..Len(s), i # 1 PROVE s[i] \in Range(Tail(s))
    BY <1>3
  <2>1. i - 1 \in 1..(Len(s) - 1) /\ (i - 1) + 1 = i
    BY <1>2
  <2>2. Tail(s)[i - 1] = s[i]
    BY <1>1, <2>1
  <2> QED
    BY <1>2, <2>1, <2>2 DEF Range
<1> QED
  BY <1>1, <1>2, <1>4, <1>5 DEF Range

(* The empty sequence has no elements, and no other has none.              *)
LEMMA RangeEmpty ==
  ASSUME NEW S, NEW s \in Seq(S)
  PROVE  (Range(s) = {}) <=> (s = << >>)
BY DEF Range

(* An element of the range is an element.                                  *)
LEMMA RangeIn ==
  ASSUME NEW S, NEW s \in Seq(S)
  PROVE  Range(s) \subseteq S
BY DEF Range

(* The tail of a sequence without repetitions has none, and not the head.  *)
LEMMA DistinctTail ==
  ASSUME NEW S, NEW s \in Seq(S), s # << >>, IsInjective(s)
  PROVE  IsInjective(Tail(s)) /\ Head(s) \notin Range(Tail(s))
<1>1. /\ Tail(s) \in Seq(S) /\ Len(Tail(s)) = Len(s) - 1
      /\ \A i \in 1..Len(Tail(s)) : Tail(s)[i] = s[i + 1]
  BY HeadTailProperties
<1>2. /\ DOMAIN s = 1..Len(s) /\ DOMAIN Tail(s) = 1..(Len(s) - 1) /\ Len(s) \in Nat \ {0}
      /\ Head(s) = s[1]
  BY <1>1
<1>3. \A i, j \in 1..Len(s) : s[i] = s[j] => i = j
  BY <1>2 DEF IsInjective
<1>4. \A i \in 1..(Len(s) - 1) : i + 1 \in 1..Len(s) /\ i + 1 # 1
  BY <1>2
<1>5. IsInjective(Tail(s))
  BY <1>1, <1>2, <1>3, <1>4 DEF IsInjective
<1>6. Head(s) \notin Range(Tail(s))
  BY <1>1, <1>2, <1>3, <1>4 DEF Range
<1> QED
  BY <1>5, <1>6

(* The larger of two numbers.                                              *)
LEMMA MaxOfTwo ==
  ASSUME NEW a \in Int, NEW b \in Int
  PROVE  Max({a, b}) = IF a >= b THEN a ELSE b
<1>1. \E x \in {a, b} : \A y \in {a, b} : x >= y
  OBVIOUS
<1>2. Max({a, b}) \in {a, b} /\ \A y \in {a, b} : Max({a, b}) >= y
  BY <1>1 DEF Max
<1> QED
  BY <1>2

(* The smaller of two numbers.                                             *)
LEMMA MinOfTwo ==
  ASSUME NEW a \in Int, NEW b \in Int
  PROVE  Min({a, b}) = IF a <= b THEN a ELSE b
<1>1. \E x \in {a, b} : \A y \in {a, b} : x <= y
  OBVIOUS
<1>2. Min({a, b}) \in {a, b} /\ \A y \in {a, b} : Min({a, b}) <= y
  BY <1>1 DEF Min
<1> QED
  BY <1>2

(* The largest of three numbers is at least each of them.                  *)
LEMMA MaxOfThree ==
  ASSUME NEW a \in Int, NEW b \in Int, NEW c \in Int
  PROVE  /\ Max({a, b, c}) \in Int
         /\ Max({a, b, c}) >= a /\ Max({a, b, c}) >= b /\ Max({a, b, c}) >= c
<1>1. \E x \in {a, b, c} : \A y \in {a, b, c} : x >= y
  OBVIOUS
<1>2. Max({a, b, c}) \in {a, b, c} /\ \A y \in {a, b, c} : Max({a, b, c}) >= y
  BY <1>1 DEF Max
<1> QED
  BY <1>2

-----------------------------------------------------------------------------
(* The inductive invariant.                                                *)

(* What the configurations were granted, as a rate.                        *)
AllocRate(cf) == [c \in DOMAIN cf |-> cf[c].qps * cf[c].replica]

(* What they serve once the plan of removals rem and updates upd is done,  *)
(* s being the slots they hold.                                            *)
KeptRates(cf, s, rem, upd) ==
  [c \in DOMAIN cf |->
     cf[c].qps * (IF c \in Range(rem) THEN 0
                  ELSE IF \E u \in Range(upd) : u.cfg = c
                       THEN (CHOOSE u \in Range(upd) : u.cfg = c).newReplica
                       ELSE s[c])]

Removals == Range(job.toRemove) \cup Range(job.removed)

Updates == Range(job.toUpdate) \cup Range(job.updated)

(* The counter of low checks is the number of them in a row.               *)
Patience ==
  /\ last = "low" => count = lowBefore + 1
  /\ last # "low" => count = 0
  /\ ScalesDownPatiently

(* A configuration nobody reduced holds a slot for each of its replicas.   *)
Granted ==
  /\ Range(job.new) \subseteq DOMAIN config \ live
  /\ job.pc = "pods" => job.new # << >>
  /\ \A c \in Range(job.new) : cuts[c] = 0
  /\ \A c \in live \cup Range(job.new) : cuts[c] = 0 => slots[c] = config[c].replica
  /\ \A c \in Configs \ DOMAIN config : cuts[c] = 0 /\ pods[c] = 0

(* A plan treats recorded configurations, each of them once.               *)
Planned ==
  /\ Removals \subseteq live
  /\ \A u \in Updates : /\ u.cfg \in live \ Removals
                        /\ u.newReplica < config[u.cfg].replica
                        /\ u.reducedDelta >= 0
  /\ \A u, v \in Updates : u.cfg = v.cfg => u = v
  /\ job.pc \in {"idle", "up", "pods"} => Removals = {} /\ Updates = {}

(* A FaSTPod shrinks before its slots are given back.                      *)
Backed ==
  /\ PodsBacked
  /\ \A c \in Range(job.removed) : pods[c] = 0
  /\ \A u \in Range(job.updated) : pods[u.cfg] <= u.newReplica

(* currentRPSCapacity never exceeds what was granted, although ReduceConfig *)
(* books the wrong rate, and is that rate before the first reduction.      *)
Books ==
  /\ capacity <= SumFunctionOnSet(AllocRate(config), live)
  /\ (\A c \in Configs : cuts[c] = 0) => capacity = SumFunctionOnSet(AllocRate(config), live)

(* The loop of scaleDownFaSTFunc.  Its running total is right until the    *)
(* first reduction; then it is smaller than every configuration to come,   *)
(* so that none of these is removed and each that is reduced keeps enough. *)
Planning ==
  job.pc = "plan" =>
    /\ job.removed = << >> /\ job.updated = << >> /\ job.rps >= MinRps
    /\ IsInjective(job.todo)
    /\ Range(job.todo) \subseteq live \ Removals
    /\ \A u \in Updates : u.cfg \notin Range(job.todo)
    /\ \A i \in 2..Len(job.todo) :
         AllocRate(config)[job.todo[i - 1]] <= AllocRate(config)[job.todo[i]]
    /\ job.toUpdate = << >> =>
         /\ job.rest = SumFunctionOnSet(AllocRate(config), live \ Range(job.toRemove))
         /\ job.rest >= job.rps
    /\ job.toUpdate # << >> /\ job.todo # << >> =>
         job.rest < AllocRate(config)[Head(job.todo)]
    /\ (\A c \in live : cuts[c] = 0) =>
         SumFunctionOnSet(KeptRates(config, slots, job.toRemove, job.toUpdate), live) >= job.rps

(* Some configuration outlives the plan.                                   *)
Survivor ==
  MinRps > 0 /\ job.pc \in {"plan", "drop", "resize"} => live \ Removals # {}

IInv == TypeOK /\ Patience /\ Granted /\ Planned /\ Backed /\ Books /\ Planning /\ Survivor

-----------------------------------------------------------------------------
(* What the types say of the configurations.                               *)
LEMMA ConfigFacts ==
  ASSUME TypeOK
  PROVE  /\ DOMAIN config = 1..Len(config) /\ Len(config) \in Nat
         /\ DOMAIN config \subseteq Configs
         /\ \A S \in SUBSET DOMAIN config : IsFiniteSet(S)
         /\ \A c \in DOMAIN config : /\ config[c].qps \in Nat \ {0} /\ config[c].qps \in Qps
                                     /\ config[c].replica \in Nat \ {0}
                                     /\ config[c].replica \in 1..MaxReplicas
                                     /\ AllocRate(config)[c] = config[c].qps * config[c].replica
                                     /\ AllocRate(config)[c] \in Nat
<1> DEFINE R == [qps : Qps, replica : 1..MaxReplicas]
<1>1. /\ config \in Seq(R) /\ Len(config) <= MaxConfigs
      /\ Len(config) \in Nat /\ DOMAIN config = 1..Len(config)
  BY DEF TypeOK
<1>2. DOMAIN config \subseteq Configs
  BY <1>1, BoundAssumption DEF Configs
<1>3. \A S \in SUBSET DOMAIN config : IsFiniteSet(S)
  <2>1. IsFiniteSet(1..Len(config))
    BY <1>1, FS_Interval
  <2> QED
    BY <1>1, <2>1, FS_Subset
<1>4. ASSUME NEW c \in DOMAIN config
      PROVE  /\ config[c].qps \in Nat \ {0} /\ config[c].qps \in Qps
             /\ config[c].replica \in Nat \ {0} /\ config[c].replica \in 1..MaxReplicas
             /\ AllocRate(config)[c] = config[c].qps * config[c].replica
             /\ AllocRate(config)[c] \in Nat
  <2>1. config[c] \in R
    <3> HIDE DEF R
    <3> QED
      BY <1>1
  <2> DEFINE r == config[c]
  <2>0. r \in [qps : Qps, replica : 1..MaxReplicas]
    BY <2>1
  <2>9. r.qps \in Qps /\ r.replica \in 1..MaxReplicas
    <3> HIDE DEF r
    <3> QED
      BY <2>0
  <2>2. /\ config[c].qps \in Nat \ {0} /\ config[c].qps \in Qps
        /\ config[c].replica \in Nat \ {0} /\ config[c].replica \in 1..MaxReplicas
    <3> HIDE DEF r
    <3>1. r.qps \in Nat \ {0}
      BY <2>9, QpsAssumption
    <3>2. r.replica \in Nat \ {0}
      BY <2>9, BoundAssumption
    <3> QED
      BY <2>9, <3>1, <3>2 DEF r
  <2>3. AllocRate(config)[c] = config[c].qps * config[c].replica
    BY DEF AllocRate
  <2> QED
    BY <2>2, <2>3
<1> QED
  BY <1>1, <1>2, <1>3, <1>4

(* The sum the code takes of AllocatedRPS.                                 *)
LEMMA AllocatedIs ==
  ASSUME TypeOK, NEW S \in SUBSET DOMAIN config
  PROVE  /\ SumOver(AllocatedRPS, S) = SumFunctionOnSet(AllocRate(config), S)
         /\ SumFunctionOnSet(AllocRate(config), S) \in Nat
<1> DEFINE f == [c \in S |-> AllocatedRPS(c)]
           g == AllocRate(config)
<1>1. SumOver(AllocatedRPS, S) = SumFunctionOnSet(f, S)
  BY DEF SumOver, SumFunction
<1>2. \A c \in S : f[c] = g[c]
  BY DEF AllocRate, AllocatedRPS
<1>3. IsFiniteSet(S) /\ \A c \in S : g[c] \in Nat
  BY ConfigFacts
<1> HIDE DEF f, g
<1>4. SumFunctionOnSet(f, S) = SumFunctionOnSet(g, S)
  BY <1>2, <1>3, SumEqual
<1>5. SumFunctionOnSet(g, S) \in Nat
  BY <1>3, SumNat
<1> QED
  BY <1>1, <1>4, <1>5 DEF g

(* The fields of job.                                                      *)
LEMMA JobFields ==
  ASSUME TypeOK
  PROVE  /\ job.pc \in {"idle", "up", "pods", "plan", "drop", "resize"}
         /\ job.rps \in Int /\ job.rest \in Int
         /\ job.new \in Seq(Configs) /\ job.todo \in Seq(Configs)
         /\ job.toRemove \in Seq(Configs) /\ job.toUpdate \in Seq(Update)
         /\ job.removed \in Seq(Configs) /\ job.updated \in Seq(Update)
         /\ Range(job.toUpdate) \subseteq Update /\ Range(job.updated) \subseteq Update
         /\ Updates \subseteq Update
         /\ Range(job.new) \subseteq Configs
BY RangeIn DEF TypeOK, Updates

(* While no plan is being made, nothing is said of one.                    *)
LEMMA NoPlan ==
  ASSUME job'.toRemove = << >>, job'.toUpdate = << >>, job'.removed = << >>, job'.updated = << >>,
         job'.pc \in {"idle", "up", "pods"}
  PROVE  /\ Planned' /\ Planning' /\ Survivor'
         /\ Range(job'.removed) = {} /\ Range(job'.updated) = {}
<1>1. Range(<< >>) = {}
  BY DEF Range
<1>2. Removals' = {} /\ Updates' = {}
  BY <1>1 DEF Removals, Updates
<1>3. Planned'
  BY <1>2 DEF Planned
<1>4. Planning' /\ Survivor'
  BY DEF Planning, Survivor
<1> QED
  BY <1>1, <1>3, <1>4

(* An idle job is well typed.                                              *)
LEMMA IdleType ==
  /\ Idle \in Job
  /\ Idle.pc = "idle" /\ Idle.new = << >> /\ Idle.toRemove = << >> /\ Idle.toUpdate = << >>
  /\ Idle.removed = << >> /\ Idle.updated = << >> /\ Idle.todo = << >>
BY DEF Idle

(* The first state.                                                        *)
LEMMA InitHolds == Init => IInv
<1> SUFFICES ASSUME Init PROVE IInv
  OBVIOUS
<1> USE DEF Init
<1>0. /\ config = << >> /\ Len(config) = 0 /\ DOMAIN config = {}
      /\ config \in Seq([qps : Qps, replica : 1..MaxReplicas])
  OBVIOUS
<1>1. Range(<< >>) = {}
  BY DEF Range
<1>2. TypeOK
  <2>1. /\ slots \in [Configs -> 0..MaxReplicas] /\ pods \in [Configs -> 0..MaxReplicas]
        /\ cuts \in [Configs -> 0..2] /\ count \in 0..(ScaleDownConsecutiveRequired - 1)
        /\ Len(config) <= MaxConfigs
    BY <1>0, BoundAssumption DEF ScaleDownConsecutiveRequired
  <2>0. known \in BOOLEAN
    BY Zenon
  <2>2. last \in Verdicts /\ lowBefore \in 0..2 /\ capacity \in Int
    BY DEF Verdicts
  <2>3. live \subseteq DOMAIN config
    OBVIOUS
  <2>4. job = Idle
    OBVIOUS
  <2> QED
    BY <1>0, <2>0, <2>1, <2>2, <2>3, <2>4, IdleType DEF TypeOK
<1>3. Patience
  BY DEF Patience, ScalesDownPatiently
<1>4. Granted
  BY <1>0, <1>1, IdleType DEF Granted
<1>5. Removals = {} /\ Updates = {}
  BY <1>1, IdleType DEF Removals, Updates
<1>6. Planned /\ Planning /\ Survivor
  BY <1>5, IdleType DEF Planned, Planning, Survivor
<1>7. Backed
  BY <1>1, IdleType DEF Backed, PodsBacked
<1>8. Books
  BY SumEmpty DEF Books
<1> QED
  BY <1>2, <1>3, <1>4, <1>6, <1>7, <1>8 DEF IInv

-----------------------------------------------------------------------------
(* The steps of a scale-up.                                                *)

(* The number of replicas asked of a GPU.                                  *)
LEMMA RequiredIs ==
  ASSUME TypeOK, NEW qps \in Qps, NEW max \in 1..MaxReplicas
  PROVE  RequiredReplica(qps, max) \in Int /\ RequiredReplica(qps, max) <= max
<1>1. qps \in Nat \ {0} /\ job.rest \in Int /\ max \in Int
  BY QpsAssumption, BoundAssumption, JobFields
<1>2. job.rest + qps - 1 \in Int
  BY <1>1
<1> DEFINE a == job.rest + qps - 1
<1>3. a \div qps \in Int
  <2> HIDE DEF a
  <2> QED
    BY <1>1, <1>2, DivMod DEF a
<1>4. CeilDiv(job.rest, qps) \in Int
  BY <1>3 DEF CeilDiv
<1> QED
  BY <1>1, <1>4, MinOfTwo DEF RequiredReplica

(* A GPU is asked for a configuration: it is new, and gets its slots.      *)
LEMMA AllocateKeeps ==
  ASSUME IInv, NEW qps \in Qps, NEW max \in 1..MaxReplicas, NEW granted \in 0..max,
         Allocate(qps, max, granted)
  PROVE  IInv'
<1> DEFINE n == Len(config) + 1
           r == [qps |-> qps, replica |-> granted]
           required == RequiredReplica(qps, max)
<1>0. /\ TypeOK /\ Patience /\ Granted /\ Planned /\ Backed /\ Books /\ Planning /\ Survivor
  BY DEF IInv
<1>1. required \in Int /\ qps \in Nat
  BY <1>0, RequiredIs, QpsAssumption
<1>2. /\ job.pc = "up"
      /\ job' = [job EXCEPT !.rest = @ - qps * required,
                            !.new = IF granted > 0 THEN Append(@, n) ELSE @]
      /\ \/ granted = 0 /\ UNCHANGED <<config, slots>>
         \/ /\ granted > 0 /\ n \in Configs
            /\ config' = Append(config, r)
            /\ slots' = [slots EXCEPT ![n] = granted]
      /\ UNCHANGED <<known, live, capacity, count, pods, last, lowBefore, cuts>>
  BY DEF Allocate
<1> HIDE DEF required
<1>3. qps * required \in Int
  BY <1>1
<1>4. /\ job'.pc = "up" /\ job'.rest = job.rest - qps * required /\ job'.rps = job.rps
      /\ job'.todo = job.todo /\ job'.toRemove = job.toRemove /\ job'.toUpdate = job.toUpdate
      /\ job'.removed = job.removed /\ job'.updated = job.updated
      /\ job'.new = IF granted > 0 THEN Append(job.new, n) ELSE job.new
  BY <1>0, <1>2 DEF TypeOK
<1>5. /\ Range(job.new) \subseteq DOMAIN config /\ job.new \in Seq(Configs)
      /\ DOMAIN config = 1..Len(config) /\ Len(config) \in Nat
      /\ n \notin DOMAIN config
  BY <1>0, JobFields, ConfigFacts DEF Granted
<1>6. /\ DOMAIN config \subseteq DOMAIN config' /\ \A c \in DOMAIN config : config'[c] = config[c]
      /\ granted > 0 => /\ DOMAIN config' = DOMAIN config \cup {n}
                        /\ config'[n].replica = granted
                        /\ config' \in Seq([qps : Qps, replica : 1..MaxReplicas])
                        /\ Len(config') = n
  <2>1. CASE granted = 0
    BY <1>2, <2>1
  <2>2. CASE granted > 0
    <3> DEFINE R == [qps : Qps, replica : 1..MaxReplicas]
    <3>1. r \in R
      BY <2>2, BoundAssumption
    <3>2. config \in Seq(R)
      BY <1>0 DEF TypeOK
    <3>3. config' = Append(config, r)
      BY <1>2, <2>2
    <3> HIDE DEF R, r
    <3>4. /\ config' \in Seq(R) /\ Len(config') = n
          /\ \A i \in 1..Len(config) : config'[i] = config[i]
          /\ config'[n] = r
      BY <3>1, <3>2, <3>3, AppendProperties
    <3>5. DOMAIN config' = 1..n
      BY <3>4
    <3> QED
      BY <1>5, <3>4, <3>5 DEF R, r
  <2> QED
    BY <2>1, <2>2
<1>7. granted > 0 => Range(job'.new) = Range(job.new) \cup {n} /\ job'.new \in Seq(Configs)
  <2> SUFFICES ASSUME granted > 0
               PROVE  Range(job'.new) = Range(job.new) \cup {n} /\ job'.new \in Seq(Configs)
    OBVIOUS
  <2>1. n \in Configs /\ job'.new = Append(job.new, n)
    BY <1>2, <1>4
  <2> HIDE DEF n
  <2> QED
    BY <1>5, <2>1, RangeAppend
<1>8. \A c \in Configs : slots'[c] = IF granted > 0 /\ c = n THEN granted ELSE slots[c]
  BY SMTT(30), <1>0, <1>2 DEF TypeOK
<1>9. n \in Configs \/ granted = 0
  BY <1>2
<1>10. /\ live \subseteq DOMAIN config /\ live' = live
       /\ DOMAIN config \subseteq Configs
  BY <1>0, <1>2, ConfigFacts DEF TypeOK
<1> HIDE DEF n
<1>t. TypeOK'
  <2>0. granted \in 0..MaxReplicas /\ slots \in [Configs -> 0..MaxReplicas]
    BY <1>0, BoundAssumption DEF TypeOK
  <2>1. slots' \in [Configs -> 0..MaxReplicas]
    BY <1>2, <2>0
  <2>2. /\ config' \in Seq([qps : Qps, replica : 1..MaxReplicas]) /\ Len(config') <= MaxConfigs
    <3>1. CASE granted = 0
      BY <1>0, <1>2, <3>1 DEF TypeOK
    <3>2. CASE granted > 0
      BY <1>6, <1>9, <3>2 DEF Configs
    <3> QED
      BY <3>1, <3>2
  <2>3. live' \subseteq DOMAIN config'
    BY <1>6, <1>10
  <2>4. job' \in Job
    <3>1. job'.new \in Seq(Configs)
      BY <1>4, <1>5, <1>7
    <3>2. job' = [job EXCEPT !.rest = job.rest - qps * required, !.new = job'.new]
      BY <1>0, <1>2 DEF TypeOK
    <3>3. job.rest - qps * required \in Int
      BY <1>0, <1>3, JobFields
    <3> QED
      BY <1>0, <3>1, <3>2, <3>3 DEF TypeOK
  <2> QED
    BY <1>0, <1>2, <2>1, <2>2, <2>3, <2>4 DEF TypeOK
<1>p. Patience'
  BY <1>0, <1>2 DEF Patience, ScalesDownPatiently
<1>g. Granted'
  <2>1. CASE granted = 0
    <3>1. job'.new = job.new /\ UNCHANGED <<config, slots>>
      BY <1>2, <1>4, <2>1
    <3> QED
      BY <1>0, <1>2, <1>4, <3>1 DEF Granted
  <2>2. CASE granted > 0
    <3>1. /\ Range(job'.new) = Range(job.new) \cup {n}
          /\ DOMAIN config' = DOMAIN config \cup {n} /\ config'[n].replica = granted
          /\ n \in Configs /\ slots'[n] = granted
      BY <1>6, <1>7, <1>8, <1>9, <2>2
    <3>2. cuts[n] = 0 /\ pods[n] = 0 /\ n \notin live
      BY <1>0, <1>5, <1>10, <3>1 DEF Granted
    <3>3. \A c \in live \cup Range(job.new) : slots'[c] = slots[c] /\ config'[c] = config[c]
      BY <1>5, <1>6, <1>8, <1>10
    <3> QED
      BY <1>0, <1>2, <1>4, <1>6, <3>1, <3>2, <3>3 DEF Granted
  <2> QED
    BY <2>1, <2>2
<1>l. Planned'
  <2>1. Updates' = Updates /\ Removals' = Removals
    BY <1>4 DEF Updates, Removals
  <2> QED
    BY <1>0, <1>2, <1>6, <1>10, <2>1 DEF Planned
<1>b. Backed'
  <2>1. slots \in [Configs -> 0..MaxReplicas] /\ pods \in [Configs -> 0..MaxReplicas]
    BY <1>0 DEF TypeOK
  <2>2. \A c \in Configs : \/ slots'[c] = slots[c]
                           \/ pods[c] = 0 /\ slots'[c] >= 0
    <3> SUFFICES ASSUME NEW c \in Configs, c = n, granted > 0
                 PROVE  pods[c] = 0 /\ slots'[c] >= 0
      BY <1>8
    <3> QED
      BY <1>0, <1>5, <1>8 DEF Granted
  <2>3. PodsBacked'
    <3> SUFFICES ASSUME NEW c \in Configs, cuts[c] = 0 \/ (cuts[c] = 1 /\ ~BeingReduced(c))
                 PROVE  pods[c] <= slots'[c]
      BY <1>2, <1>4 DEF PodsBacked, BeingReduced
    <3>1. pods[c] <= slots[c] /\ pods[c] \in Nat /\ slots[c] \in Nat
      BY <1>0, <2>1, BoundAssumption DEF Backed, PodsBacked
    <3> QED
      BY <2>2, <3>1
  <2> QED
    BY <1>0, <1>2, <1>4, <2>3 DEF Backed
<1>k. Books'
  <2> DEFINE f == AllocRate(config)
             g == AllocRate(config')
  <2>1. \A c \in live : f[c] = g[c]
    BY <1>6, <1>10 DEF AllocRate
  <2>2. IsFiniteSet(live)
    BY <1>0, <1>10, ConfigFacts
  <2>3. SumFunctionOnSet(f, live) = SumFunctionOnSet(g, live)
    <3> HIDE DEF f, g
    <3> QED
      BY <2>1, <2>2, SumEqual
  <2> QED
    BY <1>0, <1>2, <2>3 DEF Books
<1>n. Planning' /\ Survivor'
  BY <1>4 DEF Planning, Survivor
<1> QED
  BY <1>t, <1>p, <1>g, <1>l, <1>b, <1>k, <1>n DEF IInv

(* The allocation ends, with new configurations or without.                *)
LEMMA EndAllocateKeeps ==
  ASSUME IInv, EndAllocate
  PROVE  IInv'
<1>0. /\ TypeOK /\ Patience /\ Granted /\ Planned /\ Backed /\ Books /\ Planning /\ Survivor
  BY DEF IInv
<1>1. /\ job.pc = "up"
      /\ job' = IF job.new = << >> THEN Idle ELSE [job EXCEPT !.pc = "pods"]
      /\ UNCHANGED <<known, config, live, capacity, count, slots, pods, last, lowBefore, cuts>>
  BY DEF EndAllocate
<1>2. Patience' /\ Books'
  BY <1>0, <1>1 DEF Patience, ScalesDownPatiently, Books
<1>3. CASE job.new = << >>
  <2>1. job' = Idle
    BY <1>1, <1>3
  <2>2. TypeOK'
    BY <1>0, <1>1, <2>1, IdleType DEF TypeOK
  <2>3. Range(job'.new) = {}
    BY <2>1, IdleType DEF Range
  <2>4. Granted'
    BY <1>0, <1>1, <2>1, <2>3, IdleType DEF Granted
  <2>5. Planned' /\ Planning' /\ Survivor' /\ Range(job'.removed) = {} /\ Range(job'.updated) = {}
    BY <2>1, IdleType, NoPlan
  <2>6. Range(job.updated) = {}
    BY <1>0, <1>1 DEF Planned, Updates
  <2>7. Backed'
    BY <1>0, <1>1, <2>5, <2>6 DEF Backed, PodsBacked, BeingReduced
  <2> QED
    BY <1>2, <2>2, <2>4, <2>5, <2>7 DEF IInv
<1>4. CASE job.new # << >>
  <2>1. /\ job'.pc = "pods" /\ job'.new = job.new
        /\ job'.toRemove = job.toRemove /\ job'.toUpdate = job.toUpdate
        /\ job'.removed = job.removed /\ job'.updated = job.updated
        /\ job' = [job EXCEPT !.pc = "pods"]
    BY <1>0, <1>1, <1>4 DEF TypeOK
  <2>2. TypeOK'
    BY <1>0, <1>1, <2>1 DEF TypeOK
  <2>3. Granted'
    BY <1>0, <1>1, <1>4, <2>1 DEF Granted
  <2>4. Updates' = Updates /\ Removals' = Removals
    BY <2>1 DEF Updates, Removals
  <2>5. Planned'
    BY <1>0, <1>1, <2>4 DEF Planned
  <2>6. Backed'
    BY <1>0, <1>1, <2>1 DEF Backed, PodsBacked, BeingReduced
  <2>7. Planning' /\ Survivor'
    BY <2>1 DEF Planning, Survivor
  <2> QED
    BY <1>2, <2>2, <2>3, <2>5, <2>6, <2>7 DEF IInv
<1> QED
  BY <1>3, <1>4

(* The first FaSTPod exists: the new configurations are recorded.          *)
LEMMA AddFastPodsKeeps ==
  ASSUME IInv, AddFastPods
  PROVE  IInv'
<1>0. /\ TypeOK /\ Patience /\ Granted /\ Planned /\ Backed /\ Books /\ Planning /\ Survivor
  BY DEF IInv
<1> DEFINE h == Head(job.new)
           N == Range(job.new)
           f == AllocRate(config)
<1>1. /\ job.pc = "pods"
      /\ pods' = [pods EXCEPT ![h] = config[h].replica]
      /\ live' = live \cup N
      /\ capacity' = capacity + SumOver(AllocatedRPS, N)
      /\ job' = Idle
      /\ UNCHANGED <<known, config, count, slots, last, lowBefore, cuts>>
  BY DEF AddFastPods
<1>2. h \in N /\ N \subseteq DOMAIN config \ live /\ N \subseteq Configs
  <2>1. job.new \in Seq(Configs) /\ job.new # << >>
    BY <1>0, <1>1, JobFields DEF Granted
  <2> QED
    BY <1>0, <2>1, RangeTail, RangeIn DEF Granted
<1>3. live \subseteq DOMAIN config /\ config[h].replica \in 1..MaxReplicas
  BY <1>0, <1>2, ConfigFacts DEF TypeOK
<1>4. /\ SumOver(AllocatedRPS, N) = SumFunctionOnSet(f, N)
      /\ SumFunctionOnSet(f, N) \in Nat /\ SumFunctionOnSet(f, live) \in Nat
  BY <1>0, <1>2, <1>3, AllocatedIs
<1>5. SumFunctionOnSet(f, live \cup N) = SumFunctionOnSet(f, live) + SumFunctionOnSet(f, N)
  <2>1. /\ IsFiniteSet(live) /\ IsFiniteSet(N) /\ live \cap N = {}
        /\ \A c \in live \cup N : f[c] \in Int
    BY <1>0, <1>2, <1>3, ConfigFacts
  <2> HIDE DEF f, N
  <2> QED
    BY <2>1, SumUnion
<1>6. h \in Configs /\ config[h].replica \in 0..MaxReplicas /\ config[h].replica \in Nat
  BY <1>2, <1>3, BoundAssumption
<1> HIDE DEF f, h, N
<1>7. pods \in [Configs -> 0..MaxReplicas] /\ capacity \in Int
  BY <1>0 DEF TypeOK
<1>t. TypeOK'
  <2>1. pods' \in [Configs -> 0..MaxReplicas]
    BY <1>1, <1>6, <1>7
  <2>2. live' \subseteq DOMAIN config' /\ capacity' \in Int
    BY <1>1, <1>2, <1>3, <1>4, <1>7
  <2> QED
    BY <1>0, <1>1, <2>1, <2>2, IdleType DEF TypeOK
<1>p. Patience'
  BY <1>0, <1>1 DEF Patience, ScalesDownPatiently
<1>g. Granted'
  <2>1. Range(job'.new) = {} /\ job'.pc = "idle"
    BY <1>1, IdleType DEF Range
  <2>2. \A c \in Configs \ DOMAIN config : pods'[c] = 0
    BY <1>0, <1>1, <1>2, <1>7 DEF Granted
  <2>3. \A c \in live' : cuts[c] = 0 => slots[c] = config[c].replica
    BY <1>0, <1>1 DEF Granted, N
  <2> QED
    BY <1>0, <1>1, <2>1, <2>2, <2>3 DEF Granted
<1>l. Planned' /\ Planning' /\ Survivor' /\ Range(job'.removed) = {} /\ Range(job'.updated) = {}
  BY <1>1, IdleType, NoPlan
<1>b. Backed'
  <2>1. slots[h] = config[h].replica /\ cuts[h] = 0
    BY <1>0, <1>2 DEF Granted, N
  <2>2. Range(job.updated) = {}
    BY <1>0, <1>1 DEF Planned, Updates
  <2>3. \A c \in Configs : cuts[c] = 0 \/ cuts[c] = 1 => pods[c] <= slots[c]
    BY <1>0, <2>2 DEF Backed, PodsBacked, BeingReduced
  <2>4. \A c \in Configs : cuts'[c] = 0 \/ cuts'[c] = 1 => pods'[c] <= slots'[c]
    BY <1>1, <1>6, <1>7, <2>1, <2>3
  <2> QED
    BY <1>l, <2>4 DEF Backed, PodsBacked
<1>k. Books'
  <2>1. (capacity' <= SumFunctionOnSet(f, live'))
    BY SMTT(30), <1>0, <1>1, <1>4, <1>5 DEF Books, f, TypeOK
  <2>2. (\A c \in Configs : cuts[c] = 0) => capacity' = SumFunctionOnSet(f, live')
    BY <1>0, <1>1, <1>4, <1>5 DEF Books, f, TypeOK
  <2> QED
    BY <1>1, <2>1, <2>2 DEF Books, f
<1> QED
  BY <1>t, <1>p, <1>g, <1>l, <1>b, <1>k DEF IInv

(* No FaSTPod was created: the new configurations are forgotten.           *)
LEMMA AddFastPodsFailsKeeps ==
  ASSUME IInv, AddFastPodsFails
  PROVE  IInv'
<1>0. /\ TypeOK /\ Patience /\ Granted /\ Planned /\ Backed /\ Books /\ Planning /\ Survivor
  BY DEF IInv
<1>1. /\ job.pc = "pods" /\ job' = Idle
      /\ UNCHANGED <<known, config, live, capacity, count, slots, pods, last, lowBefore, cuts>>
  BY DEF AddFastPodsFails
<1>2. Patience' /\ Books'
  BY <1>0, <1>1 DEF Patience, ScalesDownPatiently, Books
<1>3. TypeOK'
  BY <1>0, <1>1, IdleType DEF TypeOK
<1>4. Range(job'.new) = {}
  BY <1>1, IdleType DEF Range
<1>5. Granted'
  BY <1>0, <1>1, <1>4, IdleType DEF Granted
<1>6. Planned' /\ Planning' /\ Survivor' /\ Range(job'.removed) = {} /\ Range(job'.updated) = {}
  BY <1>1, IdleType, NoPlan
<1>7. Range(job.updated) = {}
  BY <1>0, <1>1 DEF Planned, Updates
<1>8. Backed'
  BY <1>0, <1>1, <1>6, <1>7 DEF Backed, PodsBacked, BeingReduced
<1> QED
  BY <1>2, <1>3, <1>5, <1>6, <1>8 DEF IInv

-----------------------------------------------------------------------------
(* A check.                                                                *)

(* The predicted rate is at least MinRps, and the demand at least that.    *)
LEMMA DemandIs ==
  ASSUME NEW rps10s \in Rates, NEW earlier \in Rates
  PROVE  LET predicted == PredictedRate(rps10s, earlier)
             demand    == EstimatedFutureDemand(predicted)
         IN  /\ predicted \in Nat /\ predicted >= MinRps
             /\ demand \in Int /\ demand >= predicted
<1> DEFINE predicted == PredictedRate(rps10s, earlier)
<1>1. rps10s \in Int /\ earlier \in Int /\ MinRps \in Nat
  BY RatesAssumption
<1>2. rps10s + (rps10s - earlier) \in Int
  BY <1>1
<1>3. predicted \in Int /\ predicted >= MinRps
  <2> DEFINE b == rps10s + (rps10s - earlier)
  <2>1. predicted = Max({rps10s, b, MinRps}) /\ b \in Int
    BY <1>2 DEF PredictedRate
  <2> HIDE DEF b, predicted
  <2>2. MinRps \in Int
    BY <1>1
  <2>3. Max({rps10s, b, MinRps}) \in Int /\ Max({rps10s, b, MinRps}) >= MinRps
    BY <1>1, <2>1, <2>2, MaxOfThree, Zenon
  <2> QED
    BY <2>1, <2>3
<1> HIDE DEF predicted
<1>4. (predicted * 3) \div 2 \in Int /\ (predicted * 3) \div 2 >= predicted
  BY <1>1, <1>3
<1> QED
  BY <1>1, <1>3, <1>4 DEF predicted, EstimatedFutureDemand

(* When each verdict is given.                                             *)
LEMMA VerdictIs ==
  ASSUME TypeOK, NEW demand \in Int, NEW rps10s, NEW rps30s
  PROVE  LET verdict == Verdict(demand, rps10s, rps30s)
         IN  /\ verdict \in {"up", "down", "low", "stable"}
             /\ verdict = "down" => /\ demand <= capacity /\ Cardinality(live) > 1
                                    /\ count + 1 >= ScaleDownConsecutiveRequired
             /\ verdict = "low" => count + 1 < ScaleDownConsecutiveRequired
<1>1. capacity \in Int /\ count \in Int /\ ScaleDownConsecutiveRequired \in Int
  BY DEF TypeOK, ScaleDownConsecutiveRequired
<1> DEFINE low == LowLoad(rps10s) /\ Cardinality(live) > 1 /\ rps10s <= rps30s
           verdict == Verdict(demand, rps10s, rps30s)
<1>2. verdict = IF demand > capacity \/ ~known THEN "up"
                ELSE IF ~low THEN "stable"
                ELSE IF count + 1 >= ScaleDownConsecutiveRequired THEN "down" ELSE "low"
  BY DEF Verdict
<1>3. low => Cardinality(live) > 1
  OBVIOUS
<1> HIDE DEF low, verdict
<1>4. /\ verdict \in {"up", "down", "low", "stable"}
      /\ verdict = "down" => /\ demand <= capacity /\ low
                             /\ count + 1 >= ScaleDownConsecutiveRequired
      /\ verdict = "low" => count + 1 < ScaleDownConsecutiveRequired
  BY <1>1, <1>2
<1> QED
  BY <1>3, <1>4 DEF verdict

(* A sorted order of a finite set lists each of its elements once.         *)
LEMMA OrderIs ==
  ASSUME TypeOK, NEW order \in Orders(live)
  PROVE  /\ order \in Seq(Configs) /\ IsInjective(order) /\ Range(order) = live
         /\ \A i \in 2..Len(order) :
              AllocRate(config)[order[i - 1]] <= AllocRate(config)[order[i]]
<1> DEFINE n == Cardinality(live)
<1>1. live \subseteq DOMAIN config /\ live \subseteq Configs /\ IsFiniteSet(live)
  BY ConfigFacts DEF TypeOK
<1>2. n \in Nat
  BY <1>1, FS_CardinalityType
<1>3. /\ order \in [1..n -> live]
      /\ \A c \in live : \E i \in DOMAIN order : order[i] = c
      /\ \A i \in 2..n : AllocatedRPS(order[i - 1]) <= AllocatedRPS(order[i])
  BY DEF Orders
<1>4. Cardinality(1..n) = n /\ IsFiniteSet(1..n)
  <2> HIDE DEF n
  <2> QED
    BY <1>2, FS_Interval
<1> HIDE DEF n
<1>5. order \in Seq(Configs) /\ Len(order) = n /\ DOMAIN order = 1..n
  BY <1>1, <1>2, <1>3
<1>6. order \in Surjection(1..n, live)
  BY <1>3 DEF Surjection
<1>7. order \in Injection(1..n, live)
  BY <1>4, <1>6, FS_SurjSameCardinalityImpliesInj DEF n
<1>8. IsInjective(order)
  BY <1>5, <1>7 DEF IsInjective, Injection
<1>9. Range(order) = live
  BY <1>3, <1>5 DEF Range
<1>10. ASSUME NEW i \in 2..n
       PROVE  AllocRate(config)[order[i - 1]] <= AllocRate(config)[order[i]]
  <2>1. i - 1 \in 1..n /\ i \in 1..n
    BY <1>2
  <2>2. order[i - 1] \in DOMAIN config /\ order[i] \in DOMAIN config
    BY <1>1, <1>3, <2>1
  <2> QED
    BY <1>3, <2>2 DEF AllocRate, AllocatedRPS
<1> QED
  BY <1>5, <1>8, <1>9, <1>10

(* The low checks in a row are counted.                                    *)
LEMMA PatienceKept ==
  ASSUME TypeOK, Patience, NEW verdict \in {"up", "down", "low", "stable"},
         verdict = "down" => count + 1 >= ScaleDownConsecutiveRequired,
         verdict = "low" => count + 1 < ScaleDownConsecutiveRequired,
         count' = NextCount(verdict), last' = verdict,
         lowBefore' = IF last = "low" THEN Min({2, lowBefore + 1}) ELSE 0
  PROVE  /\ Patience' /\ count' \in 0..(ScaleDownConsecutiveRequired - 1)
         /\ last' \in Verdicts /\ lowBefore' \in 0..2
<1>1. /\ count \in 0..2 /\ lowBefore \in 0..2 /\ ScaleDownConsecutiveRequired = 3
  BY DEF TypeOK, ScaleDownConsecutiveRequired
<1>2. Min({2, lowBefore + 1}) = IF 2 <= lowBefore + 1 THEN 2 ELSE lowBefore + 1
  BY <1>1, MinOfTwo
<1>3. count' = IF verdict = "low" THEN count + 1 ELSE 0
  BY DEF NextCount
<1>4. /\ last = "low" => count = lowBefore + 1
      /\ last # "low" => count = 0
  BY DEF Patience
<1>5. Patience'
  BY <1>1, <1>2, <1>3, <1>4 DEF Patience, ScalesDownPatiently
<1>6. count' \in 0..2 /\ lowBefore' \in 0..2
  BY <1>1, <1>2, <1>3
<1> QED
  BY <1>1, <1>5, <1>6 DEF Verdicts

(* Before the first reduction the configurations keep what they were       *)
(* granted, the removed ones excepted.                                     *)
LEMMA KeptWithoutUpdates ==
  ASSUME TypeOK, Granted, \A c \in live : cuts[c] = 0, NEW rem, Range(rem) \subseteq live
  PROVE  SumFunctionOnSet(KeptRates(config, slots, rem, << >>), live)
           = SumFunctionOnSet(AllocRate(config), live \ Range(rem))
<1> DEFINE f == KeptRates(config, slots, rem, << >>)
           g == AllocRate(config)
           R == Range(rem)
           K == live \ R
<1>1. Range(<< >>) = {}
  BY DEF Range
<1>2. live \subseteq DOMAIN config /\ IsFiniteSet(live) /\ IsFiniteSet(R) /\ IsFiniteSet(K)
  BY ConfigFacts, FS_Subset DEF TypeOK
<1>3. \A c \in R : f[c] = 0
  <2>1. \A c \in R : config[c].qps \in Nat /\ f[c] = config[c].qps * 0
    BY <1>2, ConfigFacts DEF KeptRates
  <2> QED
    BY <2>1
<1>4. \A c \in K : f[c] = config[c].qps * slots[c]
  BY <1>1, <1>2 DEF KeptRates
<1>5. \A c \in K : slots[c] = config[c].replica
  BY DEF Granted
<1>6. \A c \in K : f[c] = g[c] /\ g[c] \in Nat
  BY <1>2, <1>4, <1>5, ConfigFacts DEF AllocRate
<1>7. live = K \cup R /\ K \cap R = {} /\ \A c \in K \cup R : f[c] \in Int
  BY <1>3, <1>6
<1> HIDE DEF f, g, R, K
<1>8. /\ SumFunctionOnSet(f, R) = 0
      /\ SumFunctionOnSet(f, K) = SumFunctionOnSet(g, K) /\ SumFunctionOnSet(g, K) \in Nat
  BY <1>2, <1>3, <1>6, SumZero, SumEqual, SumNat
<1>9. SumFunctionOnSet(f, K \cup R) = SumFunctionOnSet(f, K) + SumFunctionOnSet(f, R)
  BY <1>2, <1>7, SumUnion
<1>10. SumFunctionOnSet(f, live) = SumFunctionOnSet(g, K)
  BY <1>7, <1>8, <1>9
<1> QED
  BY <1>10 DEF f, g, R, K

(* A check counts a low one, asks for more, or starts a plan.              *)
LEMMA CheckKeeps ==
  ASSUME IInv, NEW rps10s \in Rates, NEW rps30s \in Rates, NEW earlier \in Rates,
         Check(rps10s, rps30s, earlier)
  PROVE  IInv'
<1> DEFINE predicted == PredictedRate(rps10s, earlier)
           demand    == EstimatedFutureDemand(predicted)
           verdict   == Verdict(demand, rps10s, rps30s)
<1>0. /\ TypeOK /\ Patience /\ Granted /\ Planned /\ Backed /\ Books /\ Planning /\ Survivor
  BY DEF IInv
<1>1. /\ job.pc = "idle" /\ known' = TRUE
      /\ count' = NextCount(verdict) /\ last' = verdict
      /\ lowBefore' = IF last = "low" THEN Min({2, lowBefore + 1}) ELSE 0
      /\ UNCHANGED <<config, live, capacity, slots, pods, cuts>>
  BY DEF Check
<1>2. \/ verdict = "up" /\ StartUp(demand)
      \/ verdict = "down" /\ StartDown(predicted)
      \/ verdict \in {"low", "stable"} /\ UNCHANGED job
  BY DEF Check
<1>3. /\ predicted \in Nat /\ predicted >= MinRps /\ demand \in Int /\ demand >= predicted
  BY DemandIs
<1>4. /\ verdict \in {"up", "down", "low", "stable"}
      /\ verdict = "down" => /\ demand <= capacity /\ Cardinality(live) > 1
                             /\ count + 1 >= ScaleDownConsecutiveRequired
      /\ verdict = "low" => count + 1 < ScaleDownConsecutiveRequired
  BY <1>0, <1>3, VerdictIs
<1> HIDE DEF predicted, demand, verdict
<1>5. /\ Patience' /\ count' \in 0..(ScaleDownConsecutiveRequired - 1)
      /\ last' \in Verdicts /\ lowBefore' \in 0..2
  BY <1>0, <1>1, <1>4, PatienceKept
<1>6. Books'
  BY <1>0, <1>1 DEF Books
<1>7. known' \in BOOLEAN
  BY <1>1, Zenon
<1>8. Range(job.updated) = {} /\ Range(<< >>) = {}
  BY <1>0, <1>1 DEF Planned, Updates, Range
<1>9. \A c \in Configs : cuts[c] = 0 \/ cuts[c] = 1 => pods[c] <= slots[c]
  BY <1>0, <1>8 DEF Backed, PodsBacked, BeingReduced
<1>10. ASSUME job' \in Job,
              job'.new = << >> /\ job'.removed = << >> /\ job'.updated = << >>,
              job'.pc # "pods"
       PROVE  TypeOK' /\ Granted' /\ Backed'
  <2>1. TypeOK'
    BY <1>0, <1>1, <1>5, <1>7, <1>10 DEF TypeOK
  <2>2. Granted'
    BY <1>0, <1>1, <1>8, <1>10 DEF Granted
  <2>3. Backed'
    BY <1>1, <1>8, <1>9, <1>10 DEF Backed, PodsBacked
  <2> QED
    BY <2>1, <2>2, <2>3
<1>11. CASE verdict = "up" /\ StartUp(demand)
  <2>1. job' = [Idle EXCEPT !.pc = "up", !.rps = demand, !.rest = demand - capacity]
    BY <1>11 DEF StartUp
  <2>2. demand - capacity \in Int
    BY <1>0, <1>3 DEF TypeOK
  <2>3. /\ job' \in Job
        /\ job'.pc = "up" /\ job'.new = << >> /\ job'.toRemove = << >> /\ job'.toUpdate = << >>
        /\ job'.removed = << >> /\ job'.updated = << >>
    BY <1>3, <2>1, <2>2, IdleType
  <2>4. Planned' /\ Planning' /\ Survivor'
    BY <2>3, NoPlan
  <2>5. TypeOK' /\ Granted' /\ Backed'
    BY <1>10, <2>3
  <2> QED
    BY <1>5, <1>6, <2>4, <2>5 DEF IInv
<1>12. CASE verdict = "down" /\ StartDown(predicted)
  <2> DEFINE rest == SumOver(AllocatedRPS, live)
  <2>1. PICK order \in Orders(live) :
          job' = [Idle EXCEPT !.pc = "plan", !.rps = predicted, !.todo = order, !.rest = rest]
    BY <1>12 DEF StartDown
  <2>2. /\ order \in Seq(Configs) /\ IsInjective(order) /\ Range(order) = live
        /\ \A i \in 2..Len(order) :
             AllocRate(config)[order[i - 1]] <= AllocRate(config)[order[i]]
    BY <1>0, OrderIs
  <2>3. live \subseteq DOMAIN config
    BY <1>0 DEF TypeOK
  <2>4. rest = SumFunctionOnSet(AllocRate(config), live) /\ rest \in Nat
    BY <1>0, <2>3, AllocatedIs
  <2>5. rest >= predicted
    BY <1>0, <1>3, <1>4, <1>12, <2>4 DEF Books, TypeOK
  <2> HIDE DEF rest
  <2>6. /\ job' \in Job
        /\ job'.pc = "plan" /\ job'.new = << >> /\ job'.toRemove = << >> /\ job'.toUpdate = << >>
        /\ job'.removed = << >> /\ job'.updated = << >>
        /\ job'.rps = predicted /\ job'.todo = order /\ job'.rest = rest
    <3>1. predicted \in Int /\ rest \in Int
      BY <1>3, <2>4
    <3> QED
      BY <2>1, <2>2, <3>1, IdleType
  <2>7. TypeOK' /\ Granted' /\ Backed'
    BY <1>10, <2>6
  <2>8. Removals' = {} /\ Updates' = {}
    BY <1>8, <2>6 DEF Removals, Updates
  <2>9. Planned'
    BY <2>6, <2>8 DEF Planned
  <2>10. live # {}
    <3> SUFFICES ASSUME live = {} PROVE FALSE
      OBVIOUS
    <3>1. Cardinality(live) = 0
      BY FS_EmptySet
    <3> QED
      BY <1>4, <1>12, <3>1
  <2>11. Survivor'
    BY <1>1, <2>8, <2>10 DEF Survivor
  <2>12. (\A c \in live : cuts[c] = 0) =>
           SumFunctionOnSet(KeptRates(config, slots, << >>, << >>), live) >= predicted
    <3>1. Range(<< >>) \subseteq live /\ live \ Range(<< >>) = live
      BY <1>8
    <3> QED
      BY <1>0, <2>4, <2>5, <3>1, KeptWithoutUpdates
  <2>13. live \ Range(<< >>) = live
    BY <1>8
  <2>14. Planning'
    BY <1>1, <1>3, <2>2, <2>4, <2>5, <2>6, <2>8, <2>12, <2>13 DEF Planning
  <2> QED
    BY <1>5, <1>6, <2>7, <2>9, <2>11, <2>14 DEF IInv
<1>13. CASE verdict \in {"low", "stable"} /\ UNCHANGED job
  <2>1. TypeOK'
    BY <1>0, <1>1, <1>5, <1>7, <1>13 DEF TypeOK
  <2>2. Granted' /\ Planned' /\ Backed' /\ Planning' /\ Survivor'
    BY <1>0, <1>1, <1>13
       DEF Granted, Planned, Backed, Planning, Survivor, Updates, Removals, PodsBacked,
           BeingReduced
  <2> QED
    BY <1>5, <1>6, <2>1, <2>2 DEF IInv
<1> QED
  BY <1>2, <1>11, <1>12, <1>13

-----------------------------------------------------------------------------
(* The plan of a scale-down.                                               *)

(* The tail of a sorted sequence is sorted, and its head not smaller.      *)
LEMMA SortedTail ==
  ASSUME NEW S, NEW s \in Seq(S), s # << >>, NEW g,
         \A i \in 2..Len(s) : g[s[i - 1]] <= g[s[i]]
  PROVE  /\ \A i \in 2..Len(Tail(s)) : g[Tail(s)[i - 1]] <= g[Tail(s)[i]]
         /\ Tail(s) # << >> => g[Head(s)] <= g[Head(Tail(s))]
<1>1. /\ Tail(s) \in Seq(S) /\ Len(Tail(s)) = Len(s) - 1 /\ Len(s) \in Nat \ {0}
      /\ \A i \in 1..Len(Tail(s)) : Tail(s)[i] = s[i + 1]
  BY HeadTailProperties
<1>2. ASSUME NEW i \in 2..Len(Tail(s))
      PROVE  g[Tail(s)[i - 1]] <= g[Tail(s)[i]]
  <2>1. /\ i - 1 \in 1..Len(Tail(s)) /\ i \in 1..Len(Tail(s)) /\ i + 1 \in 2..Len(s)
        /\ (i - 1) + 1 = i /\ (i + 1) - 1 = i
    BY <1>1
  <2>2. Tail(s)[i - 1] = s[i] /\ Tail(s)[i] = s[i + 1]
    BY <1>1, <2>1
  <2>3. g[s[(i + 1) - 1]] <= g[s[i + 1]]
    BY <2>1
  <2> QED
    BY <2>1, <2>2, <2>3
<1>3. ASSUME Tail(s) # << >>
      PROVE  g[Head(s)] <= g[Head(Tail(s))]
  <2>1. 1 \in 1..Len(Tail(s)) /\ 2 \in 2..Len(s)
    BY <1>1, <1>3
  <2>2. Head(Tail(s)) = s[2] /\ Head(s) = s[1]
    BY <1>1, <2>1
  <2>3. g[s[2 - 1]] <= g[s[2]] /\ 2 - 1 = 1
    BY <2>1
  <2>4. g[s[1]] <= g[s[2]]
    BY <2>3
  <2> QED
    BY <2>2, <2>4
<1> QED
  BY <1>2, <1>3

(* Giving up m of r replicas of rate q.                                    *)
LEMMA ReductionIs ==
  ASSUME NEW q \in Nat \ {0}, NEW r \in Nat, NEW m \in Int, 0 < m, m < r
  PROVE  /\ Max({1, r - m}) = r - m /\ r - m \in Nat \ {0} /\ r - m < r
         /\ q * (r - m) = q * r - q * m /\ (r - m) * q = q * r - q * m
         /\ q * m < q * r /\ q * m \in Nat /\ q * r \in Nat
<1>1. r - m \in Int /\ r - m >= 1
  OBVIOUS
<1>2. Max({1, r - m}) = r - m
  BY <1>1, MaxOfTwo
<1>3. q * (r - m) = q * r - q * m /\ (r - m) * q = q * r - q * m
  OBVIOUS
<1>4. q * (r - m) > 0 /\ q * m \in Nat /\ q * r \in Nat
  <2>1. \A a \in Nat \ {0} : q * a \in Nat /\ q * a > 0
    OBVIOUS
  <2>2. r - m \in Nat \ {0} /\ m \in Nat \ {0} /\ r \in Nat \ {0}
    OBVIOUS
  <2> QED
    BY <2>1, <2>2
<1> QED
  BY <1>1, <1>2, <1>3, <1>4

(* What a plan's round starts from.                                        *)
LEMMA RoundFacts ==
  ASSUME IInv, job.pc = "plan", job.todo # << >>
  PROVE  LET c == Head(job.todo)
             m == MaxRemovable(c)
         IN  /\ c \in live \ Removals /\ c \in DOMAIN config /\ c \in Configs
             /\ \A u \in Updates : u.cfg # c
             /\ Tail(job.todo) \in Seq(Configs) /\ IsInjective(Tail(job.todo))
             /\ Range(job.todo) = Range(Tail(job.todo)) \cup {c}
             /\ c \notin Range(Tail(job.todo))
             /\ \A i \in 2..Len(Tail(job.todo)) :
                  AllocRate(config)[Tail(job.todo)[i - 1]] <= AllocRate(config)[Tail(job.todo)[i]]
             /\ Tail(job.todo) # << >> =>
                  /\ AllocRate(config)[c] <= AllocRate(config)[Head(Tail(job.todo))]
                  /\ AllocRate(config)[Head(Tail(job.todo))] \in Nat
             /\ AllocRate(config)[c] = AllocatedRPS(c) /\ AllocRate(config)[c] \in Nat
             /\ m \in Int /\ config[c].qps * m <= job.rest - job.rps
<1> DEFINE c == Head(job.todo)
           m == MaxRemovable(c)
           t == Tail(job.todo)
           d == job.rest - job.rps
           g == AllocRate(config)
<1>1. /\ TypeOK /\ Planning /\ job.todo \in Seq(Configs) /\ job.rest \in Int /\ job.rps \in Int
  BY JobFields DEF IInv
<1>2. /\ IsInjective(job.todo) /\ Range(job.todo) \subseteq live \ Removals
      /\ \A u \in Updates : u.cfg \notin Range(job.todo)
      /\ \A i \in 2..Len(job.todo) : g[job.todo[i - 1]] <= g[job.todo[i]]
  BY <1>1 DEF Planning
<1>3. c \in Configs /\ t \in Seq(Configs) /\ Range(job.todo) = Range(t) \cup {c}
  BY <1>1, RangeTail
<1>4. IsInjective(t) /\ c \notin Range(t)
  BY <1>1, <1>2, DistinctTail
<1>5. c \in live \ Removals /\ c \in DOMAIN config /\ \A u \in Updates : u.cfg # c
  BY <1>1, <1>2, <1>3 DEF TypeOK
<1>6. /\ \A i \in 2..Len(t) : g[t[i - 1]] <= g[t[i]]
      /\ t # << >> => g[c] <= g[Head(t)]
  <2> HIDE DEF g
  <2> QED
    BY <1>1, <1>2, SortedTail
<1>7. t # << >> => g[Head(t)] \in Nat
  <2> SUFFICES ASSUME t # << >> PROVE g[Head(t)] \in Nat
    OBVIOUS
  <2>1. Head(t) \in Range(t)
    <3> HIDE DEF t
    <3> QED
      BY <1>3, RangeTail
  <2>2. Head(t) \in DOMAIN config
    BY <1>1, <1>2, <1>3, <2>1 DEF TypeOK
  <2> QED
    BY <1>1, <2>2, ConfigFacts
<1>8. g[c] = AllocatedRPS(c) /\ g[c] \in Nat
  BY <1>1, <1>5, ConfigFacts DEF AllocRate, AllocatedRPS
<1>9. config[c].qps \in Nat \ {0} /\ d \in Int /\ m = d \div config[c].qps
  BY <1>1, <1>5, ConfigFacts DEF MaxRemovable
<1>10. m \in Int /\ config[c].qps * m <= d
  <2> DEFINE q == config[c].qps
  <2> HIDE DEF q, d, m, c
  <2>1. q \in Nat \ {0} /\ d \in Int /\ m = d \div q
    BY <1>9 DEF q
  <2>2. m \in Int /\ q * m <= d
    BY <2>1, DivMod
  <2> QED
    BY <2>2 DEF q
<1> QED
  BY <1>3, <1>4, <1>5, <1>6, <1>7, <1>8, <1>10

(* The parts of the invariant a step of a scale-down leaves alone that     *)
(* changes nothing but the local variables of the plan.                    *)
LEMMA PlanFrame ==
  ASSUME IInv, job.pc \in {"plan", "drop"},
         UNCHANGED <<known, config, live, capacity, count, slots, pods, last, lowBefore, cuts>>,
         job' \in Job,
         job'.new = job.new, job'.removed = job.removed, job'.updated = job.updated,
         job'.pc # "pods"
  PROVE  TypeOK' /\ Patience' /\ Granted' /\ Backed' /\ Books'
<1>1. TypeOK'
  BY DEF IInv, TypeOK
<1>2. Patience' /\ Books'
  BY DEF IInv, Patience, ScalesDownPatiently, Books
<1>3. Granted'
  BY DEF IInv, Granted
<1>4. Backed'
  BY DEF IInv, Backed, PodsBacked, BeingReduced
<1> QED
  BY <1>1, <1>2, <1>3, <1>4

(* The plan is finished.                                                   *)
LEMMA EndPlanKeeps ==
  ASSUME IInv, job.pc = "plan", EndPlan,
         UNCHANGED <<known, config, live, capacity, count, slots, pods, last, lowBefore, cuts>>
  PROVE  IInv'
<1>0. TypeOK /\ Planned /\ Survivor
  BY DEF IInv
<1>1. job' = [job EXCEPT !.pc = "drop", !.todo = << >>]
  BY DEF EndPlan
<1>2. /\ job'.pc = "drop" /\ job'.new = job.new
      /\ job'.toRemove = job.toRemove /\ job'.toUpdate = job.toUpdate
      /\ job'.removed = job.removed /\ job'.updated = job.updated
      /\ job' \in Job
  <2>1. << >> \in Seq(Configs)
    OBVIOUS
  <2>2. "drop" \in {"idle", "up", "pods", "plan", "drop", "resize"}
    OBVIOUS
  <2> QED
    BY <1>0, <1>1, <2>1, <2>2 DEF TypeOK
<1>3. TypeOK' /\ Patience' /\ Granted' /\ Backed' /\ Books'
  BY <1>2, PlanFrame
<1>4. Updates' = Updates /\ Removals' = Removals
  BY <1>2 DEF Updates, Removals
<1>5. Planned' /\ Planning' /\ Survivor'
  BY <1>0, <1>2, <1>4 DEF Planned, Planning, Survivor
<1> QED
  BY <1>3, <1>5 DEF IInv

(* A configuration is kept as it is.                                       *)
LEMMA SkipKeeps ==
  ASSUME IInv, job.pc = "plan", job.todo # << >>, job' = [job EXCEPT !.todo = Tail(@)],
         UNCHANGED <<known, config, live, capacity, count, slots, pods, last, lowBefore, cuts>>
  PROVE  IInv'
<1> DEFINE t == Tail(job.todo)
           g == AllocRate(config)
<1>0. TypeOK /\ Planned /\ Planning /\ Survivor
  BY DEF IInv
<1>1. /\ t \in Seq(Configs) /\ IsInjective(t) /\ Range(t) \subseteq Range(job.todo)
      /\ \A i \in 2..Len(t) : g[t[i - 1]] <= g[t[i]]
      /\ t # << >> => g[Head(job.todo)] <= g[Head(t)] /\ g[Head(t)] \in Nat
      /\ g[Head(job.todo)] \in Nat
  BY RoundFacts
<1> HIDE DEF t
<1>2. /\ job'.pc = "plan" /\ job'.new = job.new /\ job'.todo = t
      /\ job'.rps = job.rps /\ job'.rest = job.rest
      /\ job'.toRemove = job.toRemove /\ job'.toUpdate = job.toUpdate
      /\ job'.removed = job.removed /\ job'.updated = job.updated
      /\ job' \in Job
  BY <1>0, <1>1 DEF TypeOK, t
<1>3. TypeOK' /\ Patience' /\ Granted' /\ Backed' /\ Books'
  BY <1>2, PlanFrame
<1>4. Updates' = Updates /\ Removals' = Removals
  BY <1>2 DEF Updates, Removals
<1>5. Planned' /\ Survivor'
  BY <1>0, <1>2, <1>4 DEF Planned, Survivor
<1>6. job.toUpdate # << >> /\ t # << >> => job.rest < g[Head(t)]
  <2>1. job.toUpdate # << >> => job.rest < g[Head(job.todo)]
    BY <1>0 DEF Planning
  <2>2. job.rest \in Int
    BY <1>0, JobFields
  <2> HIDE DEF g
  <2> QED
    BY <1>1, <2>1, <2>2
<1>7. Planning'
  BY <1>0, <1>1, <1>2, <1>4, <1>6 DEF Planning
<1> QED
  BY <1>3, <1>5, <1>7 DEF IInv

(* A configuration is to go.  This is before the first reduction: after it *)
(* the running total is too small.                                         *)
LEMMA RemovalKeeps ==
  ASSUME IInv, job.pc = "plan", job.todo # << >>,
         job.rest - AllocatedRPS(Head(job.todo)) >= job.rps,
         job' = [job EXCEPT !.rest = @ - AllocatedRPS(Head(job.todo)), !.todo = Tail(@),
                            !.toRemove = Append(@, Head(job.todo))],
         UNCHANGED <<known, config, live, capacity, count, slots, pods, last, lowBefore, cuts>>
  PROVE  IInv'
<1> DEFINE c == Head(job.todo)
           t == Tail(job.todo)
           g == AllocRate(config)
           R == Range(job.toRemove)
           K == live \ R
<1>0. TypeOK /\ Granted /\ Planned /\ Planning /\ Survivor
  BY DEF IInv
<1>1. /\ job.rest \in Int /\ job.rps \in Int /\ job.toRemove \in Seq(Configs)
      /\ job.toUpdate \in Seq(Update)
      /\ MinRps \in Nat /\ job.rps >= MinRps
      /\ job.removed = << >> /\ job.updated = << >>
  BY <1>0, JobFields, RatesAssumption DEF Planning
<1>2. /\ t \in Seq(Configs) /\ IsInjective(t) /\ Range(job.todo) = Range(t) \cup {c}
      /\ c \notin Range(t) /\ c \in live \ Removals /\ c \in Configs
      /\ \A u \in Updates : u.cfg # c
      /\ \A i \in 2..Len(t) : g[t[i - 1]] <= g[t[i]]
      /\ g[c] = AllocatedRPS(c) /\ g[c] \in Nat
  BY RoundFacts
<1>3. Range(<< >>) = {}
  BY DEF Range
<1>4. Removals = R /\ Updates = Range(job.toUpdate)
  BY <1>1, <1>3 DEF Removals, Updates
<1>5. job.toUpdate = << >>
  <2>1. job.toUpdate # << >> => job.rest < g[c]
    BY <1>0 DEF Planning
  <2> HIDE DEF g, c
  <2> QED
    BY <1>1, <1>2, <2>1 DEF c
<1>6. job.rest = SumFunctionOnSet(g, K)
  BY <1>0, <1>5 DEF Planning
<1>7. /\ IsFiniteSet(K) /\ c \in K /\ live \subseteq DOMAIN config
      /\ \A d \in K : g[d] \in Int
  <2>1. live \subseteq DOMAIN config
    BY <1>0 DEF TypeOK
  <2>2. K \in SUBSET DOMAIN config /\ c \in K
    BY <1>2, <1>4, <2>1
  <2>3. IsFiniteSet(K) /\ \A d \in DOMAIN config : g[d] \in Nat
    <3> HIDE DEF K
    <3> QED
      BY <1>0, <2>2, ConfigFacts
  <2> QED
    BY <2>1, <2>2, <2>3
<1>8. SumFunctionOnSet(g, K \ {c}) = job.rest - g[c]
  <2>1. IsFiniteSet(K \ {c}) /\ \A d \in K \ {c} : g[d] \in Int
    BY <1>7, FS_Subset
  <2> HIDE DEF g, K, c
  <2>2. SumFunctionOnSet(g, K) = g[c] + SumFunctionOnSet(g, K \ {c})
    BY <1>7, SumRemove
  <2>3. SumFunctionOnSet(g, K \ {c}) \in Int
    BY <2>1, SumType
  <2> QED
    BY <1>2, <1>6, <2>2, <2>3
<1>9. job.rest - g[c] \in Int /\ job.rest - g[c] >= job.rps
  BY <1>1, <1>2
<1>10. Append(job.toRemove, c) \in Seq(Configs) /\ Range(Append(job.toRemove, c)) = R \cup {c}
  <2> HIDE DEF c
  <2> QED
    BY <1>1, <1>2, RangeAppend
<1>11. /\ job'.pc = "plan" /\ job'.new = job.new /\ job'.todo = t
       /\ job'.rps = job.rps /\ job'.rest = job.rest - g[c]
       /\ job'.toRemove = Append(job.toRemove, c) /\ job'.toUpdate = job.toUpdate
       /\ job'.removed = job.removed /\ job'.updated = job.updated
       /\ job' \in Job
  <2>1. job' = [job EXCEPT !.rest = job.rest - g[c], !.todo = t,
                           !.toRemove = Append(job.toRemove, c)]
    BY <1>2
  <2> HIDE DEF t, c, g
  <2> QED
    BY <1>0, <1>2, <1>9, <1>10, <2>1 DEF TypeOK
<1>12. TypeOK' /\ Patience' /\ Granted' /\ Backed' /\ Books'
  BY <1>11, PlanFrame
<1>13. Updates' = Updates /\ Updates = {} /\ Removals' = R \cup {c}
  BY <1>1, <1>3, <1>5, <1>10, <1>11 DEF Updates, Removals
<1>14. live \ Range(job'.toRemove) = K \ {c} /\ R \cup {c} \subseteq live
  BY <1>0, <1>2, <1>4, <1>10, <1>11 DEF Planned
<1>15. Planned'
  BY <1>11, <1>13, <1>14 DEF Planned
<1>16. Survivor'
  <2> SUFFICES ASSUME MinRps > 0 PROVE K \ {c} # {}
    <3>1. live \ (R \cup {c}) = K \ {c}
      OBVIOUS
    <3> QED
      BY <1>13, <3>1 DEF Survivor
  <2> SUFFICES ASSUME K \ {c} = {} PROVE FALSE
    OBVIOUS
  <2>1. SumFunctionOnSet(g, K \ {c}) = 0
    BY SumEmpty
  <2> HIDE DEF g, K, c
  <2> QED
    BY <1>1, <1>8, <1>9, <2>1
<1>17. (\A d \in live : cuts[d] = 0) =>
         SumFunctionOnSet(KeptRates(config, slots, job'.toRemove, << >>), live)
           = SumFunctionOnSet(g, K \ {c})
  <2> DEFINE rem == job'.toRemove
  <2>1. Range(rem) \subseteq live /\ live \ Range(rem) = K \ {c}
    BY <1>10, <1>11, <1>14
  <2> HIDE DEF rem, K, c
  <2>2. (\A d \in live : cuts[d] = 0) =>
          SumFunctionOnSet(KeptRates(config, slots, rem, << >>), live)
            = SumFunctionOnSet(g, live \ Range(rem))
    BY <1>0, <2>1, KeptWithoutUpdates
  <2> QED
    BY <2>1, <2>2 DEF rem
<1>18. Planning'
  <2>1. Range(t) \subseteq live \ (R \cup {c})
    BY <1>0, <1>2, <1>4 DEF Planning
  <2>2. /\ job'.rest = SumFunctionOnSet(g, live \ Range(job'.toRemove)) /\ job'.rest >= job'.rps
    BY <1>8, <1>9, <1>11, <1>14
  <2>3. (\A d \in live : cuts[d] = 0) =>
          SumFunctionOnSet(KeptRates(config, slots, job'.toRemove, job'.toUpdate), live) >= job'.rps
    BY <1>5, <1>8, <1>9, <1>11, <1>17
  <2> HIDE DEF t
  <2> QED
    BY <1>1, <1>2, <1>5, <1>11, <1>13, <2>1, <2>2, <2>3 DEF Planning
<1> QED
  BY <1>12, <1>15, <1>16, <1>18 DEF IInv

(* What a configuration keeps is a natural number, whatever is planned.    *)
LEMMA KeptIsNat ==
  ASSUME TypeOK, NEW rem, NEW upd, Range(upd) \subseteq Update, NEW c \in DOMAIN config
  PROVE  KeptRates(config, slots, rem, upd)[c] \in Nat
<1> DEFINE chosen == CHOOSE u \in Range(upd) : u.cfg = c
           kept == IF c \in Range(rem) THEN 0
                   ELSE IF \E u \in Range(upd) : u.cfg = c THEN chosen.newReplica ELSE slots[c]
<1>1. c \in Configs /\ config[c].qps \in Nat /\ slots[c] \in Nat
  <2>1. c \in Configs /\ config[c].qps \in Nat
    BY ConfigFacts
  <2>2. slots \in [Configs -> 0..MaxReplicas]
    BY DEF TypeOK
  <2> QED
    BY <2>1, <2>2, BoundAssumption
<1>2. (\E u \in Range(upd) : u.cfg = c) => chosen.newReplica \in Nat
  <2> SUFFICES ASSUME \E u \in Range(upd) : u.cfg = c PROVE chosen.newReplica \in Nat
    OBVIOUS
  <2>1. chosen \in Range(upd)
    OBVIOUS
  <2> HIDE DEF chosen
  <2>2. chosen \in Update
    BY <2>1
  <2> QED
    BY <2>2 DEF Update
<1> HIDE DEF chosen
<1>3. kept \in Nat
  BY <1>1, <1>2
<1>4. KeptRates(config, slots, rem, upd)[c] = config[c].qps * kept
  BY DEF KeptRates, chosen
<1> HIDE DEF kept
<1> QED
  BY <1>1, <1>3, <1>4

(* Some replicas of a configuration are to go.                             *)
LEMMA ReductionKeeps ==
  ASSUME IInv, job.pc = "plan", job.todo # << >>, PlanReduction(Head(job.todo)), ~EndPlan,
         UNCHANGED <<known, config, live, capacity, count, slots, pods, last, lowBefore, cuts>>
  PROVE  IInv'
<1> DEFINE c == Head(job.todo)
           t == Tail(job.todo)
           g == AllocRate(config)
           q == config[c].qps
           r == config[c].replica
           m == MaxRemovable(c)
           u == [cfg |-> c, newReplica |-> r - m, reducedDelta |-> job.rest - q * m]
           U == Range(job.toUpdate)
<1>0. TypeOK /\ Granted /\ Planned /\ Planning /\ Survivor
  BY DEF IInv
<1>1. /\ job.rest \in Int /\ job.rps \in Int /\ job.toRemove \in Seq(Configs)
      /\ job.toUpdate \in Seq(Update) /\ U \subseteq Update
      /\ MinRps \in Nat /\ job.rps >= MinRps
      /\ job.removed = << >> /\ job.updated = << >>
  BY <1>0, JobFields, RatesAssumption DEF Planning
<1>2. /\ t \in Seq(Configs) /\ IsInjective(t) /\ Range(job.todo) = Range(t) \cup {c}
      /\ c \notin Range(t) /\ c \in live \ Removals /\ c \in Configs /\ c \in DOMAIN config
      /\ \A v \in Updates : v.cfg # c
      /\ \A i \in 2..Len(t) : g[t[i - 1]] <= g[t[i]]
      /\ t # << >> => g[c] <= g[Head(t)] /\ g[Head(t)] \in Nat
      /\ g[c] = AllocatedRPS(c) /\ g[c] \in Nat
      /\ m \in Int /\ q * m <= job.rest - job.rps
  BY RoundFacts
<1>3. Range(<< >>) = {}
  BY DEF Range
<1>4. Removals = Range(job.toRemove) /\ Updates = U
  BY <1>1, <1>3 DEF Removals, Updates
<1>5. q \in Nat \ {0} /\ r \in Nat \ {0} /\ g[c] = q * r
  BY <1>0, <1>2, ConfigFacts
<1>6. 0 < m /\ m < r
  BY DEF PlanReduction
<1>7. /\ Max({1, r - m}) = r - m /\ r - m \in Nat \ {0} /\ r - m < r
      /\ q * (r - m) = q * r - q * m /\ (r - m) * q = q * r - q * m
      /\ q * m < q * r /\ q * m \in Nat /\ q * r \in Nat
  <2> HIDE DEF q, r, m
  <2> QED
    BY <1>2, <1>5, <1>6, ReductionIs
<1>8. job.rest - (AllocatedRPS(c) - (r - m) * q) = job.rest - q * m
  <2>1. AllocatedRPS(c) = q * r
    BY <1>2, <1>5
  <2> HIDE DEF q, r, m, c
  <2> QED
    BY <1>1, <1>7, <2>1
<1>9. job.rest - (job.rest - q * m) = q * m /\ job.rest - q * m \in Int /\ job.rest - q * m >= 0
  <2> HIDE DEF q, m
  <2> QED
    BY SMTT(30), <1>1, <1>2, <1>7
<1>10. job' = [job EXCEPT !.rest = q * m, !.todo = t, !.toUpdate = Append(job.toUpdate, u)]
  <2> DEFINE n == Max({1, r - m})
             delta == job.rest - (AllocatedRPS(c) - n * q)
  <2>1. IF job.rest - delta >= job.rps
        THEN job' = [job EXCEPT !.rest = @ - delta, !.todo = Tail(@),
                                !.toUpdate = Append(@, [cfg |-> c, newReplica |-> n,
                                                        reducedDelta |-> delta])]
        ELSE EndPlan
    BY DEF PlanReduction
  <2>2. n = r - m /\ delta = job.rest - q * m
    BY <1>7, <1>8
  <2> HIDE DEF n, delta, q, r, m, c
  <2>3. job.rest - delta = q * m
    BY <1>9, <2>2
  <2> QED
    BY <2>1, <2>2, <2>3
<1>11. u \in Update
  BY <1>2, <1>7, <1>9 DEF Update
<1>12. u.cfg = c /\ u.newReplica = r - m /\ u.reducedDelta = job.rest - q * m
  OBVIOUS
<1> HIDE DEF c, t, q, r, m, u
<1>13. /\ Append(job.toUpdate, u) \in Seq(Update) /\ Append(job.toUpdate, u) # << >>
       /\ Range(Append(job.toUpdate, u)) = U \cup {u}
  BY <1>1, <1>11, RangeAppend, AppendProperties
<1>14. /\ job'.pc = "plan" /\ job'.new = job.new /\ job'.todo = t
       /\ job'.rps = job.rps /\ job'.rest = q * m
       /\ job'.toRemove = job.toRemove /\ job'.toUpdate = Append(job.toUpdate, u)
       /\ job'.removed = job.removed /\ job'.updated = job.updated
       /\ job' \in Job
  <2>1. q * m \in Int
    BY <1>7
  <2> QED
    BY <1>0, <1>2, <1>10, <1>13, <2>1 DEF TypeOK
<1>15. TypeOK' /\ Patience' /\ Granted' /\ Backed' /\ Books'
  BY <1>14, PlanFrame
<1>16. Updates' = U \cup {u} /\ Removals' = Removals
  BY <1>1, <1>3, <1>13, <1>14 DEF Updates, Removals
<1>17. Planned'
  <2>1. \A v, w \in U \cup {u} : v.cfg = w.cfg => v = w
    BY <1>0, <1>2, <1>4, <1>12 DEF Planned
  <2>2. \A v \in U \cup {u} : /\ v.cfg \in live \ Removals
                              /\ v.newReplica < config[v.cfg].replica
                              /\ v.reducedDelta >= 0
    <3>1. u.newReplica < config[u.cfg].replica /\ u.reducedDelta >= 0
      BY <1>7, <1>9, <1>12 DEF r
    <3> QED
      BY <1>0, <1>2, <1>4, <1>12, <3>1 DEF Planned
  <2> QED
    BY <1>0, <1>14, <1>16, <2>1, <2>2 DEF Planned
<1>18. Survivor'
  BY <1>0, <1>14, <1>16 DEF Survivor
<1>19. q * m < g[c] /\ (t # << >> => q * m < g[Head(t)])
  <2>1. q * m < g[c]
    BY <1>5, <1>7
  <2> HIDE DEF g
  <2> QED
    BY <1>2, <1>7, <2>1
<1> DEFINE up == Append(job.toUpdate, u)
           k == KeptRates(config, slots, job.toRemove, job.toUpdate)
           kk == KeptRates(config, slots, job.toRemove, up)
<1>20. /\ IsFiniteSet(live) /\ live \subseteq DOMAIN config /\ c \in live
       /\ \A d \in live : k[d] \in Nat /\ kk[d] \in Nat
  <2>1. Range(up) \subseteq Update
    BY <1>1, <1>11, <1>13
  <2>2. IsFiniteSet(live) /\ live \subseteq DOMAIN config
    BY <1>0, ConfigFacts DEF TypeOK
  <2> HIDE DEF up
  <2> QED
    BY <1>0, <1>1, <1>2, <2>1, <2>2, KeptIsNat
<1>21. kk[c] = q * r - q * m
  <2>1. c \notin Range(job.toRemove)
    BY <1>2, <1>4
  <2>2. u \in Range(up) /\ \A v \in Range(up) : v.cfg = c => v = u
    BY <1>2, <1>4, <1>12, <1>13
  <2> HIDE DEF up
  <2>3. (CHOOSE v \in Range(up) : v.cfg = c) = u /\ \E v \in Range(up) : v.cfg = c
    BY <1>12, <2>2
  <2>4. kk[c] = config[c].qps * u.newReplica
    BY <1>2, <2>1, <2>3 DEF KeptRates
  <2> QED
    BY <1>7, <1>12, <2>4 DEF q
<1>22. (\A d \in live : cuts[d] = 0) => SumFunctionOnSet(kk, live) >= job.rps
  <2> SUFFICES ASSUME \A d \in live : cuts[d] = 0
               PROVE  SumFunctionOnSet(kk, live) >= job.rps
    OBVIOUS
  <2>1. CASE job.toUpdate = << >>
    <3>1. U = {} /\ Range(up) = {u}
      BY <1>3, <1>13, <2>1
    <3>2. \A d \in live \ {c} : k[d] = kk[d]
      <4>1. \A d \in live \ {c} : /\ ~ \E v \in Range(up) : v.cfg = d
                                  /\ ~ \E v \in Range(job.toUpdate) : v.cfg = d
        BY <1>12, <3>1
      <4> HIDE DEF up
      <4> QED
        BY <1>20, <4>1 DEF KeptRates
    <3>3. k[c] = q * r
      <4>1. k[c] = config[c].qps * slots[c]
        BY <1>2, <1>4, <3>1 DEF KeptRates
      <4>2. slots[c] = config[c].replica
        BY <1>0, <1>2 DEF Granted
      <4> QED
        BY <4>1, <4>2 DEF q, r
    <3>4. SumFunctionOnSet(k, live) = job.rest
      <4>1. Range(job.toRemove) \subseteq live
        BY <1>0, <1>4 DEF Planned
      <4>2. job.rest = SumFunctionOnSet(g, live \ Range(job.toRemove))
        BY <1>0, <2>1 DEF Planning
      <4> QED
        BY <1>0, <2>1, <4>1, <4>2, KeptWithoutUpdates
    <3> HIDE DEF k, kk
    <3>5. SumFunctionOnSet(kk, live) = SumFunctionOnSet(k, live) + (kk[c] - k[c])
      <4>1. \A d \in live : k[d] \in Int /\ kk[d] \in Int
        BY <1>20
      <4> QED
        BY <1>20, <3>2, <4>1, SumChange
    <3> QED
      BY <1>1, <1>2, <1>7, <1>21, <3>3, <3>4, <3>5
  <2>2. CASE job.toUpdate # << >>
    <3>1. job.rest < g[c]
      BY <1>0, <2>2 DEF Planning, c
    <3>2. kk[c] >= job.rps
      <4> HIDE DEF g, kk
      <4> QED
        BY <1>1, <1>2, <1>5, <1>7, <1>21, <3>1
    <3> HIDE DEF k, kk
    <3>3. kk[c] <= SumFunctionOnSet(kk, live) /\ SumFunctionOnSet(kk, live) \in Nat
      BY <1>20, SumAtLeast, SumNat
    <3> QED
      BY <1>1, <1>20, <3>2, <3>3
  <2> QED
    BY <2>1, <2>2
<1>23. Planning'
  <2>1. Range(t) \subseteq live \ Removals /\ \A v \in U \cup {u} : v.cfg \notin Range(t)
    BY <1>0, <1>2, <1>4, <1>12 DEF Planning
  <2> QED
    BY <1>1, <1>2, <1>13, <1>14, <1>16, <1>19, <1>22, <2>1 DEF Planning
<1> QED
  BY <1>15, <1>17, <1>18, <1>23 DEF IInv

(* A round of the loop of scaleDownFaSTFunc.                               *)
LEMMA PlanDownKeeps ==
  ASSUME IInv, PlanDown
  PROVE  IInv'
<1> DEFINE c == Head(job.todo)
<1>1. /\ job.pc = "plan"
      /\ UNCHANGED <<known, config, live, capacity, count, slots, pods, last, lowBefore, cuts>>
  BY DEF PlanDown
<1>2. \/ EndPlan
      \/ /\ job.todo # << >>
         /\ PlanRemoval(c) \/ PlanReduction(c) \/ job' = [job EXCEPT !.todo = Tail(@)]
  BY DEF PlanDown
<1>3. CASE EndPlan
  BY <1>1, <1>3, EndPlanKeeps
<1>4. CASE job.todo # << >> /\ PlanRemoval(c) /\ ~EndPlan
  <2>1. /\ job.rest - AllocatedRPS(c) >= job.rps
        /\ job' = [job EXCEPT !.rest = @ - AllocatedRPS(c), !.todo = Tail(@),
                              !.toRemove = Append(@, c)]
    BY <1>4 DEF PlanRemoval
  <2> QED
    BY <1>1, <1>4, <2>1, RemovalKeeps
<1>5. CASE job.todo # << >> /\ PlanReduction(c) /\ ~EndPlan
  BY <1>1, <1>5, ReductionKeeps
<1>6. CASE job.todo # << >> /\ job' = [job EXCEPT !.todo = Tail(@)]
  BY <1>1, <1>6, SkipKeeps
<1> QED
  BY <1>2, <1>3, <1>4, <1>5, <1>6

-----------------------------------------------------------------------------
(* The steps that carry a plan out.                                        *)

(* The FaSTPod of a configuration to remove is deleted, or not.            *)
LEMMA DropPodKeeps ==
  ASSUME IInv, NEW ok \in BOOLEAN, DropPod(ok)
  PROVE  IInv'
<1> DEFINE c == Head(job.toRemove)
           t == Tail(job.toRemove)
           removed == IF ok THEN Append(job.removed, c) ELSE job.removed
<1>0. /\ TypeOK /\ Patience /\ Granted /\ Planned /\ Backed /\ Books /\ Planning /\ Survivor
  BY DEF IInv
<1>1. /\ job.pc = "drop" /\ job.toRemove # << >>
      /\ pods' = IF ok THEN [pods EXCEPT ![c] = 0] ELSE pods
      /\ job' = [job EXCEPT !.toRemove = t, !.removed = removed]
      /\ UNCHANGED <<known, config, live, capacity, count, slots, last, lowBefore, cuts>>
  BY DEF DropPod
<1>2. /\ job.toRemove \in Seq(Configs) /\ job.removed \in Seq(Configs)
      /\ pods \in [Configs -> 0..MaxReplicas] /\ slots \in [Configs -> 0..MaxReplicas]
  BY <1>0, JobFields DEF TypeOK
<1>3. c \in Configs /\ t \in Seq(Configs) /\ Range(job.toRemove) = Range(t) \cup {c}
  BY <1>1, <1>2, RangeTail
<1> HIDE DEF c, t
<1>4. /\ removed \in Seq(Configs)
      /\ Range(removed) = IF ok THEN Range(job.removed) \cup {c} ELSE Range(job.removed)
  <2>1. /\ Append(job.removed, c) \in Seq(Configs)
        /\ Range(Append(job.removed, c)) = Range(job.removed) \cup {c}
    BY <1>2, <1>3, RangeAppend
  <2>2. CASE ok
    BY <2>1, <2>2
  <2>3. CASE ~ok
    BY <1>2, <2>3
  <2> QED
    BY <2>2, <2>3
<1> HIDE DEF removed
<1>5. /\ job'.pc = "drop" /\ job'.new = job.new
      /\ job'.toRemove = t /\ job'.toUpdate = job.toUpdate
      /\ job'.removed = removed /\ job'.updated = job.updated
      /\ job' \in Job
  BY <1>0, <1>1, <1>3, <1>4 DEF TypeOK
<1>6. /\ pods' \in [Configs -> 0..MaxReplicas]
      /\ \A d \in Configs : pods'[d] = pods[d] \/ pods'[d] = 0
      /\ ok => pods'[c] = 0
  BY <1>1, <1>2, <1>3, BoundAssumption
<1>7. \A d \in Configs : /\ pods[d] \in Nat /\ pods'[d] \in Nat /\ slots[d] \in Nat
                         /\ pods'[d] <= pods[d]
  <2> SUFFICES ASSUME NEW d \in Configs
               PROVE  /\ pods[d] \in Nat /\ pods'[d] \in Nat /\ slots[d] \in Nat
                      /\ pods'[d] <= pods[d]
    OBVIOUS
  <2>1. pods[d] \in 0..MaxReplicas /\ pods'[d] \in 0..MaxReplicas /\ slots[d] \in 0..MaxReplicas
    BY <1>2, <1>6
  <2>2. pods'[d] = pods[d] \/ pods'[d] = 0
    BY <1>6
  <2> QED
    BY <2>1, <2>2, BoundAssumption
<1>8. Updates' = Updates /\ Removals' \subseteq Removals
  BY <1>3, <1>4, <1>5 DEF Updates, Removals
<1>9. TypeOK'
  BY <1>0, <1>1, <1>5, <1>6 DEF TypeOK
<1>10. Patience' /\ Books'
  BY <1>0, <1>1 DEF Patience, ScalesDownPatiently, Books
<1>11. Granted'
  BY <1>0, <1>1, <1>5, <1>6 DEF Granted
<1>12. Planned' /\ Survivor' /\ Planning'
  BY <1>0, <1>1, <1>5, <1>8 DEF Planned, Survivor, Planning
<1>13. Backed'
  <2>1. PodsBacked'
    BY <1>0, <1>1, <1>5, <1>7 DEF Backed, PodsBacked, BeingReduced
  <2>2. \A d \in Range(job'.removed) : pods'[d] = 0
    <3>1. \A d \in Range(job.removed) : d \in Configs /\ pods[d] = 0
      BY <1>0, <1>2, RangeIn DEF Backed
    <3>2. \A d \in Range(job.removed) : pods'[d] = 0
      BY <1>6, <3>1
    <3>3. CASE ok
      BY <1>4, <1>5, <1>6, <3>2, <3>3
    <3>4. CASE ~ok
      BY <1>4, <1>5, <3>2, <3>4
    <3> QED
      BY <3>3, <3>4
  <2>3. \A u \in Range(job'.updated) : pods'[u.cfg] <= u.newReplica
    <3>1. \A u \in Range(job.updated) : /\ u.cfg \in Configs /\ u.newReplica \in Nat
                                        /\ pods[u.cfg] <= u.newReplica
      BY <1>0, JobFields DEF Backed, Update
    <3> SUFFICES ASSUME NEW u \in Range(job.updated) PROVE pods'[u.cfg] <= u.newReplica
      BY <1>5
    <3>2. /\ u.cfg \in Configs /\ u.newReplica \in Nat /\ pods[u.cfg] <= u.newReplica
      BY <3>1
    <3>3. /\ pods[u.cfg] \in Nat /\ pods'[u.cfg] \in Nat /\ pods'[u.cfg] <= pods[u.cfg]
      BY <1>7, <3>2
    <3> QED
      BY <3>2, <3>3
  <2> QED
    BY <2>1, <2>2, <2>3 DEF Backed
<1> QED
  BY <1>9, <1>10, <1>11, <1>12, <1>13 DEF IInv

(* All FaSTPods to delete were tried.                                      *)
LEMMA EndDropKeeps ==
  ASSUME IInv, EndDrop
  PROVE  IInv'
<1>0. TypeOK /\ Planned /\ Survivor
  BY DEF IInv
<1>1. /\ job.pc = "drop" /\ job' = [job EXCEPT !.pc = "resize"]
      /\ UNCHANGED <<known, config, live, capacity, count, slots, pods, last, lowBefore, cuts>>
  BY DEF EndDrop
<1>2. /\ job'.pc = "resize" /\ job'.new = job.new
      /\ job'.toRemove = job.toRemove /\ job'.toUpdate = job.toUpdate
      /\ job'.removed = job.removed /\ job'.updated = job.updated
      /\ job' \in Job
  BY <1>0, <1>1 DEF TypeOK
<1>3. TypeOK' /\ Patience' /\ Granted' /\ Backed' /\ Books'
  BY <1>1, <1>2, PlanFrame
<1>4. Updates' = Updates /\ Removals' = Removals
  BY <1>2 DEF Updates, Removals
<1>5. Planned' /\ Planning' /\ Survivor'
  BY <1>0, <1>1, <1>2, <1>4 DEF Planned, Planning, Survivor
<1> QED
  BY <1>3, <1>5 DEF IInv

(* The FaSTPod of a reduced configuration is updated, or not.              *)
LEMMA ResizePodKeeps ==
  ASSUME IInv, NEW ok \in BOOLEAN, ResizePod(ok)
  PROVE  IInv'
<1> DEFINE u == Head(job.toUpdate)
           t == Tail(job.toUpdate)
           updated == job.updated \o Resized(ok, u)
<1>0. /\ TypeOK /\ Patience /\ Granted /\ Planned /\ Backed /\ Books /\ Planning /\ Survivor
  BY DEF IInv
<1>1. /\ job.pc = "resize" /\ job.toUpdate # << >>
      /\ pods' = IF ok /\ pods[u.cfg] > 0 THEN [pods EXCEPT ![u.cfg] = u.newReplica] ELSE pods
      /\ job' = [job EXCEPT !.toUpdate = t, !.updated = updated]
      /\ UNCHANGED <<known, config, live, capacity, count, slots, last, lowBefore, cuts>>
  BY DEF ResizePod
<1>2. /\ job.toUpdate \in Seq(Update) /\ job.updated \in Seq(Update)
      /\ pods \in [Configs -> 0..MaxReplicas] /\ slots \in [Configs -> 0..MaxReplicas]
  BY <1>0, JobFields DEF TypeOK
<1>3. u \in Update /\ t \in Seq(Update) /\ Range(job.toUpdate) = Range(t) \cup {u}
  BY <1>1, <1>2, RangeTail
<1> HIDE DEF u, t
<1>4. /\ updated \in Seq(Update)
      /\ Range(updated) = IF ok THEN Range(job.updated) \cup {u} ELSE Range(job.updated)
  <2>1. CASE ok
    <3>1. updated = Append(job.updated, u)
      BY <1>2, <1>3, <2>1, AppendIsConcat DEF Resized
    <3>2. updated \in Seq(Update) /\ Range(updated) = Range(job.updated) \cup {u}
      BY <1>2, <1>3, <3>1, RangeAppend
    <3> QED
      BY <2>1, <3>2
  <2>2. CASE ~ok
    <3>1. updated = job.updated
      BY <1>2, <2>2 DEF Resized
    <3> QED
      BY <1>2, <2>2, <3>1
  <2> QED
    BY <2>1, <2>2
<1> HIDE DEF updated
<1>5. /\ job'.pc = "resize" /\ job'.new = job.new
      /\ job'.toRemove = job.toRemove /\ job'.toUpdate = t
      /\ job'.removed = job.removed /\ job'.updated = updated
      /\ job' \in Job
  BY <1>0, <1>1, <1>3, <1>4 DEF TypeOK
<1>6. /\ u \in Updates /\ Updates' \subseteq Updates /\ Removals' = Removals
  BY <1>3, <1>4, <1>5 DEF Updates, Removals
<1>7. /\ u.cfg \in live \ Removals /\ u.newReplica < config[u.cfg].replica
      /\ \A v \in Updates : v.cfg = u.cfg => v = u
  BY <1>0, <1>6 DEF Planned
<1>8. /\ u.cfg \in Configs /\ u.cfg \in DOMAIN config /\ u.newReplica \in Nat \ {0}
      /\ config[u.cfg].replica \in Nat /\ u.newReplica \in 0..MaxReplicas
  <2>1. u.cfg \in Configs /\ u.newReplica \in Nat \ {0}
    BY <1>3 DEF Update
  <2>2. u.cfg \in DOMAIN config
    BY <1>0, <1>7 DEF TypeOK
  <2>3. config[u.cfg].replica \in 1..MaxReplicas
    BY <1>0, <2>2, ConfigFacts
  <2> QED
    BY <1>7, <2>1, <2>2, <2>3, BoundAssumption
<1>9. /\ pods' \in [Configs -> 0..MaxReplicas]
      /\ \A d \in Configs : d # u.cfg \/ ~ok \/ pods[d] = 0 => pods'[d] = pods[d]
      /\ ok => pods'[u.cfg] <= u.newReplica
  <2>1. pods' \in [Configs -> 0..MaxReplicas]
    BY <1>1, <1>2, <1>8
  <2>2. pods[u.cfg] \in Nat
    BY <1>2, <1>8, BoundAssumption
  <2> QED
    BY <1>1, <1>2, <1>8, <2>1, <2>2
<1>10. TypeOK'
  BY <1>0, <1>1, <1>5, <1>9 DEF TypeOK
<1>11. Patience' /\ Books'
  BY <1>0, <1>1 DEF Patience, ScalesDownPatiently, Books
<1>12. Granted'
  <2>1. \A d \in Configs \ DOMAIN config : pods'[d] = pods[d]
    BY <1>8, <1>9
  <2> QED
    BY <1>0, <1>1, <1>5, <2>1 DEF Granted
<1>13. Planned' /\ Survivor' /\ Planning'
  BY <1>0, <1>1, <1>5, <1>6 DEF Planned, Survivor, Planning
<1>14. Backed'
  <2>1. PodsBacked'
    <3> SUFFICES ASSUME NEW d \in Configs,
                        cuts[d] = 0 \/ (cuts[d] = 1 /\ ~BeingReduced(d)')
                 PROVE  pods'[d] <= slots[d]
      BY <1>1 DEF PodsBacked
    <3>1. ~BeingReduced(d)' => ~BeingReduced(d)
      BY <1>4, <1>5 DEF BeingReduced
    <3>2. pods[d] <= slots[d]
      BY <1>0, <3>1 DEF Backed, PodsBacked
    <3>3. CASE d # u.cfg \/ ~ok
      BY <1>9, <3>2, <3>3
    <3>4. CASE d = u.cfg /\ ok
      <4>1. BeingReduced(d)'
        BY <1>4, <1>5, <3>4 DEF BeingReduced
      <4>2. cuts[d] = 0
        BY <4>1
      <4>3. slots[d] = config[d].replica
        BY <1>0, <1>7, <3>4, <4>2 DEF Granted
      <4>4. pods'[d] \in Nat /\ pods'[d] <= u.newReplica
        BY <1>9, <3>4, BoundAssumption
      <4> QED
        BY <1>7, <1>8, <3>4, <4>3, <4>4
    <3> QED
      BY <3>3, <3>4
  <2>2. \A d \in Range(job'.removed) : pods'[d] = 0
    <3>1. \A d \in Range(job.removed) : d \in Configs /\ pods[d] = 0
      <4>1. job.removed \in Seq(Configs)
        BY <1>0, JobFields
      <4> QED
        BY <1>0, <4>1, RangeIn DEF Backed
    <3> QED
      BY <1>5, <1>9, <3>1
  <2>3. \A v \in Range(job'.updated) : pods'[v.cfg] <= v.newReplica
    <3> SUFFICES ASSUME NEW v \in Range(updated) PROVE pods'[v.cfg] <= v.newReplica
      BY <1>5
    <3>1. v = u \/ v \in Range(job.updated)
      BY <1>4
    <3>2. v \in Updates /\ v.cfg \in Configs
      <4>1. v \in Updates
        BY <1>6, <3>1 DEF Updates
      <4> QED
        BY <1>0, <4>1, JobFields DEF Update
    <3>3. CASE ok /\ v.cfg = u.cfg
      BY <1>7, <1>9, <3>2, <3>3
    <3>4. CASE ~ok \/ v.cfg # u.cfg
      <4>1. v \in Range(job.updated)
        BY <1>4, <3>1, <3>4
      <4> QED
        BY <1>0, <1>9, <3>2, <3>4, <4>1 DEF Backed
    <3> QED
      BY <3>3, <3>4
  <2> QED
    BY <2>1, <2>2, <2>3 DEF Backed
<1> QED
  BY <1>10, <1>11, <1>12, <1>13, <1>14 DEF IInv

(* A sequence has finitely many elements.                                  *)
LEMMA RangeFinite ==
  ASSUME NEW S, NEW s \in Seq(S)
  PROVE  IsFiniteSet(Range(s))
<1>1. Len(s) \in Nat /\ DOMAIN s = 1..Len(s)
  OBVIOUS
<1>2. IsFiniteSet(1..Len(s))
  BY <1>1, FS_Interval
<1>3. s \in Surjection(1..Len(s), Range(s))
  BY <1>1 DEF Surjection, Range
<1> QED
  BY <1>2, <1>3, FS_Surjection

(* The rate ReduceConfig takes off the books is not negative.              *)
LEMMA ReducedRate ==
  ASSUME TypeOK, Planned
  PROVE  LET updates == Range(job.updated)
             lost == SumOver(LAMBDA u : u.reducedDelta, updates)
         IN  lost \in Nat /\ (updates = {} => lost = 0)
<1> DEFINE updates == Range(job.updated)
           f == [u \in updates |-> u.reducedDelta]
<1>1. SumOver(LAMBDA u : u.reducedDelta, updates) = SumFunctionOnSet(f, updates)
  BY DEF SumOver, SumFunction
<1>2. IsFiniteSet(updates)
  BY JobFields, RangeFinite
<1>3. \A u \in updates : f[u] \in Nat
  <2> SUFFICES ASSUME NEW u \in updates PROVE u.reducedDelta \in Nat
    OBVIOUS
  <2>1. u \in Updates /\ u \in Update
    BY JobFields DEF Updates
  <2>2. u.reducedDelta \in Int /\ u.reducedDelta >= 0
    BY <2>1 DEF Update, Planned
  <2> QED
    BY <2>2
<1> HIDE DEF f
<1>4. SumFunctionOnSet(f, updates) \in Nat /\ (updates = {} => SumFunctionOnSet(f, updates) = 0)
  BY <1>2, <1>3, SumNat, SumEmpty
<1> QED
  BY <1>1, <1>4

(* ReduceConfig and DeallocateConfig give the slots back.                  *)
LEMMA ApplyKeeps ==
  ASSUME IInv, Apply
  PROVE  IInv'
<1> DEFINE updates == Range(job.updated)
           removed == Range(job.removed)
           lost == SumOver(LAMBDA u : u.reducedDelta, updates)
           g == AllocRate(config)
           chosen(c) == CHOOSE u \in updates : u.cfg = c
           reduced(c) == \E u \in updates : u.cfg = c
<1>0. /\ TypeOK /\ Patience /\ Granted /\ Planned /\ Backed /\ Books /\ Planning /\ Survivor
  BY DEF IInv
<1>1. /\ capacity' = capacity - (lost + SumOver(AllocatedRPS, removed))
      /\ slots' = [c \in Configs |-> IF c \in removed THEN 0
                                     ELSE IF reduced(c) THEN ReducedSlots(chosen(c)) ELSE slots[c]]
      /\ cuts' = [c \in Configs |-> IF reduced(c) THEN Min({2, cuts[c] + 1}) ELSE cuts[c]]
      /\ live' = live \ removed
      /\ job' = Idle
      /\ UNCHANGED <<known, config, count, pods, last, lowBefore>>
  BY DEF Apply, LostRate
<1>2. lost \in Nat /\ (updates = {} => lost = 0)
  BY <1>0, ReducedRate
<1>3. /\ slots \in [Configs -> 0..MaxReplicas] /\ pods \in [Configs -> 0..MaxReplicas]
      /\ cuts \in [Configs -> 0..2] /\ capacity \in Int
      /\ live \subseteq DOMAIN config /\ DOMAIN config \subseteq Configs
  BY <1>0, ConfigFacts DEF TypeOK
<1>4. removed \subseteq live /\ updates \subseteq Updates /\ updates \subseteq Update
  BY <1>0, JobFields DEF Planned, Removals, Updates
<1>5. \A c \in Configs : Min({2, cuts[c] + 1}) = IF cuts[c] = 0 THEN 1 ELSE 2
  <2> SUFFICES ASSUME NEW c \in Configs
               PROVE  Min({2, cuts[c] + 1}) = IF cuts[c] = 0 THEN 1 ELSE 2
    OBVIOUS
  <2>1. cuts[c] \in 0..2
    BY <1>3
  <2>2. cuts[c] + 1 \in Int
    BY <2>1
  <2>3. Min({2, cuts[c] + 1}) = IF 2 <= cuts[c] + 1 THEN 2 ELSE cuts[c] + 1
    BY <2>2, MinOfTwo
  <2> QED
    BY <2>1, <2>3
<1>6. ASSUME NEW c \in Configs, reduced(c)
      PROVE  /\ c \in live /\ chosen(c) \in updates /\ chosen(c).cfg = c
             /\ config[c].replica \in Nat /\ chosen(c).newReplica \in Nat
             /\ chosen(c).newReplica < config[c].replica
             /\ slots[c] \in Nat /\ slots[c] <= MaxReplicas
             /\ ReducedSlots(chosen(c)) \in 0..MaxReplicas
             /\ slots[c] = config[c].replica => ReducedSlots(chosen(c)) = chosen(c).newReplica
  <2> DEFINE u == chosen(c)
             a == slots[c] - (config[c].replica - u.newReplica)
  <2>1. u \in updates /\ u.cfg = c
    BY <1>6
  <2> HIDE DEF u
  <2>2. c \in live /\ u.newReplica < config[c].replica /\ u.newReplica \in Nat
    BY <1>0, <1>4, <2>1 DEF Planned, Update
  <2>3. config[c].replica \in Nat /\ slots[c] \in Nat /\ slots[c] <= MaxReplicas
    <3>1. config[c].replica \in Nat
      BY <1>0, <1>3, <2>2, ConfigFacts
    <3> QED
      BY <1>3, <3>1, BoundAssumption
  <2>4. a \in Int /\ a <= slots[c] /\ (slots[c] = config[c].replica => a = u.newReplica)
    BY <2>2, <2>3
  <2>5. ReducedSlots(u) = Max({0, a})
    BY <2>1 DEF ReducedSlots
  <2> HIDE DEF a
  <2>6. Max({0, a}) = IF 0 >= a THEN 0 ELSE a
    BY <2>4, MaxOfTwo
  <2>7. /\ ReducedSlots(u) \in 0..MaxReplicas
        /\ slots[c] = config[c].replica => ReducedSlots(u) = u.newReplica
    BY <2>2, <2>3, <2>4, <2>5, <2>6, BoundAssumption
  <2> QED
    BY <2>1, <2>2, <2>3, <2>7 DEF u
<1> HIDE DEF chosen
<1>7. /\ SumOver(AllocatedRPS, removed) = SumFunctionOnSet(g, removed)
      /\ SumFunctionOnSet(g, removed) \in Nat /\ SumFunctionOnSet(g, live \ removed) \in Nat
      /\ SumFunctionOnSet(g, live) \in Nat
  <2>1. /\ removed \in SUBSET DOMAIN config /\ live \ removed \in SUBSET DOMAIN config
        /\ live \in SUBSET DOMAIN config
    BY <1>3, <1>4
  <2> QED
    BY <1>0, <2>1, AllocatedIs
<1>8. SumFunctionOnSet(g, live) = SumFunctionOnSet(g, live \ removed) + SumFunctionOnSet(g, removed)
  <2> DEFINE K == live \ removed
  <2>1. live = K \cup removed /\ K \cap removed = {}
    BY <1>4
  <2>2. IsFiniteSet(K) /\ IsFiniteSet(removed) /\ \A c \in K \cup removed : g[c] \in Int
    <3>1. K \in SUBSET DOMAIN config /\ removed \in SUBSET DOMAIN config
      BY <1>3, <1>4
    <3> HIDE DEF K, removed
    <3> QED
      BY <1>0, <3>1, ConfigFacts
  <2> HIDE DEF K, removed, g
  <2> QED
    BY <2>1, <2>2, SumUnion DEF K
<1> HIDE DEF g, lost
<1>t. TypeOK'
  <2>1. slots' \in [Configs -> 0..MaxReplicas]
    BY <1>1, <1>3, <1>6, BoundAssumption
  <2>2. cuts' \in [Configs -> 0..2]
    BY <1>1, <1>3, <1>5
  <2>3. capacity' \in Int /\ live' \subseteq DOMAIN config'
    BY <1>1, <1>2, <1>3, <1>7
  <2> QED
    BY <1>0, <1>1, <2>1, <2>2, <2>3, IdleType DEF TypeOK
<1>p. Patience'
  BY <1>0, <1>1 DEF Patience, ScalesDownPatiently
<1>9. \A c \in Configs : cuts'[c] = 0 => cuts[c] = 0 /\ ~reduced(c)
  BY <1>1, <1>5
<1>10. Range(job'.new) = {} /\ job'.pc = "idle"
  BY <1>1, IdleType DEF Range
<1>g. Granted'
  <2>1. \A c \in live' : cuts'[c] = 0 => slots'[c] = config[c].replica
    BY <1>0, <1>1, <1>3, <1>9 DEF Granted
  <2>2. \A c \in Configs \ DOMAIN config : cuts'[c] = 0 /\ pods'[c] = 0
    <3>1. \A c \in Configs \ DOMAIN config : ~reduced(c)
      BY <1>3, <1>6
    <3> QED
      BY <1>0, <1>1, <3>1 DEF Granted
  <2> QED
    BY <1>1, <1>10, <2>1, <2>2 DEF Granted
<1>l. Planned' /\ Planning' /\ Survivor' /\ Range(job'.removed) = {} /\ Range(job'.updated) = {}
  BY <1>1, IdleType, NoPlan
<1>b. Backed'
  <2>1. ASSUME NEW c \in Configs, cuts'[c] = 0 \/ cuts'[c] = 1
        PROVE  pods[c] <= slots'[c]
    <3>1. CASE c \in removed
      <4>1. pods[c] = 0 /\ slots'[c] = 0
        BY <1>0, <1>1, <3>1 DEF Backed
      <4> QED
        BY <4>1
    <3>2. CASE c \notin removed /\ reduced(c)
      <4>1. cuts[c] = 0
        BY <1>1, <1>5, <2>1, <3>2
      <4>2. slots[c] = config[c].replica
        BY <1>0, <1>6, <3>2, <4>1 DEF Granted
      <4>3. slots'[c] = chosen(c).newReplica
        BY <1>1, <1>6, <3>2, <4>2
      <4>4. pods[c] <= chosen(c).newReplica
        BY <1>0, <1>6, <3>2 DEF Backed
      <4> QED
        BY <4>3, <4>4
    <3>3. CASE c \notin removed /\ ~reduced(c)
      <4>1. cuts'[c] = cuts[c] /\ slots'[c] = slots[c] /\ ~BeingReduced(c)
        BY <1>1, <3>3 DEF BeingReduced
      <4> QED
        BY <1>0, <2>1, <4>1 DEF Backed, PodsBacked
    <3> QED
      BY <3>1, <3>2, <3>3
  <2> QED
    BY <1>1, <1>l, <2>1 DEF Backed, PodsBacked
<1>k. Books'
  <2>1. /\ capacity <= SumFunctionOnSet(g, live)
        /\ (\A c \in Configs : cuts[c] = 0) => capacity = SumFunctionOnSet(g, live)
    BY <1>0 DEF Books, g
  <2>2. capacity' <= SumFunctionOnSet(g, live \ removed)
    BY <1>1, <1>2, <1>3, <1>7, <1>8, <2>1
  <2>3. ASSUME \A c \in Configs : cuts'[c] = 0
        PROVE  capacity' = SumFunctionOnSet(g, live \ removed)
    <3>1. \A c \in Configs : cuts[c] = 0
      BY <1>9, <2>3
    <3>2. updates = {}
      <4>1. \A u \in updates : u.cfg \in Configs /\ reduced(u.cfg)
        BY <1>4 DEF Update
      <4> QED
        BY <1>9, <2>3, <4>1
    <3> QED
      BY <1>1, <1>2, <1>3, <1>7, <1>8, <2>1, <3>1, <3>2
  <2> QED
    BY <1>1, <2>2, <2>3 DEF Books, g
<1> QED
  BY <1>t, <1>p, <1>g, <1>l, <1>b, <1>k DEF IInv

-----------------------------------------------------------------------------
(* The results.                                                            *)

(* Every step keeps the invariant.                                         *)
LEMMA StepKeeps ==
  ASSUME IInv, [Next]_vars
  PROVE  IInv'
<1>1. CASE \E rps10s, rps30s, earlier \in Rates : Check(rps10s, rps30s, earlier)
  BY <1>1, CheckKeeps
<1>2. CASE ScaleUpStep
  <2>1. CASE \E qps \in Qps, max \in 1..MaxReplicas : \E granted \in 0..max :
               Allocate(qps, max, granted)
    BY <2>1, AllocateKeeps
  <2> QED
    BY <1>2, <2>1, EndAllocateKeeps, AddFastPodsKeeps, AddFastPodsFailsKeeps DEF ScaleUpStep
<1>3. CASE ScaleDownStep
  BY <1>3, PlanDownKeeps, DropPodKeeps, EndDropKeeps, ResizePodKeeps, ApplyKeeps DEF ScaleDownStep
<1>4. CASE UNCHANGED vars
  <2>0. /\ UNCHANGED <<known, config, live, capacity, count, slots, pods, job>>
        /\ UNCHANGED <<last, lowBefore, cuts>>
    BY <1>4 DEF vars
  <2>1. TypeOK' /\ Patience' /\ Granted'
    BY <2>0 DEF IInv, TypeOK, Patience, ScalesDownPatiently, Granted
  <2>2. Updates' = Updates /\ Removals' = Removals
    BY <2>0 DEF Updates, Removals
  <2>3. Planned' /\ Books' /\ Survivor'
    BY <2>0, <2>2 DEF IInv, Planned, Books, Survivor
  <2>4. Backed'
    BY <2>0 DEF IInv, Backed, PodsBacked, BeingReduced
  <2>5. Planning'
    BY <2>0, <2>2 DEF IInv, Planning
  <2> QED
    BY <2>1, <2>3, <2>4, <2>5 DEF IInv
<1> QED
  BY <1>1, <1>2, <1>3, <1>4 DEF Next

(* The invariant holds in every state.                                     *)
LEMMA Inductive == Spec => []IInv
<1>1. IInv /\ [Next]_vars => IInv'
  BY StepKeeps
<1> QED
  BY <1>1, InitHolds, PTL DEF Spec

(* The function's entry, its configurations and the local variables of     *)
(* UpdateFunction keep their types: no FaSTPod is given, and no slot count *)
(* becomes, a negative number, and no plan keeps zero replicas.            *)
THEOREM TypesCorrect == Spec => []TypeOK
<1>1. IInv => TypeOK
  BY DEF IInv
<1> QED
  BY <1>1, Inductive, PTL

(* UpdateFunction scales down at the third low check in a row and at no    *)
(* other, whatever failed or was stable before.                            *)
THEOREM DownIsPatient == Spec => []ScalesDownPatiently
<1>1. IInv => ScalesDownPatiently
  BY DEF IInv, Patience
<1> QED
  BY <1>1, Inductive, PTL

(* What the configurations serve, as the properties write it.              *)
LEMMA HeldIs ==
  ASSUME TypeOK, Granted, \A c \in live : cuts[c] = 0
  PROVE  SumOver(LAMBDA c : config[c].qps * slots[c], live)
           = SumFunctionOnSet(AllocRate(config), live)
<1> DEFINE f == [c \in live |-> config[c].qps * slots[c]]
           g == AllocRate(config)
<1>1. SumOver(LAMBDA c : config[c].qps * slots[c], live) = SumFunctionOnSet(f, live)
  BY DEF SumOver, SumFunction
<1>2. live \subseteq DOMAIN config /\ IsFiniteSet(live)
  BY ConfigFacts DEF TypeOK
<1>3. \A c \in live : slots[c] = config[c].replica
  BY DEF Granted
<1>4. \A c \in live : f[c] = g[c]
  BY <1>2, <1>3 DEF AllocRate
<1> HIDE DEF f, g
<1>5. SumFunctionOnSet(f, live) = SumFunctionOnSet(g, live)
  BY <1>2, <1>4, SumEqual
<1> QED
  BY <1>1, <1>5 DEF g

(* currentRPSCapacity is the rate of the slots held, through failing API   *)
(* calls, partly granted requests and removals, until ReduceConfig is      *)
(* called for the first time.                                              *)
THEOREM CapacityStaysExact == Spec => []CapacityExact
<1>1. IInv => CapacityExact
  <2> SUFFICES ASSUME IInv, \A c \in Configs : cuts[c] = 0
               PROVE  capacity = SumOver(LAMBDA c : config[c].qps * slots[c], live)
    BY DEF CapacityExact
  <2>1. TypeOK /\ Granted /\ Books
    BY DEF IInv
  <2>2. \A c \in live : cuts[c] = 0
    BY <2>1, ConfigFacts DEF TypeOK
  <2>3. capacity = SumFunctionOnSet(AllocRate(config), live)
    BY <2>1 DEF Books
  <2> QED
    BY <2>1, <2>2, <2>3, HeldIs
<1> QED
  BY <1>1, Inductive, PTL

(* scaleDownFaSTFunc never plans away so much that the predicted rate can  *)
(* no longer be served, although its running total is wrong after the      *)
(* first reduction: the configurations are sorted, and the wrong total is  *)
(* too small to remove any that follows.                                   *)
THEOREM DemandStaysServed == Spec => []PlanServesDemand
<1>1. IInv => PlanServesDemand
  <2> SUFFICES ASSUME IInv, job.pc = "plan", \A c \in live : cuts[c] = 0
               PROVE  KeptRate >= job.rps
    BY DEF PlanServesDemand
  <2> DEFINE f == [c \in live |-> config[c].qps * KeptReplicas(c)]
             k == KeptRates(config, slots, job.toRemove, job.toUpdate)
  <2>1. TypeOK /\ Planning
    BY DEF IInv
  <2>2. KeptRate = SumFunctionOnSet(f, live)
    BY DEF KeptRate, SumOver, SumFunction
  <2>3. live \subseteq DOMAIN config /\ IsFiniteSet(live)
    BY <2>1, ConfigFacts DEF TypeOK
  <2>4. \A c \in live : f[c] = k[c]
    BY <2>3 DEF KeptReplicas, KeptRates
  <2>5. SumFunctionOnSet(k, live) >= job.rps
    BY <2>1 DEF Planning
  <2> HIDE DEF f, k
  <2>6. SumFunctionOnSet(f, live) = SumFunctionOnSet(k, live)
    BY <2>3, <2>4, SumEqual
  <2> QED
    BY <2>2, <2>5, <2>6
<1> QED
  BY <1>1, Inductive, PTL

(* A FaSTPod never has more replicas than slots, until a configuration is  *)
(* reduced for the second time.                                            *)
THEOREM PodsStayBacked == Spec => []PodsBacked
<1>1. IInv => PodsBacked
  BY DEF IInv, Backed
<1> QED
  BY <1>1, Inductive, PTL

(* Scaling down leaves a function with a minimum rate at least one         *)
(* configuration.                                                          *)
THEOREM SomeConfigStays == Spec => NeverScalesToZero
<1>1. ASSUME IInv, [Next]_vars, MinRps > 0, live # {}
      PROVE  live' # {}
  <2>1. CASE Apply
    <3>1. live' = live \ Range(job.removed) /\ job.pc = "resize"
      BY <2>1 DEF Apply
    <3>2. live \ Removals # {}
      BY <1>1, <3>1 DEF IInv, Survivor
    <3> QED
      BY <3>1, <3>2 DEF Removals
  <2>2. CASE AddFastPods
    BY <1>1, <2>2 DEF AddFastPods
  <2>3. CASE ~Apply /\ ~AddFastPods
    <3>1. live' = live
      BY <1>1, <2>3
         DEF Next, vars, ScaleUpStep, ScaleDownStep, Check, Allocate, EndAllocate,
             AddFastPodsFails, PlanDown, DropPod, EndDrop, ResizePod
    <3> QED
      BY <1>1, <3>1
  <2> QED
    BY <2>1, <2>2, <2>3
<1>2. IInv /\ [Next]_vars => [MinRps > 0 /\ live # {} => live' # {}]_vars
  BY <1>1
<1> QED
  BY <1>2, Inductive, PTL DEF Spec, NeverScalesToZero
=============================================================================
