------------------------- MODULE GpuRelease_proofs --------------------------
(***************************************************************************)
(* The GPUs of a node, for any number of GPUs, configurations, retries and *)
(* registrations: an emptied virtual GPU is pursued, the books match the   *)
(* daemon, a physical GPU has one GPUInfo, and a configuration that asks   *)
(* for a GPU of its own has it.                                            *)
(***************************************************************************)
EXTENDS GpuRelease, FiniteSetTheorems, SequenceTheorems, TLAPS

(* The parts of the inductive invariant.                                   *)

(* The map has a GPU's own GPUInfo, and a configuration without slots, or  *)
(* yet to be committed, is on none.                                        *)
Books ==
  /\ \A u \in Gpus : physical[u] # NoDevice => physical[u].uuid = u
  /\ \A c \in Configs : status[c] = "new" => holder[c] = NoDevice

(* Nothing but the daemon knows of this GPU.                               *)
Unheard(u) ==
  /\ physical[u] = NoDevice /\ handler.uuid # u
  /\ \A c \in Configs : holder[c].uuid # u
  /\ timers[u] = 0 /\ worker.gpu # u /\ \A i \in DOMAIN queue : queue[i].gpu # u

(* The loop: a plan names each configuration once; from the answer of the  *)
(* daemon to the commit nobody else puts a GPUInfo into the map.           *)
Planning ==
  /\ loop.pc \in {"idle", "free"} => loop.todo = << >>
  /\ loop.pc \in {"planned", "answer", "commit"} => loop.todo # << >>
  /\ loop.pc \notin {"commit", "free"} => loop.dev = NoDevice
  /\ \A i \in DOMAIN loop.todo :
       /\ holder[loop.todo[i].cfg] = NoDevice
       /\ loop.todo[i].dev # NoDevice => loop.todo[i].dev.uuid = loop.todo[i].entry
       /\ \A j \in DOMAIN loop.todo : i # j => loop.todo[i].cfg # loop.todo[j].cfg
  /\ loop.pc = "answer" =>
       /\ loop.gpu \in Virtual /\ loop.gpu \in provisioned /\ Unheard(loop.gpu)
       /\ \A i \in DOMAIN loop.todo : loop.todo[i].dev.uuid # loop.gpu
  /\ loop.pc = "commit" =>
       /\ loop.dev \in Devices
       /\ physical[loop.dev.uuid] \in {loop.dev, NoDevice}
       /\ loop.dev.uuid \in Physical => physical[loop.dev.uuid] = loop.dev

(* The worker: its mark is gone when a retry looks at it, only virtual     *)
(* GPUs are released, and a node that registered meanwhile has no virtual  *)
(* GPU of the worker's in its map.                                         *)
Releasing ==
  /\ worker.pc = "idle" => worker.gpu = Unprovisioned
  /\ worker.pc # "idle" => worker.gpu \in Gpus
  /\ worker.pc \in {"idle", "retry"} => processing = {}
  /\ processing \subseteq {worker.gpu}
  /\ worker.pc = "answer" => worker.gpu \in Virtual
  /\ worker.pc # "idle" /\ worker.node # registrations =>
       physical[worker.gpu] = NoDevice \/ ~physical[worker.gpu].virtual

(* Some release of the GPU is under way.                                   *)
IsPending(u) ==
  timers[u] > 0 \/ worker.gpu = u \/ \E i \in DOMAIN queue : queue[i].gpu = u

Pursued == \A u \in Gpus : Unused(u) => IsPending(u) \/ u \in givenUp

(* An exclusive configuration has the GPUInfo to itself.                   *)
Alone ==
  \A c \in Exclusive, e \in Configs : holder[c] # NoDevice /\ holder[e] = holder[c] => e = c

IInv ==
  /\ TypeOK /\ Books /\ Planning /\ Releasing
  /\ Pursued /\ BooksMatchDaemon /\ OneBookPerGpu /\ Alone

-----------------------------------------------------------------------------
(* No GPUInfo is the one that stands for none.                             *)
LEMMA DeviceIsOne ==
  /\ NoDevice \notin Devices /\ NoDevice.uuid = Unprovisioned
  /\ \A d \in Devices : d # NoDevice /\ d.uuid \in Gpus /\ d.uuid # Unprovisioned
BY GpusAssumption DEF Devices, NoDevice, Gpus

(* The list of the daemon counts.                                          *)
LEMMA ListType ==
  /\ NoList \in Counts
  /\ \A prov : DaemonList(prov) \in Counts
BY DEF NoList, Counts, DaemonList

(* The loop and the worker with nothing to do.                             *)
LEMMA RestType ==
  /\ Idle \in Loops /\ Resting \in Workers
  /\ \A s \in Seq(PlanItems) : [Idle EXCEPT !.pc = "prepare", !.todo = s] \in Loops
<1>1. << >> \in Seq(PlanItems) /\ Unprovisioned \in Entries /\ 0 \in 0..(RetryLimit + 1)
  BY ReleaseAssumption DEF Entries
<1> QED
  BY <1>1, ListType DEF Idle, Resting, Loops, Workers

(* What follows the head of a sequence.                                    *)
LEMMA TailItems ==
  ASSUME NEW S, NEW s \in Seq(S), s # << >>
  PROVE  /\ Tail(s) \in Seq(S) /\ Head(s) \in S
         /\ Len(s) \in Nat /\ DOMAIN s = 1..Len(s)
         /\ 1 \in DOMAIN s /\ Head(s) = s[1]
         /\ \A i \in DOMAIN Tail(s) : i \in Int /\ i + 1 \in DOMAIN s /\ i + 1 # 1 /\ Tail(s)[i] = s[i + 1]
         /\ \A i \in DOMAIN s : i # 1 => i - 1 \in DOMAIN Tail(s) /\ Tail(s)[i - 1] = s[i]
<1>1. /\ Tail(s) \in Seq(S) /\ Head(s) \in S /\ Len(Tail(s)) = Len(s) - 1
      /\ \A i \in 1..Len(Tail(s)) : Tail(s)[i] = s[i + 1]
  BY HeadTailProperties
<1>2. Len(s) \in Nat \ {0} /\ DOMAIN s = 1..Len(s) /\ DOMAIN Tail(s) = 1..Len(Tail(s))
  BY <1>1, EmptySeq, LenProperties
<1>3. Head(s) = s[1]
  OBVIOUS
<1> QED
  BY <1>1, <1>2, <1>3

(* What an item added to the queue changes.                                *)
LEMMA AppendItems ==
  ASSUME NEW S, NEW s \in Seq(S), NEW e \in S
  PROVE  /\ Append(s, e) \in Seq(S)
         /\ \A i \in DOMAIN s : i \in DOMAIN Append(s, e) /\ Append(s, e)[i] = s[i]
         /\ \E i \in DOMAIN Append(s, e) : Append(s, e)[i] = e
         /\ \A i \in DOMAIN Append(s, e) : Append(s, e)[i] = e \/ (i \in DOMAIN s /\ Append(s, e)[i] = s[i])
<1>1. /\ Append(s, e) \in Seq(S) /\ Len(Append(s, e)) = Len(s) + 1
      /\ \A i \in 1..Len(s) : Append(s, e)[i] = s[i]
      /\ Append(s, e)[Len(s) + 1] = e
  BY AppendProperties
<1>2. Len(s) \in Nat /\ DOMAIN s = 1..Len(s) /\ DOMAIN Append(s, e) = 1..(Len(s) + 1)
  BY <1>1, LenProperties
<1>3. Len(s) + 1 \in DOMAIN Append(s, e)
  BY <1>2
<1>4. \A i \in DOMAIN Append(s, e) : i = Len(s) + 1 \/ i \in 1..Len(s)
  BY <1>2
<1>5. \A i \in DOMAIN s : i \in DOMAIN Append(s, e)
  BY <1>2
<1>6. \A i \in DOMAIN Append(s, e) : Append(s, e)[i] = e \/ (i \in DOMAIN s /\ Append(s, e)[i] = s[i])
  <2> TAKE i \in DOMAIN Append(s, e)
  <2>1. CASE i = Len(s) + 1
    BY <1>1, <2>1, Zenon
  <2>2. CASE i \in 1..Len(s)
    BY <1>1, <1>2, <2>2
  <2> QED
    BY <1>4, <2>1, <2>2
<1> QED
  BY <1>1, <1>2, <1>3, <1>5, <1>6

(* A release is under way exactly if some are.                             *)
LEMMA PendingMeans ==
  ASSUME TypeOK, NEW u \in Gpus
  PROVE  /\ Pending(u) > 0 <=> IsPending(u)
         /\ Pending(u) = 0 => ~IsPending(u)
<1> DEFINE I == {i \in DOMAIN queue : queue[i].gpu = u}
<1>1. timers[u] \in Nat
  BY DEF TypeOK
<1>2. IsFiniteSet(DOMAIN queue)
  <2>1. Len(queue) \in Nat /\ DOMAIN queue = 1..Len(queue)
    BY LenProperties DEF TypeOK
  <2> QED
    BY <2>1, FS_Interval
<1>3. IsFiniteSet(I)
  BY <1>2, FS_Subset
<1>4. Cardinality(I) \in Nat /\ (Cardinality(I) = 0 <=> I = {})
  BY <1>3, FS_CardinalityType, FS_EmptySet
<1>5. Items(u) = Cardinality(I)
  BY DEF Items
<1>6. I # {} <=> \E i \in DOMAIN queue : queue[i].gpu = u
  OBVIOUS
<1> HIDE DEF I
<1> QED
  BY <1>1, <1>4, <1>5, <1>6 DEF Pending, IsPending

(* The loop goes on with the GPUInfo the map has.                          *)
LEMMA UseKnownStep ==
  ASSUME IInv, UseKnown
  PROVE  IInv'
<1>0. /\ TypeOK /\ Books /\ Planning /\ Releasing /\ Pursued
      /\ BooksMatchDaemon /\ OneBookPerGpu /\ Alone
  BY DEF IInv
<1>a. /\ Next1 \in PlanItems /\ 1 \in DOMAIN loop.todo /\ Next1 = loop.todo[1]
  BY <1>0, TailItems DEF UseKnown, Preparing, Next1, TypeOK, Loops
<1>b. /\ Found \in Devices /\ Found = physical[Next1.entry] /\ Next1.entry \in Gpus
      /\ Found.uuid = Next1.entry
  <2>1. Planned # NoDevice /\ Found = physical[Planned.uuid] /\ Planned.uuid = Next1.entry
    BY <1>0, <1>a DEF UseKnown, Found, Planned, NewDevice, Planning, NoDevice
  <2>2. Next1.entry \in Gpus
    BY <1>0, <1>a, <2>1, DeviceIsOne DEF Planned, PlanItems, Entries, NoDevice
  <2> QED
    BY <1>0, <2>1, <2>2 DEF UseKnown, TypeOK, Books
<1>1. TypeOK'
  <2>1. loop' \in Loops
    BY <1>0, <1>b DEF UseKnown, TypeOK, Loops
  <2> QED
    BY <1>0, <2>1 DEF UseKnown, TypeOK, loopVars, releaseVars, nodeVars
<1>2. Books' /\ Planning'
  <2>1. Books'
    BY <1>0 DEF UseKnown, nodeVars, Books
  <2>2. /\ loop'.pc = "commit" /\ loop'.todo = loop.todo /\ loop'.dev = Found
        /\ loop.todo # << >>
        /\ UNCHANGED <<physical, holder>>
    BY <1>0 DEF UseKnown, nodeVars, Preparing, TypeOK, Loops
  <2>3. Found \in Devices /\ physical[Found.uuid] = Found
    BY <1>b
  <2>4. Planning'
    BY <1>0, <2>2, <2>3 DEF Planning
  <2> QED
    BY <2>1, <2>4
<1>3. Releasing'
  BY <1>0, DeviceIsOne
     DEF UseKnown, Preparing, loopVars, releaseVars, nodeVars, TypeOK, Loops, Workers,
         Planning, Unheard, Releasing
<1>4. Pursued'
  <2> SUFFICES ASSUME NEW v \in Gpus, Unused(v)'
               PROVE  IsPending(v)' \/ v \in givenUp'
    BY DEF Pursued
  <2>1. Unused(v)
    BY <1>0, DeviceIsOne
       DEF UseKnown, loopVars, releaseVars, nodeVars, Preparing, Unused, AtWork, Holders,
           TypeOK, Planning
  <2>2. IsPending(v) => IsPending(v)'
    BY <1>0 DEF UseKnown, Preparing, loopVars, releaseVars, nodeVars, IsPending
  <2> QED
    BY <1>0, <2>1, <2>2 DEF Pursued, UseKnown
<1>5. BooksMatchDaemon' /\ OneBookPerGpu'
  BY <1>0, DeviceIsOne
     DEF UseKnown, Preparing, loopVars, releaseVars, nodeVars, TypeOK, Loops, Books, Planning,
         Unheard, Releasing, BooksMatchDaemon, OneBookPerGpu, Users
<1>6. Alone'
  BY <1>0 DEF UseKnown, loopVars, Alone
<1> QED
  BY <1>1, <1>2, <1>3, <1>4, <1>5, <1>6 DEF IInv

(* The plan is done.                                                       *)
LEMMA RecordStep ==
  ASSUME IInv, NEW ok \in BOOLEAN, Record(ok)
  PROVE  IInv'
<1>0. /\ TypeOK /\ Books /\ Planning /\ Releasing /\ Pursued
      /\ BooksMatchDaemon /\ OneBookPerGpu /\ Alone
  BY DEF IInv
<1>1. TypeOK'
  <2>1. loop' \in Loops
    BY RestType DEF Record
  <2>2. status' \in [Configs -> {"new", "planned", "live", "leaked"}]
    BY <1>0 DEF Record, TypeOK
  <2> QED
    BY <1>0, <2>1, <2>2 DEF Record, TypeOK, loopVars, releaseVars, nodeVars
<1>2. Books' /\ Planning'
  BY <1>0, DeviceIsOne
     DEF Record, Idle, loopVars, releaseVars, nodeVars, TypeOK, Loops, Books, Planning,
         Unheard, Releasing
<1>3. Releasing'
  BY <1>0, DeviceIsOne
     DEF Record, Idle, loopVars, releaseVars, nodeVars, TypeOK, Loops, Workers, Planning,
         Unheard, Releasing
<1>4. Pursued'
  <2> SUFFICES ASSUME NEW v \in Gpus, Unused(v)'
               PROVE  IsPending(v)' \/ v \in givenUp'
    BY DEF Pursued
  <2>1. Unused(v)
    BY <1>0 DEF Record, loopVars, releaseVars, nodeVars, Unused, AtWork, Holders, Planning
  <2>2. IsPending(v) => IsPending(v)'
    BY <1>0 DEF Record, Idle, loopVars, releaseVars, nodeVars, IsPending
  <2> QED
    BY <1>0, <2>1, <2>2 DEF Pursued, Record
<1>5. BooksMatchDaemon' /\ OneBookPerGpu'
  BY <1>0, DeviceIsOne
     DEF Record, Idle, loopVars, releaseVars, nodeVars, TypeOK, Loops, Books, Planning,
         Unheard, Releasing, BooksMatchDaemon, OneBookPerGpu, Users
<1>6. Alone'
  BY <1>0 DEF Record, loopVars, Alone
<1> QED
  BY <1>1, <1>2, <1>3, <1>4, <1>5, <1>6 DEF IInv

(* The loop frees the slots of a configuration.                            *)
LEMMA DeallocateStep ==
  ASSUME IInv, NEW c \in Configs, Deallocate(c)
  PROVE  IInv'
<1>0. /\ TypeOK /\ Books /\ Planning /\ Releasing /\ Pursued
      /\ BooksMatchDaemon /\ OneBookPerGpu /\ Alone
  BY DEF IInv
<1>1. TypeOK'
  <2>1. loop' \in Loops
    BY <1>0, RestType DEF Deallocate, TypeOK, Loops
  <2> QED
    BY <1>0, <2>1 DEF Deallocate, Free, TypeOK, loopVars, releaseVars, nodeVars
<1>2. Books' /\ Planning'
  BY <1>0, DeviceIsOne
     DEF Deallocate, Free, Idle, loopVars, releaseVars, nodeVars, TypeOK, Loops, Books,
         Planning, Unheard, Releasing
<1>3. Releasing'
  BY <1>0, DeviceIsOne
     DEF Deallocate, Free, Idle, loopVars, releaseVars, nodeVars, TypeOK, Loops, Workers,
         Planning, Unheard, Releasing
<1>4. Pursued'
  <2> SUFFICES ASSUME NEW v \in Gpus, Unused(v)'
               PROVE  IsPending(v)' \/ v \in givenUp'
    BY DEF Pursued
  <2>1. Unused(v)
    BY <1>0, DeviceIsOne
       DEF Deallocate, loopVars, releaseVars, nodeVars, Free, Idle, Unused, AtWork, Holders,
           TypeOK
  <2>2. IsPending(v) => IsPending(v)'
    BY <1>0 DEF Deallocate, Free, Idle, loopVars, releaseVars, nodeVars, IsPending
  <2> QED
    BY <1>0, <2>1, <2>2 DEF Pursued, Deallocate
<1>5. BooksMatchDaemon' /\ OneBookPerGpu'
  BY <1>0, DeviceIsOne
     DEF Deallocate, Free, Idle, loopVars, releaseVars, nodeVars, TypeOK, Loops, Books,
         Planning, Unheard, Releasing, BooksMatchDaemon, OneBookPerGpu, Users
<1>6. Alone'
  BY <1>0, ConfigsAssumption DEF Deallocate, Free, TypeOK, Alone
<1> QED
  BY <1>1, <1>2, <1>3, <1>4, <1>5, <1>6 DEF IInv

(* It asks whether the GPU is empty.                                       *)
LEMMA EndDeallocateStep ==
  ASSUME IInv, EndDeallocate
  PROVE  IInv'
<1>0. /\ TypeOK /\ Books /\ Planning /\ Releasing /\ Pursued
      /\ BooksMatchDaemon /\ OneBookPerGpu /\ Alone
  BY DEF IInv
<1>1. TypeOK'
  <2>1. loop' \in Loops
    BY RestType DEF EndDeallocate
  <2>2. timers' \in [Gpus -> Nat]
    BY <1>0 DEF EndDeallocate, ScheduleForDeletion, TypeOK
  <2> QED
    BY <1>0, <2>1, <2>2 DEF EndDeallocate, TypeOK, loopVars, releaseVars, nodeVars
<1>2. Books' /\ Planning'
  BY <1>0, DeviceIsOne
     DEF EndDeallocate, ScheduleForDeletion, Idle, loopVars, releaseVars, nodeVars, TypeOK,
         Loops, Books, Planning, Unheard, Releasing
<1>3. Releasing'
  BY <1>0, DeviceIsOne
     DEF EndDeallocate, ScheduleForDeletion, Idle, loopVars, releaseVars, nodeVars, TypeOK,
         Loops, Workers, Planning, Unheard, Releasing
<1>4. Pursued'
  <2> SUFFICES ASSUME NEW v \in Gpus, Unused(v)'
               PROVE  IsPending(v)' \/ v \in givenUp'
    BY DEF Pursued
  <2>1. physical[v] = loop.dev => IsPending(v)'
    BY <1>0
       DEF EndDeallocate, ScheduleForDeletion, loopVars, releaseVars, nodeVars, Unused,
           Holders, IsPending, Books, TypeOK
  <2>2. physical[v] # loop.dev => Unused(v)
    BY <1>0 DEF EndDeallocate, loopVars, releaseVars, nodeVars, Unused, AtWork, Holders
  <2>3. IsPending(v) => IsPending(v)'
    BY <1>0 DEF EndDeallocate, ScheduleForDeletion, IsPending, TypeOK
  <2> QED
    BY <1>0, <2>1, <2>2, <2>3 DEF Pursued, EndDeallocate
<1>5. BooksMatchDaemon' /\ OneBookPerGpu'
  BY <1>0, DeviceIsOne
     DEF EndDeallocate, ScheduleForDeletion, Idle, loopVars, releaseVars, nodeVars, TypeOK,
         Loops, Books, Planning, Unheard, Releasing, BooksMatchDaemon, OneBookPerGpu, Users
<1>6. Alone'
  BY <1>0 DEF EndDeallocate, loopVars, Alone
<1> QED
  BY <1>1, <1>2, <1>3, <1>4, <1>5, <1>6 DEF IInv

(* The handler frees the slots of a configuration.                         *)
LEMMA DeleteConfigStep ==
  ASSUME IInv, NEW c \in Configs, DeleteConfig(c)
  PROVE  IInv'
<1>0. /\ TypeOK /\ Books /\ Planning /\ Releasing /\ Pursued
      /\ BooksMatchDaemon /\ OneBookPerGpu /\ Alone
  BY DEF IInv
<1>1. TypeOK'
  BY <1>0 DEF DeleteConfig, Free, loopVars, releaseVars, nodeVars, TypeOK
<1>2. Books' /\ Planning'
  BY <1>0, DeviceIsOne
     DEF DeleteConfig, Free, loopVars, releaseVars, nodeVars, TypeOK, Loops, Books, Planning,
         Unheard, Releasing
<1>3. Releasing'
  BY <1>0, DeviceIsOne
     DEF DeleteConfig, Free, loopVars, releaseVars, nodeVars, TypeOK, Loops, Workers,
         Planning, Unheard, Releasing
<1>4. Pursued'
  <2> SUFFICES ASSUME NEW v \in Gpus, Unused(v)'
               PROVE  IsPending(v)' \/ v \in givenUp'
    BY DEF Pursued
  <2>1. Unused(v)
    BY <1>0, DeviceIsOne
       DEF DeleteConfig, loopVars, releaseVars, nodeVars, Free, Unused, AtWork, Holders, TypeOK
  <2>2. IsPending(v) => IsPending(v)'
    BY <1>0 DEF DeleteConfig, Free, loopVars, releaseVars, nodeVars, IsPending
  <2> QED
    BY <1>0, <2>1, <2>2 DEF Pursued, DeleteConfig
<1>5. BooksMatchDaemon' /\ OneBookPerGpu'
  BY <1>0, DeviceIsOne
     DEF DeleteConfig, Free, loopVars, releaseVars, nodeVars, TypeOK, Loops, Books, Planning,
         Unheard, Releasing, BooksMatchDaemon, OneBookPerGpu, Users
<1>6. Alone'
  BY <1>0, ConfigsAssumption DEF DeleteConfig, Free, TypeOK, Alone
<1> QED
  BY <1>1, <1>2, <1>3, <1>4, <1>5, <1>6 DEF IInv

(* It asks whether the GPU is empty.                                       *)
LEMMA EndDeleteConfigStep ==
  ASSUME IInv, EndDeleteConfig
  PROVE  IInv'
<1>0. /\ TypeOK /\ Books /\ Planning /\ Releasing /\ Pursued
      /\ BooksMatchDaemon /\ OneBookPerGpu /\ Alone
  BY DEF IInv
<1>a. \A v \in Gpus :
        timers'[v] = timers[v] \/ (v = handler.uuid /\ timers'[v] = timers[v] + 1)
  <2>1. CASE Holders(handler) = {} /\ handler.virtual
    <3>1. timers' = [timers EXCEPT ![handler.uuid] = @ + 1]
      BY <2>1, Zenon DEF EndDeleteConfig, ScheduleForDeletion
    <3> QED
      BY <1>0, <3>1 DEF TypeOK
  <2>2. CASE ~(Holders(handler) = {} /\ handler.virtual)
    <3>1. timers' = timers
      BY <2>2, Zenon DEF EndDeleteConfig
    <3> QED
      BY <3>1
  <2> QED
    BY <2>1, <2>2
<1>1. TypeOK'
  <2>2. timers' \in [Gpus -> Nat]
    BY <1>0 DEF EndDeleteConfig, ScheduleForDeletion, TypeOK
  <2> QED
    BY <1>0, <2>2 DEF EndDeleteConfig, TypeOK, loopVars, releaseVars, nodeVars
<1>2. Books' /\ Planning'
  <2>1. UNCHANGED <<physical, holder, queue, worker, loop, provisioned, status>> /\ handler' = NoDevice
    BY DEF EndDeleteConfig, loopVars, releaseVars, nodeVars
  <2>2. loop.pc = "answer" => Unheard(loop.gpu)'
    BY <1>0, <1>a, <2>1, DeviceIsOne, GpusAssumption DEF Planning, Unheard, Gpus
  <2> QED
    BY <1>0, <2>1, <2>2 DEF Books, Planning
<1>3. Releasing'
  BY <1>0, DeviceIsOne
     DEF EndDeleteConfig, ScheduleForDeletion, loopVars, releaseVars, nodeVars, TypeOK, Loops,
         Workers, Planning, Unheard, Releasing
<1>4. Pursued'
  <2> SUFFICES ASSUME NEW v \in Gpus, Unused(v)'
               PROVE  IsPending(v)' \/ v \in givenUp'
    BY DEF Pursued
  <2>1. physical[v] = handler => IsPending(v)'
    BY <1>0
       DEF EndDeleteConfig, ScheduleForDeletion, loopVars, releaseVars, nodeVars, Unused,
           Holders, IsPending, Books, TypeOK
  <2>2. physical[v] # handler => Unused(v)
    BY <1>0 DEF EndDeleteConfig, loopVars, releaseVars, nodeVars, Unused, AtWork, Holders
  <2>3. IsPending(v) => IsPending(v)'
    BY <1>0, <1>a DEF EndDeleteConfig, IsPending, TypeOK
  <2> QED
    BY <1>0, <2>1, <2>2, <2>3 DEF Pursued, EndDeleteConfig
<1>5. BooksMatchDaemon' /\ OneBookPerGpu'
  BY <1>0, DeviceIsOne
     DEF EndDeleteConfig, ScheduleForDeletion, loopVars, releaseVars, nodeVars, TypeOK, Loops,
         Books, Planning, Unheard, Releasing, BooksMatchDaemon, OneBookPerGpu, Users
<1>6. Alone'
  BY <1>0 DEF EndDeleteConfig, loopVars, Alone
<1> QED
  BY <1>1, <1>2, <1>3, <1>4, <1>5, <1>6 DEF IInv

(* A timer fires.                                                          *)
LEMMA FireStep ==
  ASSUME IInv, NEW u \in Gpus, Fire(u)
  PROVE  IInv'
<1>0. /\ TypeOK /\ Books /\ Planning /\ Releasing /\ Pursued
      /\ BooksMatchDaemon /\ OneBookPerGpu /\ Alone
  BY DEF IInv
<1>a. [gpu |-> u, retry |-> 0] \in QueueItems
  BY ReleaseAssumption DEF QueueItems
<1>b. /\ queue' \in Seq(QueueItems)
      /\ \A i \in DOMAIN queue : i \in DOMAIN queue' /\ queue'[i] = queue[i]
      /\ \E i \in DOMAIN queue' : queue'[i].gpu = u
      /\ \A i \in DOMAIN queue' : queue'[i].gpu = u \/ (i \in DOMAIN queue /\ queue'[i] = queue[i])
  BY <1>0, <1>a, AppendItems DEF Fire, TypeOK
<1>1. TypeOK'
  <2>1. timers' \in [Gpus -> Nat]
    BY <1>0 DEF Fire, TypeOK
  <2> QED
    BY <1>0, <1>b, <2>1 DEF Fire, TypeOK, loopVars, releaseVars, nodeVars
<1>2. Books' /\ Planning'
  <2>1. /\ \A v \in Gpus : timers[v] = 0 => timers'[v] = 0
        /\ loop.pc = "answer" => u # loop.gpu /\ loop.gpu \in Gpus
    BY <1>0 DEF Fire, TypeOK, Planning, Unheard, Gpus
  <2>2. UNCHANGED <<physical, handler, holder, worker, loop, provisioned, status>>
    BY DEF Fire, loopVars, releaseVars, nodeVars
  <2>3. loop.pc = "answer" => Unheard(loop.gpu)'
    BY <1>0, <1>b, <2>1, <2>2 DEF Planning, Unheard
  <2> QED
    BY <1>0, <2>2, <2>3 DEF Books, Planning
<1>3. Releasing'
  BY <1>0, DeviceIsOne
     DEF Fire, loopVars, releaseVars, nodeVars, TypeOK, Loops, Workers, Planning, Unheard,
         Releasing
<1>4. Pursued'
  <2> SUFFICES ASSUME NEW v \in Gpus, Unused(v)'
               PROVE  IsPending(v)' \/ v \in givenUp'
    BY DEF Pursued
  <2>1. Unused(v)
    BY <1>0 DEF Fire, loopVars, releaseVars, nodeVars, Unused, AtWork, Holders
  <2>2. IsPending(v) => IsPending(v)'
    BY <1>0, <1>b DEF Fire, TypeOK, IsPending
  <2> QED
    BY <1>0, <2>1, <2>2 DEF Pursued, Fire
<1>5. BooksMatchDaemon' /\ OneBookPerGpu'
  BY <1>0, DeviceIsOne
     DEF Fire, loopVars, releaseVars, nodeVars, TypeOK, Loops, Books, Planning, Unheard,
         Releasing, BooksMatchDaemon, OneBookPerGpu, Users
<1>6. Alone'
  BY <1>0 DEF Fire, loopVars, Alone
<1> QED
  BY <1>1, <1>2, <1>3, <1>4, <1>5, <1>6 DEF IInv

(* The worker takes an item.                                               *)
LEMMA TakeStep ==
  ASSUME IInv, Take
  PROVE  IInv'
<1>0. /\ TypeOK /\ Books /\ Planning /\ Releasing /\ Pursued
      /\ BooksMatchDaemon /\ OneBookPerGpu /\ Alone
  BY DEF IInv
<1>a. /\ Head(queue) \in QueueItems /\ Tail(queue) \in Seq(QueueItems)
      /\ 1 \in DOMAIN queue /\ Head(queue) = queue[1]
      /\ \A i \in DOMAIN Tail(queue) : i + 1 \in DOMAIN queue /\ Tail(queue)[i] = queue[i + 1]
      /\ \A i \in DOMAIN queue : i # 1 => i - 1 \in DOMAIN Tail(queue) /\ Tail(queue)[i - 1] = queue[i]
  BY <1>0, TailItems DEF Take, TypeOK
<1>b. /\ worker'.pc = "call" /\ worker'.gpu = Head(queue).gpu /\ worker'.node = registrations
      /\ worker'.gpu \in Gpus /\ worker' \in Workers /\ queue' = Tail(queue)
  BY <1>0, <1>a, ListType DEF Take, TypeOK, QueueItems, Workers, Entries
<1>1. TypeOK'
  BY <1>0, <1>a, <1>b DEF Take, loopVars, releaseVars, nodeVars, TypeOK
<1>2. Books' /\ Planning'
  <2>2. UNCHANGED <<physical, handler, holder, timers, loop, provisioned, status>>
    BY DEF Take, loopVars, releaseVars, nodeVars
  <2>3. loop.pc = "answer" => Unheard(loop.gpu)'
    BY <1>0, <1>a, <1>b, <2>2 DEF Planning, Unheard
  <2> QED
    BY <1>0, <2>2, <2>3 DEF Books, Planning
<1>3. Releasing'
  <2>1. processing' = {worker'.gpu} /\ UNCHANGED <<physical, registrations>>
    BY <1>0, <1>b DEF Take, loopVars, releaseVars, nodeVars, Releasing
  <2> QED
    BY <1>b, <2>1 DEF Releasing
<1>4. Pursued'
  <2> SUFFICES ASSUME NEW v \in Gpus, Unused(v)'
               PROVE  IsPending(v)' \/ v \in givenUp'
    BY DEF Pursued
  <2>1. Unused(v)
    BY <1>0 DEF Take, loopVars, releaseVars, nodeVars, Unused, AtWork, Holders
  <2>2. IsPending(v) => IsPending(v)'
    <3>1. timers' = timers /\ v # worker.gpu
      BY <1>0, GpusAssumption DEF Take, Releasing
    <3>2. ASSUME NEW i \in DOMAIN queue, queue[i].gpu = v PROVE IsPending(v)'
      <4>1. CASE i = 1
        BY <1>a, <1>b, <3>2, <4>1 DEF IsPending
      <4>2. CASE i # 1
        BY <1>a, <1>b, <3>2, <4>2 DEF IsPending
      <4> QED
        BY <4>1, <4>2
    <3> QED
      BY <3>1, <3>2 DEF IsPending
  <2> QED
    BY <1>0, <2>1, <2>2 DEF Pursued, Take
<1>5. BooksMatchDaemon' /\ OneBookPerGpu'
  BY <1>0, DeviceIsOne
     DEF Take, loopVars, releaseVars, nodeVars, TypeOK, Loops, Books, Planning, Unheard,
         Releasing, BooksMatchDaemon, OneBookPerGpu, Users
<1>6. Alone'
  BY <1>0 DEF Take, loopVars, Alone
<1> QED
  BY <1>1, <1>2, <1>3, <1>4, <1>5, <1>6 DEF IInv

(* The daemon releases the GPU.                                            *)
LEMMA ReleaseVirtualGPUStep ==
  ASSUME IInv, ReleaseVirtualGPU
  PROVE  IInv'
<1>0. /\ TypeOK /\ Books /\ Planning /\ Releasing /\ Pursued
      /\ BooksMatchDaemon /\ OneBookPerGpu /\ Alone
  BY DEF IInv
<1>1. TypeOK'
  <2>1. worker' \in Workers
    BY <1>0, ListType DEF ReleaseVirtualGPU, TypeOK, Workers
  <2> QED
    BY <1>0, <2>1 DEF ReleaseVirtualGPU, TypeOK, loopVars, releaseVars, nodeVars
<1>2. Books' /\ Planning'
  BY <1>0, DeviceIsOne
     DEF ReleaseVirtualGPU, loopVars, releaseVars, nodeVars, TypeOK, Loops, Books, Planning,
         Unheard, Releasing
<1>3. Releasing'
  BY <1>0, DeviceIsOne
     DEF ReleaseVirtualGPU, loopVars, releaseVars, nodeVars, TypeOK, Loops, Workers, Planning,
         Unheard, Releasing
<1>4. Pursued'
  <2> SUFFICES ASSUME NEW v \in Gpus, Unused(v)'
               PROVE  IsPending(v)' \/ v \in givenUp'
    BY DEF Pursued
  <2>1. Unused(v)
    BY <1>0 DEF ReleaseVirtualGPU, loopVars, releaseVars, nodeVars, Unused, AtWork, Holders
  <2>2. IsPending(v) => IsPending(v)'
    BY <1>0 DEF ReleaseVirtualGPU, loopVars, releaseVars, nodeVars, IsPending, TypeOK, Workers
  <2> QED
    BY <1>0, <2>1, <2>2 DEF Pursued, ReleaseVirtualGPU
<1>5. BooksMatchDaemon' /\ OneBookPerGpu'
  BY <1>0, DeviceIsOne
     DEF ReleaseVirtualGPU, loopVars, releaseVars, nodeVars, TypeOK, Loops, Books, Planning,
         Unheard, Releasing, BooksMatchDaemon, OneBookPerGpu, Users
<1>6. Alone'
  BY <1>0 DEF ReleaseVirtualGPU, loopVars, Alone
<1> QED
  BY <1>1, <1>2, <1>3, <1>4, <1>5, <1>6 DEF IInv

(* The release fails.                                                      *)
LEMMA ReleaseFailsStep ==
  ASSUME IInv, ReleaseFails
  PROVE  IInv'
<1>0. /\ TypeOK /\ Books /\ Planning /\ Releasing /\ Pursued
      /\ BooksMatchDaemon /\ OneBookPerGpu /\ Alone
  BY DEF IInv
<1>1. TypeOK'
  <2>1. worker' \in Workers
    BY <1>0 DEF ReleaseFails, TypeOK, Workers
  <2>2. provisioned' \subseteq Virtual /\ lost' \subseteq Gpus
    BY <1>0 DEF ReleaseFails, TypeOK, Releasing
  <2> QED
    BY <1>0, <2>1, <2>2 DEF ReleaseFails, TypeOK, loopVars, releaseVars, nodeVars
<1>2. Books' /\ Planning'
  BY <1>0, DeviceIsOne
     DEF ReleaseFails, loopVars, releaseVars, nodeVars, TypeOK, Loops, Books, Planning,
         Unheard, Releasing
<1>3. Releasing'
  BY <1>0, DeviceIsOne
     DEF ReleaseFails, loopVars, releaseVars, nodeVars, TypeOK, Loops, Workers, Planning,
         Unheard, Releasing
<1>4. Pursued'
  <2> SUFFICES ASSUME NEW v \in Gpus, Unused(v)'
               PROVE  IsPending(v)' \/ v \in givenUp'
    BY DEF Pursued
  <2>1. Unused(v)
    BY <1>0 DEF ReleaseFails, loopVars, releaseVars, nodeVars, Unused, AtWork, Holders
  <2>2. IsPending(v) => IsPending(v)'
    BY <1>0 DEF ReleaseFails, loopVars, releaseVars, nodeVars, IsPending, TypeOK, Workers
  <2> QED
    BY <1>0, <2>1, <2>2 DEF Pursued, ReleaseFails
<1>5. BooksMatchDaemon' /\ OneBookPerGpu'
  BY <1>0, DeviceIsOne
     DEF ReleaseFails, loopVars, releaseVars, nodeVars, TypeOK, Loops, Books, Planning,
         Unheard, Releasing, BooksMatchDaemon, OneBookPerGpu, Users
<1>6. Alone'
  BY <1>0 DEF ReleaseFails, loopVars, Alone
<1> QED
  BY <1>1, <1>2, <1>3, <1>4, <1>5, <1>6 DEF IInv

(* The answer of the daemon is applied.                                    *)
LEMMA ReleasedStep ==
  ASSUME IInv, Released
  PROVE  IInv'
<1>0. /\ TypeOK /\ Books /\ Planning /\ Releasing /\ Pursued
      /\ BooksMatchDaemon /\ OneBookPerGpu /\ Alone
  BY DEF IInv
<1>a. /\ worker.gpu \in Virtual /\ worker.gpu \in Gpus /\ worker.gpu # Unprovisioned
      /\ worker.gpu \notin Physical
  BY <1>0, GpusAssumption DEF Released, Releasing, Gpus
<1>b. /\ physical' \in [Gpus -> Devices \cup {NoDevice}] /\ available' \in Counts
      /\ \A v \in Gpus : v # worker.gpu => physical'[v] = physical[v]
      /\ physical'[worker.gpu] # NoDevice =>
           physical'[worker.gpu] = physical[worker.gpu] /\ ~physical[worker.gpu].virtual
  <2>1. CASE worker.node = registrations
    <3>1. available \in [Entries -> 0..2] /\ worker.answer \in [Entries -> 0..2]
      BY <1>0 DEF TypeOK, Workers, Counts
    <3>2. available' \in Counts
      BY <2>1, <3>1 DEF Released, ApplyAnswer, AtLeastTwice, Counts
    <3> QED
      BY <1>0, <1>a, <2>1, <3>2 DEF Released, ApplyAnswer, TypeOK
  <2>2. CASE worker.node # registrations
    BY <1>0, <1>a, <2>2 DEF Released, nodeVars, TypeOK, Releasing
  <2> QED
    BY <2>1, <2>2
<1>c. /\ worker' = Resting /\ worker'.gpu = Unprovisioned /\ worker'.pc = "idle"
      /\ processing' = {}
      /\ UNCHANGED <<provisioned, loop, holder, status, exclusive, handler, timers, queue,
                     snapshot, registrations, lost, givenUp>>
  BY <1>0 DEF Released, Releasing, Resting, loopVars
<1>1. TypeOK'
  BY <1>0, <1>b, <1>c, RestType DEF TypeOK
<1>2. Books' /\ Planning'
  <2>1. loop.pc = "answer" => Unheard(loop.gpu)'
    BY <1>0, <1>b, <1>c, GpusAssumption DEF Planning, Unheard, Gpus
  <2> QED
    BY <1>0, <1>a, <1>b, <1>c, <2>1, DeviceIsOne DEF Books, Planning
<1>3. Releasing'
  BY <1>c DEF Releasing
<1>4. Pursued'
  <2> SUFFICES ASSUME NEW v \in Gpus, Unused(v)'
               PROVE  IsPending(v)' \/ v \in givenUp'
    BY DEF Pursued
  <2>1. v # worker.gpu
    BY <1>b DEF Unused
  <2>2. Unused(v)
    BY <1>b, <1>c, <2>1 DEF Unused, AtWork, Holders
  <2>3. IsPending(v) => IsPending(v)'
    BY <1>c, <2>1 DEF IsPending
  <2> QED
    BY <1>0, <1>c, <2>2, <2>3 DEF Pursued
<1>5. BooksMatchDaemon' /\ OneBookPerGpu'
  <2>1. BooksMatchDaemon'
    BY <1>0, <1>b, <1>c DEF BooksMatchDaemon
  <2>2. OneBookPerGpu'
    BY <1>0, <1>a, <1>b, <1>c DEF OneBookPerGpu, Users, Gpus
  <2> QED
    BY <2>1, <2>2
<1>6. Alone'
  BY <1>0 DEF Released, loopVars, Alone
<1> QED
  BY <1>1, <1>2, <1>3, <1>4, <1>5, <1>6 DEF IInv

(* A failed release is queued again or given up.                           *)
LEMMA RetryStep ==
  ASSUME IInv, Retry
  PROVE  IInv'
<1>0. /\ TypeOK /\ Books /\ Planning /\ Releasing /\ Pursued
      /\ BooksMatchDaemon /\ OneBookPerGpu /\ Alone
  BY DEF IInv
<1>a. /\ worker.gpu \in Gpus /\ worker.gpu # Unprovisioned /\ processing = {}
  BY <1>0, GpusAssumption DEF Retry, Releasing
<1>b. \/ queue' = queue /\ givenUp' = givenUp \cup {worker.gpu}
      \/ /\ queue' = Append(queue, [gpu |-> worker.gpu, retry |-> worker.retry + 1])
         /\ givenUp' = givenUp
         /\ [gpu |-> worker.gpu, retry |-> worker.retry + 1] \in QueueItems
  BY <1>0, <1>a, ReleaseAssumption
     DEF Retry, QueueAgain, TooManyRetries, TypeOK, Workers, QueueItems
<1>c. /\ queue' \in Seq(QueueItems)
      /\ \A i \in DOMAIN queue : i \in DOMAIN queue' /\ queue'[i] = queue[i]
      /\ worker.gpu \in givenUp' \/ \E i \in DOMAIN queue' : queue'[i].gpu = worker.gpu
      /\ \A i \in DOMAIN queue' :
           queue'[i].gpu = worker.gpu \/ (i \in DOMAIN queue /\ queue'[i] = queue[i])
  <2>1. CASE queue' = queue /\ givenUp' = givenUp \cup {worker.gpu}
    BY <1>0, <2>1 DEF TypeOK
  <2>2. CASE /\ queue' = Append(queue, [gpu |-> worker.gpu, retry |-> worker.retry + 1])
             /\ [gpu |-> worker.gpu, retry |-> worker.retry + 1] \in QueueItems
    BY <1>0, <2>2, AppendItems DEF TypeOK
  <2> QED
    BY <1>b, <2>1, <2>2
<1>d. /\ worker' = Resting /\ worker'.gpu = Unprovisioned /\ worker'.pc = "idle"
      /\ UNCHANGED <<provisioned, physical, available, loop, holder, status, exclusive, handler,
                     timers, processing, snapshot, registrations, lost>>
  BY DEF Retry, Resting, loopVars, nodeVars
<1>1. TypeOK'
  BY <1>0, <1>a, <1>b, <1>c, <1>d, RestType DEF TypeOK
<1>2. Books' /\ Planning'
  <2>1. loop.pc = "answer" => Unheard(loop.gpu)'
    BY <1>0, <1>c, <1>d, GpusAssumption DEF Planning, Unheard, Gpus
  <2> QED
    BY <1>0, <1>d, <2>1 DEF Books, Planning
<1>3. Releasing'
  BY <1>a, <1>d DEF Releasing
<1>4. Pursued'
  <2> SUFFICES ASSUME NEW v \in Gpus, Unused(v)'
               PROVE  IsPending(v)' \/ v \in givenUp'
    BY DEF Pursued
  <2>1. Unused(v)
    BY <1>d DEF Unused, AtWork, Holders
  <2>2. IsPending(v) => IsPending(v)' \/ v \in givenUp'
    BY <1>c, <1>d DEF IsPending
  <2> QED
    BY <1>0, <1>b, <2>1, <2>2 DEF Pursued
<1>5. BooksMatchDaemon' /\ OneBookPerGpu'
  BY <1>0, DeviceIsOne
     DEF Retry, QueueAgain, TooManyRetries, Resting, loopVars, releaseVars, nodeVars, TypeOK,
         Loops, Books, Planning, Unheard, Releasing, BooksMatchDaemon, OneBookPerGpu, Users
<1>6. Alone'
  BY <1>0 DEF Retry, loopVars, Alone
<1> QED
  BY <1>1, <1>2, <1>3, <1>4, <1>5, <1>6 DEF IInv

(* A connection gets the list of the daemon.                               *)
LEMMA FetchListStep ==
  ASSUME IInv, FetchList
  PROVE  IInv'
<1>0. /\ TypeOK /\ Books /\ Planning /\ Releasing /\ Pursued
      /\ BooksMatchDaemon /\ OneBookPerGpu /\ Alone
  BY DEF IInv
<1>1. TypeOK'
  BY <1>0, ListType DEF FetchList, loopVars, releaseVars, nodeVars, TypeOK
<1>2. Books' /\ Planning'
  BY <1>0, DeviceIsOne
     DEF FetchList, loopVars, releaseVars, nodeVars, TypeOK, Loops, Books, Planning, Unheard,
         Releasing
<1>3. Releasing'
  BY <1>0, DeviceIsOne
     DEF FetchList, loopVars, releaseVars, nodeVars, TypeOK, Loops, Workers, Planning,
         Unheard, Releasing
<1>4. Pursued'
  <2> SUFFICES ASSUME NEW v \in Gpus, Unused(v)'
               PROVE  IsPending(v)' \/ v \in givenUp'
    BY DEF Pursued
  <2>1. Unused(v)
    BY <1>0 DEF FetchList, loopVars, releaseVars, nodeVars, Unused, AtWork, Holders
  <2>2. IsPending(v) => IsPending(v)'
    BY <1>0 DEF FetchList, loopVars, releaseVars, nodeVars, IsPending
  <2> QED
    BY <1>0, <2>1, <2>2 DEF Pursued, FetchList
<1>5. BooksMatchDaemon' /\ OneBookPerGpu'
  BY <1>0, DeviceIsOne
     DEF FetchList, loopVars, releaseVars, nodeVars, TypeOK, Loops, Books, Planning, Unheard,
         Releasing, BooksMatchDaemon, OneBookPerGpu, Users
<1>6. Alone'
  BY <1>0 DEF FetchList, loopVars, Alone
<1> QED
  BY <1>1, <1>2, <1>3, <1>4, <1>5, <1>6 DEF IInv

(* The node is replaced.                                                   *)
LEMMA RegisterStep ==
  ASSUME IInv, Register
  PROVE  IInv'
<1>0. /\ TypeOK /\ Books /\ Planning /\ Releasing /\ Pursued
      /\ BooksMatchDaemon /\ OneBookPerGpu /\ Alone
  BY DEF IInv
<1>1. TypeOK'
  BY <1>0, ListType DEF Register, loopVars, releaseVars, nodeVars, TypeOK
<1>2. Books' /\ Planning'
  BY <1>0, DeviceIsOne
     DEF Register, loopVars, releaseVars, nodeVars, TypeOK, Loops, Books, Planning, Unheard,
         Releasing
<1>3. Releasing'
  BY <1>0, DeviceIsOne
     DEF Register, loopVars, releaseVars, nodeVars, TypeOK, Loops, Workers, Planning, Unheard,
         Releasing
<1>4. Pursued'
  <2> SUFFICES ASSUME NEW v \in Gpus, Unused(v)'
               PROVE  IsPending(v)' \/ v \in givenUp'
    BY DEF Pursued
  <2>1. Unused(v)
    BY <1>0 DEF Register, loopVars, releaseVars, nodeVars, Unused, AtWork, Holders
  <2>2. IsPending(v) => IsPending(v)'
    BY <1>0 DEF Register, loopVars, releaseVars, nodeVars, IsPending
  <2> QED
    BY <1>0, <2>1, <2>2 DEF Pursued, Register
<1>5. BooksMatchDaemon' /\ OneBookPerGpu'
  BY <1>0, DeviceIsOne
     DEF Register, loopVars, releaseVars, nodeVars, TypeOK, Loops, Books, Planning, Unheard,
         Releasing, BooksMatchDaemon, OneBookPerGpu, Users
<1>6. Alone'
  BY <1>0 DEF Register, loopVars, Alone
<1> QED
  BY <1>1, <1>2, <1>3, <1>4, <1>5, <1>6 DEF IInv

(* Of a GPU that is not in the map there is a number for a new GPUInfo:    *)
(* each number taken is by a configuration, which has at most one.         *)
LEMMA NumberLeft ==
  ASSUME IInv, Preparing, Next1.dev = NoDevice, NEW u \in Gpus, physical[u] = NoDevice,
         NEW virtual \in BOOLEAN
  PROVE  /\ NewDevice(u, virtual) \in Devices /\ NewDevice(u, virtual).uuid = u
         /\ NewDevice(u, virtual).virtual = virtual
         /\ ~Referenced(NewDevice(u, virtual))
<1> DEFINE K == Cardinality(Configs)
           device(n) == [uuid |-> u, virtual |-> virtual, nr |-> n]
           Claims(c, n) == \/ holder[c] = device(n)
                           \/ \E i \in DOMAIN loop.todo :
                                loop.todo[i].cfg = c /\ loop.todo[i].dev = device(n)
                           \/ c = Next1.cfg /\ handler = device(n)
<1>0. TypeOK /\ Books /\ Planning
  BY DEF IInv
<1>1. K \in Nat /\ IsFiniteSet(1..(K + 1)) /\ Cardinality(1..(K + 1)) = K + 1
  <2>1. K \in Nat
    BY ConfigsAssumption, FS_CardinalityType
  <2>2. 1 \in Int /\ K + 1 \in Int /\ ~(1 > K + 1) /\ (K + 1) - 1 + 1 = K + 1
    BY <2>1
  <2>3. IsFiniteSet(1..(K + 1)) /\ Cardinality(1..(K + 1)) = (K + 1) - 1 + 1
    BY <2>2, FS_Interval
  <2> QED
    BY <2>1, <2>2, <2>3
<1>2. /\ loop.todo \in Seq(PlanItems) /\ Next1 \in PlanItems
      /\ 1 \in DOMAIN loop.todo /\ Next1 = loop.todo[1]
      /\ \A i \in DOMAIN loop.todo : loop.todo[i].cfg \in Configs
  <2>1. loop.todo \in Seq(PlanItems) /\ loop.todo # << >>
    BY <1>0 DEF Preparing, TypeOK, Loops
  <2>2. \A i \in DOMAIN loop.todo : loop.todo[i] \in PlanItems
    BY <2>1
  <2>3. \A i \in DOMAIN loop.todo : loop.todo[i].cfg \in Configs
    BY <2>2 DEF PlanItems
  <2> QED
    BY <2>1, <2>3, TailItems DEF Next1
<1>3. \A n \in 1..(K + 1) : device(n) \in Devices /\ device(n) # NoDevice /\ device(n).nr = n
  BY DeviceIsOne DEF Devices
<1>4. \A n \in 1..(K + 1) : Referenced(device(n)) => \E c \in Configs : Claims(c, n)
  <2> SUFFICES ASSUME NEW n \in 1..(K + 1), Referenced(device(n))
               PROVE  \E c \in Configs : Claims(c, n)
    OBVIOUS
  <2>1. ~\E v \in Gpus : physical[v] = device(n)
    BY <1>0, <1>3 DEF Books
  <2>2. loop.dev # device(n)
    BY <1>0, <1>3 DEF Planning, Preparing
  <2>3. Next1.cfg \in Configs
    BY <1>2
  <2> QED
    BY <1>2, <2>1, <2>2, <2>3 DEF Referenced, Holders
<1>5. \A c \in Configs : \A m, n \in 1..(K + 1) : Claims(c, m) /\ Claims(c, n) => m = n
  <2> SUFFICES ASSUME NEW c \in Configs, NEW m \in 1..(K + 1), NEW n \in 1..(K + 1),
                      Claims(c, m), Claims(c, n)
               PROVE  device(m) = device(n)
    BY <1>3
  <2>1. \A i, j \in DOMAIN loop.todo : loop.todo[i].cfg = loop.todo[j].cfg => i = j
    BY <1>0 DEF Planning
  <2>2. \A i \in DOMAIN loop.todo : holder[loop.todo[i].cfg] = NoDevice
    BY <1>0 DEF Planning
  <2>3. loop.todo[1].dev = NoDevice
    BY <1>2
  <2>4. device(m) # NoDevice /\ device(n) # NoDevice
    BY <1>3
  <2> HIDE DEF device
  <2> QED
    BY <1>2, <2>1, <2>2, <2>3, <2>4
<1>6. \E n \in 1..(K + 1) : ~Referenced(device(n))
  <2> SUFFICES ASSUME \A n \in 1..(K + 1) : Referenced(device(n))
               PROVE  FALSE
    OBVIOUS
  <2> DEFINE f == [n \in 1..(K + 1) |-> CHOOSE c \in Configs : Claims(c, n)]
  <2> HIDE DEF Claims, device
  <2>1. \A n \in 1..(K + 1) : f[n] \in Configs /\ Claims(f[n], n)
    BY <1>4
  <2>2. f \in [1..(K + 1) -> Configs]
    BY <2>1
  <2> HIDE DEF f
  <2>3. PICK x \in 1..(K + 1), y \in 1..(K + 1) : x # y /\ f[x] = f[y]
    BY <1>1, <2>2, ConfigsAssumption, FS_PigeonHole
  <2> QED
    BY <1>5, <2>1, <2>3
<1> DEFINE k == CHOOSE n \in 1..(K + 1) : ~Referenced(device(n))
<1>7. k \in 1..(K + 1) /\ ~Referenced(device(k))
  BY <1>6
<1>8. NewDevice(u, virtual) = device(k)
  BY DEF NewDevice
<1> HIDE DEF k
<1> QED
  BY <1>3, <1>7, <1>8

(* The loop takes a GPU that is not in the map for a physical one.         *)
LEMMA UsePhysicalStep ==
  ASSUME IInv, UsePhysical
  PROVE  IInv'
<1>0. /\ TypeOK /\ Books /\ Planning /\ Releasing /\ Pursued
      /\ BooksMatchDaemon /\ OneBookPerGpu /\ Alone
  BY DEF IInv
<1>a. /\ loop.todo \in Seq(PlanItems) /\ loop.todo # << >> /\ Next1 \in PlanItems
      /\ 1 \in DOMAIN loop.todo /\ Next1 = loop.todo[1] /\ Rest \in Seq(PlanItems)
      /\ \A i \in DOMAIN Rest : i + 1 \in DOMAIN loop.todo /\ i + 1 # 1 /\ Rest[i] = loop.todo[i + 1]
      /\ \A i, j \in DOMAIN Rest : i # j => i + 1 # j + 1
  <2>1. loop.todo \in Seq(PlanItems) /\ loop.todo # << >>
    BY <1>0 DEF UsePhysical, Preparing, TypeOK, Loops
  <2> QED
    BY <2>1, TailItems DEF Next1, Rest
<1>b. /\ Next1.dev = NoDevice => Next1.entry \in Gpus /\ Planned = NewDevice(Next1.entry, FALSE)
      /\ Next1.dev # NoDevice => Planned = Next1.dev /\ Next1.dev \in Devices
  <2>1. Next1.dev \in Devices \cup {NoDevice} /\ Next1.entry \in Gpus \cup {Unprovisioned}
    BY <1>a DEF PlanItems, Entries
  <2>2. Planned # NoDevice
    <3>1. NoDevice.virtual = TRUE
      BY DEF NoDevice
    <3> QED
      BY <3>1 DEF UsePhysical
  <2> QED
    BY <2>1, <2>2 DEF Planned
<1>c. /\ Planned \in Devices /\ Planned.uuid = Next1.entry /\ Next1.entry \in Gpus
      /\ physical[Next1.entry] = NoDevice /\ Planned # NoDevice
      /\ Next1.dev = NoDevice => ~Referenced(Planned)
  <2>1. CASE Next1.dev = NoDevice
    <3>1. Planned # NoDevice => physical[Planned.uuid] = NoDevice
      BY DEF UsePhysical, Found
    <3>2. Planned # NoDevice /\ Planned.uuid = Next1.entry
      BY <1>b, <2>1 DEF NewDevice, UsePhysical, NoDevice
    <3> QED
      BY <1>b, <2>1, <3>1, <3>2, NumberLeft DEF UsePhysical
  <2>2. CASE Next1.dev # NoDevice
    BY <1>0, <1>a, <1>b, <2>2, DeviceIsOne DEF UsePhysical, Found, Planning
  <2> QED
    BY <2>1, <2>2
<1>e. /\ physical' = [physical EXCEPT ![Next1.entry] = Planned]
      /\ loop'.pc = "commit" /\ loop'.dev = Planned /\ loop'.todo = loop.todo /\ loop.pc # "answer"
      /\ loop.pc # "free" /\ loop.pc # "commit" /\ loop' \in Loops
      /\ UNCHANGED <<provisioned, available, holder, status, handler, timers, queue, worker,
                     processing, snapshot, registrations, lost, givenUp>>
  BY <1>0, <1>c DEF UsePhysical, Preparing, releaseVars, TypeOK, Loops
<1>1. TypeOK'
  <2>1. physical' \in [Gpus -> Devices \cup {NoDevice}] /\ exclusive' \subseteq Devices
    BY <1>0, <1>c, <1>e DEF UsePhysical, TypeOK
  <2> QED
    BY <1>0, <1>e, <2>1 DEF TypeOK
<1>2. Books' /\ Planning'
  <2>1. Books'
    BY <1>0, <1>c, <1>e DEF Books, TypeOK
  <2>2. Planning'
    BY <1>0, <1>a, <1>c, <1>e DEF Planning, TypeOK
  <2> QED
    BY <2>1, <2>2
<1>3. Releasing'
  <2>1. ~Planned.virtual
    BY DEF UsePhysical
  <2> QED
    BY <1>0, <1>c, <1>e, <2>1 DEF Releasing, TypeOK
<1>4. Pursued'
  <2> SUFFICES ASSUME NEW v \in Gpus, Unused(v)'
               PROVE  IsPending(v)' \/ v \in givenUp'
    BY DEF Pursued
  <2>1. v # Next1.entry
    BY <1>0, <1>c, <1>e DEF UsePhysical, Unused, TypeOK
  <2>2. physical'[v] = physical[v]
    BY <1>e, <2>1
  <2>3. Unused(v)
    BY <1>e, <2>2 DEF Unused, AtWork, Holders
  <2>4. IsPending(v) => IsPending(v)'
    BY <1>e DEF IsPending
  <2> QED
    BY <1>0, <1>e, <2>3, <2>4 DEF Pursued
<1>5. BooksMatchDaemon' /\ OneBookPerGpu'
  <2>1. BooksMatchDaemon'
    <3>1. ~Planned.virtual
      BY DEF UsePhysical
    <3> QED
      BY <1>0, <1>c, <1>e, <3>1 DEF BooksMatchDaemon, TypeOK
  <2>2. OneBookPerGpu'
    BY <1>0, <1>c, <1>e DEF OneBookPerGpu, Users, TypeOK
  <2> QED
    BY <2>1, <2>2
<1>6. Alone'
  BY <1>0 DEF UsePhysical, loopVars, Alone
<1> QED
  BY <1>1, <1>2, <1>3, <1>4, <1>5, <1>6 DEF IInv

(* The daemon carves out a GPU.                                            *)
LEMMA RequestVirtualGPUStep ==
  ASSUME IInv, NEW u \in Virtual, RequestVirtualGPU(u)
  PROVE  IInv'
<1>0. /\ TypeOK /\ Books /\ Planning /\ Releasing /\ Pursued
      /\ BooksMatchDaemon /\ OneBookPerGpu /\ Alone
  BY DEF IInv
<1>a. /\ u \in Gpus /\ u # Unprovisioned /\ u \notin Physical
  BY GpusAssumption DEF Gpus
<1>b. /\ Unheard(u) /\ u \notin provisioned
      /\ \A i \in DOMAIN loop.todo : loop.todo[i].dev.uuid # u
  <2>1. \A d \in Devices : d.uuid = u => ~Referenced(d)
    BY DEF RequestVirtualGPU, CarveOut, Fresh
  <2>2. ~IsPending(u)
    BY <1>0, <1>a, PendingMeans DEF RequestVirtualGPU, CarveOut, Fresh
  <2>3. physical[u] = NoDevice
    BY <1>0, <1>a, <2>1 DEF TypeOK, Books, Referenced
  <2>4. handler.uuid # u /\ \A c \in Configs : holder[c].uuid # u
    BY <1>0, <1>a, <2>1, DeviceIsOne DEF TypeOK, Referenced, Holders
  <2>5. \A i \in DOMAIN loop.todo : loop.todo[i].dev.uuid # u
    <3>1. \A i \in DOMAIN loop.todo : loop.todo[i] \in PlanItems
      BY <1>0 DEF TypeOK, Loops
    <3>2. \A i \in DOMAIN loop.todo : loop.todo[i].dev \in Devices \cup {NoDevice}
      BY <3>1 DEF PlanItems
    <3> QED
      BY <1>a, <2>1, <3>2, DeviceIsOne DEF Referenced
  <2>6. timers[u] = 0 /\ worker.gpu # u /\ \A i \in DOMAIN queue : queue[i].gpu # u
    BY <1>0, <1>a, <2>2 DEF IsPending, TypeOK
  <2> QED
    BY <2>3, <2>4, <2>5, <2>6 DEF Unheard, RequestVirtualGPU, CarveOut, Fresh
<1>c. /\ loop'.pc = "answer" /\ loop'.gpu = u /\ loop'.todo = loop.todo /\ loop'.dev = loop.dev
      /\ loop.pc \in {"planned", "prepare"} /\ loop.todo # << >> /\ loop' \in Loops
      /\ provisioned' = provisioned \cup {u} /\ lost' = lost \ {u} /\ givenUp' = givenUp \ {u}
      /\ UNCHANGED <<available, physical, holder, status, exclusive, handler, timers, queue,
                     worker, processing, snapshot, registrations>>
  BY <1>0, <1>a, ListType DEF RequestVirtualGPU, NeedsGPU, Preparing, CarveOut, TypeOK, Loops,
     Entries, nodeVars, releaseVars
<1>1. TypeOK'
  BY <1>0, <1>c DEF TypeOK
<1>2. Books' /\ Planning'
  <2>1. Unheard(u)'
    BY <1>b, <1>c DEF Unheard
  <2> QED
    BY <1>0, <1>b, <1>c, <2>1 DEF Books, Planning
<1>3. Releasing'
  BY <1>0, <1>c DEF Releasing
<1>4. Pursued'
  <2> SUFFICES ASSUME NEW v \in Gpus, Unused(v)'
               PROVE  IsPending(v)' \/ v \in givenUp'
    BY DEF Pursued
  <2>1. v # u /\ Unused(v)
    BY <1>b, <1>c DEF Unused, AtWork, Holders, Unheard
  <2>2. IsPending(v) => IsPending(v)'
    BY <1>c DEF IsPending
  <2> QED
    BY <1>0, <1>c, <2>1, <2>2 DEF Pursued
<1>5. BooksMatchDaemon' /\ OneBookPerGpu'
  <2>1. BooksMatchDaemon'
    BY <1>0, <1>b, <1>c DEF BooksMatchDaemon, Unheard
  <2>2. OneBookPerGpu'
    BY <1>0, <1>c DEF OneBookPerGpu, Users
  <2> QED
    BY <2>1, <2>2
<1>6. Alone'
  BY <1>0 DEF RequestVirtualGPU, loopVars, Alone
<1> QED
  BY <1>1, <1>2, <1>3, <1>4, <1>5, <1>6 DEF IInv

(* The daemon does not answer.                                             *)
LEMMA RequestFailsStep ==
  ASSUME IInv, RequestFails
  PROVE  IInv'
<1>0. /\ TypeOK /\ Books /\ Planning /\ Releasing /\ Pursued
      /\ BooksMatchDaemon /\ OneBookPerGpu /\ Alone
  BY DEF IInv
<1>a. /\ loop.todo \in Seq(PlanItems) /\ loop.todo # << >> /\ Next1 \in PlanItems
      /\ 1 \in DOMAIN loop.todo /\ Next1 = loop.todo[1] /\ Rest \in Seq(PlanItems)
      /\ \A i \in DOMAIN Rest : i + 1 \in DOMAIN loop.todo /\ i + 1 # 1 /\ Rest[i] = loop.todo[i + 1]
      /\ \A i, j \in DOMAIN Rest : i # j => i + 1 # j + 1
  <2>1. loop.todo \in Seq(PlanItems) /\ loop.todo # << >>
    BY <1>0 DEF RequestFails, NeedsGPU, Preparing, TypeOK, Loops
  <2> QED
    BY <2>1, TailItems DEF Next1, Rest
<1>b. /\ loop'.pc = "prepare" /\ loop'.todo = Rest /\ loop'.dev = NoDevice /\ loop' \in Loops
      /\ loop.pc \in {"planned", "prepare"}
      /\ status' = [status EXCEPT ![Next1.cfg] = "new"]
      /\ UNCHANGED <<available, physical, holder, exclusive, handler, timers, queue,
                     worker, processing, snapshot, registrations>>
  BY <1>0, <1>a, RestType DEF RequestFails, NeedsGPU, Preparing, Idle, nodeVars, releaseVars
<1>c. \/ UNCHANGED <<provisioned, lost, givenUp>>
      \/ \E u \in Virtual : /\ physical[u] = NoDevice /\ provisioned' = provisioned \cup {u}
                            /\ lost' = lost \ {u} /\ givenUp' = givenUp \ {u}
  <2>1. CASE UNCHANGED <<provisioned, lost, givenUp>>
    BY <2>1
  <2>2. ASSUME NEW u \in Virtual, CarveOut(u)
        PROVE  physical[u] = NoDevice
    BY <1>0, <2>2 DEF CarveOut, Fresh, Referenced, TypeOK, Books, Gpus
  <2> QED
    BY <2>1, <2>2 DEF RequestFails, CarveOut
<1>1. TypeOK'
  BY <1>0, <1>b, <1>c DEF TypeOK
<1>2. Books' /\ Planning'
  <2>1. Books'
    BY <1>0, <1>a, <1>b DEF Books, Planning, TypeOK
  <2>2. Planning'
    BY <1>0, <1>a, <1>b DEF Planning
  <2> QED
    BY <2>1, <2>2
<1>3. Releasing'
  BY <1>0, <1>b DEF Releasing
<1>4. Pursued'
  <2> SUFFICES ASSUME NEW v \in Gpus, Unused(v)'
               PROVE  IsPending(v)' \/ v \in givenUp'
    BY DEF Pursued
  <2>1. Unused(v) /\ physical[v] # NoDevice
    BY <1>b DEF Unused, AtWork, Holders
  <2>2. IsPending(v) => IsPending(v)'
    BY <1>b DEF IsPending
  <2> QED
    BY <1>0, <1>c, <2>1, <2>2 DEF Pursued
<1>5. BooksMatchDaemon' /\ OneBookPerGpu'
  <2>1. BooksMatchDaemon'
    BY <1>0, <1>b, <1>c DEF BooksMatchDaemon
  <2>2. OneBookPerGpu'
    BY <1>0, <1>b DEF OneBookPerGpu, Users
  <2> QED
    BY <2>1, <2>2
<1>6. Alone'
  BY <1>0 DEF RequestFails, loopVars, Alone
<1> QED
  BY <1>1, <1>2, <1>3, <1>4, <1>5, <1>6 DEF IInv

(* The answer of the daemon puts the GPU into the map.                     *)
LEMMA ReceiveGPUStep ==
  ASSUME IInv, ReceiveGPU
  PROVE  IInv'
<1>0. /\ TypeOK /\ Books /\ Planning /\ Releasing /\ Pursued
      /\ BooksMatchDaemon /\ OneBookPerGpu /\ Alone
  BY DEF IInv
<1> DEFINE u == loop.gpu
           created == NewDevice(u, TRUE)
<1>a. /\ u \in Gpus /\ u \notin Physical /\ u \in provisioned /\ Unheard(u)
      /\ loop.todo # << >> /\ loop.dev = NoDevice
      /\ \A i \in DOMAIN loop.todo : loop.todo[i].dev.uuid # u
  BY <1>0, GpusAssumption DEF ReceiveGPU, Planning, Gpus
<1>b. created \in Devices /\ created # NoDevice /\ created.uuid = u
  <2>1. Cardinality(Configs) \in Nat
    BY ConfigsAssumption, FS_CardinalityType
  <2>2. \A d \in Devices : d.uuid = u => ~Referenced(d)
    BY <1>0, <1>a, DeviceIsOne DEF Referenced, Holders, Books, Unheard
  <2>3. \A n \in 1..(Cardinality(Configs) + 1) : [uuid |-> u, virtual |-> TRUE, nr |-> n] \in Devices
    BY <1>a DEF Devices
  <2>4. 1 \in 1..(Cardinality(Configs) + 1)
    BY <2>1
  <2>5. \E n \in 1..(Cardinality(Configs) + 1) :
           ~Referenced([uuid |-> u, virtual |-> TRUE, nr |-> n])
    BY <2>2, <2>3, <2>4
  <2>6. PICK k \in 1..(Cardinality(Configs) + 1) :
           created = [uuid |-> u, virtual |-> TRUE, nr |-> k]
    BY <2>5 DEF NewDevice
  <2>7. created \in Devices
    BY <2>3, <2>6
  <2> HIDE DEF created, u
  <2>8. created.uuid = u
    BY <2>6
  <2> QED
    BY <2>7, <2>8, DeviceIsOne
<1>c. \A c \in Configs : holder[c] # created
  BY <1>a, <1>b DEF Unheard
<1>d. /\ physical' = [physical EXCEPT ![u] = created] /\ exclusive' = exclusive \ {created}
      /\ loop'.pc = "commit" /\ loop'.dev = created /\ loop'.todo = loop.todo
      /\ loop' \in Loops /\ available' \in Counts /\ loop.pc = "answer"
      /\ UNCHANGED <<provisioned, holder, status, handler, timers, queue, worker, processing,
                     snapshot, registrations, lost, givenUp>>
  BY <1>0, <1>b, ListType DEF ReceiveGPU, TypeOK, Loops, Entries, releaseVars
<1> HIDE DEF u, created
<1>1. TypeOK'
  BY <1>0, <1>a, <1>b, <1>d DEF TypeOK
<1>2. Books' /\ Planning'
  <2>1. Books'
    BY <1>0, <1>a, <1>b, <1>d DEF Books, TypeOK
  <2>2. Planning'
    BY <1>0, <1>a, <1>b, <1>d DEF Planning, TypeOK
  <2> QED
    BY <2>1, <2>2
<1>3. Releasing'
  BY <1>0, <1>a, <1>d DEF Releasing, Unheard, TypeOK
<1>4. Pursued'
  <2> SUFFICES ASSUME NEW v \in Gpus, Unused(v)'
               PROVE  IsPending(v)' \/ v \in givenUp'
    BY DEF Pursued
  <2>1. v # u
    BY <1>0, <1>a, <1>d DEF Unused, AtWork, TypeOK
  <2>2. physical'[v] = physical[v]
    BY <1>d, <2>1
  <2>3. Unused(v)
    BY <1>d, <2>2 DEF Unused, AtWork, Holders
  <2>4. IsPending(v) => IsPending(v)'
    BY <1>d DEF IsPending
  <2> QED
    BY <1>0, <1>d, <2>3, <2>4 DEF Pursued
<1>5. BooksMatchDaemon' /\ OneBookPerGpu'
  <2>1. BooksMatchDaemon'
    BY <1>0, <1>a, <1>d DEF BooksMatchDaemon, TypeOK
  <2>2. OneBookPerGpu'
    BY <1>0, <1>a, <1>d DEF OneBookPerGpu, Users, TypeOK, Gpus
  <2> QED
    BY <2>1, <2>2
<1>6. Alone'
  BY <1>0 DEF ReceiveGPU, loopVars, Alone
<1> QED
  BY <1>1, <1>2, <1>3, <1>4, <1>5, <1>6 DEF IInv

(* The configuration takes its slots, or there is no room left.            *)
LEMMA CommitStep ==
  ASSUME IInv, Commit
  PROVE  IInv'
<1>0. /\ TypeOK /\ Books /\ Planning /\ Releasing /\ Pursued
      /\ BooksMatchDaemon /\ OneBookPerGpu /\ Alone
  BY DEF IInv
<1>a. /\ loop.todo \in Seq(PlanItems) /\ loop.todo # << >> /\ Next1 \in PlanItems
      /\ 1 \in DOMAIN loop.todo /\ Next1 = loop.todo[1] /\ Rest \in Seq(PlanItems)
      /\ \A i \in DOMAIN Rest : i + 1 \in DOMAIN loop.todo /\ i + 1 # 1 /\ Rest[i] = loop.todo[i + 1]
      /\ \A i, j \in DOMAIN Rest : i # j => i + 1 # j + 1
  <2>1. loop.todo \in Seq(PlanItems) /\ loop.todo # << >>
    BY <1>0 DEF Commit, Planning, TypeOK, Loops
  <2> QED
    BY <2>1, TailItems DEF Next1, Rest
<1> DEFINE c == Next1.cfg
           d == loop.dev
<1>b. /\ c \in Configs /\ holder[c] = NoDevice /\ d \in Devices /\ d # NoDevice
      /\ physical[d.uuid] \in {d, NoDevice} /\ d.uuid \in Gpus
      /\ d.uuid \in Physical => physical[d.uuid] = d
      /\ \A i \in DOMAIN Rest :
           Rest[i].cfg # c /\ Rest[i] = loop.todo[i + 1]
  BY <1>0, <1>a, DeviceIsOne DEF Commit, Planning, PlanItems
<1>c. /\ loop'.pc = "prepare" /\ loop'.todo = Rest /\ loop'.dev = NoDevice /\ loop' \in Loops
      /\ loop.pc = "commit" /\ givenUp' = givenUp \ {d.uuid}
      /\ exclusive' = IF c \in Exclusive THEN exclusive \cup {d} ELSE exclusive \ {d}
      /\ holder' = [holder EXCEPT ![c] = IF Fits(d, c) THEN d ELSE NoDevice]
      /\ status' = [status EXCEPT ![c] = IF Fits(d, c) THEN "planned" ELSE "new"]
      /\ UNCHANGED <<provisioned, available, physical, handler, timers, queue,
                     worker, processing, snapshot, registrations, lost>>
  BY <1>0, <1>a, RestType DEF Commit, Idle, nodeVars, releaseVars
<1>d. /\ holder'[c] \in {d, NoDevice} /\ (holder'[c] = NoDevice <=> ~Fits(d, c))
      /\ \A k \in Configs : k # c => holder'[k] = holder[k]
  BY <1>0, <1>b, <1>c DEF TypeOK
<1>e. \E k \in Configs : holder'[k] = d
  <2>1. CASE Fits(d, c)
    BY <1>b, <1>d, <2>1
  <2>2. CASE ~Fits(d, c)
    <3>1. Holders(d) = {} => Cardinality(Holders(d)) < Room
      BY FS_EmptySet, GpuBoundsAssumption
    <3>2. Holders(d) # {}
      BY <2>2, <3>1 DEF Fits
    <3>3. PICK k \in Configs : holder[k] = d
      BY <3>2 DEF Holders
    <3> QED
      BY <1>b, <1>d, <3>3
  <2> QED
    BY <2>1, <2>2
<1> HIDE DEF c, d
<1>1. TypeOK'
  <2>1. /\ holder' \in [Configs -> Devices \cup {NoDevice}] /\ exclusive' \subseteq Devices
        /\ status' \in [Configs -> {"new", "planned", "live", "leaked"}]
    BY <1>0, <1>b, <1>c DEF TypeOK
  <2> QED
    BY <1>0, <1>c, <2>1 DEF TypeOK
<1>2. Books' /\ Planning'
  <2>1. \A k \in Configs : status'[k] = "new" => holder'[k] = NoDevice
    BY <1>0, <1>b, <1>c, <1>d DEF Books, TypeOK
  <2>2. Books'
    BY <1>0, <1>c, <2>1 DEF Books
  <2>3. \A i \in DOMAIN Rest : holder'[Rest[i].cfg] = NoDevice
    <3>1. \A i \in DOMAIN Rest : Rest[i].cfg \in Configs
      <4>1. \A i \in DOMAIN Rest : Rest[i] \in PlanItems
        BY <1>a
      <4> QED
        BY <4>1 DEF PlanItems
    <3> QED
      BY <1>0, <1>a, <1>b, <1>d, <3>1 DEF Planning
  <2>4. Planning'
    BY <1>0, <1>a, <1>b, <1>c, <2>3 DEF Planning
  <2> QED
    BY <2>2, <2>4
<1>3. Releasing'
  BY <1>0, <1>c DEF Releasing
<1>4. Pursued'
  <2> SUFFICES ASSUME NEW v \in Gpus, Unused(v)'
               PROVE  IsPending(v)' \/ v \in givenUp'
    BY DEF Pursued
  <2>1. physical[v] # d /\ v # d.uuid
    BY <1>b, <1>c, <1>e DEF Unused, Holders
  <2>2. Holders(physical[v]) = {}
    BY <1>b, <1>c, <1>d, <2>1 DEF Unused, Holders
  <2>3. Unused(v)
    BY <1>c, <2>1, <2>2 DEF Unused, AtWork, d
  <2>4. IsPending(v) => IsPending(v)'
    BY <1>c DEF IsPending
  <2> QED
    BY <1>0, <1>c, <2>1, <2>3, <2>4 DEF Pursued
<1>5. BooksMatchDaemon' /\ OneBookPerGpu'
  <2>1. BooksMatchDaemon'
    BY <1>0, <1>c DEF BooksMatchDaemon
  <2>2. OneBookPerGpu'
    BY <1>0, <1>b, <1>c, <1>d DEF OneBookPerGpu, Users
  <2> QED
    BY <2>1, <2>2
<1>6. Alone'
  <2>1. \A k \in Configs : Fits(d, c) /\ holder[k] = d => c \notin Exclusive /\ k \notin Exclusive
    BY DEF Fits, Holders
  <2> QED
    BY <1>0, <1>b, <1>d, <2>1, ConfigsAssumption DEF Alone
<1> QED
  BY <1>1, <1>2, <1>3, <1>4, <1>5, <1>6 DEF IInv

(* A plan is made from the list and the books.                             *)
LEMMA GetConfigsStep ==
  ASSUME IInv, GetConfigs
  PROVE  IInv'
<1>0. /\ TypeOK /\ Books /\ Planning /\ Releasing /\ Pursued
      /\ BooksMatchDaemon /\ OneBookPerGpu /\ Alone
  BY DEF IInv
<1>a. PICK n \in 1..MaxPlan : \E cfg \in [1..n -> Configs], entry \in [1..n -> Entries] :
       /\ \A i \in 1..n : status[cfg[i]] = "new" /\ Offers(cfg[i], entry[i])
       /\ \A i, j \in 1..n : i # j =>
            /\ cfg[i] # cfg[j] /\ (cfg[i] \in Exclusive <=> cfg[j] \in Exclusive)
            /\ entry[i] = entry[j] => available[entry[i]] > 1
       /\ loop' = [Idle EXCEPT !.pc = "planned",
                               !.todo = [i \in 1..n |-> [cfg |-> cfg[i], entry |-> entry[i],
                                                         dev |-> DeviceOf(entry[i])]]]
       /\ status' = [c \in Configs |-> IF \E i \in 1..n : cfg[i] = c THEN "planned"
                                                                     ELSE status[c]]
  BY DEF GetConfigs
<1>b. PICK cfg \in [1..n -> Configs], entry \in [1..n -> Entries] :
       /\ \A i \in 1..n : status[cfg[i]] = "new" /\ Offers(cfg[i], entry[i])
       /\ \A i, j \in 1..n : i # j =>
            /\ cfg[i] # cfg[j] /\ (cfg[i] \in Exclusive <=> cfg[j] \in Exclusive)
            /\ entry[i] = entry[j] => available[entry[i]] > 1
       /\ loop' = [Idle EXCEPT !.pc = "planned",
                               !.todo = [i \in 1..n |-> [cfg |-> cfg[i], entry |-> entry[i],
                                                         dev |-> DeviceOf(entry[i])]]]
       /\ status' = [c \in Configs |-> IF \E i \in 1..n : cfg[i] = c THEN "planned"
                                                                     ELSE status[c]]
  BY <1>a
<1> DEFINE plan == [i \in 1..n |-> [cfg |-> cfg[i], entry |-> entry[i],
                                    dev |-> DeviceOf(entry[i])]]
<1>c. n \in Nat /\ n > 0
  BY GpuBoundsAssumption
<1>d. \A e \in Entries : /\ DeviceOf(e) \in Devices \cup {NoDevice}
                         /\ DeviceOf(e) # NoDevice => e \in Gpus /\ DeviceOf(e).uuid = e
                         /\ e \in Gpus => DeviceOf(e) = physical[e]
  BY <1>0 DEF DeviceOf, TypeOK, Books
<1>e. \A i \in 1..n : /\ plan[i] \in PlanItems
                      /\ plan[i].cfg = cfg[i] /\ plan[i].entry = entry[i]
                      /\ plan[i].dev = DeviceOf(entry[i])
                      /\ cfg[i] \in Configs /\ entry[i] \in Entries
  BY <1>d DEF PlanItems
<1>f. plan \in Seq(PlanItems) /\ DOMAIN plan = 1..n /\ plan # << >>
  <2>1. plan \in [1..n -> PlanItems]
    BY <1>e
  <2>2. plan \in Seq(PlanItems) /\ DOMAIN plan = 1..n
    BY <1>c, <2>1, SeqDef
  <2>3. 1 \in DOMAIN plan
    BY <1>c, <2>2
  <2> HIDE DEF plan
  <2> QED
    BY <2>2, <2>3
<1>g. /\ loop'.pc = "planned" /\ loop'.todo = plan /\ loop'.dev = NoDevice
  BY <1>b DEF Idle
<1>h. loop' \in Loops
  <2>1. loop' = [pc |-> "planned", todo |-> plan, dev |-> NoDevice, gpu |-> Unprovisioned,
                 answer |-> NoList]
    BY <1>b DEF Idle
  <2> HIDE DEF plan
  <2> QED
    BY <1>f, <2>1, ListType DEF Loops, Entries
<1>i. /\ status' \in [Configs -> {"new", "planned", "live", "leaked"}]
      /\ \A c \in Configs : status'[c] = "new" => status[c] = "new"
      /\ UNCHANGED <<provisioned, available, physical, holder, exclusive, handler, timers,
                     queue, worker, processing, snapshot, registrations, lost, givenUp>>
  BY <1>0, <1>b DEF GetConfigs, TypeOK, nodeVars, releaseVars
<1>j. \A i \in 1..n : holder[cfg[i]] = NoDevice
  BY <1>0, <1>b, <1>e DEF Books
<1> HIDE DEF plan
<1>1. TypeOK'
  BY <1>0, <1>h, <1>i DEF TypeOK
<1>2. Books' /\ Planning'
  <2>1. Books'
    BY <1>0, <1>i DEF Books
  <2>2. \A i \in DOMAIN plan :
          /\ holder[plan[i].cfg] = NoDevice
          /\ plan[i].dev # NoDevice => plan[i].dev.uuid = plan[i].entry
          /\ \A j \in DOMAIN plan : i # j => plan[i].cfg # plan[j].cfg
    BY <1>b, <1>d, <1>e, <1>f, <1>j
  <2>3. Planning'
    BY <1>f, <1>g, <1>i, <2>2 DEF Planning
  <2> QED
    BY <2>1, <2>3
<1>3. Releasing'
  BY <1>0, <1>i DEF Releasing
<1>4. Pursued'
  <2> SUFFICES ASSUME NEW v \in Gpus, Unused(v)'
               PROVE  IsPending(v)' \/ v \in givenUp'
    BY DEF Pursued
  <2>1. Unused(v)
    BY <1>i DEF GetConfigs, Unused, AtWork, Holders
  <2>2. IsPending(v) => IsPending(v)'
    BY <1>i DEF IsPending
  <2> QED
    BY <1>0, <1>i, <2>1, <2>2 DEF Pursued
<1>5. BooksMatchDaemon' /\ OneBookPerGpu'
  BY <1>0, <1>i DEF BooksMatchDaemon, OneBookPerGpu, Users
<1>6. Alone'
  BY <1>0 DEF GetConfigs, loopVars, Alone
<1> QED
  BY <1>1, <1>2, <1>3, <1>4, <1>5, <1>6 DEF IInv

(* IInv holds at the start.                                                *)
LEMMA InitIInv == Init => IInv
<1> SUFFICES ASSUME Init PROVE IInv
  OBVIOUS
<1>1. TypeOK
  <2>1. physical \in [Gpus -> Devices \cup {NoDevice}] /\ timers \in [Gpus -> Nat]
    BY DEF Init
  <2>2. /\ holder \in [Configs -> Devices \cup {NoDevice}]
        /\ status \in [Configs -> {"new", "planned", "live", "leaked"}]
    BY DEF Init
  <2>3. queue \in Seq(QueueItems)
    BY DEF Init
  <2>4. available \in Counts /\ snapshot \in Counts /\ loop \in Loops /\ worker \in Workers
    BY RestType, ListType DEF Init
  <2>5. /\ provisioned = {} /\ exclusive = {} /\ processing = {} /\ lost = {} /\ givenUp = {}
        /\ handler = NoDevice /\ registrations = 1
    BY DEF Init
  <2> QED
    BY <2>1, <2>2, <2>3, <2>4, <2>5 DEF TypeOK
<1>2. /\ loop.pc = "idle" /\ loop.todo = << >> /\ loop.dev = NoDevice
      /\ worker.pc = "idle" /\ worker.gpu = Unprovisioned
      /\ DOMAIN loop.todo = {}
  BY DEF Init, Idle, Resting
<1>3. Books /\ Planning
  BY <1>2 DEF Init, Books, Planning
<1>4. Releasing
  BY <1>2 DEF Init, Releasing
<1>5. Pursued /\ BooksMatchDaemon
  BY DEF Init, Pursued, Unused, BooksMatchDaemon
<1>6. OneBookPerGpu
  BY DEF Init, OneBookPerGpu, Users
<1>7. Alone
  BY ConfigsAssumption DEF Init, Alone
<1> QED
  BY <1>1, <1>3, <1>4, <1>5, <1>6, <1>7 DEF IInv

(* IInv speaks of the variables only.                                      *)
LEMMA StutterIInv ==
  ASSUME IInv, UNCHANGED vars
  PROVE  IInv'
<1>1. UNCHANGED <<provisioned, available, physical, loop, holder, status, exclusive, handler,
                  timers, queue, worker, processing, snapshot, registrations, lost, givenUp>>
  BY DEF vars, nodeVars, loopVars, releaseVars
<1>2. TypeOK' /\ Books' /\ Releasing' /\ Alone'
  BY <1>1 DEF IInv, TypeOK, Books, Releasing, Alone
<1>3. Planning'
  BY <1>1 DEF IInv, Planning, Unheard
<1>4. Pursued'
  BY <1>1 DEF IInv, Pursued, Unused, AtWork, Holders, IsPending
<1>5. BooksMatchDaemon' /\ OneBookPerGpu'
  BY <1>1 DEF IInv, BooksMatchDaemon, OneBookPerGpu, Users
<1> QED
  BY <1>2, <1>3, <1>4, <1>5 DEF IInv

(* Every step of the five goroutines keeps IInv.                           *)
LEMMA NextIInv == IInv /\ [Next]_vars => IInv'
<1> SUFFICES ASSUME IInv, [Next]_vars PROVE IInv'
  OBVIOUS
<1>1. CASE GetConfigs
  BY <1>1, GetConfigsStep
<1>2. CASE Continue
  <2>1. CASE UseKnown
    BY <2>1, UseKnownStep
  <2>2. CASE UsePhysical
    BY <2>2, UsePhysicalStep
  <2>3. CASE \E u \in Virtual : RequestVirtualGPU(u)
    BY <2>3, RequestVirtualGPUStep
  <2>4. CASE RequestFails
    BY <2>4, RequestFailsStep
  <2>5. CASE ReceiveGPU
    BY <2>5, ReceiveGPUStep
  <2>6. CASE Commit
    BY <2>6, CommitStep
  <2>7. CASE \E ok \in BOOLEAN : Record(ok)
    BY <2>7, RecordStep
  <2>8. CASE EndDeallocate
    BY <2>8, EndDeallocateStep
  <2> QED
    BY <1>2, <2>1, <2>2, <2>3, <2>4, <2>5, <2>6, <2>7, <2>8 DEF Continue
<1>3. CASE \E c \in Configs : Deallocate(c) \/ DeleteConfig(c)
  BY <1>3, DeallocateStep, DeleteConfigStep
<1>4. CASE EndDeleteConfig
  BY <1>4, EndDeleteConfigStep
<1>5. CASE \E u \in Gpus : Fire(u)
  BY <1>5, FireStep
<1>6. CASE Work
  BY <1>6, TakeStep, ReleaseVirtualGPUStep, ReleaseFailsStep, ReleasedStep, RetryStep DEF Work
<1>7. CASE FetchList \/ Register
  BY <1>7, FetchListStep, RegisterStep
<1>8. CASE UNCHANGED vars
  BY <1>8, StutterIInv
<1> QED
  BY <1>1, <1>2, <1>3, <1>4, <1>5, <1>6, <1>7, <1>8 DEF Next

(* The inductive invariant holds.                                          *)
LEMMA SpecIInv == Spec => []IInv
BY InitIInv, NextIInv, PTL DEF Spec

-----------------------------------------------------------------------------
(* The variables keep their types.  A new GPUInfo always finds a number,   *)
(* so that none is ever taken for another.                                 *)
THEOREM TypesCorrect == Spec => []TypeOK
<1>1. IInv => TypeOK
  BY DEF IInv
<1> QED
  BY <1>1, SpecIInv, PTL

(* An emptied virtual GPU is never forgotten, however the scaling loop,    *)
(* the deletion handler, the timers, the worker's retries and new          *)
(* registrations of the node follow each other: its release is under way   *)
(* or was given up after RetryLimit failures.                              *)
THEOREM EmptyGpuIsPursued == Spec => []EmptyIsPursued
<1>1. IInv => EmptyIsPursued
  <2> SUFFICES ASSUME IInv, NEW u \in Gpus, Unused(u)
               PROVE  Pending(u) > 0 \/ u \in givenUp
    BY DEF EmptyIsPursued
  <2> QED
    BY PendingMeans DEF IInv, Pursued
<1> QED
  BY <1>1, SpecIInv, PTL

(* A virtual GPU in physicalGPUsMap is one the daemon has, but for a       *)
(* release whose answer is under way or was lost.                          *)
THEOREM BooksAgree == Spec => []BooksMatchDaemon
<1>1. IInv => BooksMatchDaemon
  BY DEF IInv
<1> QED
  BY <1>1, SpecIInv, PTL

(* Until the node registers again, all configurations on a physical GPU    *)
(* are on the one GPUInfo of the map.                                      *)
THEOREM OneGpuInfo == Spec => []OneBookPerGpu
<1>1. IInv => OneBookPerGpu
  BY DEF IInv
<1> QED
  BY <1>1, SpecIInv, PTL

(* Until the node registers again, a configuration that asks for a GPU of  *)
(* its own shares a physical GPU with no other, although a plan reserves   *)
(* nothing and its GPU may be listed and taken up again before the commit. *)
THEOREM ExclusiveKeepsItsGpu == Spec => []ExclusiveHasGpu
<1>1. IInv => ExclusiveHasGpu
  <2> SUFFICES ASSUME IInv, registrations = 1, NEW u \in Physical,
                      NEW c \in Users(u) \cap Exclusive, NEW e \in Users(u)
               PROVE  e = c
    BY DEF ExclusiveHasGpu
  <2>1. holder[c] # NoDevice /\ holder[e] = holder[c]
    BY DEF IInv, OneBookPerGpu, Users
  <2> QED
    BY <2>1 DEF IInv, Alone, Users
<1> QED
  BY <1>1, SpecIInv, PTL
=============================================================================
