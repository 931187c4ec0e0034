------------------------- MODULE Autoscaler_proofs --------------------------
(***************************************************************************)
(* What the controller leaves behind, for any set of functions and names,  *)
(* any number of configurations and of creations: no entry of a deleted    *)
(* function, no slots that no entry accounts for, no FaSTPod without       *)
(* slots, except where cleanup and scaling of one name met.                *)
(***************************************************************************)
EXTENDS Autoscaler, TLAPS

(* The inductive invariants.                                               *)

(* What the two goroutines hold at each point.                             *)
Goroutines ==
  /\ handler.pc = "idle" => handler.fn = Nobody /\ handler.todo = {}
  /\ handler.pc = "lookup" => handler.todo = {}
  /\ handler.pc # "idle" => handler.fn \in Functions
  /\ loop.pc \in {"idle", "next"} => loop.fn = Nobody /\ loop.attached
  /\ loop.pc \notin {"idle", "next"} =>
       /\ loop.fn \in Functions /\ loop.uid # 0
       /\ loop.attached => Name[loop.fn] \in fastFuncMap
  /\ loop.pc \in {"add", "record"} =>
       /\ loop.cfg \in Configs
       /\ status[loop.cfg] = "taken" /\ owner[loop.cfg] = loop.fn
  /\ loop.pc = "free" =>
       /\ loop.cfg \in Configs
       /\ owner[loop.cfg] \in Functions /\ pod[loop.cfg] = 0

(* Where a configuration is kept, somebody can find it.                    *)
Findable ==
  \A c \in Configs :
    /\ owner[c] \notin Functions =>
         status[c] = "new" /\ c \notin slots /\ c \notin handler.todo /\ pod[c] = 0
    /\ status[c] = "taken" => loop.pc \in {"add", "record"} /\ loop.cfg = c
    /\ status[c] = "entry" => Name[owner[c]] \in fastFuncMap
    /\ status[c] = "detached" => ~loop.attached /\ Name[owner[c]] = Name[loop.fn]

(* Meetings are on record, and an entry the loop alone has comes from one. *)
Recorded ==
  /\ Overlap \subseteq raced
  /\ ~loop.attached => Name[loop.fn] \in raced

(* The cleanup has still to take, or has taken, the slots of its entry.    *)
Freeing ==
  handler.pc = "free" =>
    \A c \in slots : status[c] = "entry" /\ Name[owner[c]] = Name[handler.fn] =>
                       c \in handler.todo \/ Name[handler.fn] \in raced

IInv ==
  TypeOK /\ Goroutines /\ Findable /\ Recorded /\ Freeing /\ CleanDeletion /\ SlotsAccounted

(* Each FaSTFunc has a name of its own.                                    *)
UniqueNames == \A f, g \in Functions : Name[f] = Name[g] => f = g

(* Only a meeting of cleanup and scaling takes the slots of a FaSTPod, ... *)
LostIfRaced ==
  \A c \in Configs :
    pod[c] # 0 /\ pod[c] = object[owner[c]] => c \in slots \/ Name[owner[c]] \in raced

(* ... and only of a function that was created again.                      *)
LostIfRecreated ==
  \A c \in Configs :
    pod[c] # 0 /\ pod[c] = object[owner[c]] => c \in slots \/ created[owner[c]] > 1

(* Nothing refers to an object that was never created, and no FaSTPod of   *)
(* the object there is belongs to a configuration being cleaned up.        *)
PodInv ==
  /\ \A f \in Functions : object[f] <= created[f] /\ loop.list[f] <= created[f]
  /\ loop.fn \in Functions => loop.uid <= created[loop.fn]
  /\ loop.pc \in {"add", "record"} => loop.cfg \in slots
  /\ \A c \in Configs :
       /\ owner[c] \in Functions => pod[c] <= created[owner[c]]
       /\ c \in handler.todo => owner[c] = handler.fn /\ status[c] # "taken"
       /\ pod[c] # 0 /\ owner[c] = handler.fn =>
            pod[c] # object[owner[c]] \/ Name[owner[c]] \in raced
  /\ LostIfRaced

(* A function created once that the cleanup found deleted is gone.         *)
OnceInv ==
  /\ \A f \in requests : created[f] # 0
  /\ handler.fn \in Functions =>
       created[handler.fn] # 0 /\ (object[handler.fn] = 0 \/ created[handler.fn] > 1)
  /\ LostIfRecreated

-----------------------------------------------------------------------------
USE NameAssumption, SetsAssumption, NobodyAssumption, LimitsAssumption

(* Scaling for an object that is not there, or of a name being cleaned up, *)
(* is on record.                                                           *)
LEMMA MeetingRecorded ==
  ASSUME TypeOK, Recorded, loop.fn \in Functions
  PROVE  /\ object[loop.fn] # loop.uid => Name[loop.fn] \in raced
         /\ handler.fn \in Functions /\ Name[handler.fn] = Name[loop.fn]
              => Name[loop.fn] \in raced
BY DEF Recorded, Overlap, TypeOK

(* IInv holds at the start.                                                *)
LEMMA InitIInv == Init => IInv
<1> SUFFICES ASSUME Init PROVE IInv
  OBVIOUS
<1> USE DEF Init, NoList, Waiting, Resting
<1>1. TypeOK
  <2>1. 0 \in Uids
    BY DEF Uids
  <2>2. handler \in [pc : {"idle", "lookup", "free"}, fn : Functions \cup {Nobody},
                     todo : SUBSET Configs]
    OBVIOUS
  <2>3. NoList \in [Functions -> Uids]
    BY <2>1
  <2>4. loop \in Loops
    BY <2>1, <2>3 DEF Loops
  <2>5. /\ status \in [Configs -> Statuses]
        /\ owner \in [Configs -> Functions \cup {Nobody}] /\ pod \in [Configs -> Uids]
    BY <2>1 DEF Statuses
  <2> QED
    BY <2>1, <2>2, <2>3, <2>4, <2>5 DEF TypeOK
<1>2. Goroutines /\ Findable
  BY DEF Goroutines, Findable
<1>3. Recorded /\ Freeing
  BY DEF Recorded, Freeing, Overlap
<1>4. CleanDeletion /\ SlotsAccounted
  BY DEF CleanDeletion, SlotsAccounted
<1> QED
  BY <1>1, <1>2, <1>3, <1>4 DEF IInv

(* Every step notes the meetings there are after it.                       *)
LEMMA NoteKeeps ==
  ASSUME TypeOK, Note
  PROVE  raced \subseteq raced' /\ raced' \subseteq Names /\ Overlap' \subseteq raced'
BY DEF TypeOK, Note, Overlap

(* The loop between two functions of its list.                             *)
LEMMA ContinueType ==
  ASSUME NEW list \in [Functions -> Uids], NEW pc \in {"idle", "next"}
  PROVE  /\ [Resting EXCEPT !.pc = pc, !.list = list] \in Loops
         /\ Continue(list) \in Loops
<1>1. 0 \in Uids
  BY DEF Uids
<1>2. [Resting EXCEPT !.pc = pc, !.list = list] \in Loops
  BY <1>1 DEF Resting, Loops
<1>3. [Resting EXCEPT !.pc = "idle", !.list = list] \in Loops
  BY <1>1 DEF Resting, Loops
<1>4. [Resting EXCEPT !.pc = "next", !.list = list] \in Loops
  BY <1>1 DEF Resting, Loops
<1>5. Continue(list) \in Loops
  BY <1>3, <1>4 DEF Continue
<1> QED
  BY <1>2, <1>5

(* The end of an UpdateFunction.                                           *)
LEMMA EndUpdateType ==
  ASSUME TypeOK, NEW st \in [Configs -> Statuses], EndUpdate(st)
  PROVE  loop' \in Loops /\ status' \in [Configs -> Statuses]
<1>1. loop' \in Loops
  <2>1. loop.list \in [Functions -> Uids]
    BY DEF TypeOK, Loops
  <2> QED
    BY <2>1, ContinueType DEF EndUpdate
<1>2. status' \in [Configs -> Statuses]
  BY DEF EndUpdate, Statuses
<1> QED
  BY <1>1, <1>2

(* A function is created: its request is queued.                           *)
LEMMA CreateStep ==
  ASSUME IInv, NEW f \in Functions, Create(f)
  PROVE  IInv'
<1>0. /\ Note /\ TypeOK
      /\ raced \subseteq raced' /\ raced' \subseteq Names /\ Overlap' \subseteq raced'
  BY NoteKeeps DEF IInv, Create
<1>1. TypeOK'
  BY <1>0 DEF Create, configVars, TypeOK, Loops, Statuses, Uids
<1> USE DEF Create, configVars, Loops
<1>2. Goroutines' /\ Findable'
  BY <1>0 DEF IInv, TypeOK, Goroutines, Findable
<1>3. Recorded' /\ Freeing'
  BY <1>0, MeetingRecorded DEF IInv, TypeOK, Goroutines, Findable, Recorded, Freeing
<1>4. CleanDeletion' /\ SlotsAccounted'
  BY <1>0, MeetingRecorded
     DEF IInv, TypeOK, Goroutines, Findable, Freeing, Recorded, CleanDeletion, Gone, SlotsAccounted
<1> QED
  BY <1>1, <1>2, <1>3, <1>4 DEF IInv

(* A function is deleted: its request stands for it.                       *)
LEMMA DeleteStep ==
  ASSUME IInv, NEW f \in Functions, Delete(f)
  PROVE  IInv'
<1>0. /\ Note /\ TypeOK
      /\ raced \subseteq raced' /\ raced' \subseteq Names /\ Overlap' \subseteq raced'
  BY NoteKeeps DEF IInv, Delete
<1>1. TypeOK'
  BY <1>0 DEF Delete, configVars, TypeOK, Loops, Statuses, Uids
<1> USE DEF Delete, configVars, Loops
<1>2. Goroutines' /\ Findable'
  BY <1>0 DEF IInv, TypeOK, Goroutines, Findable
<1>3. Recorded' /\ Freeing'
  BY <1>0, MeetingRecorded DEF IInv, TypeOK, Goroutines, Findable, Recorded, Freeing
<1>4. CleanDeletion' /\ SlotsAccounted'
  BY <1>0, MeetingRecorded
     DEF IInv, TypeOK, Goroutines, Findable, Freeing, Recorded, CleanDeletion, Gone, SlotsAccounted
<1> QED
  BY <1>1, <1>2, <1>3, <1>4 DEF IInv

(* A FaSTPod is collected.                                                 *)
LEMMA CollectGarbageStep ==
  ASSUME IInv, NEW c \in Configs, CollectGarbage(c)
  PROVE  IInv'
<1>0. /\ Note /\ TypeOK
      /\ raced \subseteq raced' /\ raced' \subseteq Names /\ Overlap' \subseteq raced'
  BY NoteKeeps DEF IInv, CollectGarbage
<1>1. TypeOK'
  BY <1>0 DEF CollectGarbage, objectVars, TypeOK, Loops, Statuses, Uids
<1> USE DEF CollectGarbage, objectVars, Loops
<1>2. Goroutines' /\ Findable'
  BY <1>0 DEF IInv, TypeOK, Goroutines, Findable
<1>3. Recorded' /\ Freeing'
  BY <1>0, MeetingRecorded DEF IInv, TypeOK, Goroutines, Findable, Recorded, Freeing
<1>4. CleanDeletion' /\ SlotsAccounted'
  BY <1>0, MeetingRecorded
     DEF IInv, TypeOK, Goroutines, Findable, Freeing, Recorded, CleanDeletion, Gone, SlotsAccounted
<1> QED
  BY <1>1, <1>2, <1>3, <1>4 DEF IInv

(* Reconcile finds the function.                                           *)
LEMMA ReconcileFoundStep ==
  ASSUME IInv, NEW f \in Functions, ReconcileFound(f)
  PROVE  IInv'
<1>0. /\ Note /\ TypeOK
      /\ raced \subseteq raced' /\ raced' \subseteq Names /\ Overlap' \subseteq raced'
  BY NoteKeeps DEF IInv, ReconcileFound
<1>1. TypeOK'
  BY <1>0 DEF ReconcileFound, objectVars, configVars, TypeOK, Loops, Statuses, Uids
<1> USE DEF ReconcileFound, objectVars, configVars, Loops
<1>2. Goroutines' /\ Findable'
  BY <1>0 DEF IInv, TypeOK, Goroutines, Findable
<1>3. Recorded' /\ Freeing'
  BY <1>0, MeetingRecorded DEF IInv, TypeOK, Goroutines, Findable, Recorded, Freeing
<1>4. CleanDeletion' /\ SlotsAccounted'
  BY <1>0, MeetingRecorded
     DEF IInv, TypeOK, Goroutines, Findable, Freeing, Recorded, CleanDeletion, Gone, SlotsAccounted
<1> QED
  BY <1>1, <1>2, <1>3, <1>4 DEF IInv

(* Reconcile finds it deleted: the handler now stands for it.              *)
LEMMA ReconcileDeletedStep ==
  ASSUME IInv, NEW f \in Functions, ReconcileDeleted(f)
  PROVE  IInv'
<1>0. /\ Note /\ TypeOK
      /\ raced \subseteq raced' /\ raced' \subseteq Names /\ Overlap' \subseteq raced'
  BY NoteKeeps DEF IInv, ReconcileDeleted
<1>1. TypeOK'
  BY <1>0
     DEF ReconcileDeleted, NotFound, Waiting, objectVars, configVars, TypeOK, Loops, Statuses,
         Uids
<1> USE DEF ReconcileDeleted, NotFound, Waiting, objectVars, configVars, Loops
<1>2. Goroutines' /\ Findable'
  BY <1>0 DEF IInv, TypeOK, Goroutines, Findable
<1>3. Recorded' /\ Freeing'
  BY <1>0, MeetingRecorded DEF IInv, TypeOK, Goroutines, Findable, Recorded, Freeing
<1>4. CleanDeletion' /\ SlotsAccounted'
  BY <1>0, MeetingRecorded
     DEF IInv, TypeOK, Goroutines, Findable, Freeing, Recorded, CleanDeletion, Gone, SlotsAccounted
<1> QED
  BY <1>1, <1>2, <1>3, <1>4 DEF IInv

(* The cleanup begins with all configurations of the entry, or there is    *)
(* none.                                                                   *)
LEMMA LookupStep ==
  ASSUME IInv, Lookup
  PROVE  IInv'
<1>0. /\ Note /\ TypeOK
      /\ raced \subseteq raced' /\ raced' \subseteq Names /\ Overlap' \subseteq raced'
  BY NoteKeeps DEF IInv, Lookup
<1>1. TypeOK'
  BY <1>0
     DEF Lookup, CurrentConfigs, EntryOf, Waiting, objectVars, configVars, TypeOK, Loops,
         Statuses, Uids
<1> USE DEF Lookup, CurrentConfigs, EntryOf, Waiting, objectVars, configVars, Loops
<1>2. Goroutines' /\ Findable'
  BY <1>0 DEF IInv, TypeOK, Goroutines, Findable
<1>3. Recorded' /\ Freeing'
  BY <1>0, MeetingRecorded DEF IInv, TypeOK, Goroutines, Findable, Recorded, Freeing
<1>4. CleanDeletion' /\ SlotsAccounted'
  BY <1>0, MeetingRecorded
     DEF IInv, TypeOK, Goroutines, Findable, Freeing, Recorded, CleanDeletion, Gone, SlotsAccounted
<1> QED
  BY <1>1, <1>2, <1>3, <1>4 DEF IInv

(* The cleanup takes slots.                                                *)
LEMMA FreeConfigStep ==
  ASSUME IInv, NEW c \in Configs, FreeConfig(c)
  PROVE  IInv'
<1>0. /\ Note /\ TypeOK
      /\ raced \subseteq raced' /\ raced' \subseteq Names /\ Overlap' \subseteq raced'
  BY NoteKeeps DEF IInv, FreeConfig
<1>1. TypeOK'
  BY <1>0 DEF FreeConfig, objectVars, TypeOK, Loops, Statuses, Uids
<1> USE DEF FreeConfig, objectVars, Loops
<1>2. Goroutines' /\ Findable'
  BY <1>0 DEF IInv, TypeOK, Goroutines, Findable
<1>3. Recorded' /\ Freeing'
  BY <1>0, MeetingRecorded DEF IInv, TypeOK, Goroutines, Findable, Recorded, Freeing
<1>4. CleanDeletion' /\ SlotsAccounted'
  BY <1>0, MeetingRecorded
     DEF IInv, TypeOK, Goroutines, Findable, Freeing, Recorded, CleanDeletion, Gone, SlotsAccounted
<1> QED
  BY <1>1, <1>2, <1>3, <1>4 DEF IInv

(* The entry goes; if the loop has it, the meeting is on record.           *)
LEMMA EndDeleteStep ==
  ASSUME IInv, EndDelete
  PROVE  IInv'
<1>0. /\ Note /\ TypeOK
      /\ raced \subseteq raced' /\ raced' \subseteq Names /\ Overlap' \subseteq raced'
  BY NoteKeeps DEF IInv, EndDelete
<1>1. TypeOK'
  BY <1>0
     DEF EndDelete, WithoutEntry, EntryOf, Waiting, objectVars, TypeOK, Loops, Statuses, Uids
<1> USE DEF EndDelete, WithoutEntry, EntryOf, Waiting, objectVars, Loops
<1>2. Goroutines' /\ Findable'
  BY <1>0 DEF IInv, TypeOK, Goroutines, Findable
<1>3. Recorded' /\ Freeing'
  BY <1>0, MeetingRecorded DEF IInv, TypeOK, Goroutines, Findable, Recorded, Freeing
<1>4. CleanDeletion' /\ SlotsAccounted'
  BY <1>0, MeetingRecorded
     DEF IInv, TypeOK, Goroutines, Findable, Freeing, Recorded, CleanDeletion, Gone, SlotsAccounted
<1> QED
  BY <1>1, <1>2, <1>3, <1>4 DEF IInv

(* The loop gets its list.                                                 *)
LEMMA ListStep ==
  ASSUME IInv, List
  PROVE  IInv'
<1>0. /\ Note /\ TypeOK
      /\ raced \subseteq raced' /\ raced' \subseteq Names /\ Overlap' \subseteq raced'
  BY NoteKeeps DEF IInv, List
<1>1. TypeOK'
  <2>1. loop' \in Loops
    BY <1>0, ContinueType DEF List, TypeOK
  <2> QED
    BY <1>0, <2>1 DEF TypeOK, List, objectVars, configVars
<1> USE DEF List, NoList, Resting, objectVars, configVars, Loops
<1>2. Goroutines' /\ Findable'
  BY <1>0 DEF IInv, TypeOK, Goroutines, Findable
<1>3. Recorded' /\ Freeing'
  BY <1>0, MeetingRecorded DEF IInv, TypeOK, Goroutines, Findable, Recorded, Freeing
<1>4. CleanDeletion' /\ SlotsAccounted'
  BY <1>0, MeetingRecorded
     DEF IInv, TypeOK, Goroutines, Findable, Freeing, Recorded, CleanDeletion, Gone, SlotsAccounted
<1> QED
  BY <1>1, <1>2, <1>3, <1>4 DEF IInv

(* The loop passes a function over.                                        *)
LEMMA SkipStep ==
  ASSUME IInv, NEW f \in Functions, Skip(f)
  PROVE  IInv'
<1>0. /\ Note /\ TypeOK
      /\ raced \subseteq raced' /\ raced' \subseteq Names /\ Overlap' \subseteq raced'
  BY NoteKeeps DEF IInv, Skip
<1>1. TypeOK'
  <2>1. Without(loop.list, f) \in [Functions -> Uids]
    BY <1>0 DEF TypeOK, Loops, Without, Uids
  <2>2. loop' \in Loops
    BY <1>0, <2>1, ContinueType DEF Skip, SkipOne
  <2> QED
    BY <1>0, <2>2 DEF TypeOK, Skip, objectVars, configVars
<1> USE DEF Skip, SkipOne, Continue, Without, NoList, Resting, objectVars, configVars, Loops
<1>2. Goroutines' /\ Findable'
  BY <1>0 DEF IInv, TypeOK, Goroutines, Findable
<1>3. Recorded' /\ Freeing'
  BY <1>0, MeetingRecorded DEF IInv, TypeOK, Goroutines, Findable, Recorded, Freeing
<1>4. CleanDeletion' /\ SlotsAccounted'
  BY <1>0, MeetingRecorded
     DEF IInv, TypeOK, Goroutines, Findable, Freeing, Recorded, CleanDeletion, Gone, SlotsAccounted
<1> QED
  BY <1>1, <1>2, <1>3, <1>4 DEF IInv

(* UpdateFunction makes an entry only for a function it then scales.       *)
LEMMA UpdateFunctionStep ==
  ASSUME IInv, NEW f \in Functions, UpdateFunction(f)
  PROVE  IInv'
<1>0. /\ Note /\ TypeOK
      /\ raced \subseteq raced' /\ raced' \subseteq Names /\ Overlap' \subseteq raced'
  BY NoteKeeps DEF IInv, UpdateFunction
<1>1. TypeOK'
  <2>1. Without(loop.list, f) \in [Functions -> Uids] /\ loop.list[f] \in Uids
    BY <1>0 DEF TypeOK, Loops, Without, Uids
  <2>2. PICK pc \in {"next", "up", "down"} :
          loop' = IF pc = "next" THEN Continue(Without(loop.list, f))
                  ELSE [pc |-> pc, list |-> Without(loop.list, f), fn |-> f,
                        uid |-> loop.list[f], cfg |-> Nobody, attached |-> TRUE]
    BY DEF UpdateFunction, Decide
  <2>3. ASSUME pc = "next" PROVE loop' \in Loops
    BY <2>1, <2>2, <2>3, ContinueType
  <2>4. ASSUME pc # "next" PROVE loop' \in Loops
    BY <2>1, <2>2, <2>4 DEF Loops
  <2>5. loop' \in Loops
    BY <2>3, <2>4
  <2> QED
    BY <1>0, <2>5 DEF TypeOK, UpdateFunction, WithEntry, objectVars, configVars
<1> USE DEF UpdateFunction, Decide, WithEntry, Continue, Without, NoList, Resting, objectVars, configVars, Loops
<1>2. Goroutines' /\ Findable'
  BY <1>0 DEF IInv, TypeOK, Goroutines, Findable
<1>3. Recorded' /\ Freeing'
  BY <1>0, MeetingRecorded DEF IInv, TypeOK, Goroutines, Findable, Recorded, Freeing
<1>4. CleanDeletion' /\ SlotsAccounted'
  BY <1>0, MeetingRecorded
     DEF IInv, TypeOK, Goroutines, Findable, Freeing, Recorded, CleanDeletion, Gone, SlotsAccounted
<1> QED
  BY <1>1, <1>2, <1>3, <1>4 DEF IInv

(* A configuration nothing refers to gets slots.                           *)
LEMMA TakeSlotsStep ==
  ASSUME IInv, NEW c \in Configs, TakeSlots(c)
  PROVE  IInv'
<1>0. /\ Note /\ TypeOK
      /\ raced \subseteq raced' /\ raced' \subseteq Names /\ Overlap' \subseteq raced'
  BY NoteKeeps DEF IInv, TakeSlots
<1>1. TypeOK'
  BY <1>0 DEF TakeSlots, Unused, objectVars, TypeOK, Loops, Statuses, Uids
<1> USE DEF TakeSlots, Unused, objectVars, Loops
<1>2. Goroutines' /\ Findable'
  BY <1>0 DEF IInv, TypeOK, Goroutines, Findable
<1>3. Recorded' /\ Freeing'
  BY <1>0, MeetingRecorded DEF IInv, TypeOK, Goroutines, Findable, Recorded, Freeing
<1>4. CleanDeletion' /\ SlotsAccounted'
  BY <1>0, MeetingRecorded
     DEF IInv, TypeOK, Goroutines, Findable, Freeing, Recorded, CleanDeletion, Gone, SlotsAccounted
<1> QED
  BY <1>1, <1>2, <1>3, <1>4 DEF IInv

(* No GPU is found.                                                        *)
LEMMA NoneSuitableStep ==
  ASSUME IInv, NoneSuitable
  PROVE  IInv'
<1>0. /\ Note /\ TypeOK
      /\ raced \subseteq raced' /\ raced' \subseteq Names /\ Overlap' \subseteq raced'
  BY NoteKeeps DEF IInv, NoneSuitable
<1>1. TypeOK'
  <2>1. loop' \in Loops /\ status' \in [Configs -> Statuses]
    <3>1. status \in [Configs -> Statuses]
      BY <1>0 DEF TypeOK, Statuses
    <3> QED
      BY <1>0, <3>1, EndUpdateType DEF NoneSuitable
  <2> QED
    BY <1>0, <2>1 DEF TypeOK, NoneSuitable, objectVars
<1> USE DEF NoneSuitable, EndUpdate, Continue, NoList, Resting, objectVars, Loops
<1>2. Goroutines' /\ Findable'
  BY <1>0 DEF IInv, TypeOK, Goroutines, Findable
<1>3. Recorded' /\ Freeing'
  BY <1>0, MeetingRecorded DEF IInv, TypeOK, Goroutines, Findable, Recorded, Freeing
<1>4. CleanDeletion' /\ SlotsAccounted'
  BY <1>0, MeetingRecorded
     DEF IInv, TypeOK, Goroutines, Findable, Freeing, Recorded, CleanDeletion, Gone, SlotsAccounted
<1> QED
  BY <1>1, <1>2, <1>3, <1>4 DEF IInv

(* The FaSTPod is created.                                                 *)
LEMMA AddFastPodsStep ==
  ASSUME IInv, AddFastPods
  PROVE  IInv'
<1>0. /\ Note /\ TypeOK
      /\ raced \subseteq raced' /\ raced' \subseteq Names /\ Overlap' \subseteq raced'
  BY NoteKeeps DEF IInv, AddFastPods
<1>1. TypeOK'
  BY <1>0 DEF AddFastPods, objectVars, TypeOK, Loops, Statuses, Uids
<1> USE DEF AddFastPods, objectVars, Loops
<1>2. Goroutines' /\ Findable'
  BY <1>0 DEF IInv, TypeOK, Goroutines, Findable
<1>3. Recorded' /\ Freeing'
  BY <1>0, MeetingRecorded DEF IInv, TypeOK, Goroutines, Findable, Recorded, Freeing
<1>4. CleanDeletion' /\ SlotsAccounted'
  BY <1>0, MeetingRecorded
     DEF IInv, TypeOK, Goroutines, Findable, Freeing, Recorded, CleanDeletion, Gone, SlotsAccounted
<1> QED
  BY <1>1, <1>2, <1>3, <1>4 DEF IInv

(* It cannot be created: the configuration leaks.                          *)
LEMMA AddFastPodsFailsStep ==
  ASSUME IInv, AddFastPodsFails
  PROVE  IInv'
<1>0. /\ Note /\ TypeOK
      /\ raced \subseteq raced' /\ raced' \subseteq Names /\ Overlap' \subseteq raced'
  BY NoteKeeps DEF IInv, AddFastPodsFails
<1>1. TypeOK'
  <2>1. loop' \in Loops /\ status' \in [Configs -> Statuses]
    <3>1. [status EXCEPT ![loop.cfg] = "leaked"] \in [Configs -> Statuses]
      BY <1>0 DEF TypeOK, Statuses
    <3> QED
      BY <1>0, <3>1, EndUpdateType DEF AddFastPodsFails
  <2> QED
    BY <1>0, <2>1 DEF TypeOK, AddFastPodsFails, objectVars
<1> USE DEF AddFastPodsFails, EndUpdate, Continue, NoList, Resting, objectVars, Loops
<1>2. Goroutines' /\ Findable'
  BY <1>0 DEF IInv, TypeOK, Goroutines, Findable
<1>3. Recorded' /\ Freeing'
  BY <1>0, MeetingRecorded DEF IInv, TypeOK, Goroutines, Findable, Recorded, Freeing
<1>4. CleanDeletion' /\ SlotsAccounted'
  BY <1>0, MeetingRecorded
     DEF IInv, TypeOK, Goroutines, Findable, Freeing, Recorded, CleanDeletion, Gone, SlotsAccounted
<1> QED
  BY <1>1, <1>2, <1>3, <1>4 DEF IInv

(* The configuration enters the entry, or is lost with one that was        *)
(* removed.                                                                *)
LEMMA RecordStep ==
  ASSUME IInv, Record
  PROVE  IInv'
<1>0. /\ Note /\ TypeOK
      /\ raced \subseteq raced' /\ raced' \subseteq Names /\ Overlap' \subseteq raced'
  BY NoteKeeps DEF IInv, Record
<1>1. TypeOK'
  <2>1. loop' \in Loops /\ status' \in [Configs -> Statuses]
    <3>1. [status EXCEPT ![loop.cfg] = IF loop.attached THEN "entry" ELSE "detached"] \in [Configs -> Statuses]
      BY <1>0 DEF TypeOK, Statuses
    <3> QED
      BY <1>0, <3>1, EndUpdateType DEF Record
  <2> QED
    BY <1>0, <2>1 DEF TypeOK, Record, objectVars
<1> USE DEF Record, EndUpdate, Continue, NoList, Resting, objectVars, Loops
<1>2. Goroutines' /\ Findable'
  BY <1>0 DEF IInv, TypeOK, Goroutines, Findable
<1>3. Recorded' /\ Freeing'
  BY <1>0, MeetingRecorded DEF IInv, TypeOK, Goroutines, Findable, Recorded, Freeing
<1>4. CleanDeletion' /\ SlotsAccounted'
  BY <1>0, MeetingRecorded
     DEF IInv, TypeOK, Goroutines, Findable, Freeing, Recorded, CleanDeletion, Gone, SlotsAccounted
<1> QED
  BY <1>1, <1>2, <1>3, <1>4 DEF IInv

(* A scale-down deletes a FaSTPod.                                         *)
LEMMA DeletePodStep ==
  ASSUME IInv, NEW c \in Configs, DeletePod(c)
  PROVE  IInv'
<1>0. /\ Note /\ TypeOK
      /\ raced \subseteq raced' /\ raced' \subseteq Names /\ Overlap' \subseteq raced'
  BY NoteKeeps DEF IInv, DeletePod
<1>1. TypeOK'
  <2>1. loop' \in Loops
    BY <1>0 DEF TypeOK, DeletePod, Loops
  <2>2. pod' \in [Configs -> Uids]
    BY <1>0 DEF TypeOK, DeletePod, Uids
  <2> QED
    BY <1>0, <2>1, <2>2 DEF TypeOK, DeletePod, objectVars
<1> USE DEF DeletePod, Mine, EntryOf, objectVars, Loops
<1>2. Goroutines' /\ Findable'
  BY <1>0 DEF IInv, TypeOK, Goroutines, Findable
<1>3. Recorded' /\ Freeing'
  BY <1>0, MeetingRecorded DEF IInv, TypeOK, Goroutines, Findable, Recorded, Freeing
<1>4. CleanDeletion' /\ SlotsAccounted'
  BY <1>0, MeetingRecorded
     DEF IInv, TypeOK, Goroutines, Findable, Freeing, Recorded, CleanDeletion, Gone, SlotsAccounted
<1> QED
  BY <1>1, <1>2, <1>3, <1>4 DEF IInv

(* It cannot be deleted.                                                   *)
LEMMA DeletePodFailsStep ==
  ASSUME IInv, DeletePodFails
  PROVE  IInv'
<1>0. /\ Note /\ TypeOK
      /\ raced \subseteq raced' /\ raced' \subseteq Names /\ Overlap' \subseteq raced'
  BY NoteKeeps DEF IInv, DeletePodFails
<1>1. TypeOK'
  <2>1. loop' \in Loops /\ status' \in [Configs -> Statuses]
    <3>1. status \in [Configs -> Statuses]
      BY <1>0 DEF TypeOK, Statuses
    <3> QED
      BY <1>0, <3>1, EndUpdateType DEF DeletePodFails
  <2> QED
    BY <1>0, <2>1 DEF TypeOK, DeletePodFails, objectVars
<1> USE DEF DeletePodFails, EndUpdate, Continue, NoList, Resting, objectVars, Loops
<1>2. Goroutines' /\ Findable'
  BY <1>0 DEF IInv, TypeOK, Goroutines, Findable
<1>3. Recorded' /\ Freeing'
  BY <1>0, MeetingRecorded DEF IInv, TypeOK, Goroutines, Findable, Recorded, Freeing
<1>4. CleanDeletion' /\ SlotsAccounted'
  BY <1>0, MeetingRecorded
     DEF IInv, TypeOK, Goroutines, Findable, Freeing, Recorded, CleanDeletion, Gone, SlotsAccounted
<1> QED
  BY <1>1, <1>2, <1>3, <1>4 DEF IInv

(* Its slots are given back.                                               *)
LEMMA DeallocateStep ==
  ASSUME IInv, Deallocate
  PROVE  IInv'
<1>0. /\ Note /\ TypeOK
      /\ raced \subseteq raced' /\ raced' \subseteq Names /\ Overlap' \subseteq raced'
  BY NoteKeeps DEF IInv, Deallocate
<1>1. TypeOK'
  <2>1. loop' \in Loops /\ status' \in [Configs -> Statuses]
    <3>1. [status EXCEPT ![loop.cfg] = "lost"] \in [Configs -> Statuses]
      BY <1>0 DEF TypeOK, Statuses
    <3> QED
      BY <1>0, <3>1, EndUpdateType DEF Deallocate
  <2> QED
    BY <1>0, <2>1 DEF TypeOK, Deallocate, objectVars
<1> USE DEF Deallocate, EndUpdate, Continue, NoList, Resting, objectVars, Loops
<1>2. Goroutines' /\ Findable'
  BY <1>0 DEF IInv, TypeOK, Goroutines, Findable
<1>3. Recorded' /\ Freeing'
  BY <1>0, MeetingRecorded DEF IInv, TypeOK, Goroutines, Findable, Recorded, Freeing
<1>4. CleanDeletion' /\ SlotsAccounted'
  BY <1>0, MeetingRecorded
     DEF IInv, TypeOK, Goroutines, Findable, Freeing, Recorded, CleanDeletion, Gone, SlotsAccounted
<1> QED
  BY <1>1, <1>2, <1>3, <1>4 DEF IInv

(* IInv is inductive.                                                      *)
LEMMA InductiveIInv == Spec => []IInv
<1>1. IInv /\ [Next]_vars => IInv'
  <2> SUFFICES ASSUME IInv, [Next]_vars
               PROVE  IInv'
    OBVIOUS
  <2>1. CASE \E f \in Functions : Create(f) \/ Delete(f) \/ Reconcile(f)
    BY <2>1, CreateStep, DeleteStep, ReconcileFoundStep, ReconcileDeletedStep DEF Reconcile
  <2>2. CASE \E c \in Configs : CollectGarbage(c)
    BY <2>2, CollectGarbageStep
  <2>3. CASE Cleanup
    BY <2>3, LookupStep, FreeConfigStep, EndDeleteStep DEF Cleanup
  <2>4. CASE Scaling
    BY <2>4, ListStep, SkipStep, UpdateFunctionStep, TakeSlotsStep, DeletePodStep,
       NoneSuitableStep, AddFastPodsStep, AddFastPodsFailsStep, RecordStep,
       DeletePodFailsStep, DeallocateStep DEF Scaling
  <2>5. CASE UNCHANGED vars
    BY <2>5 DEF vars, objectVars, configVars, IInv, TypeOK, Goroutines, Findable, Recorded,
       Overlap, Freeing, CleanDeletion, Gone, SlotsAccounted
  <2> QED
    BY <2>1, <2>2, <2>3, <2>4, <2>5 DEF Next
<1> QED
  BY InitIInv, <1>1, PTL DEF Spec

(* The objects, the goroutines and the configurations have their types.    *)
THEOREM TypesCorrect == Spec => []TypeOK
<1>1. IInv => TypeOK
  BY DEF IInv
<1> QED
  BY <1>1, InductiveIInv, PTL

(* Once the last function of a name is deleted and reconciled its entry in *)
(* fastFuncMap is gone, unless handleDeletedFaSTFunc met UpdateFunction.   *)
THEOREM DeletionIsClean == Spec => []CleanDeletion
<1>1. IInv => CleanDeletion
  BY DEF IInv
<1> QED
  BY <1>1, InductiveIInv, PTL

(* Slots that no entry accounts for come from a failed AddFastPods or from *)
(* such a meeting.                                                         *)
THEOREM AllSlotsAccounted == Spec => []SlotsAccounted
<1>1. IInv => SlotsAccounted
  BY DEF IInv
<1> QED
  BY <1>1, InductiveIInv, PTL

-----------------------------------------------------------------------------
(* FaSTPods and their slots.                                               *)

(* PodInv is kept, by one argument per action: uids only grow, a FaSTPod   *)
(* is created by a scaling that no cleanup of its name meets, and the      *)
(* cleanup takes slots of the object it found deleted.                     *)
LEMMA PodStep ==
  ASSUME UniqueNames, IInv, PodInv, [Next]_vars
  PROVE  PodInv'
<1>0. /\ TypeOK /\ Goroutines /\ Findable
      /\ raced \subseteq raced'
      /\ loop.fn \in Functions /\ handler.fn = loop.fn => Name[loop.fn] \in raced
  <2>1. raced \subseteq raced'
    BY DEF Next, Reconcile, Cleanup, Scaling, Note, vars, Create, Delete, CollectGarbage,
       ReconcileFound, ReconcileDeleted, Lookup, FreeConfig, EndDelete, List, Skip,
       UpdateFunction, TakeSlots, NoneSuitable, AddFastPods, AddFastPodsFails, Record,
       DeletePod, DeletePodFails, Deallocate
  <2> QED
    BY <2>1, MeetingRecorded DEF IInv
<1>1. ASSUME NEW f \in Functions, Create(f) PROVE PodInv'
  BY <1>0, <1>1 DEF Create, configVars, Loops, TypeOK, Uids, PodInv, Goroutines,
     Findable, LostIfRaced, UniqueNames
<1>2. ASSUME NEW f \in Functions, Delete(f) PROVE PodInv'
  BY <1>0, <1>2 DEF Delete, configVars, Loops, TypeOK, Uids, PodInv, Goroutines,
     Findable, LostIfRaced, UniqueNames
<1>3. ASSUME NEW c \in Configs, CollectGarbage(c) PROVE PodInv'
  BY <1>0, <1>3 DEF CollectGarbage, objectVars, Loops, TypeOK, Uids, PodInv, Goroutines,
     Findable, LostIfRaced, UniqueNames
<1>4. ASSUME NEW f \in Functions, ReconcileFound(f) PROVE PodInv'
  BY <1>0, <1>4 DEF ReconcileFound, objectVars, configVars, Loops, TypeOK, Uids, PodInv,
     Goroutines, Findable, LostIfRaced, UniqueNames
<1>5. ASSUME NEW f \in Functions, ReconcileDeleted(f) PROVE PodInv'
  BY <1>0, <1>5 DEF ReconcileDeleted, NotFound, Waiting, objectVars, configVars, Loops,
     TypeOK, Uids, PodInv, Goroutines, Findable, LostIfRaced, UniqueNames
<1>6. CASE Lookup
  BY <1>0, <1>6 DEF Lookup, CurrentConfigs, EntryOf, Waiting, objectVars, configVars,
     Loops, TypeOK, Uids, PodInv, Goroutines, Findable, LostIfRaced, UniqueNames
<1>7. ASSUME NEW c \in Configs, FreeConfig(c) PROVE PodInv'
  BY <1>0, <1>7 DEF FreeConfig, objectVars, Loops, TypeOK, Uids, PodInv, Goroutines,
     Findable, LostIfRaced, UniqueNames
<1>8. CASE EndDelete
  BY <1>0, <1>8 DEF EndDelete, EntryOf, Waiting, objectVars, Loops, TypeOK, Uids,
     PodInv, Goroutines, Findable, LostIfRaced, UniqueNames
<1>9. CASE List
  BY <1>0, <1>9 DEF List, NoList, Resting, objectVars, configVars, Loops, TypeOK, Uids,
     PodInv, Goroutines, Findable, LostIfRaced, UniqueNames
<1>10. ASSUME NEW f \in Functions, Skip(f) PROVE PodInv'
  BY <1>0, <1>10 DEF Skip, SkipOne, Continue, Without, NoList, Resting, objectVars,
     configVars, Loops, TypeOK, Uids, PodInv, Goroutines, Findable, LostIfRaced,
     UniqueNames
<1>11. ASSUME NEW f \in Functions, UpdateFunction(f) PROVE PodInv'
  BY <1>0, <1>11 DEF UpdateFunction, Decide, Continue, Without, NoList, Resting,
     objectVars, configVars, Loops, TypeOK, Uids, PodInv, Goroutines, Findable,
     LostIfRaced, UniqueNames
<1>12. ASSUME NEW c \in Configs, TakeSlots(c) PROVE PodInv'
  BY <1>0, <1>12 DEF TakeSlots, Unused, objectVars, Loops, TypeOK, Uids, PodInv,
     Goroutines, Findable, LostIfRaced, UniqueNames
<1>13. CASE NoneSuitable
  BY <1>0, <1>13 DEF NoneSuitable, EndUpdate, Continue, NoList, Resting, objectVars,
     Loops, TypeOK, Uids, PodInv, Goroutines, Findable, LostIfRaced, UniqueNames
<1>14. CASE AddFastPods
  BY <1>0, <1>14 DEF AddFastPods, objectVars, Loops, TypeOK, Uids, PodInv, Goroutines,
     Findable, LostIfRaced, UniqueNames
<1>15. CASE AddFastPodsFails
  BY <1>0, <1>15 DEF AddFastPodsFails, EndUpdate, Continue, NoList, Resting, objectVars,
     Loops, TypeOK, Uids, PodInv, Goroutines, Findable, LostIfRaced, UniqueNames
<1>16. CASE Record
  BY <1>0, <1>16 DEF Record, EndUpdate, Continue, NoList, Resting, objectVars, Loops,
     TypeOK, Uids, PodInv, Goroutines, Findable, LostIfRaced, UniqueNames
<1>17. ASSUME NEW c \in Configs, DeletePod(c) PROVE PodInv'
  BY <1>0, <1>17 DEF DeletePod, Mine, EntryOf, objectVars, Loops, TypeOK, Uids, PodInv,
     Goroutines, Findable, LostIfRaced, UniqueNames
<1>18. CASE DeletePodFails
  BY <1>0, <1>18 DEF DeletePodFails, EndUpdate, Continue, NoList, Resting, objectVars,
     Loops, TypeOK, Uids, PodInv, Goroutines, Findable, LostIfRaced, UniqueNames
<1>19. CASE Deallocate
  BY <1>0, <1>19 DEF Deallocate, EndUpdate, Continue, NoList, Resting, objectVars,
     Loops, TypeOK, Uids, PodInv, Goroutines, Findable, LostIfRaced, UniqueNames
<1>20. CASE UNCHANGED vars
  BY <1>0, <1>20
     DEF vars, objectVars, configVars, TypeOK, Uids, PodInv, Goroutines, Findable,
         LostIfRaced, UniqueNames
<1> QED
  BY <1>1, <1>2, <1>3, <1>4, <1>5, <1>6, <1>7, <1>8, <1>9,
     <1>10, <1>11, <1>12, <1>13, <1>14, <1>15, <1>16, <1>17, <1>18, <1>19, <1>20
     DEF Next, Reconcile, Cleanup, Scaling

(* OnceInv is kept: a function created once never comes back when it is    *)
(* deleted, so the cleanup takes no slots of an object there is.           *)
LEMMA OnceStep ==
  ASSUME UniqueNames, IInv, PodInv, OnceInv, [Next]_vars
  PROVE  OnceInv'
<1>0. TypeOK /\ Goroutines /\ Findable
  BY DEF IInv
<1>1. ASSUME NEW f \in Functions, Create(f) PROVE OnceInv'
  BY <1>0, <1>1 DEF Create, configVars, Loops, TypeOK, Uids, PodInv, OnceInv,
     Goroutines, Findable, LostIfRecreated, UniqueNames
<1>2. ASSUME NEW f \in Functions, Delete(f) PROVE OnceInv'
  BY <1>0, <1>2 DEF Delete, configVars, Loops, TypeOK, Uids, PodInv, OnceInv,
     Goroutines, Findable, LostIfRecreated, UniqueNames
<1>3. ASSUME NEW c \in Configs, CollectGarbage(c) PROVE OnceInv'
  BY <1>0, <1>3 DEF CollectGarbage, objectVars, Loops, TypeOK, Uids, PodInv, OnceInv,
     Goroutines, Findable, LostIfRecreated, UniqueNames
<1>4. ASSUME NEW f \in Functions, ReconcileFound(f) PROVE OnceInv'
  BY <1>0, <1>4 DEF ReconcileFound, objectVars, configVars, Loops, TypeOK, Uids, PodInv,
     OnceInv, Goroutines, Findable, LostIfRecreated, UniqueNames
<1>5. ASSUME NEW f \in Functions, ReconcileDeleted(f) PROVE OnceInv'
  BY <1>0, <1>5 DEF ReconcileDeleted, NotFound, Waiting, objectVars, configVars, Loops,
     TypeOK, Uids, PodInv, OnceInv, Goroutines, Findable, LostIfRecreated, UniqueNames
<1>6. CASE Lookup
  BY <1>0, <1>6 DEF Lookup, CurrentConfigs, EntryOf, Waiting, objectVars, configVars,
     Loops, TypeOK, Uids, PodInv, OnceInv, Goroutines, Findable, LostIfRecreated,
     UniqueNames
<1>7. ASSUME NEW c \in Configs, FreeConfig(c) PROVE OnceInv'
  BY <1>0, <1>7 DEF FreeConfig, objectVars, Loops, TypeOK, Uids, PodInv, OnceInv,
     Goroutines, Findable, LostIfRecreated, UniqueNames
<1>8. CASE EndDelete
  BY <1>0, <1>8 DEF EndDelete, EntryOf, Waiting, objectVars, Loops, TypeOK, Uids,
     PodInv, OnceInv, Goroutines, Findable, LostIfRecreated, UniqueNames
<1>9. CASE List
  BY <1>0, <1>9 DEF List, NoList, Resting, objectVars, configVars, Loops, TypeOK, Uids,
     PodInv, OnceInv, Goroutines, Findable, LostIfRecreated, UniqueNames
<1>10. ASSUME NEW f \in Functions, Skip(f) PROVE OnceInv'
  BY <1>0, <1>10 DEF Skip, SkipOne, Continue, Without, NoList, Resting, objectVars,
     configVars, Loops, TypeOK, Uids, PodInv, OnceInv, Goroutines, Findable,
     LostIfRecreated, UniqueNames
<1>11. ASSUME NEW f \in Functions, UpdateFunction(f) PROVE OnceInv'
  BY <1>0, <1>11 DEF UpdateFunction, Decide, Continue, Without, NoList, Resting,
     objectVars, configVars, Loops, TypeOK, Uids, PodInv, OnceInv, Goroutines, Findable,
     LostIfRecreated, UniqueNames
<1>12. ASSUME NEW c \in Configs, TakeSlots(c) PROVE OnceInv'
  BY <1>0, <1>12 DEF TakeSlots, Unused, objectVars, Loops, TypeOK, Uids, PodInv,
     OnceInv, Goroutines, Findable, LostIfRecreated, UniqueNames
<1>13. CASE NoneSuitable
  BY <1>0, <1>13 DEF NoneSuitable, EndUpdate, Continue, NoList, Resting, objectVars,
     Loops, TypeOK, Uids, PodInv, OnceInv, Goroutines, Findable, LostIfRecreated,
     UniqueNames
<1>14. CASE AddFastPods
  BY <1>0, <1>14 DEF AddFastPods, objectVars, Loops, TypeOK, Uids, PodInv, OnceInv,
     Goroutines, Findable, LostIfRecreated, UniqueNames
<1>15. CASE AddFastPodsFails
  BY <1>0, <1>15 DEF AddFastPodsFails, EndUpdate, Continue, NoList, Resting, objectVars,
     Loops, TypeOK, Uids, PodInv, OnceInv, Goroutines, Findable, LostIfRecreated,
     UniqueNames
<1>16. CASE Record
  BY <1>0, <1>16 DEF Record, EndUpdate, Continue, NoList, Resting, objectVars, Loops,
     TypeOK, Uids, PodInv, OnceInv, Goroutines, Findable, LostIfRecreated, UniqueNames
<1>17. ASSUME NEW c \in Configs, DeletePod(c) PROVE OnceInv'
  BY <1>0, <1>17 DEF DeletePod, Mine, EntryOf, objectVars, Loops, TypeOK, Uids, PodInv,
     OnceInv, Goroutines, Findable, LostIfRecreated, UniqueNames
<1>18. CASE DeletePodFails
  BY <1>0, <1>18 DEF DeletePodFails, EndUpdate, Continue, NoList, Resting, objectVars,
     Loops, TypeOK, Uids, PodInv, OnceInv, Goroutines, Findable, LostIfRecreated,
     UniqueNames
<1>19. CASE Deallocate
  BY <1>0, <1>19 DEF Deallocate, EndUpdate, Continue, NoList, Resting, objectVars,
     Loops, TypeOK, Uids, PodInv, OnceInv, Goroutines, Findable, LostIfRecreated,
     UniqueNames
<1>20. CASE UNCHANGED vars
  BY <1>0, <1>20
     DEF vars, objectVars, configVars, TypeOK, Uids, PodInv, OnceInv, Goroutines, Findable,
         LostIfRecreated, UniqueNames
<1> QED
  BY <1>1, <1>2, <1>3, <1>4, <1>5, <1>6, <1>7, <1>8, <1>9,
     <1>10, <1>11, <1>12, <1>13, <1>14, <1>15, <1>16, <1>17, <1>18, <1>19, <1>20
     DEF Next, Reconcile, Cleanup, Scaling

(* Where names are unique, functions may be deleted and created again any  *)
(* number of times: a FaSTPod of a function that exists has its slots,     *)
(* unless the function was created again and its cleanup met its scaling.  *)
THEOREM SlotsStayUnlessRecreated == UniqueNames => (Spec => []SlotsLostOnlyIfRecreated)
<1> SUFFICES ASSUME UniqueNames PROVE Spec => []SlotsLostOnlyIfRecreated
  OBVIOUS
<1>1. Init => PodInv /\ OnceInv
  BY DEF Init, PodInv, OnceInv, NoList, Waiting, Resting, LostIfRaced, LostIfRecreated
<1>2. IInv /\ PodInv /\ [Next]_vars => PodInv'
  BY PodStep
<1>3. IInv /\ PodInv /\ OnceInv /\ [Next]_vars => OnceInv'
  BY OnceStep
<1>4. PodInv /\ OnceInv => SlotsLostOnlyIfRecreated
  BY DEF PodInv, OnceInv, LostIfRaced, LostIfRecreated, SlotsLostOnlyIfRecreated
<1> QED
  BY <1>1, <1>2, <1>3, <1>4, InductiveIInv, PTL DEF Spec
=============================================================================
