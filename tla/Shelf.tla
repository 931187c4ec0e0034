------------------------------- MODULE Shelf -------------------------------
(***************************************************************************)
(* The data structure of internal/shelf/shelf.go: an online two-dimensional*)
(* bin packer.  A bin of a fixed height is cut into shelves, a shelf holds *)
(* items side by side.  On a GPU the height of an item is the SM partition *)
(* of a replica and its width is the replica's time quota.                 *)
(*                                                                         *)
(* Every operation is an operator from packers to packers, so that the     *)
(* modules of the GPU and of the controller can apply it to the packer of  *)
(* each GPU.  ShelfPacker.tla turns them into a state machine.             *)
(*                                                                         *)
(* Widths are the floats 0.1, 0.2, ... of the code counted in a unit that  *)
(* divides 1.0 exactly; FullWidth is 1.0 in that unit.  Shelf positions    *)
(* are counted from 1, the code's slice indices from 0.                    *)
(***************************************************************************)
EXTENDS Integers, Sequences, FiniteSetsExt

CONSTANT FullWidth

ASSUME FullWidthAssumption == FullWidth \in Nat \ {0}

(* The type of the Go map m when its values are in V.                      *)
MapTo(m, V) == [DOMAIN m -> V]

Item == [width : Int, height : Int]

IsShelf(s) ==
  /\ s \in [height : Int, usedWidth : Int, items : MapTo(s.items, Item)]
  /\ DOMAIN s.items \subseteq Nat

IsPacker(p) ==
  /\ p \in [maxHeight    : Nat,
            shelves      : Seq(Range(p.shelves)),
            usedHeight   : Int,
            nextItemID   : Nat \ {0},
            itemLocation : MapTo(p.itemLocation, Nat \ {0})]
  /\ \A i \in DOMAIN p.shelves : IsShelf(p.shelves[i])
  /\ DOMAIN p.itemLocation \subseteq Nat

EmptyMap == [k \in {} |-> 0]

(* m with the binding k |-> v added: the assignment m[k] = v of a Go map.  *)
Bind(m, k, v) == [x \in DOMAIN m \cup {k} |-> IF x = k THEN v ELSE m[x]]

(* m without the key k: delete(m, k).                                      *)
Unbind(m, k) == Restrict(m, DOMAIN m \ {k})

NewShelf(maxHeight) ==
  [maxHeight    |-> maxHeight,
   shelves      |-> << >>,
   usedHeight   |-> 0,
   nextItemID   |-> 1,
   itemLocation |-> EmptyMap]

-----------------------------------------------------------------------------
(* Insert.                                                                 *)

ValidSize(sp, w, h) ==
  /\ 0 < w /\ w <= FullWidth
  /\ 0 < h /\ h <= sp.maxHeight

(* Fault: the height of the shelf is not looked at.                        *)
FitsOnAnyHeight(s, w, h) == s.usedWidth + w <= FullWidth

FitsOn(s, w, h) == h <= s.height /\ s.usedWidth + w <= FullWidth

(* The shelves an item fits on.  Insert takes the lowest of them.          *)
Candidates(sp, w, h) == {i \in DOMAIN sp.shelves : FitsOn(sp.shelves[i], w, h)}

FirstFit(sp, w, h) == Min(Candidates(sp, w, h))

(* Fault: the ID is not spent.                                             *)
PutOnShelfSameID(sp, i, w, h) ==
  [sp EXCEPT !.shelves[i].usedWidth = @ + w,
             !.shelves[i].items = Bind(@, sp.nextItemID, [width |-> w, height |-> h]),
             !.itemLocation = Bind(@, sp.nextItemID, i)]

PutOnShelf(sp, i, w, h) ==
  LET item == [width |-> w, height |-> h]
      s    == sp.shelves[i]
  IN  [maxHeight    |-> sp.maxHeight,
       shelves      |-> [sp.shelves EXCEPT ![i] =
                           [height    |-> s.height,
                            usedWidth |-> s.usedWidth + w,
                            items     |-> Bind(s.items, sp.nextItemID, item)]],
       usedHeight   |-> sp.usedHeight,
       nextItemID   |-> sp.nextItemID + 1,
       itemLocation |-> Bind(sp.itemLocation, sp.nextItemID, i)]

OpenShelf(sp, w, h) ==
  LET item == [width |-> w, height |-> h]
  IN  [maxHeight    |-> sp.maxHeight,
       shelves      |-> Append(sp.shelves,
                               [height    |-> h,
                                usedWidth |-> w,
                                items     |-> Bind(EmptyMap, sp.nextItemID, item)]),
       usedHeight   |-> sp.usedHeight + h,
       nextItemID   |-> sp.nextItemID + 1,
       itemLocation |-> Bind(sp.itemLocation, sp.nextItemID, Len(sp.shelves) + 1)]

(* An insertion that fails for lack of room has already taken its ID.      *)
Insert(sp, w, h) ==
  IF ~ValidSize(sp, w, h)              THEN sp
  ELSE IF Candidates(sp, w, h) # {}    THEN PutOnShelf(sp, FirstFit(sp, w, h), w, h)
  ELSE IF h > sp.maxHeight - sp.usedHeight
                                       THEN [sp EXCEPT !.nextItemID = sp.nextItemID + 1]
  ELSE OpenShelf(sp, w, h)

(* Insert returned an ID and not an error.                                 *)
InsertSucceeds(sp, w, h) ==
  /\ ValidSize(sp, w, h)
  /\ Candidates(sp, w, h) # {} \/ h <= sp.maxHeight - sp.usedHeight

-----------------------------------------------------------------------------
(* Remove.                                                                 *)

(* Fault: the width is kept.                                               *)
TakeOffKeepWidth(sp, i, id) ==
  [sp EXCEPT !.shelves[i].items = Unbind(@, id),
             !.itemLocation = Unbind(@, id)]

TakeOffShelf(sp, i, id) ==
  LET s == sp.shelves[i]
  IN  [maxHeight    |-> sp.maxHeight,
       shelves      |-> [sp.shelves EXCEPT ![i] =
                           [height    |-> s.height,
                            usedWidth |-> s.usedWidth - s.items[id].width,
                            items     |-> Unbind(s.items, id)]],
       usedHeight   |-> sp.usedHeight,
       nextItemID   |-> sp.nextItemID,
       itemLocation |-> Unbind(sp.itemLocation, id)]

(* Faults: the items behind the shelf are not renumbered, or its height is *)
(* not given back.                                                         *)
CollapseSameIndexes(sp, i) ==
  [sp EXCEPT !.shelves = SubSeq(@, 1, i - 1) \o SubSeq(@, i + 1, Len(@)),
             !.usedHeight = @ - sp.shelves[i].height]

CollapseKeepHeight(sp, i) ==
  [sp EXCEPT !.shelves = SubSeq(@, 1, i - 1) \o SubSeq(@, i + 1, Len(@)),
             !.itemLocation = [id \in DOMAIN @ |-> IF @[id] > i THEN @[id] - 1 ELSE @[id]]]

(* Drop the empty shelf i and move every shelf behind it one place up.     *)
Collapse(sp, i) ==
  [maxHeight    |-> sp.maxHeight,
   shelves      |-> [j \in 1..(Len(sp.shelves) - 1) |->
                       sp.shelves[IF j < i THEN j ELSE j + 1]],
   usedHeight   |-> sp.usedHeight - sp.shelves[i].height,
   nextItemID   |-> sp.nextItemID,
   itemLocation |-> [id \in DOMAIN sp.itemLocation |->
                       IF sp.itemLocation[id] > i THEN sp.itemLocation[id] - 1
                                                  ELSE sp.itemLocation[id]]]

(* The item is registered, and found on the shelf it is registered at.     *)
RemoveSucceeds(sp, id) ==
  /\ id \in DOMAIN sp.itemLocation
  /\ id \in DOMAIN sp.shelves[sp.itemLocation[id]].items

(* Fault: an emptied shelf stays.                                          *)
RemoveNoCollapse(sp, id) ==
  IF RemoveSucceeds(sp, id) THEN TakeOffShelf(sp, sp.itemLocation[id], id) ELSE sp

Remove(sp, id) ==
  IF ~RemoveSucceeds(sp, id) THEN sp
  ELSE LET i     == sp.itemLocation[id]
           taken == TakeOffShelf(sp, i, id)
       IN  IF DOMAIN taken.shelves[i].items = {} THEN Collapse(taken, i) ELSE taken

(* Fault: the wrong height is kept.                                        *)
ResetToUsedHeight(sp) == NewShelf(sp.usedHeight)

Reset(sp) == NewShelf(sp.maxHeight)

-----------------------------------------------------------------------------
(* Queries.  CanFit, IsEmpty and MaxInsertableItems take no lock: a Remove *)
(* may write while they read.  An answer is one of a set: W are the packers*)
(* a query meets on its way, {sp} when nobody writes.  It reads the length *)
(* of Shelves once and each field of a shelf when it gets there, so that a *)
(* shelf that is moved up meanwhile is counted twice or not at all.        *)

(* The packers a Remove passes through: the item is taken off, then its    *)
(* shelf is dropped.                                                       *)
RemovalStates(sp, id) ==
  IF RemoveSucceeds(sp, id) THEN {TakeOffShelf(sp, sp.itemLocation[id], id), Remove(sp, id)}
                            ELSE {sp}

(* The sequences with one element of each set of a sequence of sets.       *)
OneOfEach(sets) ==
  {s \in [DOMAIN sets -> UNION Range(sets)] : \A j \in DOMAIN sets : s[j] \in sets[j]}

(* What a query can read of the shelf at j.                                *)
Readings(W, j) ==
  LET met == {p.shelves[j] : p \in {q \in W : j \in DOMAIN q.shelves}}
  IN  [height : {s.height : s \in met}, usedWidth : {s.usedWidth : s \in met}]

(* What it can see as the slice of shelves.                                *)
Views(W) == UNION {OneOfEach([j \in 1..Len(p.shelves) |-> Readings(W, j)]) : p \in W}

(* The answers CanFit can give.                                            *)
CanFit(sp, W, w, h) ==
  {fit \in BOOLEAN : \E view \in Views(W), p \in W :
     fit <=> (\E j \in DOMAIN view : FitsOn(view[j], w, h)) \/ h <= sp.maxHeight - p.usedHeight}

(* What a client sees of a packer: the size of each item, by ID.           *)
ItemsOf(sp) ==
  [id \in DOMAIN sp.itemLocation |-> sp.shelves[sp.itemLocation[id]].items[id]]

IsEmpty(sp) == Len(sp.shelves) = 0

(* Fault: the quotient is rounded up.                                      *)
QuotientsUp(a, b) == {(a + b - 1) \div b}

(* int(a / b): where b divides a, the quotient of the floats may come out  *)
(* just below the whole number, as 0.6 / 0.2 does.                         *)
Quotients(a, b) ==
  IF a > 0 /\ a % b = 0 THEN {a \div b - 1, a \div b} ELSE {a \div b}

(* The division of Go's integers.                                          *)
Truncated(a, b) == IF a < 0 THEN -((-a) \div b) ELSE a \div b

(* How many items of this size a shelf is said to have room for.           *)
SlotsOn(shelf, w, h) ==
  IF h <= shelf.height THEN Quotients(FullWidth - shelf.usedWidth, w) ELSE {0}

(* The answers when the query sees view, which may be higher than the bin. *)
Counted(sp, view, w, h) ==
  LET usedHeight == SumFunction([j \in DOMAIN view |-> view[j].height])
      newShelves == Truncated(sp.maxHeight - usedHeight, h)
  IN  {SumFunction(slots) + newShelves * (FullWidth \div w) :
         slots \in OneOfEach([j \in DOMAIN view |-> SlotsOn(view[j], w, h)])}

(* The answers MaxInsertableItems can give.                                *)
MaxInsertableItems(sp, W, w, h) ==
  IF ~ValidSize(sp, w, h) THEN {0} ELSE UNION {Counted(sp, view, w, h) : view \in Views(W)}

(* The loop of AllocateAndCommitConfig: n insertions of one size, up to one*)
(* that fails.                                                             *)
InsertMany(sp, w, h, n) ==
  LET after[k \in 0..n] ==
        IF k = 0 THEN [sp |-> sp, ok |-> TRUE]
        ELSE LET before == after[k - 1]
             IN  IF ~before.ok THEN before
                 ELSE [sp |-> Insert(before.sp, w, h), ok |-> InsertSucceeds(before.sp, w, h)]
  IN  IF n <= 0 THEN [sp |-> sp, ok |-> TRUE] ELSE after[n]

(* All n of them succeed.                                                  *)
Takes(sp, w, h, n) == InsertMany(sp, w, h, n).ok

-----------------------------------------------------------------------------
(* What makes a packer sound, for any packer.                              *)

(* itemLocation sends exactly the items on the shelves to the shelf that   *)
(* holds them, and no ID at or above the next one is in use.               *)
LocationsAgree(p) ==
  /\ \A id \in DOMAIN p.itemLocation :
       /\ p.itemLocation[id] \in DOMAIN p.shelves
       /\ id \in DOMAIN p.shelves[p.itemLocation[id]].items
       /\ id < p.nextItemID
  /\ \A i \in DOMAIN p.shelves : \A id \in DOMAIN p.shelves[i].items :
       id \in DOMAIN p.itemLocation /\ p.itemLocation[id] = i

NoEmptyShelf(p) == \A i \in DOMAIN p.shelves : DOMAIN p.shelves[i].items # {}

(* Shelves within the width of the bin, their heights together within its  *)
(* height, items no higher than their shelf and of a size Insert accepts.  *)
WithinBounds(p) ==
  /\ p.usedHeight <= p.maxHeight
  /\ \A i \in DOMAIN p.shelves :
       /\ p.shelves[i].usedWidth <= FullWidth
       /\ 0 < p.shelves[i].height
       /\ \A id \in DOMAIN p.shelves[i].items :
            /\ p.shelves[i].items[id].height <= p.shelves[i].height
            /\ ValidSize(p, p.shelves[i].items[id].width, p.shelves[i].items[id].height)

(* The running totals are the sums they stand for.                         *)
TotalsExact(p) ==
  /\ p.usedHeight = SumFunction([i \in DOMAIN p.shelves |-> p.shelves[i].height])
  /\ \A i \in DOMAIN p.shelves :
       LET items == p.shelves[i].items
       IN  p.shelves[i].usedWidth = SumFunction([id \in DOMAIN items |-> items[id].width])

Sound(p) == IsPacker(p) /\ LocationsAgree(p) /\ NoEmptyShelf(p) /\ WithinBounds(p)
=============================================================================
