---------------------------- MODULE ShelfPacker ----------------------------
(***************************************************************************)
(* The ShelfPacker of internal/shelf/shelf.go as a state machine.  Insert, *)
(* Remove and Reset hold the packer's mutex from beginning to end, so each *)
(* is one step.  The queries take no lock and change nothing; here they are*)
(* asked between the steps, GpuDevice asks them in the middle of removals. *)
(***************************************************************************)
EXTENDS Shelf

CONSTANTS
  MaxHeight,   \* the height of the bin (the SMs of a GPU)
  Widths,      \* the widths callers ask for, invalid ones included
  Heights,     \* the heights callers ask for, invalid ones included
  MaxItemID    \* bound: insertions stop once this ID is given out

ASSUME MaxHeightAssumption == MaxHeight \in Nat
ASSUME SizesAssumption     == Widths \subseteq Int /\ Heights \subseteq Int
ASSUME MaxItemIDAssumption == MaxItemID \in Nat

VARIABLE sp

Init == sp = NewShelf(MaxHeight)

InsertItem(w, h) ==
  /\ sp.nextItemID <= MaxItemID
  /\ sp' = Insert(sp, w, h)

RemoveItem(id) == sp' = Remove(sp, id)

ResetPacker == sp' = Reset(sp)

Next ==
  \/ \E w \in Widths, h \in Heights : InsertItem(w, h)
  \/ \E id \in 0..MaxItemID : RemoveItem(id)
  \/ ResetPacker

Spec == Init /\ [][Next]_sp

-----------------------------------------------------------------------------
(* Invariants.                                                             *)

(* Every field has the type of the Go struct, and the bin keeps its height.*)
TypeOK == IsPacker(sp) /\ sp.maxHeight = MaxHeight

(* The two indexes of the packer agree: itemLocation sends exactly the     *)
(* items on the shelves to the shelf that holds them, although Remove      *)
(* renumbers the shelves; and no ID at or above the next one is in use.    *)
(* Remove finds an item through the first index and deletes it through     *)
(* the second.                                                             *)
LocationsConsistent == LocationsAgree(sp)

(* IsEmpty (len(Shelves) == 0) really says that no item is held, because   *)
(* no empty shelf is ever kept; the controller gives a GPU back on that    *)
(* answer.                                                                 *)
EmptyMeansNoItem == IsEmpty(sp) <=> DOMAIN sp.itemLocation = {}

(* A shelf is never wider than the bin, the shelves together never higher, *)
(* and an item never higher than its shelf: no GPU's time or SMs are       *)
(* promised twice.                                                         *)
NoOvercommit == WithinBounds(sp)

(* The inductive invariant: NoEmptyShelf is what makes a removal preserve  *)
(* EmptyMeansNoItem, the exact totals what makes the promised room real.   *)
IInv == Sound(sp) /\ TotalsExact(sp) /\ sp.maxHeight = MaxHeight

(* The running totals the code keeps by += and -= are the sums they stand  *)
(* for: UsedWidth over the items of a shelf, UsedHeight over the shelves.  *)
(* CanFit trusts UsedHeight, MaxInsertableItems adds the heights up again. *)
AccountingExact == TotalsExact(sp)

(* A promise errs on the safe side: float truncation may make an answer of *)
(* MaxInsertableItems too small, but as many insertions as it promises     *)
(* succeed in a row, whichever way the quotients came out, and it promises *)
(* nothing for a size CanFit refuses.  GPUInfo plans replicas with the     *)
(* promise and commits them with Insert, in one loop that gives up at the  *)
(* first failure.                                                          *)
PromisesAreSafe ==
  \A w \in Widths, h \in Heights : \A n \in MaxInsertableItems(sp, {sp}, w, h) :
    /\ Takes(sp, w, h, n)
    /\ n > 0 => CanFit(sp, {sp}, w, h) = {TRUE}

(* Removing an item, whether a shelf collapses or not, takes nothing back  *)
(* of what was promised before: first fit has no anomaly by which the room *)
(* for equal items shrinks when another one goes.  The deletion handler    *)
(* removes items between the plan of a configuration and its commit.       *)
RemovalKeepsPromises ==
  \A w \in Widths, h \in Heights : \A n \in MaxInsertableItems(sp, {sp}, w, h) :
    \A id \in DOMAIN sp.itemLocation : Takes(Remove(sp, id), w, h, n)

-----------------------------------------------------------------------------
(* The packer implements the ledger of items its clients rely on.          *)

Ledger == INSTANCE ItemLedger
  WITH Sizes  <- [width : 1..FullWidth, height : 1..MaxHeight],
       items  <- ItemsOf(sp),
       nextID <- sp.nextItemID

(* Behind the IDs a client holds, the packer behaves as a plain map from   *)
(* ID to size: shelves and their renumbering are invisible.                *)
ImplementsLedger == Ledger!Spec
=============================================================================
