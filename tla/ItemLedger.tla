----------------------------- MODULE ItemLedger -----------------------------
(***************************************************************************)
(* What a shelf packer promises its clients, shelves left out: a ledger of *)
(* items.  An accepted item keeps its size under its ID until it is        *)
(* removed, an ID is given out at most once between two resets, and        *)
(* neither an insertion nor a removal touches another item.                *)
(*                                                                         *)
(* A client such as GPUInfo keeps only the IDs (shelfItems of its          *)
(* configurations), so this is all it can rely on when it releases a       *)
(* replica.                                                                *)
(***************************************************************************)
EXTENDS Integers

CONSTANT Sizes         \* the sizes an accepted item may have

VARIABLES items,       \* ID |-> size of the items held
          nextID       \* the next ID to give out

vars == <<items, nextID>>

Init == items = [k \in {} |-> 0] /\ nextID = 1

Accept(size) ==
  /\ items' = [k \in DOMAIN items \cup {nextID} |->
                 IF k = nextID THEN size ELSE items[k]]
  /\ nextID' = nextID + 1

(* No room: the ID is spent, nothing is held under it.                     *)
Refuse ==
  /\ nextID' = nextID + 1
  /\ UNCHANGED items

Discard(id) ==
  /\ id \in DOMAIN items
  /\ items' = [k \in DOMAIN items \ {id} |-> items[k]]
  /\ UNCHANGED nextID

Clear == items' = [k \in {} |-> 0] /\ nextID' = 1

Next ==
  \/ \E size \in Sizes : Accept(size)
  \/ Refuse
  \/ \E id \in DOMAIN items : Discard(id)
  \/ Clear

Spec == Init /\ [][Next]_vars
=============================================================================
