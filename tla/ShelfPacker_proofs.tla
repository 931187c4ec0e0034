------------------------- MODULE ShelfPacker_proofs -------------------------
(***************************************************************************)
(* What the packer guarantees whatever its height, the sizes asked for and *)
(* the length of the run.                                                  *)
(***************************************************************************)
EXTENDS ShelfPacker, Shelf_proofs

(* IInv is inductive: one step per method of the packer.                   *)
LEMMA Inductive == Spec => []IInv
<1>1. Init => IInv
  BY MaxHeightAssumption, NewShelfSound, NewShelfTotals DEF Init, IInv
<1>2. IInv /\ [Next]_sp => IInv'
  <2> SUFFICES ASSUME IInv, [Next]_sp
               PROVE  IInv'
    OBVIOUS
  <2>1. ASSUME NEW w \in Widths, NEW h \in Heights, InsertItem(w, h)
        PROVE  IInv'
    BY <2>1, SizesAssumption, InsertSound, InsertTotals DEF IInv, InsertItem
  <2>2. ASSUME NEW id \in 0..MaxItemID, RemoveItem(id)
        PROVE  IInv'
    BY <2>2, RemoveSound, RemoveTotals DEF IInv, RemoveItem
  <2>3. CASE ResetPacker
    BY <2>3, MaxHeightAssumption, NewShelfSound, NewShelfTotals DEF IInv, ResetPacker, Reset
  <2>4. CASE UNCHANGED sp
    BY <2>4 DEF IInv
  <2> QED
    BY <2>1, <2>2, <2>3, <2>4 DEF Next
<1> QED
  BY <1>1, <1>2, PTL DEF Spec

(* Every field keeps its Go type, and the bin its height.                  *)
THEOREM TypeCorrect == Spec => []TypeOK
<1>1. IInv => TypeOK
  BY DEF IInv, Sound, TypeOK
<1> QED
  BY <1>1, Inductive, PTL

(* Insert, Remove with its renumbering, and Reset keep the index of item   *)
(* locations in step with the shelves.                                     *)
THEOREM LocationsStayConsistent == Spec => []LocationsConsistent
<1>1. IInv => LocationsConsistent
  BY DEF IInv, Sound, LocationsConsistent
<1> QED
  BY <1>1, Inductive, PTL

(* No shelf outgrows the bin's width, no set of shelves its height.        *)
THEOREM NeverOvercommits == Spec => []NoOvercommit
<1>1. IInv => NoOvercommit
  BY DEF IInv, Sound, NoOvercommit
<1> QED
  BY <1>1, Inductive, PTL

(* IsEmpty is true exactly when the packer holds no item.                  *)
THEOREM EmptyIsEmpty == Spec => []EmptyMeansNoItem
<1>1. IInv => EmptyMeansNoItem
  <2> SUFFICES ASSUME IInv PROVE EmptyMeansNoItem
    OBVIOUS
  <2> USE DEF IInv, Sound
  <2>1. Len(sp.shelves) \in Nat /\ DOMAIN sp.shelves = 1..Len(sp.shelves)
    BY DEF IsPacker
  <2>2. ASSUME Len(sp.shelves) = 0 PROVE DOMAIN sp.itemLocation = {}
    BY <2>1, <2>2 DEF LocationsAgree
  <2>3. ASSUME Len(sp.shelves) # 0 PROVE DOMAIN sp.itemLocation # {}
    <3>1. 1 \in DOMAIN sp.shelves
      BY <2>1, <2>3
    <3> QED
      BY <3>1 DEF NoEmptyShelf, LocationsAgree
  <2> QED
    BY <2>2, <2>3 DEF EmptyMeansNoItem, IsEmpty
<1> QED
  BY <1>1, Inductive, PTL

(* UsedWidth and UsedHeight, kept by += and -= through every insertion,    *)
(* removal and renumbering, are the sums of the widths and heights.        *)
THEOREM TotalsStayExact == Spec => []AccountingExact
<1>1. IInv => AccountingExact
  BY DEF IInv, AccountingExact
<1> QED
  BY <1>1, Inductive, PTL

(* Whichever way the quotients of MaxInsertableItems come out, as many     *)
(* insertions as it promises succeed, and CanFit agrees with it.           *)
THEOREM PromisesStaySafe == Spec => []PromisesAreSafe
<1>1. IInv => PromisesAreSafe
  <2> SUFFICES ASSUME IInv, NEW w \in Widths, NEW h \in Heights,
                      NEW n \in MaxInsertableItems(sp, {sp}, w, h)
               PROVE  Takes(sp, w, h, n) /\ (n > 0 => CanFit(sp, {sp}, w, h) = {TRUE})
    BY DEF PromisesAreSafe
  <2>1. Sound(sp) /\ TotalsExact(sp) /\ w \in Int /\ h \in Int
    BY SizesAssumption DEF IInv
  <2>2. n \in Int /\ n <= ExactRoom(sp, w, h)
    BY <2>1, AnswerIsRoom
  <2>3. Takes(sp, w, h, n)
    BY <2>1, <2>2, RoomIsTaken
  <2>4. ASSUME n > 0 PROVE CanFit(sp, {sp}, w, h) = {TRUE}
    <3>1. InsertSucceeds(sp, w, h)
      BY <2>1, <2>2, <2>4, InsertableNat
    <3>2. ValidSize(sp, w, h)
      BY <3>1 DEF InsertSucceeds
    <3>3. \A fit \in CanFit(sp, {sp}, w, h) : fit = TRUE
      BY <2>1, <3>1, CanFitIsExact
    <3>4. Views({sp}) # {}
      BY <3>2 DEF MaxInsertableItems
    <3> QED
      BY <3>3, <3>4, CanFitAnswers
  <2> QED
    BY <2>3, <2>4
<1> QED
  BY <1>1, Inductive, PTL

(* What is promised can still be inserted after any removal.               *)
THEOREM RemovalsKeepPromises == Spec => []RemovalKeepsPromises
<1>1. IInv => RemovalKeepsPromises
  <2> SUFFICES ASSUME IInv, NEW w \in Widths, NEW h \in Heights,
                      NEW n \in MaxInsertableItems(sp, {sp}, w, h),
                      NEW id \in DOMAIN sp.itemLocation
               PROVE  Takes(Remove(sp, id), w, h, n)
    BY DEF RemovalKeepsPromises
  <2> DEFINE q == Remove(sp, id)
  <2>1. Sound(sp) /\ TotalsExact(sp) /\ w \in Int /\ h \in Int
    BY SizesAssumption DEF IInv
  <2>2. n \in Int /\ n <= ExactRoom(sp, w, h)
    BY <2>1, AnswerIsRoom
  <2>3. Sound(q) /\ TotalsExact(q)
    BY <2>1, RemoveSound, RemoveTotals
  <2>4. ExactRoom(sp, w, h) <= ExactRoom(q, w, h)
    BY <2>1, RemoveMakesRoom
  <2> HIDE DEF q
  <2>5. n <= ExactRoom(q, w, h)
    BY <2>1, <2>2, <2>3, <2>4, InsertableNat
  <2>6. Takes(q, w, h, n)
    BY <2>1, <2>2, <2>3, <2>5, RoomIsTaken
  <2> QED
    BY <2>6 DEF q
<1> QED
  BY <1>1, Inductive, PTL

-----------------------------------------------------------------------------
(* The packer implements the ledger: for the holder of an ID, inserting    *)
(* and removing other items, and renumbering the shelves, is invisible.    *)
THEOREM Refinement == Spec => ImplementsLedger
<1> DEFINE Sizes == [width : 1..FullWidth, height : 1..MaxHeight]
<1>1. Init => Ledger!Init
  BY DEF Init, NewShelf, ItemsOf, EmptyMap, Ledger!Init
<1>2. IInv /\ [Next]_sp => [Ledger!Next]_Ledger!vars
  <2> SUFFICES ASSUME IInv, [Next]_sp
               PROVE  [Ledger!Next]_Ledger!vars
    OBVIOUS
  <2> USE DEF Ledger!vars
  <2>1. Sound(sp) /\ sp.maxHeight = MaxHeight
    BY DEF IInv
  <2>2. ASSUME NEW w \in Widths, NEW h \in Heights, InsertItem(w, h)
        PROVE  [Ledger!Next]_Ledger!vars
    <3> DEFINE item == [width |-> w, height |-> h]
    <3>1. w \in Int /\ h \in Int /\ sp' = Insert(sp, w, h)
      BY <2>2, SizesAssumption DEF InsertItem
    <3>2. /\ ~ValidSize(sp, w, h) => sp' = sp
          /\ ValidSize(sp, w, h) => sp'.nextItemID = sp.nextItemID + 1
          /\ InsertSucceeds(sp, w, h) =>
               ItemsOf(sp') = Bind(ItemsOf(sp), sp.nextItemID, item)
          /\ ~InsertSucceeds(sp, w, h) => ItemsOf(sp') = ItemsOf(sp)
      BY <2>1, <3>1, InsertItems
    <3>3. CASE ~ValidSize(sp, w, h)
      BY <3>2, <3>3 DEF ItemsOf
    <3>4. CASE InsertSucceeds(sp, w, h)
      <4>1. item \in Sizes
        BY <2>1, <3>1, <3>4, FullWidthAssumption, MaxHeightAssumption
        DEF InsertSucceeds, ValidSize
      <4>2. Ledger!Accept(item)
        BY <3>2, <3>4 DEF Ledger!Accept, Bind, InsertSucceeds
      <4> QED
        BY <4>1, <4>2 DEF Ledger!Next
    <3>5. CASE ValidSize(sp, w, h) /\ ~InsertSucceeds(sp, w, h)
      BY <3>2, <3>5 DEF Ledger!Next, Ledger!Refuse
    <3> QED
      BY <3>3, <3>4, <3>5
  <2>3. ASSUME NEW id \in 0..MaxItemID, RemoveItem(id)
        PROVE  [Ledger!Next]_Ledger!vars
    <3>1. CASE id \in DOMAIN sp.itemLocation
      <4>1. /\ sp'.nextItemID = sp.nextItemID
            /\ ItemsOf(sp') = Unbind(ItemsOf(sp), id)
        BY <2>1, <2>3, <3>1, RemoveItems DEF RemoveItem
      <4>2. DOMAIN ItemsOf(sp) = DOMAIN sp.itemLocation
        BY DEF ItemsOf
      <4>3. Ledger!Discard(id)
        BY <3>1, <4>1, <4>2 DEF Ledger!Discard, Unbind, Restrict
      <4> QED
        BY <3>1, <4>2, <4>3 DEF Ledger!Next
    <3>2. CASE id \notin DOMAIN sp.itemLocation
      BY <2>3, <3>2 DEF RemoveItem, Remove, RemoveSucceeds
    <3> QED
      BY <3>1, <3>2
  <2>4. CASE ResetPacker
    BY <2>4 DEF ResetPacker, Reset, NewShelf, ItemsOf, EmptyMap, Ledger!Next, Ledger!Clear
  <2>5. CASE UNCHANGED sp
    BY <2>5
  <2> QED
    BY <2>2, <2>3, <2>4, <2>5 DEF Next
<1> QED
  BY <1>1, <1>2, Inductive, PTL DEF Spec, ImplementsLedger, Ledger!Spec
=============================================================================
