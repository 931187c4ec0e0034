---------------------------- MODULE Shelf_proofs ----------------------------
(***************************************************************************)
(* Every operation of shelf.go keeps a sound packer sound.  The lemmas are *)
(* about arbitrary packers, so the modules built on Shelf cite them too.   *)
(***************************************************************************)
EXTENDS Shelf, SumTheorems, SequenceTheorems, WellFoundedInduction, TLAPS

(* An empty packer is sound: what NewShelf and Reset return.               *)
LEMMA NewShelfSound ==
  ASSUME NEW n \in Nat
  PROVE  Sound(NewShelf(n)) /\ NewShelf(n).maxHeight = n
BY DEF Sound, NewShelf, IsPacker, MapTo, LocationsAgree, NoEmptyShelf, WithinBounds,
       EmptyMap, Range

(* A non-empty set of naturals has a least element, and Min names it.      *)
LEMMA MinOfNaturals ==
  ASSUME NEW S \in SUBSET Nat, S # {}
  PROVE  Min(S) \in S /\ \A j \in S : Min(S) <= j
<1>1. \E i \in S : \A j \in S : ~ (<<j, i>> \in OpToRel(<, Nat))
  BY NatLessThanWellFounded, WFMin, Zenon
<1>2. PICK i \in S : \A j \in S : ~ (<<j, i>> \in OpToRel(<, Nat))
  BY <1>1
<1>3. \A j \in S : <<j, i>> \in OpToRel(<, Nat) <=> j < i
  BY DEF OpToRel
<1>4. \A j \in S : ~ (j < i)
  BY <1>2, <1>3, Zenon
<1>5. \A j \in S : i <= j
  BY <1>4
<1> QED
  BY <1>5 DEF Min

(* The shelf that first fit picks exists, and the item fits on it.         *)
LEMMA FirstFitIsCandidate ==
  ASSUME NEW p, IsPacker(p), NEW w, NEW h, Candidates(p, w, h) # {}
  PROVE  /\ FirstFit(p, w, h) \in DOMAIN p.shelves
         /\ FitsOn(p.shelves[FirstFit(p, w, h)], w, h)
<1>1. Candidates(p, w, h) \in SUBSET Nat
  BY DEF Candidates, IsPacker
<1>2. FirstFit(p, w, h) \in Candidates(p, w, h)
  BY <1>1, MinOfNaturals DEF FirstFit
<1> QED
  BY <1>2 DEF Candidates

(* A function on 1..n is a sequence over its range.                        *)
LEMMA SeqOverRange ==
  ASSUME NEW n \in Nat, NEW f, f \in [1..n -> Range(f)]
  PROVE  f \in Seq(Range(f)) /\ Len(f) = n
OBVIOUS

(* Putting an item on a shelf it fits on keeps the packer sound.           *)
LEMMA PutOnShelfSound ==
  ASSUME NEW p, Sound(p), NEW w \in Int, NEW h \in Int, ValidSize(p, w, h),
         NEW i \in DOMAIN p.shelves, FitsOn(p.shelves[i], w, h)
  PROVE  Sound(PutOnShelf(p, i, w, h))
<1> DEFINE q  == PutOnShelf(p, i, w, h)
           id == p.nextItemID
<1>1. /\ IsPacker(p) /\ LocationsAgree(p) /\ NoEmptyShelf(p) /\ WithinBounds(p)
      /\ id \in Nat \ {0}
      /\ i \in Nat \ {0}
  BY DEF Sound, IsPacker
<1>2. /\ q.maxHeight = p.maxHeight
      /\ q.usedHeight = p.usedHeight
      /\ q.nextItemID = id + 1
      /\ DOMAIN q.shelves = DOMAIN p.shelves
      /\ \A j \in DOMAIN p.shelves : j # i => q.shelves[j] = p.shelves[j]
      /\ q.shelves[i].height = p.shelves[i].height
      /\ q.shelves[i].usedWidth = p.shelves[i].usedWidth + w
      /\ q.shelves[i].items = Bind(p.shelves[i].items, id, [width |-> w, height |-> h])
      /\ q.itemLocation = Bind(p.itemLocation, id, i)
  BY <1>1 DEF PutOnShelf, IsPacker
<1>3. \A j \in DOMAIN p.shelves : id \notin DOMAIN p.shelves[j].items
  BY <1>1 DEF LocationsAgree, IsPacker
<1> HIDE DEF q
<1>4. IsPacker(q)
  <2>1. q \in [maxHeight : Nat, shelves : Seq(Range(q.shelves)), usedHeight : Int,
               nextItemID : Nat \ {0}, itemLocation : MapTo(q.itemLocation, Nat \ {0})]
    <3>1. /\ q.maxHeight \in Nat /\ q.usedHeight \in Int /\ q.nextItemID \in Nat \ {0}
          /\ q.itemLocation \in MapTo(q.itemLocation, Nat \ {0})
      BY <1>1, <1>2 DEF IsPacker, MapTo, Bind
    <3>2. Len(p.shelves) \in Nat /\ DOMAIN p.shelves = 1..Len(p.shelves)
      BY <1>1 DEF IsPacker
    <3>3. q.shelves \in [1..Len(p.shelves) -> Range(q.shelves)]
      BY <3>2 DEF q, PutOnShelf, Range
    <3>4. q.shelves \in Seq(Range(q.shelves))
      BY <3>2, <3>3, SeqOverRange
    <3> QED
      BY <3>1, <3>4 DEF q, PutOnShelf
  <2>2. \A j \in DOMAIN q.shelves : IsShelf(q.shelves[j])
    BY <1>1, <1>2 DEF q, PutOnShelf, IsPacker, IsShelf, MapTo, Item, Bind
  <2>3. DOMAIN q.itemLocation \subseteq Nat
    BY <1>1, <1>2 DEF IsPacker, Bind
  <2> QED
    BY <2>1, <2>2, <2>3 DEF IsPacker
<1>5. LocationsAgree(q)
  <2>1. ASSUME NEW k \in DOMAIN q.itemLocation
        PROVE  /\ q.itemLocation[k] \in DOMAIN q.shelves
               /\ k \in DOMAIN q.shelves[q.itemLocation[k]].items
               /\ k < q.nextItemID
    <3>1. CASE k = id
      BY <1>1, <1>2, <3>1 DEF Bind
    <3>2. CASE k # id
      BY <1>1, <1>2, <2>1, <3>2 DEF LocationsAgree, IsPacker, Bind
    <3> QED
      BY <3>1, <3>2
  <2>2. ASSUME NEW j \in DOMAIN q.shelves, NEW k \in DOMAIN q.shelves[j].items
        PROVE  k \in DOMAIN q.itemLocation /\ q.itemLocation[k] = j
    <3>1. CASE k = id
      BY <1>2, <1>3, <2>2, <3>1 DEF Bind
    <3>2. CASE k # id
      BY <1>1, <1>2, <2>2, <3>2 DEF LocationsAgree, Bind
    <3> QED
      BY <3>1, <3>2
  <2> QED
    BY <2>1, <2>2 DEF LocationsAgree
<1>6. NoEmptyShelf(q)
  BY <1>1, <1>2 DEF NoEmptyShelf, Bind
<1>7. WithinBounds(q)
  <2>1. q.usedHeight <= q.maxHeight
    BY <1>1, <1>2 DEF WithinBounds
  <2>2. /\ q.shelves[i].usedWidth <= FullWidth
        /\ 0 < q.shelves[i].height
    BY <1>1, <1>2 DEF WithinBounds, FitsOn
  <2>3. ASSUME NEW k \in DOMAIN q.shelves[i].items
        PROVE  /\ q.shelves[i].items[k].height <= q.shelves[i].height
               /\ ValidSize(q, q.shelves[i].items[k].width, q.shelves[i].items[k].height)
    <3>1. CASE k = id
      BY <1>1, <1>2, <3>1 DEF Bind, FitsOn, ValidSize
    <3>2. CASE k # id
      BY ZenonT(60), <1>1, <1>2, <2>3, <3>2 DEF WithinBounds, Bind, ValidSize
    <3> QED
      BY <3>1, <3>2
  <2>4. ASSUME NEW j \in DOMAIN q.shelves, j # i
        PROVE  /\ q.shelves[j].usedWidth <= FullWidth
               /\ 0 < q.shelves[j].height
               /\ \A k \in DOMAIN q.shelves[j].items :
                    /\ q.shelves[j].items[k].height <= q.shelves[j].height
                    /\ ValidSize(q, q.shelves[j].items[k].width, q.shelves[j].items[k].height)
    BY <1>1, <1>2, <2>4 DEF WithinBounds, ValidSize
  <2> QED
    BY <1>2, <2>1, <2>2, <2>3, <2>4 DEF WithinBounds
<1> QED
  BY <1>4, <1>5, <1>6, <1>7 DEF Sound, q

(* Opening a shelf that the remaining height allows keeps it sound.        *)
LEMMA OpenShelfSound ==
  ASSUME NEW p, Sound(p), NEW w \in Int, NEW h \in Int, ValidSize(p, w, h),
         h <= p.maxHeight - p.usedHeight
  PROVE  Sound(OpenShelf(p, w, h))
<1> DEFINE q   == OpenShelf(p, w, h)
           id  == p.nextItemID
           n   == Len(p.shelves)
           new == [height |-> h, usedWidth |-> w,
                   items |-> Bind(EmptyMap, id, [width |-> w, height |-> h])]
<1>1. /\ IsPacker(p) /\ LocationsAgree(p) /\ NoEmptyShelf(p) /\ WithinBounds(p)
      /\ id \in Nat \ {0} /\ n \in Nat /\ DOMAIN p.shelves = 1..n
      /\ p.usedHeight \in Int /\ p.maxHeight \in Nat
  BY DEF Sound, IsPacker
<1>2. /\ q.maxHeight = p.maxHeight
      /\ q.usedHeight = p.usedHeight + h
      /\ q.nextItemID = id + 1
      /\ q.shelves = Append(p.shelves, new)
      /\ q.itemLocation = Bind(p.itemLocation, id, n + 1)
  BY DEF OpenShelf
<1>3. /\ DOMAIN q.shelves = 1..(n + 1)
      /\ \A j \in 1..n : q.shelves[j] = p.shelves[j]
      /\ q.shelves[n + 1] = new
  <2> p.shelves \in Seq(Range(p.shelves))
    BY <1>1 DEF IsPacker
  <2> QED
    BY <1>2
<1>4. DOMAIN new.items = {id} /\ new.items[id] = [width |-> w, height |-> h]
  BY DEF Bind, EmptyMap
<1> HIDE DEF q, new, n
<1>5. IsPacker(q)
  <2>1. /\ q.maxHeight \in Nat /\ q.usedHeight \in Int /\ q.nextItemID \in Nat \ {0}
        /\ q.itemLocation \in MapTo(q.itemLocation, Nat \ {0})
        /\ DOMAIN q.itemLocation \subseteq Nat
    BY SMTT(30), <1>1, <1>2 DEF IsPacker, MapTo, Bind
  <2>2. q.shelves \in [1..(n + 1) -> Range(q.shelves)]
    <3> DEFINE S == Range(p.shelves) \cup {new}
    <3>1. p.shelves \in Seq(S)
      BY <1>1 DEF IsPacker
    <3>2. new \in S
      OBVIOUS
    <3> HIDE DEF S
    <3>3. q.shelves \in Seq(S)
      <4>1. Append(p.shelves, new) \in Seq(S)
        BY <3>1, <3>2
      <4> QED
        BY <1>2, <4>1
    <3>4. q.shelves = [j \in 1..(n + 1) |-> q.shelves[j]]
      BY <1>3, <3>3, LenProperties
    <3> QED
      BY <1>3, <3>4 DEF Range
  <2>3. q.shelves \in Seq(Range(q.shelves))
    BY <1>1, <2>2, SeqOverRange
  <2>4. IsShelf(new)
    BY <1>1, <1>4 DEF new, IsShelf, MapTo, Item, Bind, EmptyMap
  <2>5. ASSUME NEW j \in DOMAIN q.shelves
        PROVE  IsShelf(q.shelves[j])
    <3>1. j = n + 1 \/ j \in 1..n
      BY <1>1, <1>3
    <3> QED
      BY <1>1, <1>3, <2>4, <3>1 DEF IsPacker
  <2> QED
    BY <2>1, <2>3, <2>5 DEF IsPacker, q, OpenShelf
<1>6. LocationsAgree(q)
  <2>1. ASSUME NEW k \in DOMAIN q.itemLocation
        PROVE  /\ q.itemLocation[k] \in DOMAIN q.shelves
               /\ k \in DOMAIN q.shelves[q.itemLocation[k]].items
               /\ k < q.nextItemID
    <3>1. CASE k = id
      BY <1>1, <1>2, <1>3, <1>4, <3>1 DEF Bind
    <3>2. CASE k # id
      BY <1>1, <1>2, <1>3, <2>1, <3>2 DEF LocationsAgree, IsPacker, Bind
    <3> QED
      BY <3>1, <3>2
  <2>2. ASSUME NEW j \in DOMAIN q.shelves, NEW k \in DOMAIN q.shelves[j].items
        PROVE  k \in DOMAIN q.itemLocation /\ q.itemLocation[k] = j
    <3>1. CASE j = n + 1
      BY <1>2, <1>3, <1>4, <2>2, <3>1 DEF Bind
    <3>2. CASE j # n + 1
      <4>1. j \in 1..n
        BY <1>1, <1>3, <3>2
      <4>2. k \in DOMAIN p.itemLocation /\ p.itemLocation[k] = j
        BY <1>1, <1>3, <2>2, <4>1 DEF LocationsAgree
      <4>3. k # id
        BY <1>1, <4>2 DEF LocationsAgree, IsPacker
      <4> QED
        BY <1>2, <4>2, <4>3 DEF Bind
    <3> QED
      BY <3>1, <3>2
  <2> QED
    BY <2>1, <2>2 DEF LocationsAgree
<1>7. NoEmptyShelf(q)
  <2>1. ASSUME NEW j \in DOMAIN q.shelves
        PROVE  DOMAIN q.shelves[j].items # {}
    <3>1. j = n + 1 \/ j \in 1..n
      BY <1>1, <1>3
    <3> QED
      BY <1>1, <1>3, <1>4, <3>1 DEF NoEmptyShelf
  <2> QED
    BY <2>1 DEF NoEmptyShelf
<1>8. WithinBounds(q)
  <2>1. q.usedHeight <= q.maxHeight
    BY <1>1, <1>2
  <2>2. ASSUME NEW j \in DOMAIN q.shelves
        PROVE  /\ q.shelves[j].usedWidth <= FullWidth
               /\ 0 < q.shelves[j].height
               /\ \A k \in DOMAIN q.shelves[j].items :
                    /\ q.shelves[j].items[k].height <= q.shelves[j].height
                    /\ ValidSize(q, q.shelves[j].items[k].width, q.shelves[j].items[k].height)
    <3>1. CASE j = n + 1
      BY SMTT(30), <1>2, <1>3, <1>4, <3>1 DEF ValidSize, new
    <3>2. CASE j # n + 1
      <4>1. j \in 1..n
        BY <1>1, <1>3, <3>2
      <4> QED
        BY <1>1, <1>2, <1>3, <4>1 DEF WithinBounds, ValidSize
    <3> QED
      BY <3>1, <3>2
  <2> QED
    BY <2>1, <2>2 DEF WithinBounds
<1> QED
  BY <1>5, <1>6, <1>7, <1>8 DEF Sound, q

(* Insert keeps a sound packer sound, whether it succeeds or not.          *)
LEMMA InsertSound ==
  ASSUME NEW p, Sound(p), NEW w \in Int, NEW h \in Int
  PROVE  Sound(Insert(p, w, h)) /\ Insert(p, w, h).maxHeight = p.maxHeight
<1>1. CASE ~ValidSize(p, w, h)
  BY <1>1 DEF Insert
<1>2. CASE ValidSize(p, w, h) /\ Candidates(p, w, h) # {}
  <2>1. Insert(p, w, h) = PutOnShelf(p, FirstFit(p, w, h), w, h)
    BY <1>2 DEF Insert
  <2>2. /\ FirstFit(p, w, h) \in DOMAIN p.shelves
        /\ FitsOn(p.shelves[FirstFit(p, w, h)], w, h)
    BY <1>2, FirstFitIsCandidate DEF Sound
  <2> QED
    BY <1>2, <2>1, <2>2, PutOnShelfSound DEF PutOnShelf
<1>3. CASE ValidSize(p, w, h) /\ Candidates(p, w, h) = {} /\ h <= p.maxHeight - p.usedHeight
  <2>1. Insert(p, w, h) = OpenShelf(p, w, h)
    BY <1>3 DEF Insert, Sound, IsPacker
  <2> QED
    BY <1>3, <2>1, OpenShelfSound DEF OpenShelf
<1>4. CASE ValidSize(p, w, h) /\ Candidates(p, w, h) = {} /\ ~(h <= p.maxHeight - p.usedHeight)
  <2> DEFINE q == [p EXCEPT !.nextItemID = p.nextItemID + 1]
  <2>1. Insert(p, w, h) = q
    BY <1>4 DEF Insert, Sound, IsPacker
  <2>2. /\ q.maxHeight = p.maxHeight /\ q.usedHeight = p.usedHeight
        /\ q.shelves = p.shelves /\ q.itemLocation = p.itemLocation
        /\ q.nextItemID = p.nextItemID + 1
        /\ p.nextItemID \in Nat
    BY DEF Sound, IsPacker
  <2>3. IsPacker(q)
    BY <2>2 DEF Sound, IsPacker
  <2> HIDE DEF q
  <2>4. LocationsAgree(q)
    BY <2>2 DEF Sound, IsPacker, LocationsAgree
  <2>5. NoEmptyShelf(q) /\ WithinBounds(q)
    BY <2>2 DEF Sound, NoEmptyShelf, WithinBounds, ValidSize
  <2> QED
    BY <2>1, <2>2, <2>3, <2>4, <2>5 DEF Sound
<1> QED
  BY <1>1, <1>2, <1>3, <1>4

(* A record with the fields of a shelf is one.                             *)
LEMMA ShelfFields ==
  ASSUME NEW h \in Int, NEW w \in Int, NEW m, m \in MapTo(m, Item), DOMAIN m \subseteq Nat
  PROVE  IsShelf([height |-> h, usedWidth |-> w, items |-> m])
BY DEF IsShelf

(* Taking an item off its shelf keeps everything but, perhaps, the rule    *)
(* that no shelf is empty, and that only for the shelf it was on.          *)
LEMMA TakeOffShelfSound ==
  ASSUME NEW p, Sound(p), NEW id \in DOMAIN p.itemLocation
  PROVE  LET i == p.itemLocation[id]
             q == TakeOffShelf(p, i, id)
         IN  /\ IsPacker(q) /\ LocationsAgree(q) /\ WithinBounds(q)
             /\ i \in DOMAIN q.shelves /\ q.maxHeight = p.maxHeight
             /\ \A j \in DOMAIN q.shelves : j # i => DOMAIN q.shelves[j].items # {}
<1> DEFINE i == p.itemLocation[id]
           q == TakeOffShelf(p, i, id)
           n == Len(p.shelves)
<1>1. /\ IsPacker(p) /\ LocationsAgree(p) /\ NoEmptyShelf(p) /\ WithinBounds(p)
      /\ n \in Nat /\ DOMAIN p.shelves = 1..n
      /\ i \in 1..n /\ id \in DOMAIN p.shelves[i].items
  BY DEF Sound, IsPacker, LocationsAgree
<1>2. /\ q.maxHeight = p.maxHeight
      /\ q.usedHeight = p.usedHeight
      /\ q.nextItemID = p.nextItemID
      /\ DOMAIN q.shelves = 1..n
      /\ \A j \in 1..n : j # i => q.shelves[j] = p.shelves[j]
      /\ q.shelves[i].height = p.shelves[i].height
      /\ q.shelves[i].usedWidth = p.shelves[i].usedWidth - p.shelves[i].items[id].width
      /\ q.shelves[i].items = Unbind(p.shelves[i].items, id)
      /\ q.itemLocation = Unbind(p.itemLocation, id)
  BY <1>1 DEF TakeOffShelf
<1> HIDE DEF q, n
<1>3. IsPacker(q)
  <2>1. /\ q.maxHeight \in Nat /\ q.usedHeight \in Int /\ q.nextItemID \in Nat \ {0}
        /\ q.itemLocation \in MapTo(q.itemLocation, Nat \ {0})
        /\ DOMAIN q.itemLocation \subseteq Nat
    BY SMTT(30), <1>1, <1>2 DEF IsPacker, MapTo, Unbind, Restrict
  <2>2. q.shelves \in [1..n -> Range(q.shelves)]
    BY <1>1 DEF q, TakeOffShelf, Range
  <2>3. q.shelves \in Seq(Range(q.shelves))
    BY <1>1, <2>2, SeqOverRange
  <2>4. IsShelf(q.shelves[i])
    <3>1. IsShelf(p.shelves[i])
      BY <1>1 DEF IsPacker
    <3>2. p.shelves[i].items[id].width \in Int
      BY <1>1, <3>1 DEF IsShelf, MapTo, Item
    <3>3. Unbind(p.shelves[i].items, id) \in MapTo(Unbind(p.shelves[i].items, id), Item)
      BY <3>1 DEF IsShelf, MapTo, Unbind, Restrict
    <3>4. DOMAIN Unbind(p.shelves[i].items, id) \subseteq Nat
      BY <3>1 DEF IsShelf, Unbind, Restrict
    <3>5. q.shelves[i] = [height    |-> p.shelves[i].height,
                          usedWidth |-> p.shelves[i].usedWidth - p.shelves[i].items[id].width,
                          items     |-> Unbind(p.shelves[i].items, id)]
      BY <1>1 DEF q, TakeOffShelf
    <3>6. /\ p.shelves[i].height \in Int
          /\ p.shelves[i].usedWidth - p.shelves[i].items[id].width \in Int
      BY <3>1, <3>2 DEF IsShelf
    <3> QED
      BY <3>3, <3>4, <3>5, <3>6, ShelfFields
  <2>5. \A j \in DOMAIN q.shelves : IsShelf(q.shelves[j])
    BY <1>1, <1>2, <2>4 DEF IsPacker
  <2> QED
    BY <2>1, <2>3, <2>5 DEF IsPacker, q, TakeOffShelf
<1>4. LocationsAgree(q)
  <2>1. ASSUME NEW k \in DOMAIN q.itemLocation
        PROVE  /\ q.itemLocation[k] \in DOMAIN q.shelves
               /\ k \in DOMAIN q.shelves[q.itemLocation[k]].items
               /\ k < q.nextItemID
    <3>1. k \in DOMAIN p.itemLocation /\ k # id /\ q.itemLocation[k] = p.itemLocation[k]
      BY <1>2 DEF Unbind, Restrict
    <3>2. /\ p.itemLocation[k] \in 1..n
          /\ k \in DOMAIN p.shelves[p.itemLocation[k]].items
          /\ k < p.nextItemID
      BY <1>1, <3>1 DEF LocationsAgree
    <3>3. CASE p.itemLocation[k] = i
      <4>1. k \in DOMAIN q.shelves[i].items
        BY <1>2, <3>1, <3>2, <3>3 DEF Unbind, Restrict
      <4> QED
        BY <1>1, <1>2, <3>1, <3>2, <3>3, <4>1
    <3>4. CASE p.itemLocation[k] # i
      BY <1>2, <3>1, <3>2, <3>4
    <3> QED
      BY <3>3, <3>4
  <2>2. ASSUME NEW j \in DOMAIN q.shelves, NEW k \in DOMAIN q.shelves[j].items
        PROVE  k \in DOMAIN q.itemLocation /\ q.itemLocation[k] = j
    <3>1. k \in DOMAIN p.shelves[j].items /\ (j = i => k # id)
      BY <1>2, <2>2 DEF Unbind, Restrict
    <3>2. k \in DOMAIN p.itemLocation /\ p.itemLocation[k] = j
      BY <1>1, <1>2, <3>1 DEF LocationsAgree
    <3> QED
      BY <1>2, <3>1, <3>2 DEF Unbind, Restrict
  <2> QED
    BY <2>1, <2>2 DEF LocationsAgree
<1>5. WithinBounds(q)
  <2>1. q.usedHeight <= q.maxHeight
    BY <1>1, <1>2 DEF WithinBounds
  <2>2. /\ q.shelves[i].usedWidth <= FullWidth
        /\ 0 < q.shelves[i].height
    <3>1. /\ 0 < p.shelves[i].items[id].width
          /\ p.shelves[i].usedWidth <= FullWidth
          /\ 0 < p.shelves[i].height
      BY <1>1 DEF WithinBounds, ValidSize
    <3>2. p.shelves[i].items[id].width \in Int /\ p.shelves[i].usedWidth \in Int
      BY <1>1 DEF IsPacker, IsShelf, MapTo, Item
    <3> QED
      BY SMTT(30), <1>2, <3>1, <3>2, FullWidthAssumption
  <2>3. \A k \in DOMAIN q.shelves[i].items :
          /\ q.shelves[i].items[k].height <= q.shelves[i].height
          /\ ValidSize(q, q.shelves[i].items[k].width, q.shelves[i].items[k].height)
    BY ZenonT(60), <1>1, <1>2 DEF WithinBounds, ValidSize, Unbind, Restrict
  <2>4. ASSUME NEW j \in DOMAIN q.shelves, j # i
        PROVE  /\ q.shelves[j].usedWidth <= FullWidth
               /\ 0 < q.shelves[j].height
               /\ \A k \in DOMAIN q.shelves[j].items :
                    /\ q.shelves[j].items[k].height <= q.shelves[j].height
                    /\ ValidSize(q, q.shelves[j].items[k].width, q.shelves[j].items[k].height)
    BY <1>1, <1>2, <2>4 DEF WithinBounds, ValidSize
  <2> QED
    BY <2>1, <2>2, <2>3, <2>4 DEF WithinBounds
<1>6. \A j \in DOMAIN q.shelves : j # i => DOMAIN q.shelves[j].items # {}
  BY <1>1, <1>2 DEF NoEmptyShelf
<1> QED
  BY <1>1, <1>2, <1>3, <1>4, <1>5, <1>6 DEF q

(* Dropping the one empty shelf, and renumbering the ones behind it, makes *)
(* the packer sound again.                                                 *)
LEMMA CollapseSound ==
  ASSUME NEW p, IsPacker(p), LocationsAgree(p), WithinBounds(p),
         NEW i \in DOMAIN p.shelves, DOMAIN p.shelves[i].items = {},
         \A j \in DOMAIN p.shelves : j # i => DOMAIN p.shelves[j].items # {}
  PROVE  Sound(Collapse(p, i))
<1> DEFINE q      == Collapse(p, i)
           n      == Len(p.shelves)
           old(j) == IF j < i THEN j ELSE j + 1
<1>1. /\ n \in Nat /\ DOMAIN p.shelves = 1..n /\ i \in 1..n
      /\ n - 1 \in Nat
  BY DEF IsPacker
<1>2. /\ q.maxHeight = p.maxHeight
      /\ q.usedHeight = p.usedHeight - p.shelves[i].height
      /\ q.nextItemID = p.nextItemID
      /\ DOMAIN q.shelves = 1..(n - 1)
      /\ \A j \in 1..(n - 1) : q.shelves[j] = p.shelves[old(j)]
      /\ DOMAIN q.itemLocation = DOMAIN p.itemLocation
      /\ \A k \in DOMAIN p.itemLocation :
           q.itemLocation[k] = IF p.itemLocation[k] > i THEN p.itemLocation[k] - 1
                                                        ELSE p.itemLocation[k]
  BY DEF Collapse
<1>3. \A j \in 1..(n - 1) : old(j) \in 1..n /\ old(j) # i
  BY <1>1
<1>4. \A k \in DOMAIN p.itemLocation :
        /\ p.itemLocation[k] \in 1..n /\ p.itemLocation[k] # i
        /\ k \in DOMAIN p.shelves[p.itemLocation[k]].items
        /\ k < p.nextItemID
  BY <1>1 DEF LocationsAgree
<1> HIDE DEF q, n
<1>5. IsPacker(q)
  <2>1. /\ q.maxHeight \in Nat /\ q.usedHeight \in Int /\ q.nextItemID \in Nat \ {0}
        /\ DOMAIN q.itemLocation \subseteq Nat
    BY <1>1, <1>2 DEF IsPacker, IsShelf
  <2>2. q.itemLocation \in MapTo(q.itemLocation, Nat \ {0})
    BY <1>1, <1>2, <1>4 DEF MapTo, q, Collapse
  <2>3. q.shelves \in [1..(n - 1) -> Range(q.shelves)]
    BY <1>1 DEF q, n, Collapse, Range
  <2>4. q.shelves \in Seq(Range(q.shelves))
    BY <1>1, <2>3, SeqOverRange
  <2>5. \A j \in DOMAIN q.shelves : IsShelf(q.shelves[j])
    BY <1>1, <1>2, <1>3 DEF IsPacker
  <2> QED
    BY <2>1, <2>2, <2>4, <2>5 DEF IsPacker, q, Collapse
<1>6. LocationsAgree(q)
  <2>1. ASSUME NEW k \in DOMAIN q.itemLocation
        PROVE  /\ q.itemLocation[k] \in DOMAIN q.shelves
               /\ old(q.itemLocation[k]) = p.itemLocation[k]
    BY <1>1, <1>2, <1>4
  <2>2. ASSUME NEW j \in DOMAIN q.shelves, NEW k \in DOMAIN q.shelves[j].items
        PROVE  k \in DOMAIN q.itemLocation /\ q.itemLocation[k] = j
    <3>1. j \in 1..(n - 1)
      BY <1>2
    <3>2. old(j) \in DOMAIN p.shelves /\ k \in DOMAIN p.shelves[old(j)].items
      BY <1>1, <1>2, <1>3, <2>2, <3>1
    <3> HIDE DEF old
    <3>3. k \in DOMAIN p.itemLocation /\ p.itemLocation[k] = old(j)
      BY <3>2 DEF LocationsAgree
    <3>4. CASE j < i
      BY <1>1, <1>2, <3>1, <3>3, <3>4 DEF old
    <3>5. CASE ~(j < i)
      <4>1. p.itemLocation[k] = j + 1 /\ j + 1 > i
        BY <1>1, <3>1, <3>3, <3>5 DEF old
      <4>2. q.itemLocation[k] = p.itemLocation[k] - 1
        BY <1>2, <3>3, <4>1
      <4> QED
        BY <1>2, <3>1, <3>3, <4>1, <4>2
    <3> QED
      BY <3>4, <3>5
  <2>3. \A k \in DOMAIN q.itemLocation :
          k \in DOMAIN q.shelves[q.itemLocation[k]].items /\ k < q.nextItemID
    BY <1>2, <1>4, <2>1
  <2> QED
    BY <2>1, <2>2, <2>3 DEF LocationsAgree
<1> HIDE DEF old
<1>7. NoEmptyShelf(q)
  BY <1>1, <1>2, <1>3 DEF NoEmptyShelf
<1>8. WithinBounds(q)
  <2>1. q.usedHeight <= q.maxHeight
    BY <1>1, <1>2 DEF WithinBounds, IsPacker, IsShelf
  <2>2. ASSUME NEW j \in DOMAIN q.shelves
        PROVE  /\ q.shelves[j].usedWidth <= FullWidth
               /\ 0 < q.shelves[j].height
               /\ \A k \in DOMAIN q.shelves[j].items :
                    /\ q.shelves[j].items[k].height <= q.shelves[j].height
                    /\ ValidSize(q, q.shelves[j].items[k].width, q.shelves[j].items[k].height)
    <3>1. old(j) \in DOMAIN p.shelves /\ q.shelves[j] = p.shelves[old(j)]
      BY <1>1, <1>2, <1>3
    <3> QED
      BY <1>2, <3>1 DEF WithinBounds, ValidSize
  <2> QED
    BY <2>1, <2>2 DEF WithinBounds
<1> QED
  BY <1>5, <1>6, <1>7, <1>8 DEF Sound, q

(* Remove keeps a sound packer sound, whether it succeeds or not.          *)
LEMMA RemoveSound ==
  ASSUME NEW p, Sound(p), NEW id
  PROVE  Sound(Remove(p, id)) /\ Remove(p, id).maxHeight = p.maxHeight
<1>1. CASE ~RemoveSucceeds(p, id)
  BY <1>1 DEF Remove
<1>2. CASE RemoveSucceeds(p, id)
  <2> DEFINE i     == p.itemLocation[id]
             taken == TakeOffShelf(p, i, id)
  <2>1. /\ IsPacker(taken) /\ LocationsAgree(taken) /\ WithinBounds(taken)
        /\ i \in DOMAIN taken.shelves /\ taken.maxHeight = p.maxHeight
        /\ \A j \in DOMAIN taken.shelves : j # i => DOMAIN taken.shelves[j].items # {}
    BY <1>2, TakeOffShelfSound DEF RemoveSucceeds
  <2>2. Remove(p, id) = IF DOMAIN taken.shelves[i].items = {} THEN Collapse(taken, i) ELSE taken
    BY <1>2 DEF Remove
  <2> HIDE DEF taken
  <2>3. CASE DOMAIN taken.shelves[i].items = {}
    <3>1. Sound(Collapse(taken, i))
      BY <2>1, <2>3, CollapseSound
    <3>2. Collapse(taken, i).maxHeight = taken.maxHeight
      BY DEF Collapse
    <3> QED
      BY <2>1, <2>2, <2>3, <3>1, <3>2
  <2>4. CASE DOMAIN taken.shelves[i].items # {}
    BY <2>1, <2>2, <2>4 DEF Sound, NoEmptyShelf
  <2> QED
    BY <2>3, <2>4
<1> QED
  BY <1>1, <1>2

-----------------------------------------------------------------------------
(* What the operations do to the items a client sees.                      *)

(* How ItemsOf changes when one location is added.                         *)
LEMMA ItemsOfBind ==
  ASSUME NEW p, NEW q, NEW id, NEW item,
         DOMAIN q.itemLocation = DOMAIN p.itemLocation \cup {id},
         \A k \in DOMAIN q.itemLocation :
           q.shelves[q.itemLocation[k]].items[k] = IF k = id THEN item ELSE ItemsOf(p)[k]
  PROVE  ItemsOf(q) = Bind(ItemsOf(p), id, item)
<1> DEFINE old == ItemsOf(p)
<1>1. DOMAIN old = DOMAIN p.itemLocation
  BY DEF ItemsOf
<1> HIDE DEF old
<1>2. ItemsOf(q) = [k \in DOMAIN q.itemLocation |-> IF k = id THEN item ELSE old[k]]
  BY DEF ItemsOf, old
<1>3. Bind(old, id, item) =
        [k \in DOMAIN p.itemLocation \cup {id} |-> IF k = id THEN item ELSE old[k]]
  BY <1>1 DEF Bind
<1> QED
  BY <1>2, <1>3 DEF old

(* A successful insertion adds its item under the next ID; one that fails  *)
(* for lack of room spends the ID; a refused size changes nothing.         *)
LEMMA InsertItems ==
  ASSUME NEW p, Sound(p), NEW w \in Int, NEW h \in Int
  PROVE  LET q == Insert(p, w, h)
         IN  /\ ~ValidSize(p, w, h) => q = p
             /\ ValidSize(p, w, h) => q.nextItemID = p.nextItemID + 1
             /\ InsertSucceeds(p, w, h) =>
                  ItemsOf(q) = Bind(ItemsOf(p), p.nextItemID, [width |-> w, height |-> h])
             /\ ~InsertSucceeds(p, w, h) => ItemsOf(q) = ItemsOf(p)
<1> DEFINE q    == Insert(p, w, h)
           id   == p.nextItemID
           item == [width |-> w, height |-> h]
<1>1. /\ IsPacker(p) /\ LocationsAgree(p)
      /\ Len(p.shelves) \in Nat /\ DOMAIN p.shelves = 1..Len(p.shelves)
      /\ p.shelves \in Seq(Range(p.shelves))
      /\ p.maxHeight \in Nat /\ p.usedHeight \in Int
      /\ id \in Nat /\ id \notin DOMAIN p.itemLocation
  BY DEF Sound, IsPacker, LocationsAgree
<1>2. CASE ~ValidSize(p, w, h)
  BY <1>2 DEF Insert, InsertSucceeds
<1>3. CASE ValidSize(p, w, h) /\ Candidates(p, w, h) # {}
  <2> DEFINE i == FirstFit(p, w, h)
  <2>1. q = PutOnShelf(p, i, w, h)
    BY <1>3 DEF Insert
  <2>2. i \in DOMAIN p.shelves
    BY <1>1, <1>3, FirstFitIsCandidate
  <2> HIDE DEF i, q
  <2>3. /\ q.nextItemID = id + 1
        /\ q.itemLocation = Bind(p.itemLocation, id, i)
        /\ q.shelves[i].items = Bind(p.shelves[i].items, id, item)
        /\ \A j \in DOMAIN p.shelves : j # i => q.shelves[j] = p.shelves[j]
    BY <2>1, <2>2 DEF PutOnShelf
  <2>4. ASSUME NEW k \in DOMAIN q.itemLocation
        PROVE  q.shelves[q.itemLocation[k]].items[k] = IF k = id THEN item ELSE ItemsOf(p)[k]
    <3>1. CASE k = id
      BY <2>3, <3>1 DEF Bind
    <3>2. CASE k # id
      <4>1. k \in DOMAIN p.itemLocation /\ q.itemLocation[k] = p.itemLocation[k]
        BY <2>3, <3>2 DEF Bind
      <4>2. /\ p.itemLocation[k] \in DOMAIN p.shelves
            /\ k \in DOMAIN p.shelves[p.itemLocation[k]].items
        BY <1>1, <4>1 DEF LocationsAgree
      <4>3. CASE p.itemLocation[k] = i
        BY <2>3, <3>2, <4>1, <4>2, <4>3 DEF Bind, ItemsOf
      <4>4. CASE p.itemLocation[k] # i
        BY <2>3, <3>2, <4>1, <4>2, <4>4 DEF ItemsOf
      <4> QED
        BY <4>3, <4>4
    <3> QED
      BY <3>1, <3>2
  <2>5. ItemsOf(q) = Bind(ItemsOf(p), id, item)
    <3>1. DOMAIN q.itemLocation = DOMAIN p.itemLocation \cup {id}
      BY <2>3 DEF Bind
    <3> QED
      BY <2>4, <3>1, ItemsOfBind
  <2> QED
    BY <1>3, <2>3, <2>5 DEF InsertSucceeds, q
<1>4. CASE ValidSize(p, w, h) /\ Candidates(p, w, h) = {} /\ h <= p.maxHeight - p.usedHeight
  <2> DEFINE n   == Len(p.shelves)
             new == [height |-> h, usedWidth |-> w, items |-> Bind(EmptyMap, id, item)]
  <2>1. q = OpenShelf(p, w, h)
    BY <1>1, <1>4 DEF Insert
  <2> HIDE DEF q
  <2>2. /\ q.nextItemID = id + 1
        /\ q.itemLocation = Bind(p.itemLocation, id, n + 1)
        /\ q.shelves = Append(p.shelves, new)
    BY <2>1 DEF OpenShelf
  <2>3. new.items[id] = item
    BY DEF Bind, EmptyMap
  <2> HIDE DEF new
  <2>4. /\ \A j \in 1..n : q.shelves[j] = p.shelves[j]
        /\ q.shelves[n + 1] = new
    BY <1>1, <2>2
  <2>5. ASSUME NEW k \in DOMAIN q.itemLocation
        PROVE  q.shelves[q.itemLocation[k]].items[k] = IF k = id THEN item ELSE ItemsOf(p)[k]
    <3>1. CASE k = id
      BY <2>2, <2>3, <2>4, <3>1 DEF Bind
    <3>2. CASE k # id
      <4>1. k \in DOMAIN p.itemLocation /\ q.itemLocation[k] = p.itemLocation[k]
        BY <2>2, <3>2 DEF Bind
      <4>2. p.itemLocation[k] \in 1..n
        BY <1>1, <4>1 DEF LocationsAgree
      <4> QED
        BY <2>4, <3>2, <4>1, <4>2 DEF ItemsOf
    <3> QED
      BY <3>1, <3>2
  <2>6. ItemsOf(q) = Bind(ItemsOf(p), id, item)
    <3>1. DOMAIN q.itemLocation = DOMAIN p.itemLocation \cup {id}
      BY <2>2 DEF Bind
    <3> QED
      BY <2>5, <3>1, ItemsOfBind
  <2> QED
    BY <1>4, <2>2, <2>6 DEF InsertSucceeds, q
<1>5. CASE ValidSize(p, w, h) /\ Candidates(p, w, h) = {} /\ ~(h <= p.maxHeight - p.usedHeight)
  <2>1. q = [p EXCEPT !.nextItemID = id + 1]
    BY <1>1, <1>5 DEF Insert
  <2>2. q.nextItemID = id + 1 /\ ItemsOf(q) = ItemsOf(p)
    BY <1>1, <2>1 DEF IsPacker, ItemsOf
  <2> QED
    BY <1>5, <2>2 DEF InsertSucceeds
<1> QED
  BY <1>2, <1>3, <1>4, <1>5

(* A removal takes away its item and no other, although it may renumber    *)
(* the shelves.                                                            *)
LEMMA RemoveItems ==
  ASSUME NEW p, Sound(p), NEW id \in DOMAIN p.itemLocation
  PROVE  /\ RemoveSucceeds(p, id)
         /\ Remove(p, id).nextItemID = p.nextItemID
         /\ ItemsOf(Remove(p, id)) = Unbind(ItemsOf(p), id)
<1> DEFINE i == p.itemLocation[id]
           t == TakeOffShelf(p, i, id)
           n == Len(p.shelves)
<1>1. /\ IsPacker(p) /\ LocationsAgree(p)
      /\ n \in Nat /\ DOMAIN p.shelves = 1..n
      /\ i \in 1..n /\ id \in DOMAIN p.shelves[i].items
      /\ \A k \in DOMAIN p.itemLocation :
           p.itemLocation[k] \in 1..n /\ k \in DOMAIN p.shelves[p.itemLocation[k]].items
  BY DEF Sound, IsPacker, LocationsAgree
<1>2. RemoveSucceeds(p, id)
  BY <1>1 DEF RemoveSucceeds
<1>3. /\ t.nextItemID = p.nextItemID
      /\ DOMAIN t.itemLocation = DOMAIN p.itemLocation \ {id}
      /\ \A k \in DOMAIN t.itemLocation : t.itemLocation[k] = p.itemLocation[k]
      /\ DOMAIN t.shelves = 1..n /\ Len(t.shelves) = n
      /\ \A j \in 1..n : j # i => t.shelves[j] = p.shelves[j]
      /\ t.shelves[i].items = Unbind(p.shelves[i].items, id)
  BY SMTT(30), <1>1 DEF TakeOffShelf, Unbind, Restrict
<1> HIDE DEF t, n
<1>4. \A k \in DOMAIN t.itemLocation :
        t.shelves[t.itemLocation[k]].items[k] = p.shelves[p.itemLocation[k]].items[k]
  <2> TAKE k \in DOMAIN t.itemLocation
  <2>1. CASE p.itemLocation[k] = i
    BY <1>1, <1>3, <2>1 DEF Unbind, Restrict
  <2>2. CASE p.itemLocation[k] # i
    BY <1>1, <1>3, <2>2
  <2> QED
    BY <2>1, <2>2
<1>5. ItemsOf(t) = Unbind(ItemsOf(p), id)
  BY <1>3, <1>4 DEF ItemsOf, Unbind, Restrict
<1>6. CASE DOMAIN t.shelves[i].items = {}
  <2> DEFINE q == Collapse(t, i)
  <2>1. Remove(p, id) = q
    BY <1>2, <1>6 DEF Remove, t
  <2>2. /\ q.nextItemID = t.nextItemID
        /\ DOMAIN q.itemLocation = DOMAIN t.itemLocation
        /\ \A k \in DOMAIN t.itemLocation :
             q.itemLocation[k] = IF t.itemLocation[k] > i THEN t.itemLocation[k] - 1
                                                          ELSE t.itemLocation[k]
        /\ \A j \in 1..(n - 1) : q.shelves[j] = t.shelves[IF j < i THEN j ELSE j + 1]
    BY <1>3 DEF Collapse
  <2> HIDE DEF q
  <2>3. ASSUME NEW k \in DOMAIN t.itemLocation
        PROVE  q.shelves[q.itemLocation[k]] = t.shelves[t.itemLocation[k]]
    <3>1. t.itemLocation[k] \in 1..n /\ k \in DOMAIN t.shelves[t.itemLocation[k]].items
      <4>1. k \in DOMAIN p.itemLocation /\ k # id /\ t.itemLocation[k] = p.itemLocation[k]
        BY <1>3
      <4>2. CASE p.itemLocation[k] = i
        BY <1>1, <1>3, <4>1, <4>2 DEF Unbind, Restrict
      <4>3. CASE p.itemLocation[k] # i
        BY <1>1, <1>3, <4>1, <4>3
      <4> QED
        BY <4>2, <4>3
    <3>2. t.itemLocation[k] # i
      BY <1>6, <3>1
    <3> QED
      BY <1>1, <2>2, <3>1, <3>2
  <2>4. ItemsOf(q) = ItemsOf(t)
    BY <2>2, <2>3 DEF ItemsOf
  <2> QED
    BY <1>2, <1>3, <1>5, <2>1, <2>2, <2>4
<1>7. CASE DOMAIN t.shelves[i].items # {}
  <2>1. Remove(p, id) = t
    BY <1>2, <1>7 DEF Remove, t
  <2> QED
    BY <1>2, <1>3, <1>5, <2>1
<1> QED
  BY <1>6, <1>7

-----------------------------------------------------------------------------
(* The totals the packer keeps, and the room it promises from them.        *)

(* The heights of the shelves, and the widths of the items on a shelf.     *)
ShelfHeights(p) == [i \in DOMAIN p.shelves |-> p.shelves[i].height]

ItemWidths(m) == [id \in DOMAIN m |-> m[id].width]

(* TotalsExact in these names.                                             *)
LEMMA TotalsAre ==
  ASSUME NEW p
  PROVE  TotalsExact(p) <=>
           /\ p.usedHeight = SumFunctionOnSet(ShelfHeights(p), DOMAIN p.shelves)
           /\ \A i \in DOMAIN p.shelves :
                p.shelves[i].usedWidth =
                  SumFunctionOnSet(ItemWidths(p.shelves[i].items), DOMAIN p.shelves[i].items)
<1>1. DOMAIN ShelfHeights(p) = DOMAIN p.shelves
  BY DEF ShelfHeights
<1>2. \A m : DOMAIN ItemWidths(m) = DOMAIN m
  BY DEF ItemWidths
<1>3. SumFunction(ShelfHeights(p)) = SumFunctionOnSet(ShelfHeights(p), DOMAIN p.shelves)
  BY <1>1 DEF SumFunction
<1>4. \A m : SumFunction(ItemWidths(m)) = SumFunctionOnSet(ItemWidths(m), DOMAIN m)
  BY <1>2 DEF SumFunction
<1>5. TotalsExact(p) <=>
           /\ p.usedHeight = SumFunction(ShelfHeights(p))
           /\ \A i \in DOMAIN p.shelves :
                p.shelves[i].usedWidth = SumFunction(ItemWidths(p.shelves[i].items))
  BY DEF TotalsExact, ShelfHeights, ItemWidths
<1> QED
  BY <1>3, <1>4, <1>5

(* A packer has finitely many shelves and items.                           *)
LEMMA PackerFinite ==
  ASSUME NEW p, IsPacker(p), LocationsAgree(p)
  PROVE  /\ IsFiniteSet(DOMAIN p.shelves) /\ IsFiniteSet(DOMAIN p.itemLocation)
         /\ \A i \in DOMAIN p.shelves : IsFiniteSet(DOMAIN p.shelves[i].items)
<1>1. DOMAIN p.shelves = 1..Len(p.shelves) /\ Len(p.shelves) \in Nat
  BY DEF IsPacker
<1>2. p.nextItemID \in Nat
  BY DEF IsPacker
<1>3. DOMAIN p.itemLocation \subseteq 0..p.nextItemID
  BY <1>2 DEF IsPacker, LocationsAgree
<1>4. \A i \in DOMAIN p.shelves : DOMAIN p.shelves[i].items \subseteq DOMAIN p.itemLocation
  BY DEF LocationsAgree
<1>5. IsFiniteSet(1..Len(p.shelves)) /\ IsFiniteSet(0..p.nextItemID)
  <2>1. \A a, b \in Int : IsFiniteSet(a..b)
    BY FS_Interval
  <2>2. 0 \in Int /\ 1 \in Int /\ Len(p.shelves) \in Int /\ p.nextItemID \in Int
    BY <1>1, <1>2
  <2> QED
    BY <2>1, <2>2, Zenon
<1>6. IsFiniteSet(DOMAIN p.itemLocation)
  BY <1>3, <1>5, FS_Subset
<1> QED
  BY <1>1, <1>4, <1>5, <1>6, FS_Subset

(* An item put on a shelf adds its width.                                  *)
LEMMA WidthOfBind ==
  ASSUME NEW m, IsFiniteSet(DOMAIN m), m \in MapTo(m, Item), NEW k, k \notin DOMAIN m,
         NEW v \in Item
  PROVE  SumFunctionOnSet(ItemWidths(Bind(m, k, v)), DOMAIN Bind(m, k, v)) =
           SumFunctionOnSet(ItemWidths(m), DOMAIN m) + v.width
<1> DEFINE b == Bind(m, k, v)
           f == ItemWidths(b)
<1>1. /\ DOMAIN b = DOMAIN m \cup {k} /\ f[k] = v.width /\ v.width \in Int
      /\ \A x \in DOMAIN m : f[x] = ItemWidths(m)[x] /\ f[x] \in Int
  BY DEF Bind, ItemWidths, MapTo, Item
<1> HIDE DEF f, b
<1>2. SumFunctionOnSet(f, DOMAIN m \cup {k}) = SumFunctionOnSet(f, DOMAIN m) + f[k]
  BY <1>1, SumAdd
<1>3. SumFunctionOnSet(f, DOMAIN m) = SumFunctionOnSet(ItemWidths(m), DOMAIN m)
  BY <1>1, SumEqual
<1> QED
  BY <1>1, <1>2, <1>3 DEF f, b

(* An item taken off takes its width away.                                 *)
LEMMA WidthOfUnbind ==
  ASSUME NEW m, IsFiniteSet(DOMAIN m), m \in MapTo(m, Item), NEW k \in DOMAIN m
  PROVE  SumFunctionOnSet(ItemWidths(Unbind(m, k)), DOMAIN Unbind(m, k)) =
           SumFunctionOnSet(ItemWidths(m), DOMAIN m) - m[k].width
<1> DEFINE u == Unbind(m, k)
           f == ItemWidths(m)
           g == ItemWidths(u)
<1>1. /\ DOMAIN u = DOMAIN m \ {k} /\ f[k] = m[k].width
      /\ \A x \in DOMAIN m : f[x] \in Int
      /\ \A x \in DOMAIN u : g[x] = f[x]
  BY DEF Unbind, Restrict, ItemWidths, MapTo, Item
<1>2. IsFiniteSet(DOMAIN u)
  BY <1>1, FS_Subset
<1> HIDE DEF f, g, u
<1>3. SumFunctionOnSet(f, DOMAIN m) = f[k] + SumFunctionOnSet(f, DOMAIN m \ {k})
  BY <1>1, SumRemove
<1>4. SumFunctionOnSet(g, DOMAIN u) = SumFunctionOnSet(f, DOMAIN u)
  BY <1>1, <1>2, SumEqual
<1>5. SumFunctionOnSet(f, DOMAIN u) \in Int /\ f[k] \in Int
  BY <1>1, <1>2, SumType
<1> DEFINE a == SumFunctionOnSet(f, DOMAIN u)
<1>6. /\ SumFunctionOnSet(f, DOMAIN m) = f[k] + a /\ a \in Int
      /\ SumFunctionOnSet(g, DOMAIN u) = a
  BY <1>1, <1>3, <1>4, <1>5
<1> HIDE DEF a
<1>7. (f[k] + a) - f[k] = a
  BY <1>5, <1>6
<1> QED
  BY <1>1, <1>6, <1>7 DEF f, g, u

(* When place i of n is closed up, as Collapse does, the sum loses what    *)
(* was there.                                                              *)
LEMMA SumClosedUp ==
  ASSUME NEW n \in Nat, NEW i \in 1..n, NEW f, \A j \in 1..n : f[j] \in Int,
         NEW g, \A j \in 1..(n - 1) : g[j] = f[IF j < i THEN j ELSE j + 1]
  PROVE  SumFunctionOnSet(g, 1..(n - 1)) = SumFunctionOnSet(f, 1..n) - f[i]
<1> DEFINE S   == 1..n
           N   == 1..(n - 1)
           R   == S \ {i}
           old == [j \in N |-> IF j < i THEN j ELSE j + 1]
<1>1. IsFiniteSet(S) /\ IsFiniteSet(N) /\ IsFiniteSet(R)
  <2>1. n - 1 \in Int /\ n \in Int /\ 1 \in Int
    OBVIOUS
  <2>2. IsFiniteSet(S) /\ IsFiniteSet(N)
    BY <2>1, FS_Interval, Zenon
  <2> HIDE DEF S
  <2> QED
    BY <2>2, FS_Subset
<1>2. \A j \in N : old[j] \in R /\ g[j] = f[old[j]]
  OBVIOUS
<1>3. \A j, k \in N : old[j] = old[k] => j = k
  OBVIOUS
<1>4. ASSUME NEW z \in R
      PROVE  \E j \in N : old[j] = z
  <2>1. CASE z < i
    <3>1. z \in N /\ old[z] = z
      BY <2>1
    <3> QED
      BY <3>1
  <2>2. CASE z > i
    <3>1. z - 1 \in N /\ old[z - 1] = z
      BY <2>2
    <3> QED
      BY <3>1
  <2> QED
    BY <2>1, <2>2
<1>5. i \in S /\ (\A j \in S : f[j] \in Int) /\ \A z \in R : f[z] \in Int
  OBVIOUS
<1>6. \A z \in R : f[z] \in Int /\ \E j \in N : old[j] = z
  BY <1>4, <1>5
<1>7. SumFunctionOnSet(f, S) = f[i] + SumFunctionOnSet(f, S \ {i})
  <2> DEFINE y == i
  <2>1. IsFiniteSet(S) /\ y \in S /\ \A j \in S : f[j] \in Int
    BY <1>1, <1>5
  <2> HIDE DEF S, y
  <2>2. SumFunctionOnSet(f, S) = f[y] + SumFunctionOnSet(f, S \ {y})
    BY <2>1, SumRemove
  <2> QED
    BY <2>2 DEF y
<1> HIDE DEF old, N, R, S
<1>8. SumFunctionOnSet(g, N) = SumFunctionOnSet(f, R)
  BY ONLY <1>1, <1>2, <1>3, <1>6, SumMoved
<1>9. SumFunctionOnSet(f, R) \in Int /\ f[i] \in Int
  BY <1>1, <1>5, SumType
<1> QED
  BY <1>7, <1>8, <1>9 DEF S, N, R

(* Insert keeps the totals.                                                *)
LEMMA InsertTotals ==
  ASSUME NEW p, Sound(p), TotalsExact(p), NEW w \in Int, NEW h \in Int
  PROVE  TotalsExact(Insert(p, w, h))
<1> DEFINE id   == p.nextItemID
           item == [width |-> w, height |-> h]
           n    == Len(p.shelves)
           q    == Insert(p, w, h)
<1>1. /\ IsPacker(p) /\ LocationsAgree(p)
      /\ n \in Nat /\ DOMAIN p.shelves = 1..n /\ p.shelves \in Seq(Range(p.shelves))
      /\ p.usedHeight \in Int /\ p.maxHeight \in Nat
      /\ \A j \in 1..n : p.shelves[j].height \in Int
      /\ \A j \in 1..n : p.shelves[j].items \in MapTo(p.shelves[j].items, Item)
  BY DEF Sound, IsPacker, IsShelf
<1>2. \A j \in DOMAIN p.shelves : id \notin DOMAIN p.shelves[j].items
  BY <1>1 DEF LocationsAgree, IsPacker
<1>3. /\ IsFiniteSet(1..n)
      /\ \A j \in 1..n : IsFiniteSet(DOMAIN p.shelves[j].items)
  BY <1>1, PackerFinite
<1>4. item \in Item /\ item.width = w
  BY DEF Item
<1>5. CASE ~ValidSize(p, w, h)
  BY <1>5 DEF Insert
<1>6. CASE ValidSize(p, w, h) /\ Candidates(p, w, h) # {}
  <2> DEFINE i == FirstFit(p, w, h)
  <2>1. q = PutOnShelf(p, i, w, h) /\ i \in 1..n
    BY <1>1, <1>6, FirstFitIsCandidate DEF Insert
  <2> HIDE DEF i, q
  <2>2. /\ q.usedHeight = p.usedHeight
        /\ DOMAIN q.shelves = 1..n
        /\ \A j \in 1..n : j # i => q.shelves[j] = p.shelves[j]
        /\ q.shelves[i].height = p.shelves[i].height
        /\ q.shelves[i].usedWidth = p.shelves[i].usedWidth + w
        /\ q.shelves[i].items = Bind(p.shelves[i].items, id, item)
    BY <1>1, <2>1 DEF PutOnShelf
  <2>3. \A j \in 1..n : ShelfHeights(q)[j] = ShelfHeights(p)[j]
    BY <1>1, <2>2 DEF ShelfHeights
  <2>4. SumFunctionOnSet(ShelfHeights(q), 1..n) = SumFunctionOnSet(ShelfHeights(p), 1..n)
    BY <1>3, <2>3, SumEqual
  <2> HIDE DEF item
  <2>5. SumFunctionOnSet(ItemWidths(q.shelves[i].items), DOMAIN q.shelves[i].items) =
          SumFunctionOnSet(ItemWidths(p.shelves[i].items), DOMAIN p.shelves[i].items) + w
    BY <1>1, <1>2, <1>3, <1>4, <2>1, <2>2, WidthOfBind
  <2> QED
    BY <1>1, <2>1, <2>2, <2>4, <2>5, TotalsAre DEF q
<1>7. CASE ValidSize(p, w, h) /\ Candidates(p, w, h) = {} /\ h <= p.maxHeight - p.usedHeight
  <2> DEFINE new == [height |-> h, usedWidth |-> w, items |-> Bind(EmptyMap, id, item)]
  <2>1. q = OpenShelf(p, w, h)
    BY <1>1, <1>7 DEF Insert
  <2> HIDE DEF q
  <2>2. q.usedHeight = p.usedHeight + h /\ q.shelves = Append(p.shelves, new)
    BY <2>1 DEF OpenShelf
  <2>3. /\ new.height = h /\ new.usedWidth = w
        /\ DOMAIN new.items = {id} /\ new.items[id] = item
    BY DEF Bind, EmptyMap
  <2> HIDE DEF new
  <2>4. /\ DOMAIN q.shelves = 1..(n + 1) /\ q.shelves[n + 1] = new
        /\ \A j \in 1..n : q.shelves[j] = p.shelves[j]
    BY <1>1, <2>2
  <2> DEFINE f == ShelfHeights(q)
  <2>5. /\ f[n + 1] = h /\ \A j \in 1..n : f[j] = ShelfHeights(p)[j] /\ f[j] \in Int
    BY SMTT(30), <1>1, <2>3, <2>4 DEF ShelfHeights
  <2>6. 1..(n + 1) = (1..n) \cup {n + 1} /\ n + 1 \notin 1..n
    BY <1>1
  <2> HIDE DEF f
  <2>7. SumFunctionOnSet(f, 1..(n + 1)) = SumFunctionOnSet(ShelfHeights(p), 1..n) + h
    <3>1. SumFunctionOnSet(f, (1..n) \cup {n + 1}) = SumFunctionOnSet(f, 1..n) + f[n + 1]
      <4> DEFINE S == 1..n
                 y == n + 1
      <4>1. IsFiniteSet(S) /\ y \notin S /\ f[y] \in Int /\ \A x \in S : f[x] \in Int
        BY <1>3, <2>5, <2>6
      <4> HIDE DEF S, y
      <4>2. SumFunctionOnSet(f, S \cup {y}) = SumFunctionOnSet(f, S) + f[y]
        BY <4>1, SumAdd
      <4> QED
        BY <4>2 DEF S, y
    <3>2. SumFunctionOnSet(f, 1..n) = SumFunctionOnSet(ShelfHeights(p), 1..n)
      BY <1>3, <2>5, SumEqual
    <3> QED
      BY <2>5, <2>6, <3>1, <3>2
  <2>8. SumFunctionOnSet(ItemWidths(new.items), DOMAIN new.items) = w
    <3> DEFINE g == ItemWidths(new.items)
    <3>1. g[id] = w
      BY <1>4, <2>3 DEF ItemWidths
    <3> HIDE DEF g
    <3>2. SumFunctionOnSet(g, {} \cup {id}) = SumFunctionOnSet(g, {}) + g[id]
      BY <3>1, FS_EmptySet, SumAdd
    <3>3. {} \cup {id} = {id} /\ SumFunctionOnSet(g, {}) = 0
      BY SumEmpty
    <3> QED
      BY <2>3, <3>1, <3>2, <3>3 DEF g
  <2>9. \A j \in 1..(n + 1) :
          q.shelves[j].usedWidth =
            SumFunctionOnSet(ItemWidths(q.shelves[j].items), DOMAIN q.shelves[j].items)
    <3> TAKE j \in 1..(n + 1)
    <3>1. CASE j = n + 1
      BY <2>3, <2>4, <2>8, <3>1
    <3>2. CASE j \in 1..n
      BY <1>1, <2>4, <3>2, TotalsAre
    <3> QED
      BY <2>6, <3>1, <3>2
  <2> QED
    BY <1>1, <2>2, <2>4, <2>7, <2>9, TotalsAre DEF q, f
<1>8. CASE ValidSize(p, w, h) /\ Candidates(p, w, h) = {} /\ ~(h <= p.maxHeight - p.usedHeight)
  <2>1. q.usedHeight = p.usedHeight /\ q.shelves = p.shelves
    BY <1>1, <1>8 DEF Insert, IsPacker
  <2> QED
    BY <2>1 DEF TotalsExact
<1> QED
  BY <1>5, <1>6, <1>7, <1>8

(* Remove keeps the totals, the height of a dropped shelf included.        *)
LEMMA RemoveTotals ==
  ASSUME NEW p, Sound(p), TotalsExact(p), NEW id
  PROVE  TotalsExact(Remove(p, id))
<1> SUFFICES ASSUME RemoveSucceeds(p, id)
             PROVE  TotalsExact(Remove(p, id))
  BY DEF Remove
<1> DEFINE i == p.itemLocation[id]
           t == TakeOffShelf(p, i, id)
           n == Len(p.shelves)
<1>1. /\ IsPacker(p) /\ LocationsAgree(p)
      /\ n \in Nat /\ DOMAIN p.shelves = 1..n
      /\ i \in 1..n /\ id \in DOMAIN p.shelves[i].items
      /\ p.usedHeight \in Int
      /\ \A j \in 1..n : p.shelves[j].height \in Int /\ p.shelves[j].usedWidth \in Int
      /\ \A j \in 1..n : p.shelves[j].items \in MapTo(p.shelves[j].items, Item)
  <2>1. IsPacker(p) /\ LocationsAgree(p)
    BY DEF Sound
  <2>2. /\ n \in Nat /\ DOMAIN p.shelves = 1..n /\ p.usedHeight \in Int
        /\ \A j \in 1..n : IsShelf(p.shelves[j])
    BY <2>1 DEF IsPacker
  <2>3. i \in 1..n /\ id \in DOMAIN p.shelves[i].items
    BY <2>1, <2>2 DEF LocationsAgree, RemoveSucceeds
  <2> QED
    BY <2>1, <2>2, <2>3 DEF IsShelf
<1>2. /\ IsFiniteSet(1..n)
      /\ \A j \in 1..n : IsFiniteSet(DOMAIN p.shelves[j].items)
  BY <1>1, PackerFinite
<1>3. /\ t.usedHeight = p.usedHeight
      /\ DOMAIN t.shelves = 1..n
      /\ \A j \in 1..n : j # i => t.shelves[j] = p.shelves[j]
      /\ t.shelves[i].height = p.shelves[i].height
      /\ t.shelves[i].usedWidth = p.shelves[i].usedWidth - p.shelves[i].items[id].width
      /\ t.shelves[i].items = Unbind(p.shelves[i].items, id)
  BY <1>1 DEF TakeOffShelf
<1>4. Len(t.shelves) = n
  <2>1. t.shelves \in [1..n -> Range(t.shelves)]
    BY <1>1 DEF TakeOffShelf, Range
  <2> QED
    BY <1>1, <2>1, SeqOverRange
<1> HIDE DEF t, n
<1>5. \A j \in 1..n : ShelfHeights(t)[j] = ShelfHeights(p)[j] /\ ShelfHeights(t)[j] \in Int
  BY <1>1, <1>3 DEF ShelfHeights
<1>6. t.usedHeight = SumFunctionOnSet(ShelfHeights(t), 1..n)
  BY <1>1, <1>2, <1>3, <1>5, SumEqual, TotalsAre
<1>7. \A j \in 1..n :
        t.shelves[j].usedWidth =
          SumFunctionOnSet(ItemWidths(t.shelves[j].items), DOMAIN t.shelves[j].items)
  <2>1. SumFunctionOnSet(ItemWidths(t.shelves[i].items), DOMAIN t.shelves[i].items) =
          SumFunctionOnSet(ItemWidths(p.shelves[i].items), DOMAIN p.shelves[i].items)
            - p.shelves[i].items[id].width
    BY <1>1, <1>2, <1>3, WidthOfUnbind
  <2> QED
    BY <1>1, <1>3, <2>1, TotalsAre
<1>8. CASE DOMAIN t.shelves[i].items # {}
  <2>1. Remove(p, id) = t
    BY <1>8 DEF Remove, t
  <2> QED
    BY <1>3, <1>6, <1>7, <2>1, TotalsAre
<1>9. CASE DOMAIN t.shelves[i].items = {}
  <2> DEFINE q      == Collapse(t, i)
             old(j) == IF j < i THEN j ELSE j + 1
             f      == ShelfHeights(t)
             g      == ShelfHeights(q)
  <2>1. Remove(p, id) = q
    BY <1>9 DEF Remove, t
  <2>2. /\ q.usedHeight = t.usedHeight - t.shelves[i].height
        /\ DOMAIN q.shelves = 1..(n - 1)
        /\ \A j \in 1..(n - 1) : q.shelves[j] = t.shelves[old(j)]
    BY <1>4 DEF Collapse
  <2> HIDE DEF q
  <2>3. \A j \in 1..(n - 1) : old(j) \in 1..n
    BY <1>1
  <2>4. /\ \A j \in 1..(n - 1) : g[j] = f[old(j)]
        /\ \A z \in 1..n : f[z] \in Int
        /\ f[i] = t.shelves[i].height
    <3> HIDE DEF old
    <3> QED
      BY <1>1, <1>3, <1>5, <2>2, <2>3 DEF ShelfHeights
  <2> HIDE DEF f, g
  <2>5. SumFunctionOnSet(g, 1..(n - 1)) = SumFunctionOnSet(f, 1..n) - f[i]
    <3> HIDE DEF i
    <3> QED
      BY <1>1, <2>4, SumClosedUp
  <2>6. q.usedHeight = SumFunctionOnSet(g, 1..(n - 1))
    BY <1>6, <2>2, <2>4, <2>5 DEF f
  <2>7. \A j \in 1..(n - 1) :
          q.shelves[j].usedWidth =
            SumFunctionOnSet(ItemWidths(q.shelves[j].items), DOMAIN q.shelves[j].items)
    <3> HIDE DEF old
    <3> QED
      BY <1>7, <2>2, <2>3
  <2> QED
    BY <2>1, <2>2, <2>6, <2>7, TotalsAre DEF g
<1> QED
  BY <1>8, <1>9

(* An empty packer has empty totals.                                       *)
LEMMA NewShelfTotals ==
  ASSUME NEW n
  PROVE  TotalsExact(NewShelf(n))
<1>1. /\ NewShelf(n).usedHeight = 0 /\ DOMAIN NewShelf(n).shelves = {}
  BY DEF NewShelf
<1> QED
  BY <1>1, SumEmpty, TotalsAre

-----------------------------------------------------------------------------
(* The items of a size each shelf still takes.                             *)
FreeSlots(p, w, h) ==
  [i \in DOMAIN p.shelves |->
     IF h <= p.shelves[i].height THEN (FullWidth - p.shelves[i].usedWidth) \div w ELSE 0]

(* What MaxInsertableItems stands for: the items of a size that exact      *)
(* quotients find room for.                                                *)
ExactRoom(p, w, h) ==
  IF ~ValidSize(p, w, h) THEN 0
  ELSE SumFunction(FreeSlots(p, w, h))
         + ((p.maxHeight - SumFunction(ShelfHeights(p))) \div h) * (FullWidth \div w)

(* The same with the sum of the heights replaced by the total.             *)
LEMMA InsertableIs ==
  ASSUME NEW p, TotalsExact(p), NEW w, NEW h, ValidSize(p, w, h)
  PROVE  ExactRoom(p, w, h) =
           SumFunctionOnSet(FreeSlots(p, w, h), DOMAIN p.shelves)
             + ((p.maxHeight - p.usedHeight) \div h) * (FullWidth \div w)
<1>1. ExactRoom(p, w, h) =
        SumFunction(FreeSlots(p, w, h))
          + ((p.maxHeight - SumFunction(ShelfHeights(p))) \div h) * (FullWidth \div w)
  BY DEF ExactRoom
<1>2. SumFunction(FreeSlots(p, w, h)) = SumFunctionOnSet(FreeSlots(p, w, h), DOMAIN p.shelves)
  <2>1. DOMAIN FreeSlots(p, w, h) = DOMAIN p.shelves
    BY DEF FreeSlots
  <2> QED
    BY <2>1 DEF SumFunction
<1>3. SumFunction(ShelfHeights(p)) = p.usedHeight
  BY DEF TotalsExact, ShelfHeights
<1> QED
  BY <1>1, <1>2, <1>3

(* The parts of it are naturals, and a shelf takes an item iff it is a     *)
(* candidate.                                                              *)
LEMMA SlotsAreNat ==
  ASSUME NEW p, IsPacker(p), WithinBounds(p), NEW w \in Int, NEW h \in Int,
         ValidSize(p, w, h)
  PROVE  /\ \A i \in DOMAIN p.shelves : FreeSlots(p, w, h)[i] \in Nat
         /\ \A i \in DOMAIN p.shelves : FreeSlots(p, w, h)[i] > 0 <=> i \in Candidates(p, w, h)
         /\ (p.maxHeight - p.usedHeight) \div h \in Nat
         /\ (p.maxHeight - p.usedHeight) \div h > 0 <=> h <= p.maxHeight - p.usedHeight
         /\ FullWidth \div w \in Nat /\ FullWidth \div w > 0
<1>1. w \in Nat \ {0} /\ h \in Nat \ {0} /\ FullWidth \in Nat /\ w <= FullWidth
  BY FullWidthAssumption DEF ValidSize
<1>2. p.maxHeight - p.usedHeight \in Nat
  BY DEF IsPacker, WithinBounds
<1>3. \A i \in DOMAIN p.shelves :
        /\ p.shelves[i].usedWidth \in Int /\ p.shelves[i].height \in Int
        /\ FullWidth - p.shelves[i].usedWidth \in Nat
  BY <1>1 DEF IsPacker, IsShelf, WithinBounds
<1>4. /\ FullWidth \div w \in Nat /\ FullWidth \div w > 0
      /\ (p.maxHeight - p.usedHeight) \div h \in Nat
      /\ (p.maxHeight - p.usedHeight) \div h > 0 <=> h <= p.maxHeight - p.usedHeight
  BY <1>1, <1>2, DivPos
<1>5. ASSUME NEW i \in DOMAIN p.shelves
      PROVE  /\ FreeSlots(p, w, h)[i] \in Nat
             /\ FreeSlots(p, w, h)[i] > 0 <=> i \in Candidates(p, w, h)
  <2> DEFINE a == FullWidth - p.shelves[i].usedWidth
  <2>1. FreeSlots(p, w, h)[i] = IF h <= p.shelves[i].height THEN a \div w ELSE 0
    BY DEF FreeSlots
  <2>2. i \in Candidates(p, w, h) <=> h <= p.shelves[i].height /\ w <= a
    BY <1>1, <1>3 DEF Candidates, FitsOn
  <2>3. a \in Nat
    BY <1>3
  <2> HIDE DEF a
  <2>4. a \div w \in Nat /\ (a \div w > 0 <=> w <= a)
    BY <1>1, <2>3, DivPos
  <2> QED
    BY <2>1, <2>2, <2>4
<1> QED
  BY <1>4, <1>5

(* The room is a natural, and is there iff an insertion succeeds.          *)
LEMMA InsertableNat ==
  ASSUME NEW p, Sound(p), TotalsExact(p), NEW w \in Int, NEW h \in Int
  PROVE  /\ ExactRoom(p, w, h) \in Nat
         /\ InsertSucceeds(p, w, h) <=> ExactRoom(p, w, h) > 0
<1>1. CASE ~ValidSize(p, w, h)
  BY <1>1 DEF ExactRoom, InsertSucceeds
<1>2. CASE ValidSize(p, w, h)
  <2> DEFINE S == SumFunctionOnSet(FreeSlots(p, w, h), DOMAIN p.shelves)
             m == (p.maxHeight - p.usedHeight) \div h
             k == FullWidth \div w
  <2>1. IsFiniteSet(DOMAIN p.shelves)
    BY PackerFinite DEF Sound
  <2>2. /\ \A i \in DOMAIN p.shelves : FreeSlots(p, w, h)[i] \in Nat
        /\ \A i \in DOMAIN p.shelves : FreeSlots(p, w, h)[i] > 0 <=> i \in Candidates(p, w, h)
        /\ m \in Nat /\ (m > 0 <=> h <= p.maxHeight - p.usedHeight)
        /\ k \in Nat /\ k > 0
    BY <1>2, SlotsAreNat DEF Sound
  <2>3. S \in Nat
    BY <2>1, <2>2, SumNat
  <2>4. ExactRoom(p, w, h) = S + m * k
    BY <1>2, InsertableIs
  <2>5. S > 0 <=> Candidates(p, w, h) # {}
    <3>1. ASSUME NEW i \in Candidates(p, w, h)
          PROVE  S > 0
      <4>1. i \in DOMAIN p.shelves
        BY DEF Candidates
      <4>2. FreeSlots(p, w, h)[i] <= S
        BY <2>1, <2>2, <4>1, SumAtLeast
      <4>3. FreeSlots(p, w, h)[i] > 0 /\ FreeSlots(p, w, h)[i] \in Nat
        BY <2>2, <4>1
      <4> HIDE DEF S
      <4> QED
        BY <2>3, <4>2, <4>3
    <3>2. ASSUME Candidates(p, w, h) = {}
          PROVE  S = 0
      <4>1. \A i \in DOMAIN p.shelves : FreeSlots(p, w, h)[i] = 0
        BY <2>2, <3>2
      <4> QED
        BY <2>1, <4>1, SumZero
    <3> QED
      BY <3>1, <3>2
  <2> HIDE DEF S, m, k
  <2>6. m * k \in Nat /\ (m * k > 0 <=> m > 0)
    <3>1. CASE m = 0
      BY <2>2, <3>1
    <3>2. CASE m > 0
      <4>1. m * k >= 1 * k
        BY <2>2, <3>2
      <4> QED
        BY <2>2, <3>2, <4>1
    <3> QED
      BY <2>2, <3>1, <3>2
  <2>7. S + m * k \in Nat /\ (S + m * k > 0 <=> S > 0 \/ m > 0)
    BY <2>3, <2>6
  <2> QED
    BY <1>2, <2>2, <2>4, <2>5, <2>7 DEF InsertSucceeds
<1> QED
  BY <1>1, <1>2

(* A successful insertion uses up one of the promised places.              *)
LEMMA InsertUsesOne ==
  ASSUME NEW p, Sound(p), TotalsExact(p), NEW w \in Int, NEW h \in Int,
         InsertSucceeds(p, w, h)
  PROVE  ExactRoom(Insert(p, w, h), w, h) = ExactRoom(p, w, h) - 1
<1> DEFINE q == Insert(p, w, h)
           n == Len(p.shelves)
           f == FreeSlots(p, w, h)
           g == FreeSlots(q, w, h)
           m == (p.maxHeight - p.usedHeight) \div h
           k == FullWidth \div w
<1>1. ValidSize(p, w, h) /\ w \in Nat \ {0} /\ h \in Nat \ {0} /\ FullWidth \in Nat
  BY FullWidthAssumption DEF InsertSucceeds, ValidSize
<1>2. /\ IsPacker(p) /\ n \in Nat /\ DOMAIN p.shelves = 1..n
      /\ p.shelves \in Seq(Range(p.shelves))
      /\ p.usedHeight \in Int /\ p.maxHeight \in Nat
      /\ \A j \in 1..n : p.shelves[j].usedWidth \in Int /\ p.shelves[j].height \in Int
  BY DEF Sound, IsPacker, IsShelf
<1>3. /\ Sound(q) /\ q.maxHeight = p.maxHeight /\ TotalsExact(q) /\ ValidSize(q, w, h)
  BY <1>1, InsertSound, InsertTotals DEF ValidSize
<1>4. IsFiniteSet(1..n)
  BY <1>2, PackerFinite DEF Sound
<1>5. /\ \A j \in 1..n : f[j] \in Nat /\ (f[j] > 0 <=> j \in Candidates(p, w, h))
      /\ m \in Nat /\ k \in Nat
  BY <1>1, <1>2, SlotsAreNat DEF Sound
<1>6. /\ ExactRoom(p, w, h) = SumFunctionOnSet(f, 1..n) + m * k
      /\ ExactRoom(q, w, h) =
           SumFunctionOnSet(g, DOMAIN q.shelves)
             + ((q.maxHeight - q.usedHeight) \div h) * k
  BY <1>1, <1>2, <1>3, InsertableIs
<1>7. SumFunctionOnSet(f, 1..n) \in Nat
  BY <1>4, <1>5, SumNat
<1>8. \A j \in DOMAIN q.shelves : g[j] \in Nat
  BY <1>3, SlotsAreNat DEF Sound
<1>9. CASE Candidates(p, w, h) # {}
  <2> DEFINE i == FirstFit(p, w, h)
  <2>1. q = PutOnShelf(p, i, w, h) /\ i \in 1..n /\ h <= p.shelves[i].height
    BY <1>1, <1>2, <1>9, FirstFitIsCandidate DEF Insert, FitsOn
  <2> HIDE DEF i, q
  <2>2. /\ q.usedHeight = p.usedHeight /\ DOMAIN q.shelves = 1..n
        /\ \A j \in 1..n : j # i => q.shelves[j] = p.shelves[j]
        /\ q.shelves[i].height = p.shelves[i].height
        /\ q.shelves[i].usedWidth = p.shelves[i].usedWidth + w
    BY <1>2, <2>1 DEF PutOnShelf
  <2>3. \A j \in 1..n : j # i => f[j] = g[j]
    BY <1>2, <2>2 DEF FreeSlots
  <2>4. g[i] = f[i] - 1
    <3> DEFINE a == FullWidth - p.shelves[i].usedWidth
    <3>1. f[i] = a \div w /\ g[i] = (FullWidth - (p.shelves[i].usedWidth + w)) \div w
      BY <1>2, <2>1, <2>2 DEF FreeSlots
    <3>2. a \in Int /\ FullWidth - (p.shelves[i].usedWidth + w) = a - w
      BY <1>1, <1>2, <2>1
    <3> HIDE DEF a
    <3>3. (a - w) \div w = (a \div w) - 1
      BY <1>1, <3>2, DivSub
    <3> QED
      BY <3>1, <3>2, <3>3
  <2>5. \A j \in 1..n : g[j] \in Nat
    BY <1>8, <2>2
  <2> DEFINE S == 1..n
  <2>6. /\ IsFiniteSet(S) /\ i \in S /\ \A x \in S : f[x] \in Int /\ g[x] \in Int
        /\ \A x \in S \ {i} : f[x] = g[x]
    BY <1>4, <1>5, <2>1, <2>3, <2>5
  <2> HIDE DEF S, f, g
  <2>7. SumFunctionOnSet(g, S) = SumFunctionOnSet(f, S) + (g[i] - f[i])
    BY <2>6, SumChange
  <2>8. SumFunctionOnSet(g, 1..n) = SumFunctionOnSet(f, 1..n) - 1
    <3>1. f[i] \in Int /\ SumFunctionOnSet(f, S) \in Int
      BY <1>7, <2>6 DEF S
    <3> QED
      BY <2>4, <2>7, <3>1 DEF S
  <2>9. (q.maxHeight - q.usedHeight) \div h = m
    BY <1>3, <2>2
  <2>10. m * k \in Int
    BY <1>5
  <2> HIDE DEF m, k
  <2> QED
    BY <1>6, <1>7, <2>2, <2>8, <2>9, <2>10 DEF q
<1>10. CASE Candidates(p, w, h) = {}
  <2> DEFINE new == [height |-> h, usedWidth |-> w,
                     items |-> Bind(EmptyMap, p.nextItemID, [width |-> w, height |-> h])]
  <2>1. h <= p.maxHeight - p.usedHeight /\ q = OpenShelf(p, w, h)
    BY <1>1, <1>2, <1>10 DEF Insert, InsertSucceeds
  <2> HIDE DEF q
  <2>2. q.usedHeight = p.usedHeight + h /\ q.shelves = Append(p.shelves, new)
    BY <2>1 DEF OpenShelf
  <2>3. new.height = h /\ new.usedWidth = w
    OBVIOUS
  <2> HIDE DEF new
  <2>4. /\ DOMAIN q.shelves = 1..(n + 1) /\ q.shelves[n + 1] = new
        /\ \A j \in 1..n : q.shelves[j] = p.shelves[j]
    BY <1>2, <2>2
  <2>5. g[n + 1] = (FullWidth - w) \div w /\ \A j \in 1..n : g[j] = f[j]
    <3>1. n + 1 \in DOMAIN q.shelves /\ \A j \in 1..n : j \in DOMAIN q.shelves
      BY <1>2, <2>4
    <3>2. \A j \in DOMAIN q.shelves :
            g[j] = IF h <= q.shelves[j].height THEN (FullWidth - q.shelves[j].usedWidth) \div w
                                               ELSE 0
      BY DEF FreeSlots
    <3>3. \A j \in 1..n :
            f[j] = IF h <= p.shelves[j].height THEN (FullWidth - p.shelves[j].usedWidth) \div w
                                               ELSE 0
      BY <1>2 DEF FreeSlots
    <3> HIDE DEF f, g
    <3>4. h <= new.height
      BY <1>1, <2>3
    <3>5. g[n + 1] = (FullWidth - new.usedWidth) \div w
      BY <2>4, <3>1, <3>2, <3>4
    <3>6. \A j \in 1..n : g[j] = f[j]
      BY <2>4, <3>1, <3>2, <3>3
    <3> QED
      BY <2>3, <3>5, <3>6
  <2>6. g[n + 1] = k - 1
    <3>1. (FullWidth - w) \div w = (FullWidth \div w) - 1
      <4>1. FullWidth \in Int
        BY <1>1
      <4> QED
        BY <1>1, <4>1, DivSub, Zenon
    <3> HIDE DEF g
    <3> QED
      BY <2>5, <3>1
  <2>7. (q.maxHeight - q.usedHeight) \div h = m - 1
    <3> DEFINE a == p.maxHeight - p.usedHeight
    <3>1. a \in Int /\ q.maxHeight - q.usedHeight = a - h
      BY <1>1, <1>2, <1>3, <2>2
    <3> HIDE DEF a
    <3>2. (a - h) \div h = (a \div h) - 1
      BY <1>1, <3>1, DivSub
    <3> QED
      BY <3>1, <3>2 DEF a
  <2>8. \A j \in 1..n : f[j] = 0 /\ g[j] = 0
    BY <1>5, <1>10, <2>5
  <2> DEFINE S == 1..n
             y == n + 1
  <2>9. /\ IsFiniteSet(S) /\ y \notin S /\ DOMAIN q.shelves = S \cup {y}
        /\ \A x \in S : f[x] = 0 /\ g[x] = 0 /\ g[x] \in Int
        /\ g[y] = k - 1 /\ g[y] \in Int
    BY SMTT(30), <1>2, <1>4, <1>5, <2>4, <2>6, <2>8
  <2> HIDE DEF S, y, f, g
  <2>10. SumFunctionOnSet(g, S \cup {y}) = SumFunctionOnSet(g, S) + g[y]
    BY <2>9, SumAdd
  <2>11. SumFunctionOnSet(f, S) = 0 /\ SumFunctionOnSet(g, S) = 0
    BY <2>9, SumZero
  <2>12. SumFunctionOnSet(g, DOMAIN q.shelves) = k - 1 /\ SumFunctionOnSet(f, 1..n) = 0
    <3>1. SumFunctionOnSet(g, S \cup {y}) = 0 + g[y]
      BY <2>10, <2>11
    <3> QED
      BY <2>9, <2>11, <3>1 DEF S
  <2> HIDE DEF m, k
  <2>13. (m - 1) * k = m * k - k /\ m * k \in Int
    BY <1>5
  <2> QED
    BY <1>5, <1>6, <2>7, <2>12, <2>13 DEF q
<1> QED
  BY <1>9, <1>10

(* The width in use on a shelf is not negative.                            *)
LEMMA UsedWidthNat ==
  ASSUME NEW p, Sound(p), TotalsExact(p), NEW i \in DOMAIN p.shelves
  PROVE  p.shelves[i].usedWidth \in Nat
<1> DEFINE m == p.shelves[i].items
<1>1. IsFiniteSet(DOMAIN m)
  BY PackerFinite DEF Sound
<1>2. \A id \in DOMAIN m : m[id].width \in Int /\ 0 < m[id].width
  BY DEF Sound, IsPacker, IsShelf, MapTo, Item, WithinBounds, ValidSize
<1>3. p.shelves[i].usedWidth = SumFunctionOnSet(ItemWidths(m), DOMAIN m)
  BY TotalsAre
<1> HIDE DEF m
<1>4. \A id \in DOMAIN m : ItemWidths(m)[id] \in Nat
  BY <1>2 DEF ItemWidths
<1> QED
  BY <1>1, <1>3, <1>4, SumNat

(* A removal takes no promised place away: what a shelf loses by being     *)
(* dropped, the height it gives back makes up for.                         *)
LEMMA RemoveMakesRoom ==
  ASSUME NEW p, Sound(p), TotalsExact(p), NEW id, NEW w \in Int, NEW h \in Int
  PROVE  ExactRoom(p, w, h) <= ExactRoom(Remove(p, id), w, h)
<1>0. CASE ~RemoveSucceeds(p, id)
  BY <1>0, InsertableNat DEF Remove
<1>01. CASE ~ValidSize(p, w, h)
  <2>1. Remove(p, id).maxHeight = p.maxHeight
    BY RemoveSound
  <2>2. ~ValidSize(Remove(p, id), w, h)
    BY <1>01, <2>1 DEF ValidSize
  <2> QED
    BY <1>01, <2>2 DEF ExactRoom
<1> SUFFICES ASSUME RemoveSucceeds(p, id), ValidSize(p, w, h)
             PROVE  ExactRoom(p, w, h) <= ExactRoom(Remove(p, id), w, h)
  BY <1>0, <1>01
<1> DEFINE i == p.itemLocation[id]
           t == TakeOffShelf(p, i, id)
           n == Len(p.shelves)
           f == FreeSlots(p, w, h)
           g == FreeSlots(t, w, h)
           q == Remove(p, id)
           e == FreeSlots(q, w, h)
           m == (p.maxHeight - p.usedHeight) \div h
           k == FullWidth \div w
<1>1. w \in Nat \ {0} /\ h \in Nat \ {0} /\ FullWidth \in Nat
  BY FullWidthAssumption DEF ValidSize
<1>2. /\ IsPacker(p) /\ LocationsAgree(p) /\ WithinBounds(p)
      /\ n \in Nat /\ DOMAIN p.shelves = 1..n /\ p.usedHeight \in Int /\ p.maxHeight \in Nat
      /\ \A j \in 1..n : IsShelf(p.shelves[j])
  BY DEF Sound, IsPacker
<1>3. id \in DOMAIN p.itemLocation /\ i \in 1..n /\ id \in DOMAIN p.shelves[i].items
  BY <1>2 DEF LocationsAgree, RemoveSucceeds
<1>4. /\ \A j \in 1..n : p.shelves[j].usedWidth \in Nat /\ p.shelves[j].height \in Int
      /\ p.shelves[i].items[id].width \in Nat
  BY SMTT(30), <1>2, <1>3, UsedWidthNat DEF IsShelf, MapTo, Item, WithinBounds, ValidSize
<1>5. /\ IsPacker(t) /\ WithinBounds(t) /\ t.maxHeight = p.maxHeight
  BY <1>3, TakeOffShelfSound
<1>6. /\ t.usedHeight = p.usedHeight
      /\ DOMAIN t.shelves = 1..n
      /\ \A j \in 1..n : j # i => t.shelves[j] = p.shelves[j]
      /\ t.shelves[i].height = p.shelves[i].height
      /\ t.shelves[i].usedWidth = p.shelves[i].usedWidth - p.shelves[i].items[id].width
  BY <1>2, <1>3 DEF TakeOffShelf
<1>7. Len(t.shelves) = n
  <2>1. t.shelves \in [1..n -> Range(t.shelves)]
    BY <1>2 DEF TakeOffShelf, Range
  <2> QED
    BY <1>2, <2>1, SeqOverRange
<1>8. /\ Sound(q) /\ TotalsExact(q) /\ q.maxHeight = p.maxHeight /\ ValidSize(q, w, h)
  BY RemoveSound, RemoveTotals DEF ValidSize
<1>9. q = IF DOMAIN t.shelves[i].items = {} THEN Collapse(t, i) ELSE t
  BY DEF Remove
<1>10. IsFiniteSet(1..n)
  BY <1>2, PackerFinite
<1>11. ValidSize(t, w, h)
  BY <1>5 DEF ValidSize
<1> HIDE DEF t, n, q
<1>12. /\ \A j \in 1..n : f[j] \in Nat /\ g[j] \in Nat
       /\ m \in Nat /\ k \in Nat
  BY <1>2, <1>5, <1>6, <1>11, SlotsAreNat
<1>13. /\ ExactRoom(p, w, h) = SumFunctionOnSet(f, 1..n) + m * k
       /\ ExactRoom(q, w, h) =
            SumFunctionOnSet(e, DOMAIN q.shelves) + ((q.maxHeight - q.usedHeight) \div h) * k
  BY <1>2, <1>8, InsertableIs
<1>14. /\ SumFunctionOnSet(f, 1..n) \in Nat /\ SumFunctionOnSet(g, 1..n) \in Nat
       /\ m * k \in Nat
  <2>1. SumFunctionOnSet(f, 1..n) \in Nat /\ SumFunctionOnSet(g, 1..n) \in Nat
    <3> HIDE DEF f, g
    <3> QED
      BY <1>10, <1>12, SumNat
  <2> HIDE DEF m, k
  <2> QED
    BY <1>12, <2>1
<1>15. \A j \in 1..n : f[j] <= g[j]
  <2> TAKE j \in 1..n
  <2>1. CASE j # i
    <3>1. f[j] = g[j]
      BY <1>2, <1>6, <2>1 DEF FreeSlots
    <3> QED
      BY <1>12, <3>1
  <2>2. CASE j = i
    <3> DEFINE a == FullWidth - p.shelves[i].usedWidth
               b == FullWidth - t.shelves[i].usedWidth
    <3>1. /\ f[i] = IF h <= p.shelves[i].height THEN a \div w ELSE 0
          /\ g[i] = IF h <= p.shelves[i].height THEN b \div w ELSE 0
      BY <1>2, <1>3, <1>6 DEF FreeSlots
    <3>2. a \in Int /\ b \in Int /\ a <= b
      <4> DEFINE u == p.shelves[i].usedWidth
                 v == p.shelves[i].items[id].width
      <4>1. u \in Nat /\ v \in Nat /\ t.shelves[i].usedWidth = u - v
        BY <1>3, <1>4, <1>6
      <4> HIDE DEF u, v
      <4> QED
        BY <1>1, <4>1 DEF u
    <3> HIDE DEF a, b, f, g
    <3>3. a \div w <= b \div w
      BY <1>1, <3>2, DivMono
    <3> QED
      BY <2>2, <3>1, <3>3
  <2> QED
    BY <2>1, <2>2
<1>16. CASE DOMAIN t.shelves[i].items # {}
  <2>1. q = t
    BY <1>9, <1>16
  <2>2. SumFunctionOnSet(f, 1..n) <= SumFunctionOnSet(g, 1..n)
    <3> DEFINE S == 1..n
    <3>1. \A x \in S : f[x] \in Int /\ g[x] \in Int /\ f[x] <= g[x]
      BY <1>12, <1>15
    <3>2. IsFiniteSet(S)
      BY <1>10
    <3> HIDE DEF S, f, g
    <3>3. SumFunctionOnSet(f, S) <= SumFunctionOnSet(g, S)
      BY <3>1, <3>2, SumMonotone
    <3> QED
      BY <3>3 DEF S
  <2>3. ExactRoom(q, w, h) = SumFunctionOnSet(g, 1..n) + m * k
    BY <1>5, <1>6, <1>13, <2>1
  <2> HIDE DEF f, g, m, k
  <2> QED
    BY <1>13, <1>14, <2>2, <2>3 DEF q
<1>17. CASE DOMAIN t.shelves[i].items = {}
  <2> DEFINE old(j) == IF j < i THEN j ELSE j + 1
             d == p.shelves[i].height
             x == (q.maxHeight - q.usedHeight) \div h
  <2>1. /\ DOMAIN q.shelves = 1..(n - 1)
        /\ \A j \in 1..(n - 1) : q.shelves[j] = t.shelves[old(j)]
        /\ q.usedHeight = p.usedHeight - d
    BY <1>6, <1>7, <1>9, <1>17 DEF Collapse
  <2>2. \A j \in 1..(n - 1) : old(j) \in 1..n /\ old(j) # i
    BY <1>2, <1>3
  <2>3. \A j \in 1..(n - 1) : e[j] = f[old(j)]
    <3> HIDE DEF old
    <3> QED
      BY <1>2, <1>6, <2>1, <2>2 DEF FreeSlots
  <2>4. SumFunctionOnSet(e, 1..(n - 1)) = SumFunctionOnSet(f, 1..n) - f[i]
    <3>1. \A j \in 1..n : f[j] \in Int
      BY <1>12
    <3> HIDE DEF i, e, f
    <3> QED
      BY <1>2, <1>3, <2>3, <3>1, SumClosedUp
  <2>5. f[i] = IF h <= d THEN (FullWidth - p.shelves[i].usedWidth) \div w ELSE 0
    BY <1>2, <1>3 DEF FreeSlots
  <2>6. d \in Nat /\ 0 < d
    BY <1>2, <1>3, <1>4 DEF WithinBounds
  <2> DEFINE a == p.maxHeight - p.usedHeight
  <2>7. a \in Int /\ x = (a + d) \div h /\ m = a \div h
    <3>1. q.maxHeight - q.usedHeight = a + d
      BY <1>2, <1>8, <2>1, <2>6
    <3> QED
      BY <1>2, <3>1
  <2>8. x \in Nat /\ k \in Nat
    BY <1>8, SlotsAreNat DEF Sound
  <2> HIDE DEF d, a, x, m, k, f, e
  <2>9. CASE h <= d
    <3>1. f[i] <= k
      <4> DEFINE u == p.shelves[i].usedWidth
      <4>1. FullWidth - u \in Int /\ FullWidth - u <= FullWidth /\ FullWidth \in Int
        BY <1>1, <1>3, <1>4
      <4> HIDE DEF u
      <4>2. (FullWidth - u) \div w <= FullWidth \div w
        BY <1>1, <4>1, DivMono
      <4> QED
        BY <2>5, <2>9, <4>2 DEF u, k
    <3>2. m + 1 <= x
      <4>1. a + h \in Int /\ a + d \in Int /\ a + h <= a + d
        BY <1>1, <2>6, <2>7, <2>9
      <4>2. (a + h) \div h <= (a + d) \div h
        BY <1>1, <4>1, DivMono
      <4> DEFINE b == a + h
      <4>3. b \in Int /\ b - h = a
        BY <1>1, <2>7
      <4> HIDE DEF b
      <4>4. (b - h) \div h = (b \div h) - 1
        BY <1>1, <4>3, DivSub
      <4>5. (b \div h) \in Int
        BY <1>1, <4>3, DivMod
      <4>6. a \div h = (b \div h) - 1
        BY <4>3, <4>4
      <4>7. b \div h <= x
        BY <2>7, <4>2 DEF b
      <4> QED
        BY <1>12, <2>7, <2>8, <4>5, <4>6, <4>7
    <3>3. (m + 1) * k <= x * k
      BY <1>12, <2>8, <3>2
    <3>4. (m + 1) * k = m * k + k
      BY <1>12
    <3>5. x * k \in Nat
      BY <2>8
    <3>6. f[i] \in Nat
      BY <1>3, <1>12
    <3>7. ExactRoom(q, w, h) = (SumFunctionOnSet(f, 1..n) - f[i]) + x * k
      BY <1>13, <2>1, <2>4 DEF x
    <3> HIDE DEF i
    <3> QED
      BY <1>12, <1>13, <1>14, <3>1, <3>3, <3>4, <3>5, <3>6, <3>7 DEF q
  <2>10. CASE ~(h <= d)
    <3>1. f[i] = 0
      BY <2>5, <2>10
    <3>2. a \div h <= (a + d) \div h
      <4>1. a + d \in Int /\ a <= a + d
        BY <2>6, <2>7
      <4> QED
        BY <1>1, <2>7, <4>1, DivMono
    <3>3. m * k <= x * k
      BY <1>12, <2>7, <2>8, <3>2
    <3>4. x * k \in Nat
      BY <2>8
    <3>5. ExactRoom(q, w, h) = SumFunctionOnSet(f, 1..n) + x * k
      BY <1>13, <1>14, <2>1, <2>4, <3>1 DEF x
    <3> QED
      BY <1>13, <1>14, <3>3, <3>4, <3>5 DEF q
  <2> QED
    BY <2>9, <2>10
<1> QED
  BY <1>16, <1>17

(* An item as large as the bin has it to itself.                           *)
LEMMA FullItemAlone ==
  ASSUME NEW p, Sound(p), TotalsExact(p), NEW id \in DOMAIN p.itemLocation,
         ItemsOf(p)[id] = [width |-> FullWidth, height |-> p.maxHeight]
  PROVE  DOMAIN p.itemLocation = {id}
<1> DEFINE i == p.itemLocation[id]
           n == Len(p.shelves)
           hs == ShelfHeights(p)
<1>1. /\ IsPacker(p) /\ LocationsAgree(p) /\ WithinBounds(p)
      /\ n \in Nat /\ DOMAIN p.shelves = 1..n /\ p.usedHeight \in Int /\ p.maxHeight \in Nat
      /\ \A j \in 1..n : IsShelf(p.shelves[j])
      /\ FullWidth \in Nat
  BY FullWidthAssumption DEF Sound, IsPacker
<1>2. /\ i \in 1..n /\ id \in DOMAIN p.shelves[i].items
      /\ p.shelves[i].items[id] = [width |-> FullWidth, height |-> p.maxHeight]
  BY <1>1 DEF LocationsAgree, ItemsOf
<1>3. \A j \in 1..n : p.shelves[j].height \in Int /\ 0 < p.shelves[j].height
  BY <1>1 DEF IsShelf, WithinBounds
<1>4. IsFiniteSet(1..n) /\ \A j \in 1..n : IsFiniteSet(DOMAIN p.shelves[j].items)
  BY <1>1, PackerFinite
<1>5. /\ \A j \in 1..n : hs[j] \in Nat /\ 0 < hs[j]
      /\ hs[i] >= p.maxHeight
  <2>1. p.maxHeight <= p.shelves[i].height
    BY <1>1, <1>2 DEF WithinBounds
  <2> QED
    BY <1>1, <1>2, <1>3, <2>1 DEF ShelfHeights
<1>6. SumFunctionOnSet(hs, 1..n) <= p.maxHeight
  BY <1>1, TotalsAre DEF WithinBounds
<1>7. \A j \in 1..n : j = i
  <2> SUFFICES ASSUME NEW j \in 1..n, j # i PROVE FALSE
    OBVIOUS
  <2> DEFINE S == 1..n
             x == i
             y == j
  <2>1. /\ IsFiniteSet(S) /\ x \in S /\ y \in S /\ x # y /\ (\A z \in S : hs[z] \in Nat)
        /\ hs[x] >= p.maxHeight /\ hs[y] > 0 /\ SumFunctionOnSet(hs, S) <= p.maxHeight
    BY <1>2, <1>4, <1>5, <1>6
  <2> HIDE DEF S, x, y, hs
  <2>2. SumFunctionOnSet(hs, S) = hs[x] + SumFunctionOnSet(hs, S \ {x})
    BY <2>1, SumRemove
  <2>3. IsFiniteSet(S \ {x}) /\ y \in S \ {x} /\ \A z \in S \ {x} : hs[z] \in Nat
    BY <2>1, FS_Subset
  <2>4. SumFunctionOnSet(hs, S \ {x}) \in Nat /\ hs[y] <= SumFunctionOnSet(hs, S \ {x})
    BY <2>3, SumNat, SumAtLeast
  <2> QED
    BY <1>1, <2>1, <2>2, <2>4
<1> DEFINE m  == p.shelves[i].items
           ws == ItemWidths(m)
<1>8. \A k \in DOMAIN m : m[k].width \in Int /\ 0 < m[k].width
  BY <1>1, <1>2 DEF IsShelf, MapTo, Item, WithinBounds, ValidSize
<1>9. /\ \A k \in DOMAIN m : ws[k] \in Nat /\ 0 < ws[k]
      /\ ws[id] = FullWidth
  <2> HIDE DEF m
  <2>1. id \in DOMAIN m /\ m[id].width = FullWidth
    BY <1>2 DEF m
  <2> QED
    BY <1>8, <2>1 DEF ItemWidths
<1>10. SumFunctionOnSet(ws, DOMAIN m) <= FullWidth
  BY <1>1, <1>2, TotalsAre DEF WithinBounds
<1>11. ASSUME NEW k \in DOMAIN m
       PROVE  k = id
  <2> SUFFICES ASSUME k # id PROVE FALSE
    OBVIOUS
  <2> DEFINE S == DOMAIN m
  <2>1. /\ IsFiniteSet(S) /\ id \in S /\ k \in S /\ (\A z \in S : ws[z] \in Nat)
        /\ ws[id] = FullWidth /\ ws[k] > 0 /\ SumFunctionOnSet(ws, S) <= FullWidth
    BY <1>2, <1>4, <1>9, <1>10
  <2> HIDE DEF S, ws
  <2>2. SumFunctionOnSet(ws, S) = ws[id] + SumFunctionOnSet(ws, S \ {id})
    BY <2>1, SumRemove
  <2>3. IsFiniteSet(S \ {id}) /\ k \in S \ {id} /\ \A z \in S \ {id} : ws[z] \in Nat
    BY <2>1, FS_Subset
  <2>4. /\ SumFunctionOnSet(ws, S \ {id}) \in Nat
        /\ ws[k] <= SumFunctionOnSet(ws, S \ {id})
    BY <2>3, SumNat, SumAtLeast
  <2> QED
    BY <1>1, <2>1, <2>2, <2>4
<1>12. \A k \in DOMAIN p.itemLocation : k \in DOMAIN m
  BY <1>1, <1>7 DEF LocationsAgree
<1> QED
  BY <1>11, <1>12

-----------------------------------------------------------------------------
(* The loop of AllocateAndCommitConfig.                                    *)

(* One round of it.                                                        *)
InsertNext(w, h, b) ==
  IF ~b.ok THEN b ELSE [sp |-> Insert(b.sp, w, h), ok |-> InsertSucceeds(b.sp, w, h)]

(* What the first n rounds come to.                                        *)
IsRun(p, w, h, n, run) ==
  run = [k \in 0..n |-> IF k = 0 THEN [sp |-> p, ok |-> TRUE] ELSE InsertNext(w, h, run[k - 1])]

(* The loop can be run for any number of rounds: a first number for which  *)
(* it could not would be one more than a number for which it can.          *)
LEMMA RunExists ==
  ASSUME NEW p, NEW w, NEW h, NEW n \in Nat
  PROVE  \E run : IsRun(p, w, h, n, run)
<1> DEFINE B     == {k \in Nat : ~ \E run : IsRun(p, w, h, k, run)}
           start == [sp |-> p, ok |-> TRUE]
<1>1. SUFFICES ASSUME B # {} PROVE FALSE
  OBVIOUS
<1>2. PICK m \in B : \A j \in B : m <= j
  BY <1>1, MinOfNaturals
<1>3. m # 0
  <2>1. IsRun(p, w, h, 0, [k \in 0..0 |-> start])
    BY DEF IsRun
  <2> QED
    BY <1>2, <2>1
<1>4. m - 1 \in Nat /\ m - 1 \notin B
  BY <1>2, <1>3
<1>5. PICK run : IsRun(p, w, h, m - 1, run)
  BY <1>4
<1> DEFINE next == [k \in 0..m |-> IF k = 0 THEN start ELSE InsertNext(w, h, run[k - 1])]
<1>6. \A k \in 0..(m - 1) : run[k] = next[k]
  <2>1. \A k \in 0..(m - 1) : k \in 0..m
    BY <1>4
  <2> QED
    BY <1>5, <2>1, Zenon DEF IsRun
<1>7. \A k \in 0..m : k # 0 => k - 1 \in 0..(m - 1)
  BY <1>4
<1>8. next = [k \in 0..m |-> IF k = 0 THEN start ELSE InsertNext(w, h, next[k - 1])]
  BY <1>6, <1>7, Zenon
<1> QED
  BY <1>2, <1>8 DEF IsRun

(* InsertMany is what the last round of such a run comes to.               *)
LEMMA InsertManyRuns ==
  ASSUME NEW p, NEW w, NEW h, NEW n \in Nat \ {0}
  PROVE  \E run : /\ run[0] = [sp |-> p, ok |-> TRUE]
                  /\ \A k \in 1..n : run[k] = InsertNext(w, h, run[k - 1])
                  /\ InsertMany(p, w, h, n) = run[n]
<1> DEFINE run == CHOOSE r : IsRun(p, w, h, n, r)
<1>1. InsertMany(p, w, h, n) = run[n]
  <2>1. ~(n <= 0)
    OBVIOUS
  <2> QED
    BY <2>1, Zenon DEF InsertMany, IsRun, InsertNext
<1>2. IsRun(p, w, h, n, run)
  BY RunExists
<1> HIDE DEF run
<1>3. 0 \in 0..n /\ \A k \in 1..n : k \in 0..n /\ k # 0
  OBVIOUS
<1>4. /\ run[0] = [sp |-> p, ok |-> TRUE]
      /\ \A k \in 1..n : run[k] = InsertNext(w, h, run[k - 1])
  BY <1>2, <1>3, Zenon DEF IsRun
<1> QED
  BY <1>1, <1>4

(* However many insertions there are and whichever fail, the packer stays  *)
(* sound.                                                                  *)
LEMMA InsertManySound ==
  ASSUME NEW p, Sound(p), TotalsExact(p), NEW w \in Int, NEW h \in Int, NEW n \in Int
  PROVE  LET q == InsertMany(p, w, h, n).sp
         IN  Sound(q) /\ TotalsExact(q) /\ q.maxHeight = p.maxHeight
<1>1. CASE n <= 0
  <2>1. InsertMany(p, w, h, n) = [sp |-> p, ok |-> TRUE]
    BY <1>1 DEF InsertMany
  <2> QED
    BY <2>1
<1>2. CASE ~(n <= 0)
  <2>1. n \in Nat \ {0}
    BY <1>2
  <2>2. PICK run : /\ run[0] = [sp |-> p, ok |-> TRUE]
                   /\ \A k \in 1..n : run[k] = InsertNext(w, h, run[k - 1])
                   /\ InsertMany(p, w, h, n) = run[n]
    BY <2>1, InsertManyRuns
  <2> DEFINE Good(k) == /\ Sound(run[k].sp) /\ TotalsExact(run[k].sp)
                        /\ run[k].sp.maxHeight = p.maxHeight
             B == {k \in 0..n : ~Good(k)}
  <2>3. Good(0)
    BY <2>2
  <2>4. ASSUME NEW k \in 1..n, Good(k - 1) PROVE Good(k)
    <3> DEFINE a == run[k - 1].sp
    <3>1. run[k] = InsertNext(w, h, run[k - 1])
      BY <2>2
    <3>2. run[k].sp = a \/ run[k].sp = Insert(a, w, h)
      BY <3>1 DEF InsertNext
    <3>3. Sound(a) /\ TotalsExact(a) /\ a.maxHeight = p.maxHeight
      BY <2>4
    <3> HIDE DEF a
    <3>4. Sound(Insert(a, w, h)) /\ TotalsExact(Insert(a, w, h)) /\ Insert(a, w, h).maxHeight = a.maxHeight
      BY <3>3, InsertSound, InsertTotals
    <3> QED
      BY <3>2, <3>3, <3>4
  <2> HIDE DEF Good
  <2>5. B = {}
    <3>1. SUFFICES ASSUME B # {} PROVE FALSE
      OBVIOUS
    <3>2. PICK m \in B : \A j \in B : m <= j
      <4>1. B \in SUBSET Nat
        BY <2>1
      <4> HIDE DEF B
      <4> QED
        BY <3>1, <4>1, MinOfNaturals
    <3>3. m \in 1..n /\ m - 1 \in 0..n /\ m - 1 \notin B
      BY <2>1, <2>3, <3>2
    <3> QED
      BY <2>4, <3>2, <3>3, Zenon
  <2>6. n \in 0..n
    BY <2>1
  <2>7. Good(n)
    BY <2>5, <2>6, Zenon
  <2> QED
    BY <2>2, <2>7 DEF Good
<1> QED
  BY <1>1, <1>2

(* As many insertions as there is room for all succeed.                    *)
LEMMA RoomIsTaken ==
  ASSUME NEW p, Sound(p), TotalsExact(p), NEW w \in Int, NEW h \in Int, NEW n \in Int,
         n <= ExactRoom(p, w, h)
  PROVE  Takes(p, w, h, n)
<1>1. CASE n <= 0
  BY <1>1 DEF Takes, InsertMany
<1>2. CASE ~(n <= 0)
  <2>1. n \in Nat \ {0}
    BY <1>2
  <2>2. PICK run : /\ run[0] = [sp |-> p, ok |-> TRUE]
                   /\ \A k \in 1..n : run[k] = InsertNext(w, h, run[k - 1])
                   /\ InsertMany(p, w, h, n) = run[n]
    BY <2>1, InsertManyRuns
  <2> DEFINE r       == ExactRoom(p, w, h)
             Good(k) == /\ Sound(run[k].sp) /\ TotalsExact(run[k].sp) /\ run[k].ok
                        /\ ExactRoom(run[k].sp, w, h) = r - k
             B == {k \in 0..n : ~Good(k)}
  <2>3. r \in Nat /\ n <= r
    BY InsertableNat
  <2>4. Good(0)
    BY <2>2, <2>3
  <2> HIDE DEF r
  <2>5. ASSUME NEW k \in 1..n, Good(k - 1) PROVE Good(k)
    <3> DEFINE a == run[k - 1].sp
    <3>1. run[k] = InsertNext(w, h, run[k - 1])
      BY <2>2
    <3>2. run[k - 1].ok /\ Sound(a) /\ TotalsExact(a) /\ ExactRoom(a, w, h) = r - (k - 1)
      BY <2>5
    <3>3. run[k].sp = Insert(a, w, h) /\ run[k].ok = InsertSucceeds(a, w, h)
      BY <3>1, <3>2 DEF InsertNext
    <3> HIDE DEF a
    <3>4. ExactRoom(a, w, h) > 0
      BY <2>1, <2>3, <3>2
    <3>5. InsertSucceeds(a, w, h)
      BY <3>2, <3>4, InsertableNat
    <3>6. Sound(Insert(a, w, h)) /\ TotalsExact(Insert(a, w, h))
      BY <3>2, InsertSound, InsertTotals
    <3>7. ExactRoom(Insert(a, w, h), w, h) = ExactRoom(a, w, h) - 1
      BY <3>2, <3>5, InsertUsesOne
    <3>8. (r - (k - 1)) - 1 = r - k
      BY <2>1, <2>3
    <3> QED
      BY <3>2, <3>3, <3>5, <3>6, <3>7, <3>8
  <2> HIDE DEF Good
  <2>6. B = {}
    <3>1. SUFFICES ASSUME B # {} PROVE FALSE
      OBVIOUS
    <3>2. PICK m \in B : \A j \in B : m <= j
      <4>1. B \in SUBSET Nat
        BY <2>1
      <4> HIDE DEF B
      <4> QED
        BY <3>1, <4>1, MinOfNaturals
    <3>3. m \in 1..n /\ m - 1 \in 0..n /\ m - 1 \notin B
      BY <2>1, <2>4, <3>2
    <3> QED
      BY <2>5, <3>2, <3>3, Zenon
  <2>7. n \in 0..n
    BY <2>1
  <2>8. Good(n)
    BY <2>6, <2>7, Zenon
  <2> QED
    BY <2>2, <2>8 DEF Good, Takes
<1> QED
  BY <1>1, <1>2

-----------------------------------------------------------------------------
(* The answers of the queries.                                             *)

(* What is seen of a packer that nobody changes is that packer.            *)
LEMMA ViewOfOne ==
  ASSUME NEW p, NEW view \in Views({p})
  PROVE  /\ DOMAIN view = 1..Len(p.shelves)
         /\ \A j \in 1..Len(p.shelves) :
              j \in DOMAIN p.shelves => /\ view[j].height = p.shelves[j].height
                                        /\ view[j].usedWidth = p.shelves[j].usedWidth
<1>1. PICK packer \in {p} : view \in OneOfEach([j \in 1..Len(packer.shelves) |-> Readings({p}, j)])
  BY DEF Views
<1> DEFINE N == 1..Len(p.shelves)
           sets == [j \in N |-> Readings({p}, j)]
<1>2. view \in OneOfEach(sets) /\ DOMAIN sets = N
  BY <1>1
<1>3. DOMAIN view = N /\ \A j \in N : view[j] \in Readings({p}, j)
  <2> HIDE DEF N
  <2>1. DOMAIN view = DOMAIN sets /\ \A j \in DOMAIN sets : view[j] \in sets[j]
    BY <1>2 DEF OneOfEach
  <2> QED
    BY <2>1
<1>4. ASSUME NEW j \in N, j \in DOMAIN p.shelves
      PROVE  view[j].height = p.shelves[j].height /\ view[j].usedWidth = p.shelves[j].usedWidth
  <2>1. Readings({p}, j) = [height : {p.shelves[j].height}, usedWidth : {p.shelves[j].usedWidth}]
    <3>1. {q \in {p} : j \in DOMAIN q.shelves} = {p}
      BY <1>4
    <3> DEFINE met == {q.shelves[j] : q \in {r \in {p} : j \in DOMAIN r.shelves}}
    <3>2. met = {p.shelves[j]}
      BY <3>1
    <3>3. {s.height : s \in met} = {p.shelves[j].height}
      BY <3>2
    <3>4. {s.usedWidth : s \in met} = {p.shelves[j].usedWidth}
      BY <3>2
    <3> QED
      BY <3>3, <3>4, Zenon DEF Readings
  <2> DEFINE a == p.shelves[j].height
             b == p.shelves[j].usedWidth
  <2>2. view[j] \in [height : {a}, usedWidth : {b}]
    BY <1>3, <2>1
  <2> HIDE DEF a, b
  <2>3. view[j].height = a /\ view[j].usedWidth = b
    BY <2>2
  <2> QED
    BY <2>3 DEF a, b
<1> QED
  BY <1>3, <1>4

(* What is seen of packers that change are numbers.                        *)
LEMMA ViewsAreInts ==
  ASSUME NEW W, \A p \in W : IsPacker(p), NEW view \in Views(W)
  PROVE  /\ IsFiniteSet(DOMAIN view)
         /\ \A j \in DOMAIN view : view[j].height \in Int /\ view[j].usedWidth \in Int
<1>1. PICK q \in W : view \in OneOfEach([j \in 1..Len(q.shelves) |-> Readings(W, j)])
  BY DEF Views
<1> DEFINE N == 1..Len(q.shelves)
           sets == [j \in N |-> Readings(W, j)]
<1>2. DOMAIN view = N /\ \A j \in N : view[j] \in Readings(W, j)
  <2>1. view \in OneOfEach(sets) /\ DOMAIN sets = N
    BY <1>1
  <2> HIDE DEF N
  <2>2. DOMAIN view = DOMAIN sets /\ \A j \in DOMAIN sets : view[j] \in sets[j]
    BY <2>1 DEF OneOfEach
  <2> QED
    BY <2>2
<1>3. IsFiniteSet(N)
  <2>1. Len(q.shelves) \in Nat
    BY DEF IsPacker
  <2> QED
    BY <2>1, FS_Interval
<1>4. ASSUME NEW j \in N PROVE view[j].height \in Int /\ view[j].usedWidth \in Int
  <2> DEFINE met == {p.shelves[j] : p \in {r \in W : j \in DOMAIN r.shelves}}
  <2>1. \A s \in met : s.height \in Int /\ s.usedWidth \in Int
    BY DEF IsPacker, IsShelf
  <2>2. view[j] \in [height : {s.height : s \in met}, usedWidth : {s.usedWidth : s \in met}]
    BY <1>2 DEF Readings
  <2> HIDE DEF met
  <2>3. view[j].height \in {s.height : s \in met} /\ view[j].usedWidth \in {s.usedWidth : s \in met}
    BY <2>2
  <2> QED
    BY <2>1, <2>3
<1> QED
  BY <1>2, <1>3, <1>4

(* A truncated quotient is a number, and that of naturals the usual one.   *)
LEMMA TruncatedIs ==
  ASSUME NEW a \in Int, NEW b \in Nat \ {0}
  PROVE  Truncated(a, b) \in Int /\ (a \in Nat => Truncated(a, b) = a \div b)
<1>1. -a \in Int /\ \A c \in Int : c \div b \in Int
  BY DivMod
<1> DEFINE x == (-a) \div b
           y == a \div b
<1>2. x \in Int /\ y \in Int /\ Truncated(a, b) = IF a < 0 THEN -x ELSE y
  BY <1>1 DEF Truncated
<1> HIDE DEF x, y
<1>3. Truncated(a, b) \in Int /\ (a \in Nat => Truncated(a, b) = y)
  BY <1>2
<1> QED
  BY <1>3 DEF y

(* A quotient of floats is the exact one or one less.                      *)
LEMMA QuotientsAre ==
  ASSUME NEW a \in Int, NEW b \in Nat \ {0}, NEW q \in Quotients(a, b)
  PROVE  q \in Int /\ q <= a \div b
<1> DEFINE y == a \div b
<1>1. y \in Int
  BY DivMod
<1>2. q = y \/ q = y - 1
  BY Zenon DEF Quotients
<1> HIDE DEF y
<1>3. q \in Int /\ q <= y
  BY <1>1, <1>2
<1> QED
  BY <1>3 DEF y

(* Whatever MaxInsertableItems meets, its answer is a number.              *)
LEMMA AnswersAreInts ==
  ASSUME NEW p, IsPacker(p), NEW W, (\A q \in W : IsPacker(q)), NEW w \in Int, NEW h \in Int,
         NEW n \in MaxInsertableItems(p, W, w, h)
  PROVE  n \in Int
<1>1. CASE ~ValidSize(p, w, h)
  BY <1>1 DEF MaxInsertableItems
<1>2. CASE ValidSize(p, w, h)
  <2>1. w \in Nat \ {0} /\ h \in Nat \ {0} /\ FullWidth \in Int /\ p.maxHeight \in Int
    BY <1>2, FullWidthAssumption DEF ValidSize, IsPacker
  <2>2. PICK view \in Views(W) : n \in Counted(p, view, w, h)
    BY <1>2 DEF MaxInsertableItems
  <2>3. /\ IsFiniteSet(DOMAIN view)
        /\ \A j \in DOMAIN view : view[j].height \in Int /\ view[j].usedWidth \in Int
    BY ViewsAreInts
  <2> DEFINE D == DOMAIN view
             heights == [j \in D |-> view[j].height]
             sets == [j \in D |-> SlotsOn(view[j], w, h)]
             new == Truncated(p.maxHeight - SumFunction(heights), h)
  <2>4. PICK slots \in OneOfEach(sets) : n = SumFunction(slots) + new * (FullWidth \div w)
    BY <2>2, Zenon DEF Counted
  <2>5. SumFunction(heights) \in Int
    <3>1. DOMAIN heights = D /\ \A j \in D : heights[j] \in Int
      BY <2>3
    <3> HIDE DEF heights
    <3> QED
      BY <2>3, <3>1, SumType DEF SumFunction
  <2>6. DOMAIN slots = D /\ \A j \in D : slots[j] \in SlotsOn(view[j], w, h)
    <3>1. DOMAIN slots = DOMAIN sets /\ \A j \in DOMAIN sets : slots[j] \in sets[j]
      BY DEF OneOfEach
    <3> QED
      BY <3>1
  <2>7. SumFunction(slots) \in Int
    <3>1. ASSUME NEW j \in D PROVE slots[j] \in Int
      <4>1. slots[j] \in Quotients(FullWidth - view[j].usedWidth, w) \/ slots[j] = 0
        BY <2>6 DEF SlotsOn
      <4>2. FullWidth - view[j].usedWidth \in Int
        BY <2>1, <2>3
      <4> QED
        BY <2>1, <4>1, <4>2, QuotientsAre
    <3> QED
      BY <2>3, <2>6, <3>1, SumType DEF SumFunction
  <2>8. new \in Int
    <3>1. p.maxHeight - SumFunction(heights) \in Int
      BY <2>1, <2>5
    <3> QED
      BY <2>1, <3>1, TruncatedIs
  <2>9. FullWidth \div w \in Int
    BY <2>1, DivMod
  <2> DEFINE x == SumFunction(slots)
             k == FullWidth \div w
  <2> HIDE DEF x, k, new
  <2>10. x \in Int /\ k \in Int /\ new \in Int /\ n = x + new * k
    BY <2>4, <2>7, <2>8, <2>9 DEF x, k
  <2> QED
    BY <2>10
<1> QED
  BY <1>1, <1>2

(* Of a packer that nobody changes meanwhile, MaxInsertableItems promises  *)
(* no more than there is room for.                                         *)
LEMMA AnswerIsRoom ==
  ASSUME NEW p, Sound(p), TotalsExact(p), NEW w \in Int, NEW h \in Int,
         NEW n \in MaxInsertableItems(p, {p}, w, h)
  PROVE  n \in Int /\ n <= ExactRoom(p, w, h)
<1>1. n \in Int
  BY AnswersAreInts DEF Sound
<1>2. CASE ~ValidSize(p, w, h)
  BY <1>2 DEF MaxInsertableItems, ExactRoom
<1>3. CASE ValidSize(p, w, h)
  <2>1. w \in Nat \ {0} /\ h \in Nat \ {0} /\ FullWidth \in Int
    BY <1>3, FullWidthAssumption DEF ValidSize
  <2> DEFINE D == 1..Len(p.shelves)
             f == FreeSlots(p, w, h)
             a == p.maxHeight - p.usedHeight
             k == FullWidth \div w
  <2>2. /\ DOMAIN p.shelves = D /\ a \in Nat
        /\ \A j \in D : p.shelves[j].usedWidth \in Int /\ p.shelves[j].height \in Int
    BY DEF Sound, IsPacker, IsShelf, WithinBounds
  <2>3. PICK view \in Views({p}) : n \in Counted(p, view, w, h)
    BY <1>3 DEF MaxInsertableItems
  <2>4. /\ DOMAIN view = D
        /\ \A j \in D : /\ view[j].height = p.shelves[j].height
                        /\ view[j].usedWidth = p.shelves[j].usedWidth
    BY <2>2, ViewOfOne
  <2> DEFINE heights == [j \in D |-> view[j].height]
             sets    == [j \in D |-> SlotsOn(view[j], w, h)]
             new     == Truncated(p.maxHeight - SumFunction(heights), h)
  <2>5. PICK slots \in OneOfEach(sets) : n = SumFunction(slots) + new * k
    BY <2>3, <2>4, Zenon DEF Counted
  <2>6. SumFunction(heights) = p.usedHeight
    <3>1. heights = [j \in DOMAIN p.shelves |-> p.shelves[j].height]
      BY <2>2, <2>4
    <3> QED
      BY <3>1, Zenon DEF TotalsExact
  <2>7. new = a \div h /\ new \in Int
    <3>1. new = Truncated(a, h)
      BY <2>6
    <3> HIDE DEF a, new
    <3>2. a \in Int
      BY <2>2
    <3> QED
      BY <2>1, <2>2, <3>1, <3>2, TruncatedIs
  <2>8. DOMAIN slots = D /\ \A j \in D : slots[j] \in SlotsOn(view[j], w, h)
    <3>1. DOMAIN slots = DOMAIN sets /\ \A j \in DOMAIN sets : slots[j] \in sets[j]
      BY DEF OneOfEach
    <3> QED
      BY <3>1
  <2>9. ASSUME NEW j \in D PROVE slots[j] \in Int /\ f[j] \in Int /\ slots[j] <= f[j]
    <3> DEFINE b == FullWidth - p.shelves[j].usedWidth
    <3>1. b \in Int /\ b \div w \in Int
      <4>1. b \in Int
        BY <2>1, <2>2
      <4> HIDE DEF b
      <4> QED
        BY <2>1, <4>1, DivMod
    <3>2. f[j] = IF h <= p.shelves[j].height THEN b \div w ELSE 0
      BY <2>2 DEF FreeSlots
    <3>3. slots[j] \in (IF h <= p.shelves[j].height THEN Quotients(b, w) ELSE {0})
      BY <2>4, <2>8 DEF SlotsOn
    <3> HIDE DEF b, f
    <3>4. CASE h <= p.shelves[j].height
      BY <2>1, <3>1, <3>2, <3>3, <3>4, QuotientsAre
    <3>5. CASE ~(h <= p.shelves[j].height)
      BY <3>2, <3>3, <3>5
    <3> QED
      BY <3>4, <3>5
  <2>10. IsFiniteSet(D)
    BY <2>2, PackerFinite DEF Sound
  <2>11. SumFunction(slots) = SumFunctionOnSet(slots, D)
    BY <2>8 DEF SumFunction
  <2>12. /\ SumFunctionOnSet(slots, D) <= SumFunctionOnSet(f, D)
         /\ SumFunctionOnSet(slots, D) \in Int /\ SumFunctionOnSet(f, D) \in Int
    <3> HIDE DEF D, f
    <3> QED
      BY <2>9, <2>10, SumMonotone, SumType
  <2>13. ExactRoom(p, w, h) = SumFunctionOnSet(f, D) + (a \div h) * k
    BY <1>3, <2>2, InsertableIs
  <2>14. k \in Int
    BY <2>1, DivMod
  <2> DEFINE x == SumFunctionOnSet(slots, D)
             y == SumFunctionOnSet(f, D)
             m == a \div h
  <2> HIDE DEF x, y, m, k, new
  <2>15. /\ x \in Int /\ y \in Int /\ x <= y /\ k \in Int /\ m \in Int
         /\ n = x + m * k /\ ExactRoom(p, w, h) = y + m * k
    BY <2>5, <2>7, <2>11, <2>12, <2>13, <2>14 DEF x, y, m
  <2>16. m * k \in Int
    BY <2>15
  <2> QED
    BY <1>1, <2>15, <2>16
<1> QED
  BY <1>2, <1>3

(* CanFit answers when there is something to see.                          *)
LEMMA CanFitAnswers ==
  ASSUME NEW p, Views({p}) # {}, NEW w, NEW h,
         \A fit \in CanFit(p, {p}, w, h) : fit = TRUE
  PROVE  CanFit(p, {p}, w, h) = {TRUE}
<1>1. PICK view \in Views({p}) : TRUE
  OBVIOUS
<1> DEFINE fit == (\E j \in DOMAIN view : FitsOn(view[j], w, h)) \/ h <= p.maxHeight - p.usedHeight
<1>2. \E fact \in CanFit(p, {p}, w, h) : fact <=> fit
  <2>1. \E fact \in BOOLEAN : fact <=> fit
    OBVIOUS
  <2> QED
    BY <2>1 DEF CanFit
<1> QED
  BY <1>2

(* Of a packer left alone, CanFit tells that an insertion would succeed.   *)
LEMMA CanFitIsExact ==
  ASSUME NEW p, Sound(p), NEW w, NEW h, InsertSucceeds(p, w, h)
  PROVE  \A fit \in CanFit(p, {p}, w, h) : fit = TRUE
<1> TAKE fit \in CanFit(p, {p}, w, h)
<1>1. DOMAIN p.shelves = 1..Len(p.shelves)
  BY DEF Sound, IsPacker
<1>2. PICK view \in Views({p}) :
        fit <=> ((\E j \in DOMAIN view : FitsOn(view[j], w, h)) \/ h <= p.maxHeight - p.usedHeight)
  BY DEF CanFit
<1>3. /\ DOMAIN view = DOMAIN p.shelves
      /\ \A j \in DOMAIN p.shelves : /\ view[j].height = p.shelves[j].height
                                     /\ view[j].usedWidth = p.shelves[j].usedWidth
  BY <1>1, ViewOfOne
<1>4. (\E j \in DOMAIN view : FitsOn(view[j], w, h)) <=> Candidates(p, w, h) # {}
  BY <1>3 DEF Candidates, FitsOn
<1>5. (\E j \in DOMAIN view : FitsOn(view[j], w, h)) \/ h <= p.maxHeight - p.usedHeight
  BY <1>4 DEF InsertSucceeds
<1>6. fit \in BOOLEAN
  BY DEF CanFit
<1> QED
  BY <1>2, <1>5, <1>6

(* What a query may meet of a removal are packers, too.                    *)
LEMMA RemovalStatesArePackers ==
  ASSUME NEW p, Sound(p), NEW id, NEW q \in RemovalStates(p, id)
  PROVE  IsPacker(q)
<1>1. CASE ~RemoveSucceeds(p, id)
  BY <1>1 DEF RemovalStates, Sound
<1>2. CASE RemoveSucceeds(p, id)
  <2>1. q = TakeOffShelf(p, p.itemLocation[id], id) \/ q = Remove(p, id)
    BY <1>2 DEF RemovalStates
  <2>2. /\ id \in DOMAIN p.itemLocation /\ p.itemLocation[id] \in DOMAIN p.shelves
        /\ id \in DOMAIN p.shelves[p.itemLocation[id]].items
    BY <1>2 DEF RemoveSucceeds, Sound, LocationsAgree
  <2>3. IsPacker(TakeOffShelf(p, p.itemLocation[id], id))
    BY <2>2, TakeOffShelfSound
  <2>4. IsPacker(Remove(p, id))
    BY RemoveSound DEF Sound
  <2> QED
    BY <2>1, <2>3, <2>4
<1> QED
  BY <1>1, <1>2
=============================================================================
