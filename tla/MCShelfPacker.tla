--------------------------- MODULE MCShelfPacker ---------------------------
(* Small packers: a bin of height 3, shelves of width 4 (quotas in         *)
(* quarters), sizes below, at and above the limits.                        *)
EXTENDS ShelfPacker

MCWidths  == {0, 1, 2, 3, 4, 5}
MCHeights == 0..4

(* TestShelfPacker_InsertAndRemove inserts an item of 0.5 x 3 and one of   *)
(* 0.4 x 2 into a bin of height 10 and then wants "Expected 2 shelves".    *)
SecondItemOpensShelf ==
  ItemsOf(sp) = <<[width |-> 5, height |-> 3], [width |-> 4, height |-> 2]>> =>
    Len(sp.shelves) = 2
=============================================================================
