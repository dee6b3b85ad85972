------------------------------- MODULE MCSbull -------------------------------
(* A disk of two pages of two sectors, and bios of one or two pages: as    *)
(* whole-page segments, in halves, and with segments of unequal length.    *)
EXTENDS Sbull, TLC

Seg(a, n) == [at |-> a, len |-> n]

MCSegs == {<<Seg(2, 2)>>, <<Seg(0, 2), Seg(2, 2)>>,
           <<Seg(2, 1), Seg(3, 1)>>, <<Seg(1, 2), Seg(3, 1)>>}

MCReads == {<<Seg(0, 2), Seg(2, 2)>>, <<Seg(2, 1), Seg(3, 1)>>}

MCBios == [write : {TRUE}, segs : MCSegs] \cup [write : {FALSE}, segs : MCReads]
SubmitterSymmetry == Permutations(Submitters)
=============================================================================
