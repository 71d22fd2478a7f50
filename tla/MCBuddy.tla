------------------------------- MODULE MCBuddy -------------------------------
(***************************************************************************)
(* Pages of 4 bytes, blocks of up to 4 pages, memory of up to 20 pages in  *)
(* one or two regions of which one starts and one ends inside a page; the *)
(* region at 72 is above the DMA32 limit of the buddy run.                 *)
(***************************************************************************)
EXTENDS Buddy

MCMemRanges  == {<<9, 39>>, <<48, 14>>, <<72, 24>>}
MCResRanges  == {<<16, 6>>, <<22, 10>>, <<48, 4>>, <<76, 1>>}
MCRequests   == {<<4, 4>>, <<3, 0>>}
MCExactSizes == {9}
MCWholeBlock == {16}
=============================================================================
