---------------------------- MODULE MCBackingStore ----------------------------
(* BackingStore with bios of one and of two segments.                     *)
EXTENDS BackingStore

TwoSegments == {<<1>>, <<3>>, <<2, 1>>}
===============================================================================
