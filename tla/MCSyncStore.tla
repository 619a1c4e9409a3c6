----------------------------- MODULE MCSyncStore ------------------------------
(* Bios for SyncStore on a disk of two pages of two sectors.  The second   *)
(* discard is not aligned: of sectors 1 to 3 it clears 1, and 0 with it.    *)
EXTENDS SyncStore

SomeBios ==
  [rw : {"read", "write"}, first : {1}, lens : {<<2>>}]
    \cup [rw : {"read", "write"}, first : {0}, lens : {<<2, 1>>}]
    \cup [rw : {"discard"}, first : {0}, lens : {<<4>>}]
    \cup [rw : {"discard"}, first : {1}, lens : {<<3>>}]
===============================================================================
