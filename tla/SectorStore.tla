------------------------------ MODULE SectorStore ------------------------------
(***************************************************************************)
(* What a disk promises bios that are served concurrently: every sector   *)
(* of a bio is read, written or cleared once, at some moment between the  *)
(* bio's start and its end, and nothing else changes a sector.  Only a    *)
(* write may fail, and then any part of it may have been done.  A flush,  *)
(* when nobody has a bio in progress, empties the disk.  The sectors of a *)
(* discard are those of the whole pages it clears, which need not be the  *)
(* ones it names.                                                          *)
(***************************************************************************)
EXTENDS Naturals, TLC

CONSTANTS Procs, Sector, Bios, Values,
          SectorsOf(_)         \* the sectors a bio reads, writes or clears

VARIABLES content,             \* per sector
          doing,               \* per process: the bio in progress
          failed               \* per process: whether its last bio failed

vars == <<content, doing, failed>>

nothing == [bio |-> {}, value |-> 0, done |-> {}, buf |-> <<>>]

Init == /\ content = [s \in Sector |-> 0]
        /\ doing = [p \in Procs |-> nothing]
        /\ failed = [p \in Procs |-> FALSE]

Begin(p, b, v) ==
  /\ doing[p] = nothing
  /\ doing' = [doing EXCEPT ![p] = [nothing EXCEPT !.bio = {b}, !.value = v]]
  /\ failed' = [failed EXCEPT ![p] = FALSE]
  /\ UNCHANGED content

remaining(p, b) == SectorsOf(b) \ doing[p].done

Read(p, b, S) ==
  /\ b.rw = "read"
  /\ doing' = [doing EXCEPT ![p].done = @ \cup S,
                            ![p].buf = @ @@ [s \in S |-> content[s]]]
  /\ UNCHANGED content

Change(p, b, S) ==
  /\ b.rw \in {"write", "discard"}
  /\ doing' = [doing EXCEPT ![p].done = @ \cup S]
  /\ content' = [s \in Sector |-> IF s \notin S THEN content[s]
                                  ELSE IF b.rw = "write" THEN doing[p].value ELSE 0]

Touch(p, b) ==
  /\ \E S \in SUBSET remaining(p, b) : S # {} /\ (Read(p, b, S) \/ Change(p, b, S))
  /\ UNCHANGED failed

End(p, b, fails) ==
  /\ IF fails THEN b.rw = "write" ELSE remaining(p, b) = {}
  /\ doing' = [doing EXCEPT ![p] = nothing]
  /\ failed' = [failed EXCEPT ![p] = fails]
  /\ UNCHANGED content

Flush ==
  /\ doing = [p \in Procs |-> nothing]
  /\ content' = [s \in Sector |-> 0]
  /\ UNCHANGED <<doing, failed>>

Next ==
  \/ Flush
  \/ \E p \in Procs :
       \/ \E b \in Bios, v \in Values : Begin(p, b, v)
       \/ \E b \in doing[p].bio :
            \/ Touch(p, b)
            \/ \E fails \in BOOLEAN : End(p, b, fails)

Spec == Init /\ [][Next]_vars
===============================================================================
