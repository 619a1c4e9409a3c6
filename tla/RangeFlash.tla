------------------------------ MODULE RangeFlash ------------------------------
(***************************************************************************)
(* What the driver promises its clients about the flash of a raw device:  *)
(* a request takes effect as a whole at one moment, on exactly the pages  *)
(* its sectors cover.  A write programs them in order up to the first one *)
(* that is programmed already, and fails if there is one.                 *)
(***************************************************************************)
EXTENDS Integers

CONSTANTS Requests,            \* the requests clients may make
          Covers(_),           \* the pages a request acts on
          NO_REQUEST           \* the answer before the first request

VARIABLES programmed,          \* the pages programmed since their last erase
          answer               \* the last request answered, and its status

vars == <<programmed, answer>>

Init == programmed = {} /\ answer = [req |-> NO_REQUEST, ret |-> 0]

Answer(r, ret) == answer' = [req |-> r, ret |-> ret]

Read(r) == /\ r.type = "read"
           /\ Answer(r, 0)
           /\ UNCHANGED programmed

Erase(r) == /\ r.type = "erase"
            /\ Answer(r, 0)
            /\ programmed' = programmed \ Covers(r)

Write(r) ==
  LET taken == Covers(r) \cap programmed
  IN  /\ r.type = "write"
      /\ Answer(r, IF taken = {} THEN 0 ELSE -2)
      /\ programmed' = programmed \cup {p \in Covers(r) : \A q \in taken : p < q}

\* A write whose data could not be copied; the flash is not asked.
Refuse(r) == /\ r.type = "write"
             /\ \E ret \in {-12, -111} : Answer(r, ret)
             /\ UNCHANGED programmed

Next == \E r \in Requests : Read(r) \/ Erase(r) \/ Write(r) \/ Refuse(r)

Spec == Init /\ [][Next]_vars
===============================================================================
