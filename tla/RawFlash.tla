------------------------------- MODULE RawFlash -------------------------------
(***************************************************************************)
(* What the simulated SSD promises its driver about data pages: a page is *)
(* programmed at most once between two erases of its erase unit, an erase *)
(* clears exactly its unit, and the status returned says which it was.    *)
(***************************************************************************)
CONSTANTS Pages,               \* page numbers
          Unit                 \* a function: the erase unit of each page

VARIABLES programmed,          \* the pages programmed since their last erase
          answer               \* the last call and whether it succeeded

vars == <<programmed, answer>>

Answer(op, p, ok) == [op |-> op, page |-> p, ok |-> ok]

Init == programmed = {} /\ answer \in {Answer("none", p, TRUE) : p \in Pages}

Read(p) == /\ answer' = Answer("read", p, TRUE)
           /\ UNCHANGED programmed

Program(p) == /\ answer' = Answer("write", p, p \notin programmed)
              /\ programmed' = programmed \cup {p}

Erase(p) == /\ answer' = Answer("erase", p, TRUE)
            /\ programmed' = {q \in programmed : Unit[q] # Unit[p]}

Next == \E p \in Pages : Read(p) \/ Program(p) \/ Erase(p)

Spec == Init /\ [][Next]_vars
===============================================================================
