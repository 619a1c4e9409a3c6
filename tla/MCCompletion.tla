----------------------------- MODULE MCCompletion -----------------------------
(* CompletionQueue with its CPUs and its requests interchangeable.        *)
EXTENDS CompletionQueue, TLC

CONSTANTS cpu1, cpu2, r1, r2, r3, r4

TwoCpus       == {cpu1, cpu2}
TwoRequests   == {r1, r2}
FourRequests  == {r1, r2, r3, r4}
NoRequests    == {}
OneBad        == {r4}

Symmetry == Permutations(Cpu) \cup Permutations(Requests \ BadRequests)
===============================================================================
