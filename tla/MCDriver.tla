------------------------------- MODULE MCDriver -------------------------------
(* Requests for Driver on a device of eight pages of 2 + 1 sectors. *)
EXTENDS Driver

pages(type, first, n) == [type |-> type, block |-> first * 3, nsect |-> n * 3]

\* Requests of whole pages, whose erases start at a block, and a read that is not.
SomeRequests ==
  { pages("write", 2, 2), pages("write", 3, 3), pages("write", 5, 3),
    pages("write", 0, 3), pages("erase", 2, 3), pages("erase", 4, 4),
    pages("read", 3, 5), [type |-> "read", block |-> 7, nsect |-> 1],
    [type |-> "read", block |-> 10, nsect |-> 14] }

\* Reads that end where the disk ends, whatever sector they start at.
ReadsToTheEnd ==
  { [type |-> "read", block |-> b, nsect |-> 24 - b] : b \in 6 .. 23 }

\* The requests are such that ImplementsRangeFlash is about all of them.
ASSUME WholeRequests == WholePages
===============================================================================
