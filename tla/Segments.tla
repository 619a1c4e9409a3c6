-------------------------------- MODULE Segments --------------------------------
(***************************************************************************)
(* The segments of a bio, which both drivers go through one by one, as    *)
(* the sequence of their lengths in sectors.                              *)
(***************************************************************************)
EXTENDS Naturals, Sequences

\* A bio's bi_size, in sectors: the lengths of its segments added up.
bi_size(lens) ==
  LET sum[k \in 0 .. Len(lens)] == IF k = 0 THEN 0 ELSE sum[k - 1] + lens[k]
  IN  sum[Len(lens)]
===============================================================================
