----------------------------- MODULE MCLifecycle ------------------------------
(* Lifecycle with accepted and refused parameters, with and without partitions. *)
EXTENDS Lifecycle

SomeParams == [rd_nr : {-1, 0, 1}, max_part : {-1, 0, 2, 4}]
===============================================================================
