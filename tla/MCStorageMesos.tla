----------------------------- MODULE MCStorageMesos ----------------------------
(* StorageMesos with int cut down to five bits: sums and negations overflow. *)
EXTENDS StorageMesos
================================================================================
