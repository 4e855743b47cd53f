-------------------------- MODULE MCKeyValueStore ---------------------------
(***************************************************************************)
(* A small instance of KeyValueStore.                                      *)
(***************************************************************************)
EXTENDS KeyValueStore

CONSTANTS t1, t2, t3, ka, kb, va, vb
=============================================================================
