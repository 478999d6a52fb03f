----------------------------- MODULE MCTaskStore -----------------------------
(***************************************************************************)
(* A small instance of TaskStore for TLC.                                    *)
(***************************************************************************)
EXTENDS TaskStore

CONSTANTS q1, q2, t1, x1, x2, alice, bob
==============================================================================
