-------------------------- MODULE MCThreadLockApart ---------------------------
(* A program that keeps its tasks apart: of the two loops that share the     *)
(* servers, one has its tasks take turns.                                    *)
EXTENDS MCThreadLock

ASSUME ApartAssumption == Apart
===============================================================================
