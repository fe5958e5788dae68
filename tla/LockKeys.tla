------------------------------- MODULE LockKeys -------------------------------
(* What the three clients' registration locks are about: one lock per        *)
(* (connection, normalized server).                                          *)
CONSTANTS Key, NoKey

ASSUME KeyAssumption == NoKey \notin Key
===============================================================================
