------------------------------ MODULE MCGeoCache ------------------------------
(* One gateway with and without a username: two keys to Rust, one to Python. *)
EXTENDS GeoCache

CONSTANTS gw, user

MCProxy == {<<gw, NoUser>>, <<gw, user>>}
MCUsed == [c \in {"rust", "python"} |-> MCProxy]
MCTTLs == {0, 1}
===============================================================================
