------------------------------- MODULE MCPerf -------------------------------
(* The two halves of perf.rs.  They share no state: a behaviour here is one  *)
(* of either, the other at rest.                                             *)
(*   Pool       two tasks on two endpoints, the second of which may hang;    *)
(*   Geo cache  two callers and, for each client, two proxies that it may    *)
(*              confuse; calls cache for two ticks or not at all.            *)
EXTENDS ConnectionPool, MCGeoCache

VARIABLE half

PerfInit == /\ half \in {"pool", "geo"}
            /\ Init /\ GeoInit
            /\ half = "pool" => client = CHOOSE c \in Clients : TRUE

PerfNext == /\ \/ half = "pool" /\ Next /\ UNCHANGED geoVars
               \/ half = "geo" /\ GeoNext /\ UNCHANGED vars
            /\ UNCHANGED half

\* Nothing fair is enabled in a pool at rest.
PerfSpec == PerfInit /\ [][PerfNext]_<<half, vars, geoVars>> /\ Fairness
=============================================================================
