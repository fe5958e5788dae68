--------------------------- MODULE MCProxyHandshake ---------------------------
(* Three calls, so two on one key at least: two of the asyncio adapter on    *)
(* one loop, and one that is any other adapter's: with a credentialsId where *)
(* the browser knows them, without elsewhere.                                *)
EXTENDS ProxyHandshake

CONSTANTS t1, t2

MCLoops == {{t1, t2}}
===============================================================================
