---------------------------- MODULE MCPythonPool ----------------------------
(* Two tasks, two endpoints, up to four connections.                       *)
EXTENDS PythonPool

MCEndpoints == <<"c1", "c2">>
=============================================================================
