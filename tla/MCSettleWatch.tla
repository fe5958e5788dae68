---------------------------- MODULE MCSettleWatch ----------------------------
(* Two waits on one watch.  One redirect, and two events on their way: a     *)
(* document's signal can still be unread when the next document commits.     *)
EXTENDS SettleWatch

Every == Implementations
NodeOnly == {"node"}
PythonAsyncOnly == {"python_async"}
===============================================================================
