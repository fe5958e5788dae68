----------------------------- MODULE MCThreadLock -----------------------------
(* Tasks of two event loops, and one on a thread of its own: "a" and "b"     *)
(* share a loop, "c" and "d" another.                                        *)
EXTENDS ThreadLock

MCTask == {"a", "b", "c", "d", "s"}
MCThread == {"loop1", "loop2", "thread"}
MCThreadOf == [a |-> "loop1", b |-> "loop1", c |-> "loop2", d |-> "loop2", s |-> "thread"]
MCAsync == {"a", "b", "c", "d"}

\* A program that keeps its tasks apart: those of the first loop open contexts
\* for different servers; everybody else for any, those of the second loop in
\* turns.
MCApart == [a |-> {"p"}, b |-> {"q"}, c |-> {"p", "q"}, d |-> {"p", "q"}, s |-> {"p", "q"}]

\* Two tasks of one loop on one server, nobody else about.
MCTogether == [a |-> {"p"}, b |-> {"p"}, c |-> {}, d |-> {}, s |-> {}]
===============================================================================
