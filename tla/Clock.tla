------------------------------- MODULE Clock -------------------------------
(* The wall clock that the limiters and the session table read.  Here it    *)
(* never steps back.                                                        *)
EXTENDS Integers

CONSTANT TimeCap   \* bound: the clock stops here

VARIABLE clock
=============================================================================
