-------------------------- MODULE MCParallelMapper --------------------------
(* Instances of ParallelMapper for TLC.                                    *)
EXTENDS ParallelMapper

CONSTANTS c1, c2

\* A call with two tasks and a call with one.
MCClients == {c1, c2}
MCArgs == [c \in MCClients |-> IF c = c1 THEN 2 ELSE 1]

NobodyThrows == {}
\* One task of the longer call may fail, with an Exception or with an Error
\* that ends its worker; the other call is untouched by it.
FirstThrows == {<<c1, 1>>}

Nobody == {}
SecondOnly == {c2}
=============================================================================
