---------------------------- MODULE MCBankServer ----------------------------
(* An instance of BankServer for TLC.                                      *)
EXTENDS BankServer

CONSTANTS k1, k2, s1, s2, c1

\* The second caller has a server and a client of its own, and shares the
\* other server with the first one.
MCUses == [k \in Callers |-> IF k = k1 THEN {s1} ELSE {s1, s2, c1}]
=============================================================================
