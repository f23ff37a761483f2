--------------------------- MODULE MapperPromise ---------------------------
(***************************************************************************)
(* What ParallelMapper promises to its callers, without threads, queues or *)
(* monitors: every call of map is answered with the list of all the values *)
(* of f, each computed at most once; after close() the unfinished mappings *)
(* "leave in undefined state", that is they may also be answered with only *)
(* a part of their values.                                                 *)
(***************************************************************************)
EXTENDS Naturals

CONSTANTS
    Clients,    \* the calls of map
    Args        \* Args[c]: the length of the list passed to call c

VARIABLES
    status,     \* status[c]: "new", "pending", "answered", "failed", "refused"
    computed,   \* computed[c]: the positions of the result that are filled in
    open        \* close() has not been called

pvars == <<status, computed, open>>

Positions(c) == 1..Args[c]

PInit ==
    /\ status = [c \in Clients |-> "new"]
    /\ computed = [c \in Clients |-> {}]
    /\ open = TRUE

Submit(c) ==
    /\ status[c] = "new"
    /\ status' = [status EXCEPT ![c] = "pending"]
    /\ UNCHANGED <<computed, open>>

\* IllegalStateException: only a mapper that is closed refuses a call.
Refuse(c) ==
    /\ status[c] = "new"
    /\ ~open
    /\ status' = [status EXCEPT ![c] = "refused"]
    /\ UNCHANGED <<computed, open>>

\* One value is computed, for a call that was submitted, and never again.
Compute(c, i) ==
    /\ status[c] \notin {"new", "refused"}
    /\ i \notin computed[c]
    /\ computed' = [computed EXCEPT ![c] = @ \cup {i}]
    /\ UNCHANGED <<status, open>>

Answer(c) ==
    /\ status[c] = "pending"
    /\ open => computed[c] = Positions(c)
    /\ status' = [status EXCEPT ![c] = "answered"]
    /\ UNCHANGED <<computed, open>>

\* The caller was interrupted.
Fail(c) ==
    /\ status[c] = "pending"
    /\ status' = [status EXCEPT ![c] = "failed"]
    /\ UNCHANGED <<computed, open>>

Close ==
    /\ open' = FALSE
    /\ UNCHANGED <<status, computed>>

PNext ==
    \/ Close
    \/ \E c \in Clients :
        \/ Submit(c) \/ Refuse(c) \/ Answer(c) \/ Fail(c)
        \/ \E i \in Positions(c) : Compute(c, i)

PSpec == PInit /\ [][PNext]_pvars
=============================================================================
