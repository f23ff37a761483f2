------------------------------- MODULE MCBank -------------------------------
(* Instances of Bank for TLC.                                              *)
EXTENDS Bank, TLC

CONSTANTS k1, k2, p1, p2, anna, boris, x, y

MCPassports == {p1, p2}
MCAccountNames == {x, y}
MCIds == {"1:x", "1:y", "2:x", "2:y", "plain"}
MCIdOf == (p1 :> (x :> "1:x" @@ y :> "1:y") @@ p2 :> (x :> "2:x" @@ y :> "2:y"))

Call(op, p, f, n, id, v) ==
    [op |-> op, passport |-> p, fullName |-> f, name |-> n, id |-> id, value |-> v, number |-> TRUE]
ChangeBy(p, f, n, v) == Call("change", p, f, n, "plain", v)
NoNumber(p, f, n) == [ChangeBy(p, f, n, 0) EXCEPT !.number = FALSE]
OfPerson(op, p, n) == Call(op, p, anna, n, "plain", 2)
OfBank(op, id) == Call(op, p1, anna, x, id, 1)

\* Two callers open the same account x of p1, and one of them gets the name of
\* p2 wrong. The account y of p1 is k1's own; its sum passes the largest int.
SharedRequests == [c \in {k1, k2} |->
    IF c = k1
    THEN {OfPerson("createPerson", p1, x), OfPerson("createPersonAccount", p1, x),
          ChangeBy(p1, anna, x, 3), ChangeBy(p1, anna, y, 3), ChangeBy(p2, anna, x, 1)}
    ELSE {ChangeBy(p2, boris, x, 1), NoNumber(p1, anna, x),
          OfBank("createAccount", "plain"), OfBank("setAmount", "plain"),
          OfPerson("getLocalPerson", p1, y), OfPerson("createLocalAccount", p1, y),
          OfPerson("setLocalAmount", p1, y)}]
=============================================================================
