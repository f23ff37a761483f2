---------------------------- MODULE MCSequential ----------------------------
(* Instances of the parts without threads, ArraySet and Implementor, for   *)
(* TLC. They have nothing to do with each other: a behaviour is one of the *)
(* set or one of the implementor, and the other part rests.                *)
EXTENDS ArraySet, Implementor

CONSTANTS o1, o2, m1, i1, i2

VARIABLE part

\* Both interfaces declare the method.
MCMethods == [i \in Interfaces |-> Signatures]

\* The first two classes are nested in others, and called the same.
MCSimpleName == <<"Node", "Node", "Leaf">>

MCInit ==
    /\ part \in {"set", "implementor"}
    /\ Init /\ (part = "implementor" => data = <<>> /\ compare = "null")
    /\ ImplementorInit

\* A class that implements an interface again is as good as one that does not:
\* such hierarchies are looked at, but implementJar() is not called for them.
ImplementedOnce ==
    \A c, d \in 1..Len(classes) : c # d => classes[c].implements \cap classes[d].implements = {}

MCNext ==
    /\ \/ part = "set" /\ Next /\ UNCHANGED implementorVars
       \/ /\ part = "implementor" /\ ImplementorNext /\ UNCHANGED vars
          /\ jars' = 0 \/ ImplementedOnce
    /\ UNCHANGED part

MCSpec == MCInit /\ [][MCNext]_<<vars, implementorVars, part>>

\* Objects of a rank are alike, and so are the interfaces.
MCSymmetry == Permutations(Objects) \cup Permutations(Interfaces)
=============================================================================
