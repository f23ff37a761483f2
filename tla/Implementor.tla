----------------------------- MODULE Implementor -----------------------------
(***************************************************************************)
(* JarImplementor. A hierarchy of classes, each the superclass of the next *)
(* one, is given; implementJar() is called for some of its classes, one    *)
(* after the other, with files that may fail. implement() is the part of   *)
(* it that ends with Write, in another directory.                          *)
(*                                                                         *)
(* A method is its name and the types of its parameters; overriding keeps  *)
(* the type of the result. All classes are in one package. Private and     *)
(* static methods, which nobody overrides, are left out, and an interface  *)
(* is a class whose own methods are public and abstract.                   *)
(***************************************************************************)
EXTENDS Integers, Sequences, FiniteSets

CONSTANTS
    Signatures,     \* the methods
    Interfaces,     \* interfaces that do not extend each other
    Methods,        \* Methods[i]: what the interface i declares
    MaxClasses,     \* bound: length of the hierarchy
    SimpleName,     \* SimpleName[c]: getSimpleName() of the class c
    Sealed,         \* the classes with private constructors only
    MaxJars,        \* bound: calls of implementJar()
    MaxErrors       \* bound: IOExceptions

ASSUME ImplementorAssumption ==
    /\ MaxClasses \in Nat /\ MaxJars \in Nat /\ MaxErrors \in Nat
    /\ DOMAIN SimpleName = 1..MaxClasses
    /\ Interfaces \cap (1..MaxClasses) = {}

VARIABLES
    classes,        \* from the top of the hierarchy to the bottom
    token,          \* the class whose number implementJar() is called with
    step,           \* where this call is; "returned" and "exception" are its ends
    source,         \* the file of each simple name: 0 if there is none,
    compiled,       \* or the class that it implements;
    jar,            \* -1 if it has something else in it
    lost,           \* history: a failure of this call was swallowed
    jars, errors

fileVars == <<source, compiled, jar>>
implementorVars == <<classes, token, step, fileVars, lost, jars, errors>>

Absent == [access |-> 0, kind |-> "absent"]
Public == 3     \* 1 is package-private, 2 protected
Declarations == [access : {1, 2, Public}, kind : {"abstract", "concrete", "final"}]
Class == [own : [Signatures -> Declarations \cup {Absent}], implements : SUBSET Interfaces]

Names == {SimpleName[c] : c \in 1..MaxClasses}

-----------------------------------------------------------------------------
(* What reflection and the compiler know of the first c classes.           *)

Own(c, m) == classes[c].own[m]
Declaring(c, m) == {d \in 1..c : Own(d, m) # Absent}
Nearest(c, m) == CHOOSE d \in Declaring(c, m) : \A e \in Declaring(c, m) : e <= d
FromInterfaces(c, m) ==
    {i \in Interfaces : m \in Methods[i] /\ \E d \in 1..c : i \in classes[d].implements}

IsAbstract(c, m) ==
    IF Declaring(c, m) = {} THEN FromInterfaces(c, m) # {}
    ELSE Own(Nearest(c, m), m).kind = "abstract"

Access(c, m) == IF Declaring(c, m) = {} THEN Public ELSE Own(Nearest(c, m), m).access

\* A class that the compiler accepts below the others.
Accepted(class) ==
    LET c == Len(classes) IN
    \A m \in Signatures :
        LET own == class.own[m]
            inherited == Declaring(c, m) # {}
            older == Own(Nearest(c, m), m)
        IN /\ own # Absent /\ inherited => older.kind # "final" /\ own.access >= older.access
           /\ FromInterfaces(c, m) # {} \/ (\E i \in class.implements : m \in Methods[i]) =>
                IF own # Absent THEN own.access = Public
                ELSE inherited => older.access = Public

\* Class.getMethods(): the nearest class wins, also over all interfaces; of
\* interfaces that are not related each gives a method of its own.
ReflectedMethods(c) ==
    {[method |-> m, by |-> Nearest(c, m), access |-> Public] :
        m \in {m \in Signatures : Declaring(c, m) # {} /\ Access(c, m) = Public}}
    \cup UNION {{[method |-> m, by |-> i, access |-> Public] : i \in FromInterfaces(c, m)} :
                    m \in {m \in Signatures : Declaring(c, m) = {}}}

-----------------------------------------------------------------------------
(* The methods that are written.                                           *)

\* Those of all superclasses, whatever happens to them further down.
ProtectedMethods(c) ==
    UNION {{[method |-> m, by |-> d, access |-> Own(d, m).access] :
                m \in {m \in Signatures : Own(d, m).kind = "abstract" /\ Own(d, m).access # Public}} :
           d \in 1..c}

\* Mutant of Written: the superclasses are not looked at.
WrittenByReflection(c) == {w \in ReflectedMethods(c) : IsAbstract(c, w.method)}

Written(c) == ProtectedMethods(c) \cup {w \in ReflectedMethods(c) : IsAbstract(c, w.method)}

WrittenFor(c, m) == {w \in Written(c) : w.method = m}

\* The compiler accepts the class that is written.
Compiles(c) ==
    \A m \in Signatures :
        /\ \A v, w \in WrittenFor(c, m) : v = w
        /\ IsAbstract(c, m) => WrittenFor(c, m) # {}
        /\ \A w \in WrittenFor(c, m) :
            Declaring(c, m) # {} => /\ Own(Nearest(c, m), m).kind # "final"
                                    /\ w.access >= Access(c, m)

-----------------------------------------------------------------------------
(* implementJar().                                                         *)

ImplementorInit ==
    /\ classes = <<>>
    /\ token = 0 /\ step = "exception"
    /\ source = [n \in Names |-> 0] /\ compiled = [n \in Names |-> 0]
    /\ jar = 0 /\ lost = FALSE /\ jars = 0 /\ errors = 0

\* The hierarchy exists before the first call.
Extend ==
    /\ jars = 0 /\ Len(classes) < MaxClasses
    /\ \E class \in Class : Accepted(class) /\ classes' = Append(classes, class)
    /\ UNCHANGED <<token, step, fileVars, lost, jars, errors>>

Name == SimpleName[token]
At(state) == step = state
Goto(state) == step' = state /\ UNCHANGED <<classes, token, jars>>
IOException == errors < MaxErrors /\ errors' = errors + 1
Swallowed == IOException /\ lost' = TRUE

ImplementJar ==
    /\ step \in {"returned", "exception"} /\ jars < MaxJars
    /\ \E c \in 1..Len(classes) : token' = c
    /\ step' = "create"
    /\ jars' = jars + 1
    /\ jar' = 0
    /\ lost' = FALSE
    /\ UNCHANGED <<classes, source, compiled, errors>>

CreateFile ==
    /\ At("create")
    /\ \/ /\ source' = [source EXCEPT ![Name] = IF @ = 0 THEN -1 ELSE @]
          /\ Goto("constructor")
          /\ UNCHANGED errors
       \/ /\ source[Name] = 0 /\ IOException
          /\ Goto("exception")
          /\ UNCHANGED source
    /\ UNCHANGED <<compiled, jar, lost>>

\* Without one the exception leaves the file behind.
ChooseConstructor ==
    /\ At("constructor")
    /\ Goto(IF token \in Sealed THEN "exception" ELSE "write")
    /\ UNCHANGED <<fileVars, lost, errors>>

\* An IOException is only printed. The file may be the one of an earlier call,
\* and stays as it was if it cannot be opened.
Write ==
    /\ At("write")
    /\ Goto("compile")
    /\ \/ source' = [source EXCEPT ![Name] = token] /\ UNCHANGED <<lost, errors>>
       \/ /\ \/ source' = [source EXCEPT ![Name] = -1]
             \/ UNCHANGED source
          /\ Swallowed
    /\ UNCHANGED <<compiled, jar>>

\* The exit code of the compiler is not looked at. A class that is there stays
\* there if the source is not accepted. If a correct class cannot be written,
\* what is there stays or, half written, is deleted.
Compile ==
    /\ At("compile")
    /\ Goto("jar")
    /\ LET accepted == source[Name] > 0 /\ Compiles(source[Name]) IN
        \/ /\ compiled' = IF accepted THEN [compiled EXCEPT ![Name] = source[Name]] ELSE compiled
           /\ UNCHANGED <<lost, errors>>
        \/ /\ accepted
           /\ compiled' \in {compiled, [compiled EXCEPT ![Name] = 0]}
           /\ Swallowed
    /\ UNCHANGED <<source, jar>>

\* Mutant of WriteJar: a class that is not there is left out.
WriteJarAnyway ==
    /\ At("jar")
    /\ jar' = IF compiled[Name] = 0 THEN -1 ELSE compiled[Name]
    /\ Goto("returned")
    /\ UNCHANGED <<source, compiled, lost, errors>>

WriteJar ==
    /\ At("jar")
    /\ \/ /\ compiled[Name] # 0
          /\ jar' = compiled[Name]
          /\ Goto("returned")
          /\ UNCHANGED errors
       \/ /\ IF compiled[Name] # 0 THEN IOException ELSE UNCHANGED errors
          /\ jar' = -1
          /\ Goto("exception")
    /\ UNCHANGED <<source, compiled, lost>>

ImplementorNext ==
    Extend \/ ImplementJar \/ CreateFile \/ ChooseConstructor \/ Write \/ Compile \/ WriteJar

ImplementorSpec == ImplementorInit /\ [][ImplementorNext]_implementorVars

-----------------------------------------------------------------------------
(* Properties.                                                             *)

\* No class declares a method again that is abstract and not public above it.
NeverRedeclared(c) ==
    \A m \in Signatures : \A d, e \in 1..c :
        d < e /\ Own(d, m).kind = "abstract" /\ Own(d, m).access # Public => Own(e, m) = Absent

\* No method comes from two interfaces and from no class.
OneInterface(c) ==
    \A m \in Signatures :
        Declaring(c, m) = {} => \A i, j \in FromInterfaces(c, m) : i = j

\* What is abstract is written, once and with its access, and nothing else is.
WritesOnce(c) ==
    \A m \in Signatures :
        /\ IsAbstract(c, m) <=> WrittenFor(c, m) # {}
        /\ \A v, w \in WrittenFor(c, m) : v = w /\ w.access = Access(c, m)

\* No abstract method is forgotten; and exactly the hierarchies in which no
\* protected or package-private abstract method is declared again, and
\* no method comes from two interfaces, get the class that they should, which then
\* compiles.
ImplementsHierarchy ==
    \A c \in 1..Len(classes) :
        /\ \A m \in Signatures : IsAbstract(c, m) => WrittenFor(c, m) # {}
        /\ WritesOnce(c) <=> NeverRedeclared(c) /\ OneInterface(c)
        /\ WritesOnce(c) => Compiles(c)

\* implementJar() swallows the failures of writing and of compiling. All the same
\* it does not return with a jar that has no class in it. And the class is the
\* token's, unless the source or its class could not be written, or the source is
\* not accepted: then it is one with the same simple name from an earlier call.
JarHasClass ==
    step = "returned" =>
        /\ jar \in 1..Len(classes) /\ Compiles(jar)
        /\ SimpleName[jar] = SimpleName[token]
        /\ jar = token \/ lost \/ ~Compiles(token)
=============================================================================
