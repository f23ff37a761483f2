SPECIFICATION MCSpec
CONSTANTS
    o1 = o1
    o2 = o2
    m1 = m1
    i1 = i1
    i2 = i2
    MaxRank = 4
    Objects = {o1, o2}
    MaxLength = 4
    MaxViews = 2
    Signatures = {m1}
    Interfaces = {i1, i2}
    Methods <- MCMethods
    MaxClasses = 3
    SimpleName <- MCSimpleName
    Sealed = {3}
    MaxJars = 2
    MaxErrors = 1
INVARIANTS SameElements SameAnswers ImplementsHierarchy JarHasClass
SYMMETRY MCSymmetry
CHECK_DEADLOCK FALSE
