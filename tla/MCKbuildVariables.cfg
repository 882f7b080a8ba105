CONSTANTS
    MaxLines = 3
    MaxDepth = 12
    MaxIncludeDepth = 3
    KnownEmpty = {}
    Files <- MCFiles
    Mains <- MCMains
    Initial <- NoInitial
    Family <- MCFamily
    Named <- MCNamed
SPECIFICATION Spec
INVARIANTS
    ConcreteIsCertain
    KnownIsConcrete
PROPERTIES
    IncludesAreRead
