SPECIFICATION MCSpec
CONSTANTS
    Scanners <- MCScanners
    MaxRequests = 2
    MaxNest = 8
    SourceNames <- MCSourceNames
    Assembly <- MCFootprintAssembly
    CompiledNames <- MCFootprintCompiled
    CompilerNames <- MCCompilerNames
    SpecialGenerated <- MCFootprintGenerated
    FdtSources <- MCFdtSources
    Terms <- MCTerms
    Plans <- MCPlans
    KernelFlags <- MCKernelFlags
    ObjtoolSymbols <- MCObjtoolSymbols
INVARIANTS
    CacheIsFresh
    FragmentSuffices
    AnswersAreRight
    HeadersAreCovered
    ActionsAreCovered
PROPERTY
    ScanEnds
CHECK_DEADLOCK FALSE
