SPECIFICATION Spec
CONSTANTS
    Scanners <- ModuleNameScanners
    MaxRequests = 1
    MaxNest = 8
    SourceNames <- MCSourceNames
    Assembly <- MCAssembly
    CompiledNames <- MCCompiledNames
    CompilerNames <- MCCompilerNames
    SpecialGenerated <- MCSpecialGenerated
    FdtSources <- MCFdtSources
    Terms <- MCTerms
INVARIANTS
    FragmentSuffices
CHECK_DEADLOCK FALSE
