SPECIFICATION Spec
CONSTANTS
    Preincludes <- MCPreincludes
    Batches <- AllBatches
    Short <- MCShort
    Facts <- GroupFacts
    Closure <- GroupClosure
    KernelFlagSymbols <- MCKernelFlagSymbols
    ObjtoolSymbols <- MCObjtoolSymbols
    NameOrder <- GroupNameOrder
    LibraryDirs <- MCLibraryDirs
    LtoSymbol = "L"
    Modversions = "V"
    AsmModversions = "W"
    Unclassified = "unclassified"
    ABI = "abi"
INVARIANTS
    EachConfigItsOwn
    SharedWhenSame
    RefusedForCause
    BuiltOnceAsItself
    RulesFitTogether
