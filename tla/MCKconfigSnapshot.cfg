SPECIFICATION FairSnapSpec
CONSTANTS
    Strings = {"", "n", "m", "y", "txt", "bad"}
    Trees <- MCTrees
    RawConfigs <- MCRawConfigs
    AllNoModes = {TRUE, FALSE}
    TextLess <- MCTextLess
    ActionTrees <- MCActionTrees
INVARIANTS
    DoneIsStable
    NoStrayModule
    UserDecides
    KconfigRules
    Settles
    PhasesAgree
PROPERTY
    PipelineEnds
CHECK_DEADLOCK FALSE
