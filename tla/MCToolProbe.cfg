SPECIFICATION FairSpec
CONSTANTS
    Callers = {c1, c2}
    Probes = {"option", "ppc", "noisy", "native", "malformed"}
    Malformed = {"malformed"}
    NativeCPU = {"native"}
    WithOutput = {"option", "noisy"}
    Noisy = {"noisy"}
    Steps <- MCSteps
    PassedSteps <- MCPassedSteps
    MaxSignals = 1
INVARIANTS CacheSound AnswerSound
 
