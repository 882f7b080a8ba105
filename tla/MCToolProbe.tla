----------------------------- MODULE MCToolProbe -----------------------------
\* Two callers over an option the tool supports, a PowerPC check of two runs
\* that fails at its second, a tool that prints too much, and the two requests
\* that are answered without a run: the native CPU and a malformed one.
EXTENDS ToolProbe, TLC

MCSteps == [p \in Probes |-> IF p = "ppc" THEN 2 ELSE 1]
MCPassedSteps == [p \in Probes |-> 1]
=============================================================================
