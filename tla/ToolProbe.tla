------------------------------ MODULE ToolProbe ------------------------------
(***************************************************************************)
(* LinuxToolProbe (internal/kconfig/tool_probe.go): measured compiler and  *)
(* linker capabilities, memoized under a mutex that is held only for the   *)
(* lookup and for the store.  SupportsOption, SupportsSource,              *)
(* SupportsKbuildSource and supportsPowerPCCompilerScript share one shape: *)
(*                                                                         *)
(*    validate; look the key up; make an output file; run the tool under a *)
(*    deadline (the PowerPC scripts: up to twice under one deadline);      *)
(*    classify how it ended; store the answer; return                      *)
(*                                                                         *)
(* A probe stands for one key of the cache.  The tool's own behaviour on a *)
(* probe is a constant; that it hangs, dies of a signal or cannot be       *)
(* started is chosen at each run.                                          *)
(***************************************************************************)
EXTENDS Integers

CONSTANTS
    Callers,     \* goroutines sharing one LinuxToolProbe
    Probes,      \* requests, one cache key each
    Malformed,   \* requests the validation refuses
    NativeCPU,   \* requests with -march=native
    WithOutput,  \* requests that compile into a temporary object file
    Noisy,       \* requests whose output exceeds outputLimit
    Steps,       \* Steps[p]: tool runs a probe needs to be supported
    PassedSteps, \* PassedSteps[p]: how many of them the tool passes
    MaxSignals   \* bound: times a tool dies of a signal nobody here sent

ASSUME ProbeAssumption ==
    /\ Malformed \subseteq Probes /\ NativeCPU \subseteq Probes
    /\ WithOutput \subseteq Probes /\ Noisy \subseteq Probes
    /\ Steps \in [Probes -> 1 .. 2]
    /\ PassedSteps \in [Probes -> 0 .. 2]
    /\ \A p \in Probes : PassedSteps[p] <= Steps[p]
    /\ MaxSignals \in Nat

VARIABLES
    cache,       \* cache[p]: "none", "supported" or "unsupported"
    pc,          \* where a caller is
    probe,       \* the request of the caller's latest call
    step,        \* which tool run it is at
    process,     \* how the tool it started is doing, or how it ended
    expired,     \* the deadline of the call has passed
    output,      \* the call's temporary object file exists
    answer,      \* what the latest call returned
    signalled    \* history: probes with a run that died of a foreign signal,
                 \* one entry per death

vars == <<cache, pc, probe, step, process, expired, output, answer, signalled>>

Answers == {"supported", "unsupported"}
Locations == {"idle", "lookup", "create", "start", "running", "classify", "store"}
Endings == {"passed", "refused", "signal", "cutOff", "notStarted"}

\* What the tool itself says of a probe.
Verdict(p) == IF PassedSteps[p] = Steps[p] THEN "supported" ELSE "unsupported"

\* How the tool ends run i of probe p when it is left alone; a PowerPC script
\* check that compiles without the expected text counts as refused, and more
\* output than outputLimit is noticed whatever the exit status.
Ending(p, i) ==
    IF p \in Noisy THEN "cutOff" ELSE IF i <= PassedSteps[p] THEN "passed" ELSE "refused"

Init ==
    /\ cache = [p \in Probes |-> "none"]
    /\ pc = [c \in Callers |-> "idle"]
    /\ probe \in [Callers -> Probes]
    /\ step = [c \in Callers |-> 1]
    /\ process = [c \in Callers |-> "none"]
    /\ expired = [c \in Callers |-> FALSE]
    /\ output = [c \in Callers |-> FALSE]
    /\ answer = [c \in Callers |-> "none"]
    /\ signalled = [p \in Probes |-> 0]

-----------------------------------------------------------------------------
\* A return statement together with the deferred Remove and cancel.
Return(c, value) ==
    /\ pc' = [pc EXCEPT ![c] = "idle"]
    /\ answer' = [answer EXCEPT ![c] = value]
    /\ output' = [output EXCEPT ![c] = FALSE]

\* A call begins; malformed requests are errors, and the processor of the
\* repository worker is never probed.
Call(c, p) ==
    /\ pc[c] = "idle"
    /\ probe' = [probe EXCEPT ![c] = p]
    /\ step' = [step EXCEPT ![c] = 1]
    /\ process' = [process EXCEPT ![c] = "none"]
    /\ expired' = [expired EXCEPT ![c] = FALSE]
    /\ \/ p \in Malformed /\ Return(c, "error")
       \/ p \in NativeCPU \ Malformed /\ Return(c, "unsupported")
       \/ /\ p \notin Malformed \cup NativeCPU
          /\ pc' = [pc EXCEPT ![c] = "lookup"]
          /\ answer' = [answer EXCEPT ![c] = "none"]
          /\ UNCHANGED output
    /\ UNCHANGED <<cache, signalled>>

\* Fault: the key of the cache does not tell the probes apart.
LookupAny(c) ==
    /\ pc[c] = "lookup"
    /\ \/ \E p \in Probes : cache[p] /= "none" /\ Return(c, cache[p])
       \/ /\ \A p \in Probes : cache[p] = "none"
          /\ pc' = [pc EXCEPT ![c] = "create"]
          /\ UNCHANGED <<answer, output>>
    /\ UNCHANGED <<cache, probe, step, process, expired, signalled>>

\* The first critical section.
Lookup(c) ==
    /\ pc[c] = "lookup"
    /\ \/ cache[probe[c]] /= "none" /\ Return(c, cache[probe[c]])
       \/ /\ cache[probe[c]] = "none"
          /\ pc' = [pc EXCEPT ![c] = "create"]
          /\ UNCHANGED <<answer, output>>
    /\ UNCHANGED <<cache, probe, step, process, expired, signalled>>

\* os.CreateTemp and Close; a probe of the linker needs no file.
CreateOutput(c) ==
    /\ pc[c] = "create"
    /\ pc' = [pc EXCEPT ![c] = "start"]
    /\ output' = [output EXCEPT ![c] = probe[c] \in WithOutput]
    /\ UNCHANGED <<cache, probe, step, process, expired, answer, signalled>>

CreateFails(c) ==
    /\ pc[c] = "create" /\ probe[c] \in WithOutput
    /\ Return(c, "error")
    /\ UNCHANGED <<cache, probe, step, process, expired, signalled>>

-----------------------------------------------------------------------------
(***************************************************************************)
(* run: one execution of the tool.                                         *)
(***************************************************************************)
\* exec refuses to start under an expired context, and may fail to start.
Start(c) ==
    /\ pc[c] = "start"
    /\ \/ /\ ~expired[c]
          /\ pc' = [pc EXCEPT ![c] = "running"]
          /\ process' = [process EXCEPT ![c] = "running"]
       \/ /\ pc' = [pc EXCEPT ![c] = "classify"]
          /\ process' = [process EXCEPT ![c] = "notStarted"]
    /\ UNCHANGED <<cache, probe, step, expired, output, answer, signalled>>

\* The tool ends by itself.
Finish(c) ==
    /\ pc[c] = "running"
    /\ process' = [process EXCEPT ![c] = Ending(probe[c], step[c])]
    /\ pc' = [pc EXCEPT ![c] = "classify"]
    /\ UNCHANGED <<cache, probe, step, expired, output, answer, signalled>>


\* The deadline passes, before, while or after the tool runs.
Expire(c) ==
    /\ pc[c] \in {"create", "start", "running", "classify"} /\ ~expired[c]
    /\ expired' = [expired EXCEPT ![c] = TRUE]
    /\ UNCHANGED <<cache, pc, probe, step, process, output, answer, signalled>>

\* exec.CommandContext kills a tool that outlives its context.
Kill(c) ==
    /\ pc[c] = "running" /\ expired[c]
    /\ process' = [process EXCEPT ![c] = "signal"]
    /\ pc' = [pc EXCEPT ![c] = "classify"]
    /\ UNCHANGED <<cache, probe, step, expired, output, answer, signalled>>

\* The tool dies of a signal that did not come from the deadline (it
\* crashed, or the system ran out of memory), perhaps after it had already
\* written too much.
Signal(c) ==
    /\ pc[c] = "running" /\ signalled[probe[c]] < MaxSignals
    /\ \E ending \in {"signal", Ending(probe[c], step[c])} \ {"passed", "refused"} :
           process' = [process EXCEPT ![c] = ending]
    /\ signalled' = [signalled EXCEPT ![probe[c]] = @ + 1]
    /\ pc' = [pc EXCEPT ![c] = "classify"]
    /\ UNCHANGED <<cache, probe, step, expired, output, answer>>

\* The error run returns is something other than an *exec.ExitError: the
\* context is over, the output is cut off, or the tool was not started.
RunFailed(c) == expired[c] \/ process[c] \in {"cutOff", "notStarted"}

\* Fault: ctx.Err() is not looked at, so a killed tool is an exit status.
ClassifyExitOnly(c) ==
    /\ pc[c] = "classify"
    /\ \/ /\ process[c] \in {"cutOff", "notStarted"}
          /\ Return(c, "error") /\ UNCHANGED step
       \/ /\ process[c] \in {"passed", "refused", "signal"}
          /\ pc' = [pc EXCEPT ![c] = "store"]
          /\ UNCHANGED <<step, output, answer>>
    /\ UNCHANGED <<cache, probe, process, expired, signalled>>

\* A failed run is returned and not stored; a passed one leads to the next
\* run of the probe or to the store, any exit status or signal to the store.
Classify(c) ==
    /\ pc[c] = "classify"
    /\ \/ RunFailed(c) /\ Return(c, "error") /\ UNCHANGED step
       \/ /\ ~RunFailed(c)
          /\ process[c] = "passed" /\ step[c] < Steps[probe[c]]
          /\ step' = [step EXCEPT ![c] = @ + 1]
          /\ pc' = [pc EXCEPT ![c] = "start"]
          /\ UNCHANGED <<output, answer>>
       \/ /\ ~RunFailed(c)
          /\ process[c] /= "passed" \/ step[c] = Steps[probe[c]]
          /\ pc' = [pc EXCEPT ![c] = "store"]
          /\ UNCHANGED <<step, output, answer>>
    /\ UNCHANGED <<cache, probe, process, expired, signalled>>

\* The local variable `supported' when the call reaches the store.
Supported(c) == IF process[c] = "passed" THEN "supported" ELSE "unsupported"

\* The second critical section; the caller returns what it measured, even if
\* another caller stored in the meantime.
Store(c) ==
    /\ pc[c] = "store"
    /\ cache' = [cache EXCEPT ![probe[c]] = Supported(c)]
    /\ Return(c, Supported(c))
    /\ UNCHANGED <<probe, step, process, expired, signalled>>

-----------------------------------------------------------------------------
Step(c) ==
    Lookup(c) \/ CreateOutput(c) \/ CreateFails(c) \/ Start(c) \/ Kill(c)
        \/ Classify(c) \/ Store(c)

Next ==
    \E c \in Callers :
        \/ \E p \in Probes : Call(c, p)
        \/ Step(c)
        \/ Finish(c)
        \/ Expire(c)
        \/ Signal(c)

Spec == Init /\ [][Next]_vars

\* Callers run and deadlines pass; the tool is not assumed to end, and
\* nobody is obliged to call.
FairSpec ==
    Spec /\ \A c \in Callers : WF_vars(Step(c)) /\ WF_vars(Expire(c))

-----------------------------------------------------------------------------
(***************************************************************************)
(* Properties.                                                             *)
(***************************************************************************)
\* The cache and the callers' locals keep their types.
TypeOK ==
    /\ cache \in [Probes -> Answers \cup {"none"}]
    /\ pc \in [Callers -> Locations]
    /\ probe \in [Callers -> Probes]
    /\ step \in [Callers -> 1 .. 2]
    /\ process \in [Callers -> Endings \cup {"none", "running"}]
    /\ expired \in [Callers -> BOOLEAN]
    /\ output \in [Callers -> BOOLEAN]
    /\ answer \in [Callers -> Answers \cup {"none", "error"}]
    /\ signalled \in [Probes -> Nat]

\* What the cache holds is the tool's own verdict, however calls of the same
\* probe overlap and however deadlines race with the end of the tool: a run
\* that was killed, cut off or not started is never memoized.  Only a foreign
\* signal can make the entry wrong, and then only towards "unsupported".
CacheSound ==
    \A p \in Probes :
        \/ cache[p] \in {"none", Verdict(p)}
        \/ cache[p] = "unsupported" /\ signalled[p] > 0

\* Every answer a caller gets, measured or memoized, is the tool's verdict on
\* the probe it asked about, with the same exception, or the fixed answer for
\* the native processor; so two callers never act on different answers.
AnswerSound ==
    \A c \in Callers :
        \/ answer[c] \in {"none", "error", Verdict(probe[c])}
        \/ answer[c] = "unsupported" /\ probe[c] \in NativeCPU
        \/ answer[c] = "unsupported" /\ signalled[probe[c]] > 0

\* No call leaves its object file behind, whichever return it takes.
OutputRemoved == \A c \in Callers : output[c] => pc[c] /= "idle"

=============================================================================
