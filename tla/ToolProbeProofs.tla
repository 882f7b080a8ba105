--------------------------- MODULE ToolProbeProofs ---------------------------
(***************************************************************************)
(* The cache of LinuxToolProbe and the answers of its callers are sound    *)
(* for every number of callers, every set of probes and every tool.        *)
(*                                                                         *)
(* CacheSound is not inductive: what is stored depends on how the tool     *)
(* ended, so the invariant follows each call through its runs.  It says    *)
(* which runs have passed so far (Progress), how the process can have      *)
(* ended (EndedAs), and what the local `supported' is at the store.        *)
(***************************************************************************)
EXTENDS ToolProbe, TLAPS

\* A value may be memoized or returned for p.
Justified(p, value) ==
    value = Verdict(p) \/ (value = "unsupported" /\ signalled[p] > 0)

\* Every run before the current one has passed.
Progress(c) ==
    /\ pc[c] \in {"lookup", "create"} => step[c] = 1
    /\ pc[c] \in {"start", "running", "classify"} =>
           step[c] <= Steps[probe[c]] /\ step[c] <= PassedSteps[probe[c]] + 1

\* What is known of a tool that has ended.
EndedAs(c) ==
    pc[c] = "classify" =>
        /\ process[c] \in Endings
        /\ process[c] = "passed" => step[c] <= PassedSteps[probe[c]]
        /\ process[c] = "refused" => step[c] > PassedSteps[probe[c]]
        /\ process[c] = "signal" => expired[c] \/ signalled[probe[c]] > 0

StoreOK(c) == pc[c] = "store" => Justified(probe[c], Supported(c))

CallOK(c) == Progress(c) /\ EndedAs(c) /\ StoreOK(c)

\* The inductive invariant.
IInv ==
    /\ TypeOK /\ CacheSound /\ AnswerSound /\ OutputRemoved
    /\ \A c \in Callers : CallOK(c)

-----------------------------------------------------------------------------
\* Every step of the probe keeps the types of its state.
LEMMA TypeStep == TypeOK /\ [Next]_vars => TypeOK'
<1> SUFFICES ASSUME TypeOK, [Next]_vars PROVE TypeOK'
  OBVIOUS
<1> USE ProbeAssumption
<1>1. ASSUME NEW c \in Callers, NEW p \in Probes, Call(c, p) PROVE TypeOK'
  <2>1. /\ pc' \in [Callers -> Locations]
        /\ answer' \in [Callers -> Answers \cup {"none", "error"}]
        /\ output' \in [Callers -> BOOLEAN]
    BY <1>1 DEF Call, Return, TypeOK, Locations, Answers
  <2>2. /\ probe' \in [Callers -> Probes]
        /\ step' \in [Callers -> 1 .. 2]
        /\ process' \in [Callers -> Endings \cup {"none", "running"}]
        /\ expired' \in [Callers -> BOOLEAN]
    BY <1>1 DEF Call, TypeOK
  <2> QED
    BY <1>1, <2>1, <2>2 DEF Call, TypeOK
<1>2. ASSUME NEW c \in Callers, Lookup(c) PROVE TypeOK'
  BY <1>2 DEF Lookup, Return, TypeOK, Locations, Answers
<1>3. ASSUME NEW c \in Callers, CreateOutput(c) PROVE TypeOK'
  BY <1>3 DEF CreateOutput, TypeOK, Locations
<1>4. ASSUME NEW c \in Callers, CreateFails(c) PROVE TypeOK'
  BY <1>4 DEF CreateFails, Return, TypeOK, Locations
<1>5. ASSUME NEW c \in Callers, Start(c) PROVE TypeOK'
  BY <1>5 DEF Start, TypeOK, Locations, Endings
<1>6. ASSUME NEW c \in Callers, Kill(c) PROVE TypeOK'
  BY <1>6 DEF Kill, TypeOK, Locations, Endings
<1>7. ASSUME NEW c \in Callers, Classify(c) PROVE TypeOK'
  <2>1. step' \in [Callers -> 1 .. 2]
    BY <1>7 DEF Classify, TypeOK
  <2> QED
    BY <1>7, <2>1 DEF Classify, Return, TypeOK, Locations
<1>8. ASSUME NEW c \in Callers, Store(c) PROVE TypeOK'
  BY <1>8 DEF Store, Return, Supported, TypeOK, Locations, Answers
<1>9. ASSUME NEW c \in Callers, Finish(c) PROVE TypeOK'
  BY <1>9 DEF Finish, Ending, TypeOK, Locations, Endings
<1>10. ASSUME NEW c \in Callers, Expire(c) PROVE TypeOK'
  BY <1>10 DEF Expire, TypeOK
<1>11. ASSUME NEW c \in Callers, Signal(c) PROVE TypeOK'
  <2>1. process' \in [Callers -> Endings \cup {"none", "running"}]
    BY <1>11 DEF Signal, Ending, TypeOK, Endings
  <2>2. signalled' \in [Probes -> Nat]
    BY <1>11 DEF Signal, TypeOK
  <2> QED
    BY <1>11, <2>1, <2>2 DEF Signal, TypeOK, Locations
<1>12. CASE UNCHANGED vars
  BY <1>12 DEF vars, TypeOK
<1> QED
  BY <1>1, <1>2, <1>3, <1>4, <1>5, <1>6, <1>7, <1>8, <1>9, <1>10, <1>11, <1>12
     DEF Next, Step

-----------------------------------------------------------------------------
\* Every step keeps the inductive invariant.  Call, Lookup and Store are the
\* steps that answer; Classify decides what may be stored.
LEMMA InvStep == IInv /\ [Next]_vars => IInv'
<1> SUFFICES ASSUME IInv, [Next]_vars PROVE IInv'
  OBVIOUS
<1> USE ProbeAssumption
<1>t. TypeOK /\ TypeOK'
  BY TypeStep DEF IInv
<1>1. ASSUME NEW c \in Callers, NEW p \in Probes, Call(c, p) PROVE IInv'
  <2>1. CacheSound' /\ AnswerSound' /\ OutputRemoved'
    BY <1>t, <1>1 DEF Call, Return, IInv, CacheSound, AnswerSound, OutputRemoved, TypeOK, Verdict
  <2>2. ASSUME NEW d \in Callers PROVE CallOK(d)'
    BY <1>t, <1>1 DEF Call, Return, IInv, CallOK, Progress, EndedAs, StoreOK, Justified, Supported, Verdict, TypeOK
  <2> QED
    BY <1>t, <2>1, <2>2 DEF IInv
<1>2. ASSUME NEW c \in Callers, Lookup(c) PROVE IInv'
  <2>1. CacheSound' /\ AnswerSound' /\ OutputRemoved'
    BY <1>t, <1>2 DEF Lookup, Return, IInv, CacheSound, AnswerSound, OutputRemoved, TypeOK, Verdict
  <2>2. ASSUME NEW d \in Callers PROVE CallOK(d)'
    BY <1>t, <1>2 DEF Lookup, Return, IInv, CallOK, Progress, EndedAs, StoreOK, Justified, Supported, Verdict, TypeOK
  <2> QED
    BY <1>t, <2>1, <2>2 DEF IInv
<1>3. ASSUME NEW c \in Callers, CreateOutput(c) PROVE IInv'
  <2>1. CacheSound' /\ AnswerSound' /\ OutputRemoved'
    BY <1>t, <1>3 DEF CreateOutput, IInv, CacheSound, AnswerSound, OutputRemoved, TypeOK, Verdict
  <2>2. ASSUME NEW d \in Callers PROVE CallOK(d)'
    BY <1>t, <1>3 DEF CreateOutput, IInv, CallOK, Progress, EndedAs, StoreOK, Justified, Supported, Verdict, TypeOK
  <2> QED
    BY <1>t, <2>1, <2>2 DEF IInv
<1>4. ASSUME NEW c \in Callers, CreateFails(c) PROVE IInv'
  <2>1. CacheSound' /\ AnswerSound' /\ OutputRemoved'
    BY <1>t, <1>4 DEF CreateFails, Return, IInv, CacheSound, AnswerSound, OutputRemoved, TypeOK, Verdict
  <2>2. ASSUME NEW d \in Callers PROVE CallOK(d)'
    BY <1>t, <1>4 DEF CreateFails, Return, IInv, CallOK, Progress, EndedAs, StoreOK, Justified, Supported, Verdict, TypeOK
  <2> QED
    BY <1>t, <2>1, <2>2 DEF IInv
<1>5. ASSUME NEW c \in Callers, Start(c) PROVE IInv'
  <2>1. CacheSound' /\ AnswerSound' /\ OutputRemoved'
    BY <1>t, <1>5 DEF Start, IInv, CacheSound, AnswerSound, OutputRemoved, TypeOK, Verdict
  <2>2. ASSUME NEW d \in Callers PROVE CallOK(d)'
    BY <1>t, <1>5 DEF Start, IInv, CallOK, Progress, EndedAs, StoreOK, Justified, Supported, Verdict, TypeOK
  <2> QED
    BY <1>t, <2>1, <2>2 DEF IInv
<1>6. ASSUME NEW c \in Callers, Kill(c) PROVE IInv'
  <2>1. CacheSound' /\ AnswerSound' /\ OutputRemoved'
    BY <1>t, <1>6 DEF Kill, IInv, CacheSound, AnswerSound, OutputRemoved, TypeOK, Verdict
  <2>2. ASSUME NEW d \in Callers PROVE CallOK(d)'
    BY <1>t, <1>6 DEF Kill, IInv, CallOK, Progress, EndedAs, StoreOK, Justified, Supported, Verdict, TypeOK
  <2> QED
    BY <1>t, <2>1, <2>2 DEF IInv
<1>7. ASSUME NEW c \in Callers, Classify(c) PROVE IInv'
  <2>1. CacheSound' /\ AnswerSound' /\ OutputRemoved'
    BY <1>t, <1>7 DEF Classify, Return, IInv, CacheSound, AnswerSound, OutputRemoved, TypeOK, Verdict
  <2>2. ASSUME NEW d \in Callers PROVE CallOK(d)'
    <3>1. CASE d /= c
      BY <1>t, <1>7, <3>1
         DEF Classify, Return, IInv, CallOK, Progress, EndedAs, StoreOK, Justified,
             Supported, Verdict, TypeOK
    <3>2. CASE d = c
      <4>1. /\ pc[c] = "classify" /\ CallOK(c)
            /\ Steps[probe[c]] \in 1 .. 2 /\ PassedSteps[probe[c]] \in 0 .. 2
            /\ PassedSteps[probe[c]] <= Steps[probe[c]]
            /\ step[c] \in 1 .. 2
        BY <1>t, <1>7 DEF Classify, IInv, TypeOK
      <4>2. CASE RunFailed(c) /\ Return(c, "error")
        BY <1>t, <1>7, <3>2, <4>2 DEF Return, CallOK, Progress, EndedAs, StoreOK, TypeOK
      <4>3. CASE /\ ~RunFailed(c)
                 /\ process[c] = "passed" /\ step[c] < Steps[probe[c]]
                 /\ step' = [step EXCEPT ![c] = @ + 1]
                 /\ pc' = [pc EXCEPT ![c] = "start"]
        BY <1>t, <1>7, <3>2, <4>1, <4>3
           DEF Classify, CallOK, Progress, EndedAs, StoreOK, TypeOK
      <4>4. CASE /\ ~RunFailed(c)
                 /\ process[c] /= "passed" \/ step[c] = Steps[probe[c]]
                 /\ pc' = [pc EXCEPT ![c] = "store"]
        <5>1. Justified(probe[c], Supported(c))
          BY <4>1, <4>4
             DEF RunFailed, CallOK, Progress, EndedAs, Endings, Justified, Supported, Verdict
        <5>2. StoreOK(c)'
          BY <1>t, <1>7, <5>1 DEF Classify, StoreOK, Justified, Supported, Verdict
        <5> QED
          BY <1>t, <3>2, <4>4, <5>2 DEF CallOK, Progress, EndedAs, TypeOK
      <4> QED
        BY <1>7, <4>2, <4>3, <4>4 DEF Classify
    <3> QED
      BY <3>1, <3>2
  <2> QED
    BY <1>t, <2>1, <2>2 DEF IInv
<1>8. ASSUME NEW c \in Callers, Store(c) PROVE IInv'
  <2>1. Justified(probe[c], Supported(c)) /\ Supported(c) \in Answers
    BY <1>8 DEF Store, IInv, CallOK, StoreOK, Supported, Answers
  <2>2. CacheSound'
    BY <1>t, <1>8, <2>1 DEF Store, IInv, CacheSound, Justified, TypeOK, Verdict
  <2>3. AnswerSound'
    BY <1>t, <1>8, <2>1 DEF Store, Return, IInv, AnswerSound, Justified, TypeOK, Verdict
  <2>4. OutputRemoved'
    BY <1>t, <1>8 DEF Store, Return, IInv, OutputRemoved, TypeOK
  <2>5. ASSUME NEW d \in Callers PROVE CallOK(d)'
    BY <1>t, <1>8
       DEF Store, Return, IInv, CallOK, Progress, EndedAs, StoreOK, Justified,
           Supported, Verdict, TypeOK
  <2> QED
    BY <1>t, <2>2, <2>3, <2>4, <2>5 DEF IInv
<1>9. ASSUME NEW c \in Callers, Finish(c) PROVE IInv'
  <2>1. CacheSound' /\ AnswerSound' /\ OutputRemoved'
    BY <1>t, <1>9 DEF Finish, Ending, Endings, IInv, CacheSound, AnswerSound, OutputRemoved, TypeOK, Verdict
  <2>2. ASSUME NEW d \in Callers PROVE CallOK(d)'
    BY <1>t, <1>9 DEF Finish, Ending, Endings, IInv, CallOK, Progress, EndedAs, StoreOK, Justified, Supported, Verdict, TypeOK
  <2> QED
    BY <1>t, <2>1, <2>2 DEF IInv
<1>10. ASSUME NEW c \in Callers, Expire(c) PROVE IInv'
  <2>1. CacheSound' /\ AnswerSound' /\ OutputRemoved'
    BY <1>t, <1>10 DEF Expire, IInv, CacheSound, AnswerSound, OutputRemoved, TypeOK, Verdict
  <2>2. ASSUME NEW d \in Callers PROVE CallOK(d)'
    BY <1>t, <1>10 DEF Expire, IInv, CallOK, Progress, EndedAs, StoreOK, Justified, Supported, Verdict, TypeOK
  <2> QED
    BY <1>t, <2>1, <2>2 DEF IInv
<1>11. ASSUME NEW c \in Callers, Signal(c) PROVE IInv'
  <2>1. CacheSound' /\ AnswerSound' /\ OutputRemoved'
    BY <1>t, <1>11 DEF Signal, Ending, Endings, IInv, CacheSound, AnswerSound, OutputRemoved, TypeOK, Verdict
  <2>2. ASSUME NEW d \in Callers PROVE CallOK(d)'
    BY <1>t, <1>11 DEF Signal, Ending, Endings, IInv, CallOK, Progress, EndedAs, StoreOK, Justified, Supported, Verdict, TypeOK
  <2> QED
    BY <1>t, <2>1, <2>2 DEF IInv
<1>12. CASE UNCHANGED vars
  BY <1>12
     DEF vars, IInv, TypeOK, CacheSound, AnswerSound, OutputRemoved, CallOK, Progress,
         EndedAs, StoreOK, Justified, Supported, Verdict
<1> QED
  BY <1>1, <1>2, <1>3, <1>4, <1>5, <1>6, <1>7, <1>8, <1>9, <1>10, <1>11, <1>12
     DEF Next, Step

\* The invariant holds from the start and for ever.
LEMMA Invariance == Spec => []IInv
<1>1. Init => IInv
  BY ProbeAssumption
     DEF Init, IInv, TypeOK, CacheSound, AnswerSound, OutputRemoved, CallOK, Progress,
         EndedAs, StoreOK, Locations, Answers, Endings
<1> QED
  BY <1>1, InvStep, PTL DEF Spec

-----------------------------------------------------------------------------
\* The cache and the callers' locals always have their types.
THEOREM ProbeTypeCorrect == Spec => []TypeOK
<1>1. IInv => TypeOK
  BY DEF IInv
<1> QED
  BY <1>1, Invariance, PTL

\* For every tool and any number of overlapping calls, the memo of
\* LinuxToolProbe holds the tool's verdict; deadlines, truncated output and
\* failed starts never reach it, and a foreign signal can only turn
\* "supported" into "unsupported".
THEOREM CacheIsSound == Spec => []CacheSound
<1>1. IInv => CacheSound
  BY DEF IInv
<1> QED
  BY <1>1, Invariance, PTL

\* For every tool and any number of overlapping calls, the answer a caller
\* of LinuxToolProbe gets, measured or memoized, is the tool's verdict on
\* the probe it asked about, with the same exception.
THEOREM AnswersAreSound == Spec => []AnswerSound
<1>1. IInv => AnswerSound
  BY DEF IInv
<1> QED
  BY <1>1, Invariance, PTL
=============================================================================
