------------------------------ MODULE QemuBoot ------------------------------
(***************************************************************************)
(* The boot test driver (e2e/cmd/qemuboot, run and stopProcess).  Four     *)
(* actors run concurrently:                                                *)
(*                                                                         *)
(*   - QEMU writes serial bytes into a pipe and may exit, or hang          *)
(*     for ever;                                                           *)
(*   - the copier, the goroutine os/exec starts for cmd.Stdout, moves      *)
(*     bytes from the pipe into the markerWriter in chunks of any size     *)
(*     (one goroutine, since Stdout and Stderr are the same writer);       *)
(*   - the waiter, the goroutine that sends cmd.Wait() to the buffered     *)
(*     channel `done';                                                     *)
(*   - run itself, which selects over found, done and the timer, then      *)
(*     stops the process.                                                  *)
(*                                                                         *)
(* QEMU, the pipe, the copier and cmd.Wait belong to the operating system  *)
(* and to os/exec.                                                         *)
(***************************************************************************)
EXTENDS MarkerWriter

CONSTANT MaxEmitted   \* bound: bytes QEMU writes

ASSUME MaxEmittedAssumption == MaxEmitted \in Nat /\ MaxEmitted <= MaxWritten

VARIABLES
    qemu,       \* "running", "clean" (status 0), "failed" (other), "killed"
    emitted,    \* history: the bytes QEMU wrote
    pipe,       \* the bytes written and not yet copied
    copier,     \* "copying", "eof" or "error" (the output refused bytes)
    done,       \* the channel: "empty", or the value of cmd.Wait in it, or "taken"
    timer,      \* timer.C holds a tick
    pc,         \* run: "select", "kill", "reap" or "returned"
    chosen,     \* the case the select took
    result      \* what run returned

processVars == <<qemu, emitted, pipe, copier, done>>
runVars == <<timer, pc, chosen, result>>
bootVars == <<writerVars, processVars, runVars>>

WaitValues == {"nil", "exitError", "copyError"}
Cases == {"found", "done", "timer"}
Results == {"pass", "exited", "timeout", "stopFailed"}

BootInit ==
    /\ WriterInit
    /\ qemu = "running" /\ emitted = <<>> /\ pipe = <<>>
    /\ copier = "copying" /\ done = "empty"
    /\ timer = FALSE /\ pc = "select" /\ chosen = "none" /\ result = "none"

-----------------------------------------------------------------------------
(***************************************************************************)
(* QEMU and os/exec.                                                       *)
(***************************************************************************)
Emit(b) ==
    /\ qemu = "running" /\ copier /= "error"
    /\ Len(emitted) < MaxEmitted
    /\ emitted' = Append(emitted, b)
    /\ pipe' = Append(pipe, b)
    /\ UNCHANGED <<writerVars, qemu, copier, done, runVars>>

Exit(status) ==
    /\ qemu = "running"
    /\ qemu' = status
    /\ UNCHANGED <<writerVars, emitted, pipe, copier, done, runVars>>

\* The copier hands the next n bytes to the writer.
Copy(n) ==
    /\ copier = "copying" /\ n \in 1 .. Len(pipe)
    /\ Write(SubSeq(pipe, 1, n), n)
    /\ pipe' = SubSeq(pipe, n + 1, Len(pipe))
    /\ UNCHANGED <<qemu, emitted, copier, done, runVars>>

\* The output accepts only `taken' of the n bytes: the copier stops and the
\* read end of the pipe is closed.
CopyFails(n, taken) ==
    /\ copier = "copying" /\ n \in 1 .. Len(pipe) /\ taken \in 0 .. n - 1
    /\ Write(SubSeq(pipe, 1, n), taken)
    /\ pipe' = <<>>
    /\ copier' = "error"
    /\ UNCHANGED <<qemu, emitted, done, runVars>>

\* End of file: the process is gone and the pipe is drained.
CopyEnds ==
    /\ copier = "copying" /\ qemu /= "running" /\ pipe = <<>>
    /\ copier' = "eof"
    /\ UNCHANGED <<writerVars, qemu, emitted, pipe, done, runVars>>

\* cmd.Wait: the exit status wins over an error of the copier.
WaitValue ==
    IF qemu /= "clean" THEN "exitError"
    ELSE IF copier = "error" THEN "copyError" ELSE "nil"

\* The waiter goroutine: Wait returns once the process is reaped and the
\* copier has ended; the channel has room for the value.
Wait ==
    /\ qemu /= "running" /\ copier /= "copying" /\ done = "empty"
    /\ done' = WaitValue
    /\ UNCHANGED <<writerVars, qemu, emitted, pipe, copier, runVars>>

-----------------------------------------------------------------------------
(***************************************************************************)
(* run.                                                                    *)
(***************************************************************************)
\* The timer fires at any moment, before or after the other events.
Tick ==
    /\ pc = "select" /\ ~timer
    /\ timer' = TRUE
    /\ UNCHANGED <<writerVars, processVars, pc, chosen, result>>

\* When several cases are ready the select takes any of them.
SelectFound ==
    /\ pc = "select" /\ found
    /\ pc' = "kill" /\ chosen' = "found"
    /\ UNCHANGED <<writerVars, processVars, timer, result>>

\* Fault: the exit is reported without asking MarkerFound again.
SelectDoneUnchecked ==
    /\ pc = "select" /\ done \in WaitValues
    /\ done' = "taken" /\ chosen' = "done" /\ pc' = "returned"
    /\ result' = "exited"
    /\ UNCHANGED <<writerVars, qemu, emitted, pipe, copier, timer>>

\* QEMU ended first; the marker may have been among its last bytes.
SelectDone ==
    /\ pc = "select" /\ done \in WaitValues
    /\ done' = "taken" /\ chosen' = "done" /\ pc' = "returned"
    /\ result' = IF matched THEN "pass" ELSE "exited"
    /\ UNCHANGED <<writerVars, qemu, emitted, pipe, copier, timer>>

SelectTimer ==
    /\ pc = "select" /\ timer
    /\ pc' = "kill" /\ chosen' = "timer"
    /\ UNCHANGED <<writerVars, processVars, timer, result>>

\* Fault: after the marker run returns without reaping the process.
KillAndLeave ==
    /\ pc = "kill"
    /\ qemu' = IF qemu = "running" THEN "killed" ELSE qemu
    /\ pc' = "returned"
    /\ result' = IF chosen = "found" THEN "pass" ELSE "timeout"
    /\ UNCHANGED <<writerVars, emitted, pipe, copier, done, timer, chosen>>

\* stopProcess: Process.Kill; a process that is already gone is no error.
Kill ==
    /\ pc = "kill"
    /\ qemu' = IF qemu = "running" THEN "killed" ELSE qemu
    /\ pc' = "reap"
    /\ UNCHANGED <<writerVars, emitted, pipe, copier, done, timer, chosen, result>>

\* stopProcess: <-done; an exit status is no error, a copy error is, and it
\* fails the run after the marker too.
Reap ==
    /\ pc = "reap" /\ done \in WaitValues
    /\ done' = "taken" /\ pc' = "returned"
    /\ result' = IF chosen = "timer" THEN "timeout"
                 ELSE IF done = "copyError" THEN "stopFailed" ELSE "pass"
    /\ UNCHANGED <<writerVars, qemu, emitted, pipe, copier, timer, chosen>>

-----------------------------------------------------------------------------
BootNext ==
    \/ \E b \in Bytes : Emit(b)
    \/ \E status \in {"clean", "failed"} : Exit(status)
    \/ \E n \in 1 .. MaxEmitted : Copy(n)
    \/ \E n \in 1 .. MaxEmitted : \E taken \in 0 .. n - 1 : CopyFails(n, taken)
    \/ CopyEnds
    \/ Wait
    \/ Tick
    \/ SelectFound
    \/ SelectDone
    \/ SelectTimer
    \/ Kill
    \/ Reap

BootSpec == BootInit /\ [][BootNext]_bootVars

\* The timer fires, goroutines run, and os/exec reads what it can read.
\* Nothing is assumed of QEMU: it may hang silently.
BootFairness ==
    /\ WF_bootVars(Tick)
    /\ WF_bootVars(\E n \in 1 .. MaxEmitted : Copy(n))
    /\ WF_bootVars(CopyEnds)
    /\ WF_bootVars(Wait)
    /\ WF_bootVars(SelectFound \/ SelectDone \/ SelectTimer)
    /\ WF_bootVars(Kill)
    /\ WF_bootVars(Reap)

FairBootSpec == BootSpec /\ BootFairness

-----------------------------------------------------------------------------
(***************************************************************************)
(* Properties.                                                             *)
(***************************************************************************)
\* The test passes only if the guest really printed the marker, whichever
\* case of the select was taken and however the output was cut.
PassMeansPrinted == result = "pass" => BytesContain(emitted, Marker)

\* "QEMU exited before marker" is said only when the marker is nowhere in
\* what QEMU wrote: a guest that prints the marker and exits at once still
\* passes, since Wait drains the pipe and MarkerFound is asked again.
ExitedMeansAbsent ==
    result = "exited" /\ copier /= "error" => ~BytesContain(emitted, Marker)

\* Once the marker was matched and the output kept accepting bytes, only the
\* expired timer can fail the test: the kill itself (an exit status of
\* cmd.Wait) is never reported as an error.
StopIsNoFailure ==
    pc = "returned" /\ matched /\ copier /= "error" => result = "pass" \/ chosen = "timer"

\* The verdict of the driver is what happened.
VerdictIsTrue == PassMeansPrinted /\ ExitedMeansAbsent /\ StopIsNoFailure

\* run returns: a silent or hanging guest is stopped by the timer, and the
\* wait for `done' in stopProcess ends.  QEMU is then dead and reaped, so no
\* test leaves a virtual machine behind.
RunReturns ==
    <>(pc = "returned" /\ qemu /= "running" /\ copier /= "copying" /\ done = "taken")
=============================================================================
