------------------------------ MODULE Process ------------------------------
(***************************************************************************)
(* run() in cmd/cgraphd as the owner of the logger and of tsgo, in the     *)
(* order it has them: NewJSONL, lsp.New, then tool calls that log, then    *)
(* the logger's Close; or, if lsp.New fails, the end of the process, with  *)
(* the logger never closed (log.Fatal).  It may be killed at any time.     *)
(***************************************************************************)
EXTENDS Telemetry, ProviderStart

ASSUME OneProcess == \A d, e \in Daemons : d = e

runVars == <<vars, startVars>>

RunInit == Init /\ StartInit

Running == \E d \in Daemons : phase[d] = "up"

\* The goroutine that is in lsp.New.
Starting(step) == Running /\ step /\ UNCHANGED vars

\* Tools get their provider when lsp.New has returned it, and what is deferred
\* there closes the logger.
Serves == stage = "ready"

Logging ==
    /\ \/ Serves /\ \/ \E e \in Events, d \in Daemons : Log(e, d)
                    \/ \E d \in Daemons : CloseLocks(d)
       \/ \E e \in Events : LogStep(e)
       \/ \E d \in Daemons : NewJSONL(d) \/ CloseFile(d) \/ Ends(d)
       \/ DiskFills \/ DiskFreed
    /\ UNCHANGED startVars

RunNext == Starting(StartNext) \/ Logging

\* New runs whenever it can, its clock does, and so do Log and Close.
RunSpec ==
    /\ RunInit /\ [][RunNext]_runVars
    /\ WF_runVars(Starting(NewStep)) /\ WF_runVars(Starting(Tick))
    /\ \A e \in Events : WF_runVars(LogStep(e) /\ UNCHANGED startVars)
    /\ \A d \in Daemons : WF_runVars(CloseFile(d) /\ UNCHANGED startVars)

-----------------------------------------------------------------------------
(* Properties.                                                             *)

\* New returns, however silent tsgo is, unless the process is killed.
NewReturns == Running ~> (stage \in {"ready", "failed"} \/ ~Running)

\* No call is stuck in Log, whatever becomes of its write and however many log at
\* once, while run() closes the logger too (JSONLLogger.Log).
LogReturns == \A e \in Events : (pc[e] = "lock") ~> (pc[e] = "done")
=============================================================================
