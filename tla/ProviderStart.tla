--------------------------- MODULE ProviderStart ---------------------------
(***************************************************************************)
(* lsp.New with its clocks: tsgo is spawned, the initialize request is     *)
(* issued through call(), which puts its own timeout over the one New      *)
(* asked for, the initialized notification follows, and every failure      *)
(* kills tsgo.  Time is counted in units both timeouts are multiples of.   *)
(***************************************************************************)
EXTENDS Naturals

CONSTANTS
    RequestTimeout,    \* p.timeout, defaultRequestTimeout
    InitializeTimeout  \* initializeTimeout

ASSUME TimeoutsAreOrdered ==
    /\ {RequestTimeout, InitializeTimeout} \subseteq Nat \ {0}
    /\ RequestTimeout < InitializeTimeout

VARIABLES
    stage,
    now,
    ctxEnds,    \* when the context New made ends
    callEnds,   \* when the context call() waits on ends
    tsgo,       \* the subprocess: "none", "runs", "exited" and not reaped, "reaped"
    lost,       \* the reader has ended, and marked the provider closed
    reply,      \* what has come for the initialize request
    failure     \* why New failed

startVars == <<stage, now, ctxEnds, callEnds, tsgo, lost, reply, failure>>

StartTypeOK ==
    /\ stage \in {"spawn", "root", "call", "wait", "notify", "kill", "ready", "failed"}
    /\ now \in 0..InitializeTimeout
    /\ ctxEnds \in 0..InitializeTimeout
    /\ callEnds \in 0..InitializeTimeout
    /\ tsgo \in {"none", "runs", "exited", "reaped"}
    /\ lost \in BOOLEAN /\ reply \in {"none", "result", "error"}
    /\ failure \in {"none", "spawn", "root", "write", "timeout", "error", "eof", "notify"}

StartInit ==
    /\ stage = "spawn" /\ now = 0 /\ ctxEnds = 0 /\ callEnds = 0
    /\ tsgo = "none" /\ lost = FALSE /\ reply = "none" /\ failure = "none"

Earlier(s, t) == IF s < t THEN s ELSE t

Fails(from, why, to) ==
    /\ stage = from
    /\ stage' = to
    /\ failure' = why

-----------------------------------------------------------------------------
(* New.                                                                    *)

SpawnFails ==
    /\ Fails("spawn", "spawn", "failed")
    /\ UNCHANGED <<now, ctxEnds, callEnds, tsgo, lost, reply>>

Spawn ==
    /\ stage = "spawn"
    /\ stage' = "root"
    /\ tsgo' = "runs"
    /\ UNCHANGED <<now, ctxEnds, callEnds, lost, reply, failure>>

RootFails ==
    /\ Fails("root", "root", "kill")
    /\ UNCHANGED <<now, ctxEnds, callEnds, tsgo, lost, reply>>

\* context.WithTimeout(context.Background(), initializeTimeout).
RootResolved ==
    /\ stage = "root"
    /\ stage' = "call"
    /\ ctxEnds' = now + InitializeTimeout
    /\ UNCHANGED <<now, callEnds, tsgo, lost, reply, failure>>

\* A mistake: the request goes out under its own timeout only.
RequestDeadline == now + InitializeTimeout + RequestTimeout

\* call() starts its own timeout once the request is written, under New's.
CallDeadline == Earlier(now + RequestTimeout, ctxEnds)

RequestWritten ==
    /\ stage = "call" /\ tsgo = "runs" /\ ~lost
    /\ stage' = "wait"
    /\ callEnds' = CallDeadline
    /\ UNCHANGED <<now, ctxEnds, tsgo, lost, reply, failure>>

\* EPIPE, or refused because the reader has ended already.
RequestFails ==
    /\ tsgo = "exited" \/ lost
    /\ Fails("call", "write", "kill")
    /\ UNCHANGED <<now, ctxEnds, callEnds, tsgo, lost, reply>>

Initialized ==
    /\ stage = "wait" /\ reply = "result"
    /\ stage' = "notify"
    /\ UNCHANGED <<now, ctxEnds, callEnds, tsgo, lost, reply, failure>>

InitializeRefused ==
    /\ reply = "error"
    /\ Fails("wait", "error", "kill")
    /\ UNCHANGED <<now, ctxEnds, callEnds, tsgo, lost, reply>>

ConnectionLost ==
    /\ lost /\ reply = "none"
    /\ Fails("wait", "eof", "kill")
    /\ UNCHANGED <<now, ctxEnds, callEnds, tsgo, lost, reply>>

\* A mistake: the wait is not bounded.
CallWaitsForever == FALSE

CallTimesOut ==
    /\ now >= callEnds
    /\ Fails("wait", "timeout", "kill")
    /\ UNCHANGED <<now, ctxEnds, callEnds, tsgo, lost, reply>>

Ready ==
    /\ stage = "notify" /\ tsgo = "runs" /\ ~lost
    /\ stage' = "ready"
    /\ UNCHANGED <<now, ctxEnds, callEnds, tsgo, lost, reply, failure>>

NotifyFails ==
    /\ tsgo = "exited" \/ lost
    /\ Fails("notify", "notify", "kill")
    /\ UNCHANGED <<now, ctxEnds, callEnds, tsgo, lost, reply>>

\* A mistake: a failed call leaves tsgo running.
KilledIfStuck == IF failure = "timeout" THEN "reaped" ELSE tsgo

KilledAndWaited == "reaped"

KillAndWait ==
    /\ stage = "kill"
    /\ stage' = "failed"
    /\ tsgo' = KilledAndWaited
    /\ UNCHANGED <<now, ctxEnds, callEnds, lost, reply, failure>>

-----------------------------------------------------------------------------
(* The reader; tsgo and time (external).                                   *)

\* readFrame fails: end of file once tsgo has exited, or a bad frame while it runs.
ReaderEnds ==
    /\ tsgo \in {"runs", "exited"} /\ ~lost
    /\ lost' = TRUE
    /\ UNCHANGED <<stage, now, ctxEnds, callEnds, tsgo, reply, failure>>

Replies(what) ==
    /\ stage = "wait" /\ tsgo = "runs" /\ ~lost /\ reply = "none"
    /\ reply' = what
    /\ UNCHANGED <<stage, now, ctxEnds, callEnds, tsgo, lost, failure>>

Exits ==
    /\ tsgo = "runs"
    /\ tsgo' = "exited"
    /\ UNCHANGED <<stage, now, ctxEnds, callEnds, lost, reply, failure>>

\* New is prompt: time passes only as it waits for the reply, and the timer that
\* ends the wait is on time.
Tick ==
    /\ stage = "wait" /\ now < callEnds
    /\ now' = now + 1
    /\ UNCHANGED <<stage, ctxEnds, callEnds, tsgo, lost, reply, failure>>

-----------------------------------------------------------------------------
NewStep == \/ SpawnFails \/ Spawn \/ RootFails \/ RootResolved
           \/ RequestWritten \/ RequestFails
           \/ Initialized \/ InitializeRefused \/ ConnectionLost \/ CallTimesOut
           \/ Ready \/ NotifyFails \/ KillAndWait

StartNext == \/ NewStep \/ ReaderEnds \/ Exits \/ Tick
             \/ \E what \in {"result", "error"} : Replies(what)

StartSpec == StartInit /\ [][StartNext]_startVars

-----------------------------------------------------------------------------
(* Properties.                                                             *)

\* New fails on no path with tsgo still running, or dead and not reaped.
NoSubprocessLeft == stage = "failed" => tsgo \in {"none", "reaped"}

\* Initialize is given its own, longer time: New gives up on a silent tsgo only
\* when initializeTimeout is over.
InitializeGetsItsTime == failure = "timeout" => now >= ctxEnds
=============================================================================
