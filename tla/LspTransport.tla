---------------------------- MODULE LspTransport ----------------------------
(***************************************************************************)
(* The JSON-RPC client of internal/lsp: goroutines that issue requests     *)
(* (call), goroutines that send notifications (notify), goroutines that    *)
(* close the Provider (Close), the one background reader (readLoop), the   *)
(* two pipes, and tsgo at the far end of them (external).                  *)
(*                                                                         *)
(* A critical section under pendingMu is one step: nothing blocks inside   *)
(* it.  writeMu is explicit, because a pipe write blocks while it is held. *)
(* A frame is two writes, its header and its body.                         *)
(***************************************************************************)
EXTENDS Naturals, Sequences, FiniteSets

CONSTANTS
    Calls,          \* invocations of call() by tool handlers (or by New)
    Notifiers,      \* invocations of notify() by ensureOpen (or by New)
    Closers,        \* invocations of Close()
    Reader,         \* the goroutine that runs readLoop
    PipeCap,        \* writes the stdin pipe buffers before a writer blocks
    StdoutCap,      \* frames the stdout pipe buffers before tsgo blocks
    MaxUnsolicited, \* bound: messages tsgo sends that answer no request
    None

Invocations == Calls \cup Closers   \* Close issues one call(), "shutdown"
Writers == Invocations \cup Notifiers \cup {Reader}

ASSUME DistinctActors ==
    /\ Calls \cap Closers = {}
    /\ Notifiers \cap Invocations = {}
    /\ Reader \notin Invocations \cup Notifiers
    /\ None \notin Writers

ASSUME CapacitiesAreNaturals ==
    PipeCap \in Nat /\ StdoutCap \in Nat /\ MaxUnsolicited \in Nat

VARIABLES
    pc,             \* where each goroutine stands
    nextID, id,     \* the id counter, and the id each invocation drew (0: none)
    pending,        \* invocations with an entry in the map, under key id[p]
    closed, connErr,
    chanBuf,        \* the message in an invocation's one-place channel
    chanClosed,     \* invocations whose channel is closed
    outcome, answer,\* how call() ended; the request its response was for
    writeMu,        \* holder of the write lock
    stdin, stdinClosed, stdout, stdoutClosed,
    target, held,   \* readLoop's local ch and m
    alive,          \* tsgo runs
    inbox,          \* requests tsgo has read and not answered
    unsolicited, panicked

table    == <<nextID, id, pending, closed, connErr>>
channels == <<chanBuf, chanClosed>>
results  == <<outcome, answer>>
stdinEnd  == <<writeMu, stdin, stdinClosed>>
stdoutEnd == <<stdout, stdoutClosed>>
readerLocals == <<target, held>>
server   == <<alive, inbox, unsolicited>>
pipes    == <<stdinEnd, stdoutEnd>>
peers    == <<readerLocals, server, panicked>>
client   == <<table, channels, results>>
vars == <<pc, client, pipes, peers>>

Moves(p, from, to) == pc[p] = from /\ pc' = [pc EXCEPT ![p] = to]

-----------------------------------------------------------------------------
(* Types.                                                                  *)

CallLabels  == {"call", "lock", "header", "body", "wait", "cleanup"}
CloseLabels == {"start", "notify", "closeStdin", "exitWait", "release"}
Labels      == CallLabels \cup CloseLabels \cup {"read", "send", "done"}
Outcomes    == {"none", "refused", "answered", "released", "timeout", "writeErr"}
Causes      == {None, "eof", "providerClosed"}
Writes      == [part : {"header", "body"},
                kind : {"request", "notification", "reply"}, from : Writers]
Frames      == [kind : {"response", "request", "notification", "badframe"},
                src : Invocations \cup {None}]

TypeOK ==
    /\ pc \in [Writers -> Labels]
    /\ nextID \in Nat /\ id \in [Invocations -> Nat]
    /\ pending \subseteq Invocations /\ closed \in BOOLEAN /\ connErr \in Causes
    /\ chanBuf \in [Invocations -> Invocations \cup {None}]
    /\ chanClosed \subseteq Invocations
    /\ outcome \in [Invocations -> Outcomes]
    /\ answer \in [Invocations -> Invocations \cup {None}]
    /\ writeMu \in Writers \cup {None}
    /\ stdin \in Seq(Writes) /\ stdout \in Seq(Frames)
    /\ {stdinClosed, stdoutClosed, alive, panicked} \subseteq BOOLEAN
    /\ {target, held} \subseteq Invocations \cup {None}
    /\ inbox \subseteq Invocations /\ unsolicited \in Nat

Init ==
    /\ pc = [p \in Writers |->
               CASE p = Reader       -> "read"
                 [] p \in Calls      -> "call"
                 [] p \in Notifiers  -> "notify"
                 [] p \in Closers    -> "start"]
    /\ nextID = 0 /\ id = [p \in Invocations |-> 0]
    /\ pending = {} /\ closed = FALSE /\ connErr = None
    /\ chanBuf = [p \in Invocations |-> None] /\ chanClosed = {}
    /\ outcome = [p \in Invocations |-> "none"]
    /\ answer = [p \in Invocations |-> None]
    /\ writeMu = None /\ stdin = <<>> /\ stdinClosed = FALSE
    /\ stdout = <<>> /\ stdoutClosed = FALSE
    /\ target = None /\ held = None
    /\ alive = TRUE /\ inbox = {} /\ unsolicited = 0 /\ panicked = FALSE

-----------------------------------------------------------------------------
(* call.                                                                   *)

\* A mistake: the key is drawn from the entries in use, so it is drawn again.
RecycledKey == Cardinality(pending) + 1

\* The key of the next entry of the pending map.
NextKey == nextID + 1

\* The entry a key finds: at most one, for the map has one value per key.
EntriesAt(key) == {q \in pending : id[q] = key}

\* Where a goroutine goes when its call() returns.
AfterCall(p) == IF p \in Closers THEN "notify" ELSE "done"

\* A mistake: call() does not look at closed.
AdmitsAlways == TRUE

\* call() looks at closed in the critical section that registers.
Admits == ~closed

CallRefused(p) ==
    /\ ~Admits
    /\ Moves(p, "call", AfterCall(p))
    /\ outcome' = [outcome EXCEPT ![p] = "refused"]
    /\ UNCHANGED <<table, channels, answer, pipes, peers>>

CallRegister(p) ==
    /\ Admits
    /\ Moves(p, "call", "lock")
    /\ nextID' = nextID + 1
    /\ id' = [id EXCEPT ![p] = NextKey]
    /\ pending' = (pending \ EntriesAt(NextKey)) \cup {p}
    /\ UNCHANGED <<closed, connErr, channels, results, pipes, peers>>

Return(p, how) ==
    /\ Moves(p, "wait", "cleanup")
    /\ outcome' = [outcome EXCEPT ![p] = how]

CallReceive(p) ==
    /\ Return(p, "answered")
    /\ chanBuf[p] # None
    /\ answer' = [answer EXCEPT ![p] = chanBuf[p]]
    /\ chanBuf' = [chanBuf EXCEPT ![p] = None]
    /\ UNCHANGED <<table, chanClosed, pipes, peers>>

\* A closed channel yields what it still buffers first.
CallReleased(p) ==
    /\ Return(p, "released")
    /\ p \in chanClosed
    /\ chanBuf[p] = None
    /\ UNCHANGED <<table, channels, answer, pipes, peers>>

\* A mistake: the wait is not bounded.
CallWaitsForever(p) == FALSE

\* reqCtx ends: its timeout elapses or the caller's ctx is cancelled.
CallTimeout(p) ==
    /\ Return(p, "timeout")
    /\ UNCHANGED <<table, channels, answer, pipes, peers>>

\* A mistake: only an answered call takes its entry out.
WithoutAnsweredEntry(p) ==
    IF outcome[p] = "answered" THEN pending \ EntriesAt(id[p]) ELSE pending

WithoutEntry(p) == pending \ EntriesAt(id[p])

\* A mistake: the caller closes its channel when it leaves.
CallDeleteCloses(p) ==
    /\ Moves(p, "cleanup", AfterCall(p))
    /\ pending' = WithoutEntry(p)
    /\ chanClosed' = chanClosed \cup {p}
    /\ UNCHANGED <<nextID, id, closed, connErr, chanBuf, results, pipes, peers>>

\* The deferred delete, by key.
CallDelete(p) ==
    /\ Moves(p, "cleanup", AfterCall(p))
    /\ pending' = WithoutEntry(p)
    /\ UNCHANGED <<nextID, id, closed, connErr, channels, results, pipes, peers>>

-----------------------------------------------------------------------------
(* notify, and writeMessage, which call, notify and readLoop share.        *)

NotifyRefused(p) ==
    /\ closed
    /\ Moves(p, "notify", IF p \in Closers THEN "closeStdin" ELSE "done")
    /\ UNCHANGED <<client, pipes, peers>>

NotifyAdmitted(p) ==
    /\ ~closed
    /\ Moves(p, "notify", "lock")
    /\ UNCHANGED <<client, pipes, peers>>

\* A mistake: a notification goes out with an id, as a request does.
SendingWithId(p) == IF p = Reader THEN "reply" ELSE "request"

\* What a goroutine in writeMessage is sending.
Sending(p) ==
    CASE p = Reader -> "reply"
      [] p \in Invocations /\ outcome[p] = "none" -> "request"
      [] OTHER -> "notification"

AfterWrite(p) ==
    CASE p = Reader -> "read"
      [] p \in Notifiers -> "done"
      [] p \in Invocations /\ outcome[p] = "none" -> "wait"
      [] OTHER -> "closeStdin"

\* A mistake: writeMessage takes no lock.
LockIgnored == TRUE

LockFree == writeMu = None

AcquireWrite(p) ==
    /\ LockFree
    /\ Moves(p, "lock", "header")
    /\ writeMu' = p
    /\ UNCHANGED <<client, stdin, stdinClosed, stdoutEnd, peers>>

Write(p, part) ==
    /\ ~stdinClosed /\ alive
    /\ Len(stdin) < PipeCap
    /\ stdin' = Append(stdin, [part |-> part, kind |-> Sending(p), from |-> p])

WriteHeader(p) ==
    /\ Moves(p, "header", "body")
    /\ Write(p, "header")
    /\ UNCHANGED <<client, writeMu, stdinClosed, stdoutEnd, peers>>

WriteBody(p) ==
    /\ Moves(p, "body", AfterWrite(p))
    /\ Write(p, "body")
    /\ writeMu' = None
    /\ UNCHANGED <<client, stdinClosed, stdoutEnd, peers>>

\* EPIPE once tsgo is gone, or the write end closed under the writer.
WriteFails(p) ==
    /\ stdinClosed \/ ~alive
    /\ pc[p] \in {"header", "body"}
    /\ IF Sending(p) = "request"
       THEN /\ pc' = [pc EXCEPT ![p] = "cleanup"]
            /\ outcome' = [outcome EXCEPT ![p] = "writeErr"]
       ELSE /\ pc' = [pc EXCEPT ![p] = AfterWrite(p)]
            /\ UNCHANGED outcome
    /\ writeMu' = None
    /\ UNCHANGED <<table, channels, answer, stdin, stdinClosed, stdoutEnd, peers>>

-----------------------------------------------------------------------------
(* shutdownPending and Close.                                              *)

\* A mistake: a second cause overwrites the first.
ShutdownPendingAgain(cause) ==
    /\ closed' = TRUE
    /\ connErr' = cause
    /\ chanClosed' = chanClosed \cup pending
    /\ pending' = {}
    /\ UNCHANGED <<nextID, id>>

ShutdownPending(cause) ==
    IF closed THEN UNCHANGED <<table, chanClosed>>
    ELSE /\ closed' = TRUE
         /\ connErr' = cause
         /\ chanClosed' = chanClosed \cup pending
         /\ pending' = {}
         /\ UNCHANGED <<nextID, id>>

\* alreadyClosed is read here and not again.
CloseStart(p) ==
    /\ Moves(p, "start", IF closed THEN "closeStdin" ELSE "call")
    /\ UNCHANGED <<client, pipes, peers>>

CloseStdin(p) ==
    /\ Moves(p, "closeStdin", "exitWait")
    /\ stdinClosed' = TRUE
    /\ UNCHANGED <<client, writeMu, stdin, stdoutEnd, peers>>

\* tsgo ends: its unread input goes with it.
Die == alive /\ alive' = FALSE /\ inbox' = {} /\ stdin' = <<>>

\* A mistake: Close waits for tsgo to exit on its own.
CloseNeverKills(p) == FALSE

\* exitWait is over and tsgo still runs.
CloseKill(p) ==
    /\ pc[p] = "exitWait"
    /\ Die
    /\ UNCHANGED <<pc, client, writeMu, stdinClosed, stdoutEnd, readerLocals,
                   unsolicited, panicked>>

\* cmd.Wait returns: it closes our end of stdout.
CloseWaited(p) ==
    /\ ~alive
    /\ Moves(p, "exitWait", "release")
    /\ stdoutClosed' = TRUE
    /\ UNCHANGED <<client, stdinEnd, stdout, peers>>

CloseRelease(p) ==
    /\ Moves(p, "release", "done")
    /\ ShutdownPending("providerClosed")
    /\ UNCHANGED <<chanBuf, results, pipes, peers>>

-----------------------------------------------------------------------------
(* readLoop.                                                               *)

Receives(kind) == stdout # <<>> /\ Head(stdout).kind = kind
Consume == stdout' = Tail(stdout) /\ UNCHANGED stdoutClosed

\* A response: pendingMu is held for the lookup only.
ReaderResponse ==
    /\ Receives("response")
    /\ Consume
    /\ LET src == Head(stdout).src
           found == EntriesAt(id[src]) IN
       IF found = {} THEN Moves(Reader, "read", "read") /\ UNCHANGED readerLocals
       ELSE /\ Moves(Reader, "read", "send")
            /\ target' = CHOOSE q \in found : TRUE
            /\ held' = src
    /\ UNCHANGED <<client, stdinEnd, server, panicked>>

\* A mistake: an unbuffered channel takes a message from a waiting caller only.
ChannelRendezvous(p) == chanBuf[p] = None /\ pc[p] = "wait"

\* The channel has room for one message, whether or not anybody waits on it.
ChannelHasRoom(p) == chanBuf[p] = None

\* ch <- &m, no lock held; a full channel blocks the reader.
ReaderSend ==
    /\ Moves(Reader, "send", "read")
    /\ target \notin chanClosed
    /\ ChannelHasRoom(target)
    /\ chanBuf' = [chanBuf EXCEPT ![target] = held]
    /\ target' = None /\ held' = None
    /\ UNCHANGED <<table, chanClosed, results, pipes, server, panicked>>

ReaderSendPanics ==
    /\ pc[Reader] = "send"
    /\ target \in chanClosed
    /\ panicked' = TRUE
    /\ UNCHANGED <<pc, client, pipes, readerLocals, server>>

\* A request of the server's: answered MethodNotFound through writeMessage.
ReaderServerRequest ==
    /\ Receives("request")
    /\ Consume
    /\ Moves(Reader, "read", "lock")
    /\ UNCHANGED <<client, stdinEnd, peers>>

\* A notification, or a frame whose JSON does not parse.
ReaderIgnores ==
    /\ Receives("notification")
    /\ Consume
    /\ Moves(Reader, "read", "read")
    /\ UNCHANGED <<client, stdinEnd, peers>>

\* readFrame fails: a bad header, end of file, or the read end closed by Wait.
ReaderFails ==
    /\ Receives("badframe") \/ stdoutClosed \/ (~alive /\ stdout = <<>>)
    /\ Moves(Reader, "read", "done")
    /\ ShutdownPending("eof")
    /\ UNCHANGED <<chanBuf, results, pipes, peers>>

-----------------------------------------------------------------------------
(* tsgo (external): it reads when it likes, answers in any order and at    *)
(* most once, pushes messages of its own, and may exit at any time.        *)

ServerRead ==
    /\ alive
    /\ Len(stdin) >= 2
    /\ stdin' = SubSeq(stdin, 3, Len(stdin))
    /\ inbox' = IF stdin[2].kind = "request" THEN inbox \cup {stdin[2].from}
                                             ELSE inbox
    /\ UNCHANGED <<pc, client, writeMu, stdinClosed, stdoutEnd, readerLocals,
                   alive, unsolicited, panicked>>

ServerSends(kind, src) ==
    /\ alive
    /\ ~stdoutClosed
    /\ Len(stdout) < StdoutCap
    /\ stdout' = Append(stdout, [kind |-> kind, src |-> src])

ServerAnswer(p) ==
    /\ p \in inbox
    /\ ServerSends("response", p)
    /\ inbox' = inbox \ {p}
    /\ UNCHANGED <<pc, client, stdinEnd, stdoutClosed, readerLocals, alive,
                   unsolicited, panicked>>

ServerPush(kind) ==
    /\ unsolicited < MaxUnsolicited
    /\ unsolicited' = unsolicited + 1
    /\ ServerSends(kind, None)
    /\ UNCHANGED <<pc, client, stdinEnd, stdoutClosed, readerLocals, alive,
                   inbox, panicked>>

ServerExit ==
    /\ Die
    /\ UNCHANGED <<pc, client, writeMu, stdinClosed, stdoutEnd, readerLocals,
                   unsolicited, panicked>>

-----------------------------------------------------------------------------
CallStep(p) == \/ CallRefused(p) \/ CallRegister(p) \/ CallReceive(p)
               \/ CallReleased(p) \/ CallTimeout(p) \/ CallDelete(p)
NotifyStep(p) == NotifyRefused(p) \/ NotifyAdmitted(p)
WriteStep(p) == \/ AcquireWrite(p) \/ WriteHeader(p) \/ WriteBody(p)
                \/ WriteFails(p)
CloseStep(p) == \/ CloseStart(p) \/ CloseStdin(p) \/ CloseKill(p)
                \/ CloseWaited(p) \/ CloseRelease(p)
ReaderStep == \/ ReaderResponse \/ ReaderSend \/ ReaderSendPanics
              \/ ReaderServerRequest \/ ReaderIgnores \/ ReaderFails
ServerStep == \/ ServerRead
              \/ \E p \in Invocations : ServerAnswer(p)
              \/ \E kind \in {"request", "notification", "badframe"} :
                    ServerPush(kind)
              \/ ServerExit

\* One step of the goroutine w.
Step(w) == /\ ~panicked
           /\ \/ w \in Invocations /\ CallStep(w)
              \/ w \in Closers \cup Notifiers /\ NotifyStep(w)
              \/ w \in Closers /\ CloseStep(w)
              \/ w = Reader /\ ReaderStep
              \/ WriteStep(w)

\* The process is gone, or every goroutine has returned.
Terminated == (panicked \/ \A w \in Writers : pc[w] = "done") /\ UNCHANGED vars

Next == \/ \E w \in Writers : Step(w)
        \/ ~panicked /\ ServerStep
        \/ Terminated

Spec == Init /\ [][Next]_vars

\* The Go scheduler runs every goroutine that can run, and timers fire.
\* Nothing is promised of tsgo.
FairSpec == Spec /\ \A w \in Writers : WF_vars(Step(w))

\* As FairSpec, and tsgo keeps draining its input while it runs.
DrainSpec == FairSpec /\ WF_vars(~panicked /\ ServerRead)

-----------------------------------------------------------------------------
(* Properties.                                                             *)

\* call() never hands a caller the response to somebody else's request, late
\* responses to calls that gave up included (readLoop demuxes by id).
AnswersMatch ==
    \A p \in Invocations : outcome[p] = "answered" => answer[p] = p

\* Concurrent writers never interleave frames: tsgo's input is always whole
\* frames, header then body of one message, the last one possibly unfinished.
FramesIntact ==
    \A i \in 1..Len(stdin) :
        /\ stdin[i].part = (IF i % 2 = 1 THEN "header" ELSE "body")
        /\ i % 2 = 0 => stdin[i].from = stdin[i - 1].from

\* The pending map holds entries of calls in flight only: an entry outlives its
\* call on no path (answer, timeout, write error, connection loss).
NoLeakedEntries ==
    \A p \in pending : pc[p] \in CallLabels \ {"call"}

\* Once the provider is closed no call waits on a channel nobody will close:
\* whoever registered before shutdownPending was released by it, and nobody
\* registers after it.
ClosedReleases ==
    closed => /\ pending = {}
              /\ \A p \in Invocations : pc[p] \in {"lock", "header", "body", "wait"}
                    /\ outcome[p] = "none" => p \in chanClosed

\* readLoop never sends on a channel shutdownPending has closed.
ReaderNeverPanics == ~panicked

\* The first cause of the shutdown is the one every later caller reports.
FirstCauseKept == [][closed => closed' /\ connErr' = connErr]_vars

\* What a caller sees of its call(): the state of RpcCalls.
Status(p) ==
    IF outcome[p] # "none"
    THEN IF outcome[p] = "answered" THEN "answered" ELSE "failed"
    ELSE CASE pc[p] \in {"lock", "header", "body"} -> "open"
           [] pc[p] = "wait" -> IF chanBuf[p] = p THEN "delivered" ELSE "sent"
           [] OTHER -> "new"

Promise == INSTANCE RpcCalls WITH
    Requests <- Calls, status <- [p \in Calls |-> Status(p)], down <- closed

\* The client keeps the promise of RpcCalls: a call settles once, with the
\* response to its own request or a failure, and none opens or gets a response
\* delivered once the connection is marked closed.
KeepsPromise == Promise!SafeSpec

\* ... and every call begins and settles (no closer, tsgo drains its input).
KeepsLivePromise == Promise!Spec

\* Every call returns to its caller.
CallsReturn == <>(panicked \/ \A p \in Calls : pc[p] = "done")

\* Every Close returns, even if tsgo neither answers nor exits on its own.
ClosesReturn == <>(panicked \/ \A p \in Closers : pc[p] = "done")

\* The reader never stays stuck handing over a response: not even when the call
\* it was for has given up (the channel has a place for it).
ReaderHandsOver == (pc[Reader] = "send") ~> (pc[Reader] # "send" \/ panicked)
=============================================================================
