------------------------------- MODULE Daemon -------------------------------
(***************************************************************************)
(* The life of a cgraphd process: run() in cmd/cgraphd with its deferred   *)
(* calls, and the control socket of internal/mcp: the goroutine that waits *)
(* for the context, the accept loop, one goroutine per connection, and the *)
(* socket file, which every daemon of a project root shares.               *)
(*                                                                         *)
(* The MCP session is external: RunStdio returns when its client           *)
(* disconnects or the context is cancelled.                                *)
(***************************************************************************)
EXTENDS Naturals

CONSTANTS
    Daemons,   \* processes started for one project root, each once
    Conns,     \* control connections, one per client
    None,
    MaxSyncs   \* bound: sync commands one daemon serves

ASSUME DistinctNames == Daemons \cap Conns = {} /\ None \notin Daemons \cup Conns
ASSUME MaxSyncsIsNatural == MaxSyncs \in Nat

VARIABLES
    main,      \* where run() stands
    ctxDone,   \* the signal context is cancelled
    eof,       \* the MCP client has disconnected
    watcher,   \* the goroutine of Start that waits for the context
    listening, \* the listener is open
    wg,        \* the goroutines the WaitGroup counts; the accept loop as d
    acceptor,  \* the accept loop runs
    failed,    \* history: Accept has failed while the listener was open
    path,      \* whose socket is at SocketPath
    gen,       \* GenerationCounter
    conn, at,  \* a connection's state, and the daemon it reached
    hungUp     \* the client has closed its end

process  == <<main, ctxDone, eof>>
control  == <<watcher, listening, wg, acceptor, failed>>
clients  == <<conn, at, hungUp>>
vars == <<process, control, path, gen, clients>>

TypeOK ==
    /\ main \in [Daemons -> {"off", "start", "bind", "serve", "wait", "stop",
                             "close", "exited"}]
    /\ {ctxDone, eof, listening, acceptor, failed} \subseteq [Daemons -> BOOLEAN]
    /\ watcher \in [Daemons -> {"none", "armed", "unlinked", "closed"}]
    /\ wg \in [Daemons -> SUBSET (Daemons \cup Conns)]
    /\ path \in Daemons \cup {None}
    /\ gen \in [Daemons -> 0..MaxSyncs]
    /\ conn \in [Conns -> {"new", "queued", "spawned", "serving", "closed"}]
    /\ at \in [Conns -> Daemons \cup {None}]
    /\ hungUp \in [Conns -> BOOLEAN]

Init ==
    /\ main = [d \in Daemons |-> "off"]
    /\ ctxDone = [d \in Daemons |-> FALSE] /\ eof = [d \in Daemons |-> FALSE]
    /\ watcher = [d \in Daemons |-> "none"] /\ listening = [d \in Daemons |-> FALSE]
    /\ wg = [d \in Daemons |-> {}] /\ acceptor = [d \in Daemons |-> FALSE]
    /\ failed = [d \in Daemons |-> FALSE]
    /\ path = None /\ gen = [d \in Daemons |-> 0]
    /\ conn = [c \in Conns |-> "new"] /\ at = [c \in Conns |-> None]
    /\ hungUp = [c \in Conns |-> FALSE]

Moves(d, from, to) == main[d] = from /\ main' = [main EXCEPT ![d] = to]
Running(d) == main[d] \notin {"off", "exited"}

-----------------------------------------------------------------------------
(* run().                                                                  *)

\* Configuration, logger, provider and signal context are in place.
Begin(d) ==
    /\ Moves(d, "off", "start")
    /\ UNCHANGED <<ctxDone, eof, control, path, gen, clients>>

Cleared(f, d) == [f EXCEPT ![d] = FALSE]

\* The process ends, on its own or killed: its memory, goroutines and descriptors
\* go, a socket file stays.
Dies(d) ==
    /\ main' = [main EXCEPT ![d] = "exited"]
    /\ ctxDone' = Cleared(ctxDone, d) /\ eof' = Cleared(eof, d)
    /\ watcher' = [watcher EXCEPT ![d] = "none"]
    /\ listening' = Cleared(listening, d) /\ acceptor' = Cleared(acceptor, d)
    /\ wg' = [wg EXCEPT ![d] = {}]
    /\ failed' = Cleared(failed, d)
    /\ gen' = [gen EXCEPT ![d] = 0]
    /\ conn' = [c \in Conns |-> IF at[c] = d THEN "closed" ELSE conn[c]]
    /\ UNCHANGED <<path, at, hungUp>>

Crash(d) == Running(d) /\ Dies(d)

Signal(d) ==
    /\ main[d] \in {"start", "bind", "serve", "wait"} /\ ~ctxDone[d]
    /\ ctxDone' = [ctxDone EXCEPT ![d] = TRUE]
    /\ UNCHANGED <<main, eof, control, path, gen, clients>>

Disconnect(d) ==
    /\ main[d] = "serve"
    /\ eof' = [eof EXCEPT ![d] = TRUE]
    /\ UNCHANGED <<main, ctxDone, control, path, gen, clients>>

\* RemoveAll takes whatever is at the path.
RemoveStale(d) ==
    /\ Moves(d, "start", "bind")
    /\ path' = None
    /\ UNCHANGED <<ctxDone, eof, control, gen, clients>>

\* RemoveAll fails (another user's socket in a sticky directory, say), or Listen does,
\* at an occupied path or for a reason of its own: Start returns an error, and run()
\* returns before control.Wait is deferred.
RemoveFails(d) ==
    /\ Moves(d, "start", "stop")
    /\ UNCHANGED <<ctxDone, eof, control, path, gen, clients>>

ListenFails(d) ==
    /\ Moves(d, "bind", "stop")
    /\ UNCHANGED <<ctxDone, eof, control, path, gen, clients>>

Listen(d) ==
    /\ path = None
    /\ Moves(d, "bind", "serve")
    /\ path' = d
    /\ listening' = [listening EXCEPT ![d] = TRUE]
    /\ watcher' = [watcher EXCEPT ![d] = "armed"]
    /\ acceptor' = [acceptor EXCEPT ![d] = TRUE]
    /\ wg' = [wg EXCEPT ![d] = {d}]
    /\ UNCHANGED <<ctxDone, eof, failed, gen, clients>>

\* RunStdio returns, and the deferred calls begin: control.Wait first.
ServeEnds(d) ==
    /\ ctxDone[d] \/ eof[d]
    /\ Moves(d, "serve", "wait")
    /\ UNCHANGED <<ctxDone, eof, control, path, gen, clients>>

\* A mistake: run() waits for the accept loop only.
AcceptLoopDone(d) == d \notin wg[d]

GroupDone(d) == wg[d] = {}

WaitReturns(d) ==
    /\ GroupDone(d)
    /\ Moves(d, "wait", "stop")
    /\ UNCHANGED <<ctxDone, eof, control, path, gen, clients>>

\* stop() cancels the signal context.
Stop(d) ==
    /\ Moves(d, "stop", "close")
    /\ ctxDone' = [ctxDone EXCEPT ![d] = TRUE]
    /\ UNCHANGED <<eof, control, path, gen, clients>>

\* provider.Close and logger.Close return, and the process exits.
Exit(d) == main[d] = "close" /\ Dies(d)

-----------------------------------------------------------------------------
(* The control socket.                                                     *)

\* A mistake: the listener leaves its file on close, and RemoveAll is to do it.
WatcherKeepsFile(d) ==
    /\ watcher[d] = "armed" /\ ctxDone[d]
    /\ watcher' = [watcher EXCEPT ![d] = "unlinked"]
    /\ UNCHANGED <<process, listening, wg, acceptor, failed, path, gen, clients>>

\* ln.Close unlinks the path before it closes the descriptor.
WatcherUnlinks(d) ==
    /\ watcher[d] = "armed" /\ ctxDone[d]
    /\ watcher' = [watcher EXCEPT ![d] = "unlinked"]
    /\ path' = None
    /\ UNCHANGED <<process, listening, wg, acceptor, failed, gen, clients>>

\* A mistake: the socket file goes, the listener stays open.
WatcherForgetsListener(d) ==
    /\ watcher[d] = "unlinked"
    /\ watcher' = [watcher EXCEPT ![d] = "closed"]
    /\ UNCHANGED <<process, listening, wg, acceptor, failed, path, gen, clients>>

\* What waited in the backlog is reset.
WatcherCloses(d) ==
    /\ watcher[d] = "unlinked"
    /\ watcher' = [watcher EXCEPT ![d] = "closed"]
    /\ listening' = [listening EXCEPT ![d] = FALSE]
    /\ conn' = [c \in Conns |-> IF at[c] = d /\ conn[c] = "queued" THEN "closed"
                                ELSE conn[c]]
    /\ UNCHANGED <<process, wg, acceptor, failed, path, gen, at, hungUp>>

WatcherRemoves(d) ==
    /\ watcher[d] = "closed"
    /\ watcher' = [watcher EXCEPT ![d] = "none"]
    /\ path' = None
    /\ UNCHANGED <<process, listening, wg, acceptor, failed, gen, clients>>

\* A mistake: the accept loop leaves the handler uncounted.
NothingAdded(c) == {}

\* The accept loop adds the handler to the group before it starts it.
Added(c) == {c}

Accept(d, c) ==
    /\ acceptor[d] /\ listening[d]
    /\ conn[c] = "queued" /\ at[c] = d
    /\ conn' = [conn EXCEPT ![c] = "spawned"]
    /\ wg' = [wg EXCEPT ![d] = @ \cup Added(c)]
    /\ UNCHANGED <<process, watcher, listening, acceptor, failed, path, gen, at, hungUp>>

AcceptLoopReturns(d) ==
    /\ acceptor[d]
    /\ acceptor' = [acceptor EXCEPT ![d] = FALSE]
    /\ wg' = [wg EXCEPT ![d] = @ \ {d}]
    /\ UNCHANGED <<process, watcher, listening, path, gen, clients>>

\* The listener is closed.
AcceptEnds(d) == ~listening[d] /\ AcceptLoopReturns(d) /\ UNCHANGED failed

\* Any other error ends the loop too: the daemon serves on, its listener open.
AcceptFails(d) ==
    /\ listening[d]
    /\ AcceptLoopReturns(d)
    /\ failed' = [failed EXCEPT ![d] = TRUE]

HandlerStarts(c) ==
    /\ conn[c] = "spawned"
    /\ conn' = [conn EXCEPT ![c] = "serving"]
    /\ UNCHANGED <<process, control, path, gen, at, hungUp>>

\* A mistake: the command and its reply both bump.
BumpedTwice(n) == n + 2

Bumped(n) == n + 1

\* sync: bump and reply, for every line that has arrived.  Any other command is
\* answered and changes nothing.
Sync(c) ==
    /\ conn[c] = "serving"
    /\ gen[at[c]] < MaxSyncs
    /\ gen' = [gen EXCEPT ![at[c]] = Bumped(@)]
    /\ UNCHANGED <<process, control, path, clients>>

\* A mistake: the handler never calls Done.
NothingDone(c) == {}

Done(c) == {c}

\* The handler returns when its client has hung up (or sent a line too long for
\* the scanner), and only then.
HandlerEnds(c) ==
    /\ conn[c] = "serving" /\ hungUp[c]
    /\ conn' = [conn EXCEPT ![c] = "closed"]
    /\ wg' = [wg EXCEPT ![at[c]] = @ \ Done(c)]
    /\ UNCHANGED <<process, watcher, listening, acceptor, failed, path, gen, at, hungUp>>

-----------------------------------------------------------------------------
(* Control clients (external).                                             *)

Connect(c) ==
    /\ conn[c] = "new"
    /\ path # None /\ listening[path]
    /\ conn' = [conn EXCEPT ![c] = "queued"]
    /\ at' = [at EXCEPT ![c] = path]
    /\ UNCHANGED <<process, control, path, gen, hungUp>>

HangUp(c) ==
    /\ conn[c] \in {"queued", "spawned", "serving"} /\ ~hungUp[c]
    /\ hungUp' = [hungUp EXCEPT ![c] = TRUE]
    /\ UNCHANGED <<process, control, path, gen, conn, at>>

-----------------------------------------------------------------------------
MainStep(d) == \/ RemoveStale(d) \/ RemoveFails(d) \/ Listen(d) \/ ListenFails(d)
               \/ ServeEnds(d) \/ WaitReturns(d) \/ Stop(d) \/ Exit(d)
WatcherStep(d) == WatcherUnlinks(d) \/ WatcherCloses(d) \/ WatcherRemoves(d)
AcceptStep(d) == AcceptEnds(d) \/ \E c \in Conns : Accept(d, c)
HandlerStep(c) == HandlerStarts(c) \/ HandlerEnds(c)
DaemonEvent(d) == \/ Begin(d) \/ Crash(d) \/ Signal(d) \/ Disconnect(d)
                  \/ AcceptFails(d)
ClientEvent(c) == Connect(c) \/ HangUp(c) \/ Sync(c)

Next == \/ \E d \in Daemons : \/ MainStep(d) \/ WatcherStep(d) \/ AcceptStep(d)
                              \/ DaemonEvent(d)
        \/ \E c \in Conns : HandlerStep(c) \/ ClientEvent(c)

Spec == Init /\ [][Next]_vars

\* The scheduler runs every goroutine that can run.  Signals, disconnects and
\* clients are promised nothing.
FairSpec ==
    /\ Spec
    /\ \A d \in Daemons : WF_vars(MainStep(d)) /\ WF_vars(WatcherStep(d))
                          /\ WF_vars(AcceptStep(d))
    /\ \A c \in Conns : WF_vars(HandlerStep(c))

-----------------------------------------------------------------------------
(* Properties.                                                             *)

\* When control.Wait has returned, no goroutine of the control socket is left
\* that could still bump the counter: the accept loop has ended, and so has the
\* handler of every connection it accepted.
WaitCoversHandlers ==
    \A d \in Daemons : main[d] \in {"stop", "close"} =>
        /\ ~acceptor[d]
        /\ \A c \in Conns : at[c] = d => conn[c] \notin {"spawned", "serving"}

\* A daemon that serves and is not shutting down is the one found at its path.
ReachableWhileServing ==
    \A d \in Daemons : main[d] = "serve" /\ ~ctxDone[d] => path = d

\* A daemon that has passed control.Wait leaves no socket file behind, unless
\* its accept loop had failed.
NoSocketLeftBehind == \A d \in Daemons :
    main[d] \in {"stop", "close"} /\ ~failed[d] => path # d

\* A sync is never served by a daemon whose control.Wait has returned.
NoSyncAfterWait ==
    [][\A d \in Daemons : gen'[d] > gen[d] => main[d] \in {"serve", "wait"}]_vars

\* Each Wait comes after the context given to Start is cancelled.
WaitAfterCancel == \A d \in Daemons : main[d] = "wait" => ctxDone[d]

\* Cancelling the context stops the accepting, whatever the clients do: the listener
\* is closed and the accept loop ends (Start's shutdown goroutine).
CancelStopsAccepting ==
    \A d \in Daemons : (ctxDone[d] /\ Running(d)) ~> (~listening[d] /\ ~acceptor[d])

\* A client keeps its connection to d, and with it a handler.
Held(d) == \E c \in Conns :
    at[c] = d /\ conn[c] \in {"spawned", "serving"} /\ ~hungUp[c]

\* Cancelling the context ends the daemon, a failed start included, unless a client
\* keeps a connection: the code ends none, although Start's comment says that it does.
CancelEndsUnlessHeld ==
    \A d \in Daemons : (ctxDone[d] /\ Running(d)) ~> (~Running(d) \/ Held(d))
=============================================================================
