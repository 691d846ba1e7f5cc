---------------------------- MODULE DaemonProofs ----------------------------
(***************************************************************************)
(* What TLAPS proves of Daemon, for any number of daemons of one project   *)
(* root, of control connections and of sync commands.                      *)
(***************************************************************************)
EXTENDS Daemon, TLAPS

USE DEF process, control, clients

-----------------------------------------------------------------------------
(* The inductive invariant.                                                *)

Early == {"off", "start", "bind", "exited"}

\* Before Start has bound, and after the end, nothing of the control socket runs.
NothingEarly ==
    \A d \in Daemons : main[d] \in Early =>
        watcher[d] = "none" /\ ~listening[d] /\ ~acceptor[d] /\ wg[d] = {}

\* The WaitGroup counts the accept loop and the handlers that have not returned,
\* and nothing else.
Group ==
    \A d \in Daemons :
        /\ d \in wg[d] <=> acceptor[d]
        /\ \A c \in Conns : c \in wg[d] <=> at[c] = d /\ conn[c] \in {"spawned", "serving"}

\* A connection in use has reached a daemon.
Attached ==
    \A c \in Conns : conn[c] \in {"queued", "spawned", "serving"} => at[c] \in Daemons

\* Wait returns to an empty group, and an empty group stays empty.
WaitedFor == \A d \in Daemons : main[d] \in {"stop", "close"} => wg[d] = {}

\* The listener is open until the watcher closes it, and the accept loop runs as
\* long, unless Accept has failed.
ListenerKept ==
    \A d \in Daemons :
        /\ watcher[d] = "armed" => listening[d]
        /\ listening[d] /\ ~acceptor[d] => failed[d]

\* A socket file is one its daemon is still to remove, or a dead daemon's.
PathOwned ==
    \A d \in Daemons : path = d => main[d] = "exited" \/ watcher[d] = "armed"

IndInv == /\ TypeOK /\ NothingEarly /\ Group /\ Attached /\ WaitedFor
          /\ ListenerKept /\ PathOwned

\* The names of daemons, of connections and None are distinct.
LEMMA Distinct ==
    ASSUME NEW d \in Daemons, NEW c \in Conns
    PROVE  d # c /\ d # None /\ c # None
BY DistinctNames

\* The connections a death closes.
LEMMA DeadConns ==
    ASSUME TypeOK, NEW d \in Daemons, Dies(d), NEW c \in Conns
    PROVE  conn'[c] = IF at[c] = d THEN "closed" ELSE conn[c]
BY DEF Dies, TypeOK

-----------------------------------------------------------------------------
(* The cases of a step.                                                    *)

\* A step that changes nothing but the stage of run() and its context, none of
\* them out of or into an early stage but for a start that fails.
MainOnly(d) == Signal(d) \/ Disconnect(d) \/ ServeEnds(d) \/ WaitReturns(d) \/ Stop(d)
               \/ RemoveFails(d) \/ ListenFails(d)

\* A step is one of these.
LEMMA NextCases ==
    ASSUME [Next]_vars
    PROVE  \/ \E d \in Daemons :
                \/ Begin(d) \/ Dies(d) \/ RemoveStale(d) \/ Listen(d)
                \/ MainOnly(d)
                \/ WatcherUnlinks(d) \/ WatcherCloses(d) \/ WatcherRemoves(d)
                \/ AcceptEnds(d) \/ AcceptFails(d)
           \/ \E d \in Daemons, c \in Conns : Accept(d, c)
           \/ \E c \in Conns : HandlerStarts(c) \/ Sync(c) \/ HandlerEnds(c)
                               \/ Connect(c) \/ HangUp(c)
           \/ UNCHANGED vars
<1>1. ASSUME NEW d \in Daemons, MainStep(d) \/ DaemonEvent(d)
      PROVE  \/ Begin(d) \/ Dies(d) \/ RemoveStale(d) \/ Listen(d) \/ MainOnly(d)
             \/ AcceptFails(d)
  BY <1>1 DEF MainStep, DaemonEvent, Exit, Crash, MainOnly
<1>2. ASSUME NEW d \in Daemons, WatcherStep(d) \/ AcceptStep(d)
      PROVE  \/ WatcherUnlinks(d) \/ WatcherCloses(d) \/ WatcherRemoves(d) \/ AcceptEnds(d)
             \/ \E c \in Conns : Accept(d, c)
  BY <1>2 DEF WatcherStep, AcceptStep
<1>3. ASSUME NEW c \in Conns, HandlerStep(c) \/ ClientEvent(c)
      PROVE  HandlerStarts(c) \/ Sync(c) \/ HandlerEnds(c) \/ Connect(c) \/ HangUp(c)
  BY <1>3 DEF HandlerStep, ClientEvent
<1> QED  BY <1>1, <1>2, <1>3 DEF Next

-----------------------------------------------------------------------------
(* Each step keeps the invariant.                                          *)

\* A daemon begins.
LEMMA BeginStep ==
    ASSUME IndInv, NEW d \in Daemons, Begin(d)
    PROVE  IndInv'
<1> USE DEF IndInv, TypeOK, Early
<1>1. TypeOK'          BY DEF Begin, Moves
<1>2. NothingEarly'    BY DEF Begin, Moves, NothingEarly
<1>3. Group' /\ Attached'
  BY DEF Begin, Group, Attached
<1>4. WaitedFor' /\ ListenerKept'
  BY DEF Begin, Moves, WaitedFor, ListenerKept
<1>5. PathOwned'       BY DEF Begin, Moves, PathOwned
<1> QED  BY <1>1, <1>2, <1>3, <1>4, <1>5

\* A daemon ends or is killed: its connections and its group go with it.
LEMMA DiesStep ==
    ASSUME IndInv, NEW d \in Daemons, Dies(d)
    PROVE  IndInv'
<1> USE DEF IndInv, TypeOK, Early
<1>1. TypeOK'
  <2>1. conn' \in [Conns -> {"new", "queued", "spawned", "serving", "closed"}]
    BY DEF Dies
  <2>2. /\ main' \in [Daemons -> {"off", "start", "bind", "serve", "wait", "stop",
                                  "close", "exited"}]
        /\ watcher' \in [Daemons -> {"none", "armed", "unlinked", "closed"}]
        /\ wg' \in [Daemons -> SUBSET (Daemons \cup Conns)]
    BY DEF Dies
  <2>3. {ctxDone', eof', listening', acceptor', failed'} \subseteq [Daemons -> BOOLEAN]
    BY DEF Dies, Cleared
  <2>4. gen' \in [Daemons -> 0..MaxSyncs]
    BY MaxSyncsIsNatural DEF Dies
  <2>5. /\ path' \in Daemons \cup {None} /\ at' \in [Conns -> Daemons \cup {None}]
        /\ hungUp' \in [Conns -> BOOLEAN]
    BY DEF Dies
  <2> QED  BY <2>1, <2>2, <2>3, <2>4, <2>5
<1>2. NothingEarly'    BY DEF Dies, Cleared, NothingEarly
<1>3. Group'           BY DeadConns DEF Dies, Cleared, Group
<1>4. Attached'        BY DeadConns DEF Dies, Attached
<1>5. WaitedFor' /\ ListenerKept'
  BY DEF Dies, Cleared, WaitedFor, ListenerKept
<1>6. PathOwned'       BY DEF Dies, PathOwned
<1> QED  BY <1>1, <1>2, <1>3, <1>4, <1>5, <1>6

\* The path is cleared before the bind.
LEMMA RemoveStep ==
    ASSUME IndInv, NEW d \in Daemons, RemoveStale(d)
    PROVE  IndInv'
<1> USE DEF IndInv, TypeOK, Early
<1>1. TypeOK'          BY DEF RemoveStale, Moves
<1>2. NothingEarly'    BY DEF RemoveStale, Moves, NothingEarly
<1>3. Group' /\ Attached' /\ WaitedFor' /\ ListenerKept'
  BY DEF RemoveStale, Moves, Group, Attached, WaitedFor, ListenerKept
<1>4. PathOwned'
  BY DistinctNames DEF RemoveStale, Moves, PathOwned
<1> QED  BY <1>1, <1>2, <1>3, <1>4

\* The accept loop is the first of the group.
LEMMA ListenStep ==
    ASSUME IndInv, NEW d \in Daemons, Listen(d)
    PROVE  IndInv'
<1> USE DEF IndInv, TypeOK, Early
<1>1. TypeOK'          BY DEF Listen, Moves
<1>2. NothingEarly'    BY DEF Listen, Moves, NothingEarly
<1>3. Group'
  BY Distinct DEF Listen, Moves, Group, NothingEarly
<1>4. Attached' /\ WaitedFor' /\ ListenerKept'
  BY DEF Listen, Moves, Attached, WaitedFor, ListenerKept
<1>5. PathOwned'       BY DEF Listen, Moves, PathOwned
<1> QED  BY <1>1, <1>2, <1>3, <1>4, <1>5

\* run() moves on, or is told to: Wait returns to an empty group only.
LEMMA MainOnlyStep ==
    ASSUME IndInv, NEW d \in Daemons, MainOnly(d)
    PROVE  IndInv'
<1> USE DEF IndInv, TypeOK, Early
<1>1. /\ UNCHANGED <<control, path, gen, clients>>
      /\ main' \in [Daemons -> {"off", "start", "bind", "serve", "wait", "stop",
                                "close", "exited"}]
      /\ ctxDone' \in [Daemons -> BOOLEAN] /\ eof' \in [Daemons -> BOOLEAN]
  BY DEF MainOnly, Signal, Disconnect, ServeEnds, WaitReturns, Stop, RemoveFails,
         ListenFails, Moves
<1>2. \A e \in Daemons :
        /\ main'[e] \in Early => main'[e] = main[e]
        /\ main[e] = "exited" => main'[e] = "exited"
        /\ main[e] \notin {"off", "start", "bind"} => main'[e] \notin {"off", "start", "bind"}
  BY DEF MainOnly, Signal, Disconnect, ServeEnds, WaitReturns, Stop, RemoveFails,
         ListenFails, Moves
<1>3. WaitedFor'
  BY DEF MainOnly, Signal, Disconnect, ServeEnds, WaitReturns, Stop, RemoveFails,
         ListenFails, Moves,
         WaitedFor, GroupDone, NothingEarly
<1>4. TypeOK'          BY <1>1
<1>5. NothingEarly'    BY <1>1, <1>2 DEF NothingEarly
<1>6. Group' /\ Attached' /\ ListenerKept'
  BY <1>1 DEF Group, Attached, ListenerKept
<1>7. PathOwned'
  BY <1>1, <1>2 DEF PathOwned
<1> QED  BY <1>3, <1>4, <1>5, <1>6, <1>7

\* The shutdown goroutine clears the path first, then closes the listener.
LEMMA WatcherSteps ==
    ASSUME IndInv, NEW d \in Daemons,
           WatcherUnlinks(d) \/ WatcherCloses(d) \/ WatcherRemoves(d)
    PROVE  IndInv'
<1> USE DistinctNames DEF IndInv, TypeOK, Early
<1>1. CASE WatcherUnlinks(d)
  <2>1. TypeOK'        BY <1>1 DEF WatcherUnlinks
  <2>2. NothingEarly' /\ Group' /\ Attached' /\ WaitedFor'
    BY <1>1 DEF WatcherUnlinks, NothingEarly, Group, Attached, WaitedFor
  <2>3. ListenerKept' /\ PathOwned'
    BY <1>1 DEF WatcherUnlinks, ListenerKept, PathOwned
  <2> QED  BY <2>1, <2>2, <2>3
<1>2. CASE WatcherCloses(d)
  <2>1. TypeOK'        BY <1>2 DEF WatcherCloses
  <2>2. NothingEarly' /\ WaitedFor' /\ ListenerKept'
    BY <1>2 DEF WatcherCloses, NothingEarly, WaitedFor, ListenerKept
  <2>3. Group' /\ Attached'
    BY <1>2 DEF WatcherCloses, Group, Attached
  <2>4. PathOwned'
    BY <1>2 DEF WatcherCloses, PathOwned
  <2> QED  BY <2>1, <2>2, <2>3, <2>4
<1>3. CASE WatcherRemoves(d)
  <2>1. TypeOK'        BY <1>3 DEF WatcherRemoves
  <2>2. NothingEarly' /\ Group' /\ Attached' /\ WaitedFor'
    BY <1>3 DEF WatcherRemoves, NothingEarly, Group, Attached, WaitedFor
  <2>3. ListenerKept' /\ PathOwned'
    BY <1>3 DEF WatcherRemoves, ListenerKept, PathOwned
  <2> QED  BY <2>1, <2>2, <2>3
<1> QED  BY <1>1, <1>2, <1>3

\* A handler is counted before the accept loop could end.
LEMMA AcceptSteps ==
    ASSUME IndInv, NEW d \in Daemons,
           AcceptEnds(d) \/ AcceptFails(d) \/ \E c \in Conns : Accept(d, c)
    PROVE  IndInv'
<1> USE DEF IndInv, TypeOK, Early
<1>1. ASSUME AcceptEnds(d) \/ AcceptFails(d) PROVE IndInv'
  <2>1. AcceptLoopReturns(d) /\ failed' \in [Daemons -> BOOLEAN]
    BY <1>1 DEF AcceptEnds, AcceptFails
  <2>2. TypeOK'        BY <2>1 DEF AcceptLoopReturns
  <2>3. NothingEarly' /\ Attached' /\ WaitedFor'
    BY <2>1 DEF AcceptLoopReturns, NothingEarly, Attached, WaitedFor
  <2>4. Group'         BY <2>1, Distinct DEF AcceptLoopReturns, Group
  <2>5. ListenerKept'  BY <1>1 DEF AcceptEnds, AcceptFails, AcceptLoopReturns, ListenerKept
  <2>6. PathOwned'
    BY <2>1 DEF AcceptLoopReturns, PathOwned
  <2> QED  BY <2>2, <2>3, <2>4, <2>5, <2>6
<1>2. ASSUME NEW c \in Conns, Accept(d, c) PROVE IndInv'
  <2>1. TypeOK'        BY <1>2 DEF Accept, Added
  <2>2. main[d] \notin Early \cup {"stop", "close"}
    BY <1>2 DEF Accept, NothingEarly, WaitedFor, Group
  <2>3. NothingEarly' /\ WaitedFor' /\ ListenerKept'
    BY <1>2, <2>2 DEF Accept, Added, NothingEarly, WaitedFor, ListenerKept
  <2>4. Group'         BY <1>2, Distinct DEF Accept, Added, Group
  <2>5. Attached'      BY <1>2 DEF Accept, Attached
  <2>6. PathOwned'
    BY <1>2 DEF Accept, PathOwned
  <2> QED  BY <2>1, <2>3, <2>4, <2>5, <2>6
<1> QED  BY <1>1, <1>2

\* A handler is counted until it has returned.
LEMMA ConnSteps ==
    ASSUME IndInv, NEW c \in Conns,
           HandlerStarts(c) \/ Sync(c) \/ HandlerEnds(c) \/ Connect(c) \/ HangUp(c)
    PROVE  IndInv'
<1> USE DEF IndInv, TypeOK, Early
<1>1. CASE HandlerStarts(c) \/ Connect(c) \/ HangUp(c) \/ Sync(c)
  <2>1. UNCHANGED <<process, control, path>>
    BY <1>1 DEF HandlerStarts, Connect, HangUp, Sync
  <2>2. TypeOK'
    <3>1. CASE Sync(c)
      <4>1. gen' \in [Daemons -> 0..MaxSyncs]
        <5>1. at[c] \in Daemons /\ gen[at[c]] \in 0..MaxSyncs /\ gen[at[c]] < MaxSyncs
          BY <3>1 DEF Sync, Attached
        <5>2. gen[at[c]] + 1 \in 0..MaxSyncs
          BY <5>1, MaxSyncsIsNatural
        <5> QED  BY <3>1, <5>1, <5>2 DEF Sync, Bumped
      <4> QED  BY <3>1, <4>1 DEF Sync
    <3>2. CASE HandlerStarts(c)   BY <3>2 DEF HandlerStarts
    <3>3. CASE Connect(c)         BY <3>3 DEF Connect
    <3>4. CASE HangUp(c)          BY <3>4 DEF HangUp
    <3> QED  BY <1>1, <3>1, <3>2, <3>3, <3>4
  <2>3. NothingEarly' /\ WaitedFor' /\ ListenerKept' /\ PathOwned'
    BY <2>1 DEF NothingEarly, WaitedFor, ListenerKept, PathOwned
  <2>4. Group' /\ Attached'
    BY <1>1, DistinctNames DEF HandlerStarts, Connect, HangUp, Sync, Group, Attached
  <2> QED  BY <2>2, <2>3, <2>4
<1>2. CASE HandlerEnds(c)
  <2>1. TypeOK'        BY <1>2 DEF HandlerEnds, Done
  <2>2. NothingEarly' /\ Attached' /\ WaitedFor' /\ ListenerKept'
    BY <1>2 DEF HandlerEnds, Done, NothingEarly, Attached, WaitedFor, ListenerKept
  <2>3. Group'         BY <1>2, Distinct DEF HandlerEnds, Done, Group, Attached
  <2>4. PathOwned'
    BY <1>2 DEF HandlerEnds, PathOwned
  <2> QED  BY <2>1, <2>2, <2>3, <2>4
<1> QED  BY <1>1, <1>2

-----------------------------------------------------------------------------
(* Theorems.                                                               *)

\* The strengthening is inductive.
THEOREM IndInvInductive == Spec => []IndInv
<1>1. Init => IndInv
  <2> SUFFICES ASSUME Init PROVE IndInv
    OBVIOUS
  <2>1. TypeOK
    BY MaxSyncsIsNatural DEF Init, TypeOK
  <2>2. NothingEarly /\ Group /\ Attached /\ WaitedFor
    BY DEF Init, NothingEarly, Group, Attached, WaitedFor
  <2>3. ListenerKept /\ PathOwned
    BY DistinctNames DEF Init, ListenerKept, PathOwned
  <2> QED  BY <2>1, <2>2, <2>3 DEF IndInv
<1>2. ASSUME IndInv, [Next]_vars PROVE IndInv'
  <2>1. CASE UNCHANGED vars
    BY <1>2, <2>1 DEF vars, IndInv, TypeOK, NothingEarly, Group, Attached, WaitedFor,
       ListenerKept, PathOwned
  <2> QED
    BY <1>2, <2>1, NextCases, BeginStep, DiesStep, RemoveStep, ListenStep, MainOnlyStep,
       WatcherSteps, AcceptSteps, ConnSteps
<1> QED  BY <1>1, <1>2, PTL DEF Spec

\* Every variable keeps its type, the generation below its bound.
THEOREM TypeCorrect == Spec => []TypeOK
BY IndInvInductive, PTL DEF IndInv

\* When control.Wait has returned, no goroutine is left that could still bump the
\* counter, whatever was accepted while it waited (ControlSocket.Wait).
THEOREM WaitAlwaysCovers == Spec => []WaitCoversHandlers
<1>1. IndInv => WaitCoversHandlers
  BY DEF IndInv, WaitedFor, Group, WaitCoversHandlers
<1> QED  BY <1>1, IndInvInductive, PTL

\* No daemon that has passed control.Wait serves a sync.
THEOREM NoSyncEverAfterWait == Spec => NoSyncAfterWait
<1> DEFINE Late == \A d \in Daemons : gen'[d] > gen[d] => main[d] \in {"serve", "wait"}
<1>1. ASSUME IndInv, [Next]_vars PROVE [Late]_vars
  <2>1. ASSUME NEW c \in Conns, Sync(c) PROVE Late
    <3>1. at[c] \in Daemons /\ main[at[c]] \in {"serve", "wait"}
      BY <1>1, <2>1 DEF Sync, IndInv, TypeOK, Attached, Group, WaitedFor, NothingEarly, Early
    <3>2. ASSUME NEW d \in Daemons, d # at[c] PROVE gen'[d] = gen[d]
      BY <1>1, <2>1, <3>2 DEF Sync, IndInv, TypeOK
    <3>3. \A d \in Daemons : gen[d] \in Nat
      BY <1>1 DEF IndInv, TypeOK
    <3> QED  BY <3>1, <3>2, <3>3
  <2>2. ASSUME NEW d \in Daemons, Dies(d) PROVE Late
    BY <1>1, <2>2 DEF Dies, IndInv, TypeOK
  <2>3. CASE UNCHANGED gen
    BY <1>1, <2>3 DEF IndInv, TypeOK
  <2> QED
    BY <1>1, <2>1, <2>2, <2>3, NextCases
       DEF Begin, RemoveStale, Listen, MainOnly, Signal, Disconnect, ServeEnds, WaitReturns,
           Stop, RemoveFails, ListenFails, WatcherUnlinks, WatcherCloses, WatcherRemoves, AcceptEnds,
           AcceptFails, AcceptLoopReturns, Accept, HandlerStarts, HandlerEnds, Connect,
           HangUp, vars
<1> QED  BY <1>1, IndInvInductive, PTL DEF Spec, NoSyncAfterWait

\* A daemon that has passed control.Wait leaves no socket file, unless its accept
\* loop had failed (Start's shutdown goroutine).
THEOREM NoSocketEverLeft == Spec => []NoSocketLeftBehind
<1>1. IndInv => NoSocketLeftBehind
  BY DEF IndInv, WaitedFor, Group, ListenerKept, PathOwned, NoSocketLeftBehind
<1> QED  BY <1>1, IndInvInductive, PTL
=============================================================================
