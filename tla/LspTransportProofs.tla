------------------------- MODULE LspTransportProofs -------------------------
(***************************************************************************)
(* What TLAPS proves of LspTransport, for every number of callers,         *)
(* notifiers and closers and every pipe capacity.                          *)
(***************************************************************************)
EXTENDS LspTransport, SequenceTheorems, TLAPS

USE DEF client, pipes, peers

-----------------------------------------------------------------------------
(* Sequences.                                                              *)

\* What is left once tsgo has read one frame, two writes, off its input.
LEMMA OneFrameLess ==
    ASSUME NEW S, NEW s \in Seq(S), Len(s) >= 2
    PROVE  /\ SubSeq(s, 3, Len(s)) \in Seq(S)
           /\ Len(SubSeq(s, 3, Len(s))) = Len(s) - 2
           /\ \A i \in 1..(Len(s) - 2) : SubSeq(s, 3, Len(s))[i] = s[i + 2]
<1>1. Len(s) \in Nat /\ \A i \in 3..Len(s) : s[i] \in S
  BY ElementOfSeq, LenProperties
<1>2. /\ SubSeq(s, 3, Len(s)) \in Seq(S)
      /\ Len(SubSeq(s, 3, Len(s))) = IF 3 <= Len(s) THEN Len(s) - 3 + 1 ELSE 0
      /\ \A i \in 1..(Len(s) - 3 + 1) : SubSeq(s, 3, Len(s))[i] = s[3 + i - 1]
  BY <1>1, SubSeqProperties
<1>3. Len(SubSeq(s, 3, Len(s))) = Len(s) - 2
  <2>1. ASSUME NEW n \in Nat, n >= 2
        PROVE  (IF 3 <= n THEN n - 3 + 1 ELSE 0) = n - 2
    BY <2>1
  <2> QED  BY <1>1, <1>2, <2>1
<1>4. ASSUME NEW i \in 1..(Len(s) - 2)
      PROVE  SubSeq(s, 3, Len(s))[i] = s[i + 2]
  <2>1. i \in 1..(Len(s) - 3 + 1) /\ 3 + i - 1 = i + 2
    BY <1>1
  <2> QED  BY <1>2, <2>1
<1> QED  BY <1>2, <1>3, <1>4

-----------------------------------------------------------------------------
(* The inductive invariant.                                                *)

\* A call() between registering and its select.
InFlight(p) == pc[p] \in {"lock", "header", "body", "wait"} /\ outcome[p] = "none"

\* The whole request of p has left for tsgo, or its call is over.
Written(p) == pc[p] = "wait" \/ outcome[p] # "none"

\* No id is drawn twice.
IdsDistinct ==
    /\ \A p \in Invocations : id[p] <= nextID
    /\ \A p, q \in Invocations : id[p] = id[q] /\ id[p] # 0 => p = q

\* One invocation: its label, its entry in the map and its channel agree.
Bookkeeping(p) ==
    /\ pc[p] \in {"start", "call", "wait"} => outcome[p] = "none"
    /\ pc[p] \in {"cleanup", "notify"} => outcome[p] # "none"
    /\ InFlight(p) \/ pc[p] = "cleanup" => id[p] # 0
    /\ p \in pending => InFlight(p) \/ pc[p] = "cleanup"
    /\ closed => p \notin pending /\ (InFlight(p) => p \in chanClosed)
    /\ ~closed => p \notin chanClosed /\ (InFlight(p) => p \in pending)

Bookkept == \A p \in Invocations : Bookkeeping(p)

\* A request, wherever it is, belongs to a call that sent it under its id.
InputTagged ==
    \A i \in 1..Len(stdin) : stdin[i].kind = "request" =>
        /\ stdin[i].from \in Invocations
        /\ id[stdin[i].from] # 0
        /\ stdin[i].part = "body" => Written(stdin[i].from)
InboxTagged == \A p \in inbox : id[p] # 0 /\ Written(p)
OutputTagged ==
    \A i \in 1..Len(stdout) : stdout[i].kind = "response" =>
        /\ stdout[i].src \in Invocations
        /\ id[stdout[i].src] # 0
        /\ Written(stdout[i].src)

\* A response in readLoop's hand, or in a channel, is there for its own call.
HandedToOwner ==
    /\ pc[Reader] = "send" => held = target /\ target \in Invocations /\ Written(target)
    /\ \A p \in Invocations :
          chanBuf[p] # None => chanBuf[p] = p /\ Written(p)

\* writeMu is held exactly while a frame is written.
LockHeld == \A p \in Writers : writeMu = p <=> pc[p] \in {"header", "body"}

\* While anybody can still write, only the lock's holder leaves a frame open.
OpenFrame ==
    alive /\ ~stdinClosed =>
        IF writeMu # None /\ pc[writeMu] = "body"
        THEN Len(stdin) % 2 = 1 /\ stdin[Len(stdin)].from = writeMu
        ELSE Len(stdin) % 2 = 0

Messages == InputTagged /\ InboxTagged /\ OutputTagged /\ HandedToOwner
Framing == LockHeld /\ OpenFrame /\ FramesIntact

IndInv == TypeOK /\ IdsDistinct /\ Bookkept /\ Messages /\ Framing /\ AnswersMatch

-----------------------------------------------------------------------------
(* The cases of a step.                                                    *)

\* A step is one of a goroutine in one of its functions, one of tsgo, or none.
LEMMA NextCases ==
    ASSUME [Next]_vars
    PROVE  \/ \E p \in Invocations : CallStep(p)
           \/ \E p \in Closers \cup Notifiers : NotifyStep(p)
           \/ \E p \in Closers : CloseStep(p)
           \/ \E p \in Writers : WriteStep(p)
           \/ ReaderStep
           \/ ServerStep
           \/ UNCHANGED vars
BY DEF Next, Step, Terminated

\* Only registering draws an id.
LEMMA IdsDrawnOnce ==
    ASSUME [Next]_vars
    PROVE  \/ UNCHANGED <<nextID, id>>
           \/ \E p \in Invocations : CallRegister(p)
<1> USE DEF table
<1>1. ASSUME NEW p \in Invocations, CallStep(p), ~CallRegister(p)
      PROVE  UNCHANGED <<nextID, id>>
  BY <1>1 DEF CallStep, CallRefused, CallReceive, CallReleased, CallTimeout, CallDelete
<1>2. ASSUME NEW p, NotifyStep(p) \/ WriteStep(p)
      PROVE  UNCHANGED <<nextID, id>>
  BY <1>2 DEF NotifyStep, NotifyRefused, NotifyAdmitted, WriteStep, AcquireWrite,
              WriteHeader, WriteBody, WriteFails
<1>3. ASSUME NEW p, CloseStep(p)
      PROVE  UNCHANGED <<nextID, id>>
  BY <1>3 DEF CloseStep, CloseStart, CloseStdin, CloseKill, CloseWaited,
              CloseRelease, ShutdownPending
<1>4. ReaderStep => UNCHANGED <<nextID, id>>
  BY DEF ReaderStep, ReaderResponse, ReaderSend, ReaderSendPanics,
         ReaderServerRequest, ReaderIgnores, ReaderFails, ShutdownPending
<1>5. ServerStep => UNCHANGED <<nextID, id>>
  BY DEF ServerStep, ServerRead, ServerAnswer, ServerPush, ServerExit
<1>6. UNCHANGED vars => UNCHANGED <<nextID, id>>
  BY DEF vars
<1> QED  BY <1>1, <1>2, <1>3, <1>4, <1>5, <1>6, NextCases

-----------------------------------------------------------------------------
(* Type correctness.                                                       *)

\* Every variable starts with its type.
LEMMA TypeInit == Init => TypeOK
<1> SUFFICES ASSUME Init PROVE TypeOK
  OBVIOUS
<1>1. pc \in [Writers -> Labels]
  <2>1. ASSUME NEW p \in Writers
        PROVE  (CASE p = Reader -> "read" [] p \in Calls -> "call"
                  [] p \in Notifiers -> "notify" [] p \in Closers -> "start")
               \in Labels
    BY DistinctActors DEF Writers, Invocations, Labels, CallLabels, CloseLabels
  <2> QED  BY <2>1 DEF Init
<1>2. stdin \in Seq(Writes) /\ stdout \in Seq(Frames)
  BY EmptySeq DEF Init
<1>3. nextID \in Nat /\ unsolicited \in Nat /\ connErr \in Causes
  BY DEF Init, Causes
<1>4. /\ id \in [Invocations -> Nat]
      /\ chanBuf \in [Invocations -> Invocations \cup {None}]
      /\ outcome \in [Invocations -> Outcomes]
      /\ answer \in [Invocations -> Invocations \cup {None}]
  BY DEF Init, Outcomes
<1> QED  BY <1>1, <1>2, <1>3, <1>4 DEF Init, TypeOK

\* A step of a goroutine in call().
LEMMA TypeCall ==
    ASSUME TypeOK, NEW p \in Invocations, CallStep(p)
    PROVE  TypeOK'
<1> USE DEF TypeOK, table, channels, results, stdinEnd, stdoutEnd, readerLocals,
            server, Moves, Return, AfterCall, Labels, CallLabels, CloseLabels, Outcomes
<1>1. CASE CallRefused(p)   BY <1>1 DEF CallRefused
<1>2. CASE CallRegister(p)
  <2>1. pending' \subseteq Invocations
    BY <1>2 DEF CallRegister
  <2>2. nextID' \in Nat /\ id' \in [Invocations -> Nat]
    BY <1>2 DEF CallRegister, NextKey
  <2> QED  BY <1>2, <2>1, <2>2 DEF CallRegister
<1>3. CASE CallReceive(p)   BY <1>3 DEF CallReceive
<1>4. CASE CallReleased(p)  BY <1>4 DEF CallReleased
<1>5. CASE CallTimeout(p)   BY <1>5 DEF CallTimeout
<1>6. CASE CallDelete(p)    BY <1>6 DEF CallDelete, WithoutEntry
<1> QED  BY <1>1, <1>2, <1>3, <1>4, <1>5, <1>6 DEF CallStep

\* A step in writeMessage, of any goroutine.
LEMMA TypeWrite ==
    ASSUME TypeOK, NEW p \in Writers, WriteStep(p)
    PROVE  TypeOK'
<1> USE DEF TypeOK, table, channels, results, stdinEnd, stdoutEnd, readerLocals,
            server, Moves, Labels, CallLabels, CloseLabels
<1>1. /\ Sending(p) \in {"request", "notification", "reply"}
      /\ AfterWrite(p) \in Labels
  BY DEF Sending, AfterWrite
<1>2. CASE AcquireWrite(p)  BY <1>2 DEF AcquireWrite
<1>3. ASSUME NEW part \in {"header", "body"}, Write(p, part)
      PROVE  stdin' \in Seq(Writes)
  <2>1. [part |-> part, kind |-> Sending(p), from |-> p] \in Writes
    BY <1>1 DEF Writes
  <2> QED  BY <1>3, <2>1 DEF Write
<1>4. CASE WriteHeader(p)  BY <1>3, <1>4 DEF WriteHeader
<1>5. CASE WriteBody(p)    BY <1>1, <1>3, <1>5 DEF WriteBody
<1>6. CASE WriteFails(p)
  <2>1. pc' \in [Writers -> Labels] /\ outcome' \in [Invocations -> Outcomes]
    BY <1>1, <1>6 DEF WriteFails, Outcomes
  <2> QED  BY <1>6, <2>1 DEF WriteFails
<1> QED  BY <1>2, <1>4, <1>5, <1>6 DEF WriteStep

\* shutdownPending, whoever runs it.
LEMMA TypeShutdown ==
    ASSUME TypeOK, NEW cause \in Causes, ShutdownPending(cause)
    PROVE  /\ nextID' \in Nat /\ id' \in [Invocations -> Nat]
           /\ pending' \subseteq Invocations /\ chanClosed' \subseteq Invocations
           /\ closed' \in BOOLEAN /\ connErr' \in Causes
BY DEF TypeOK, ShutdownPending, table

\* A step of Close or of notify.
LEMMA TypeClose ==
    ASSUME TypeOK, NEW p \in Writers, CloseStep(p) \/ NotifyStep(p)
    PROVE  TypeOK'
<1> USE DEF TypeOK, table, channels, results, stdinEnd, stdoutEnd, readerLocals,
            server, Moves, Labels, CallLabels, CloseLabels
<1>1. CASE NotifyStep(p)   BY <1>1 DEF NotifyStep, NotifyRefused, NotifyAdmitted
<1>2. CASE CloseStart(p)   BY <1>2 DEF CloseStart
<1>3. CASE CloseStdin(p)   BY <1>3 DEF CloseStdin
<1>4. CASE CloseKill(p)    BY <1>4, EmptySeq DEF CloseKill, Die
<1>5. CASE CloseWaited(p)  BY <1>5 DEF CloseWaited
<1>6. CASE CloseRelease(p)
  BY <1>6, TypeShutdown DEF CloseRelease, Causes
<1> QED  BY <1>1, <1>2, <1>3, <1>4, <1>5, <1>6 DEF CloseStep

\* A step of readLoop.
LEMMA TypeReader == ASSUME TypeOK, ReaderStep PROVE TypeOK'
<1> USE DEF TypeOK, table, channels, results, stdinEnd, stdoutEnd, readerLocals,
            server, Moves, Labels, CallLabels, CloseLabels
<1>1. ASSUME NEW kind, Receives(kind), Consume
      PROVE  stdout' \in Seq(Frames) /\ Head(stdout) \in Frames
  BY <1>1, HeadTailProperties DEF Receives, Consume
<1>2. CASE ReaderResponse
  <2>1. target' \in Invocations \cup {None} /\ held' \in Invocations \cup {None}
    BY <1>1, <1>2 DEF ReaderResponse, EntriesAt, Frames
  <2>2. stdout' \in Seq(Frames) /\ UNCHANGED stdoutClosed
    BY <1>1, <1>2 DEF ReaderResponse, Consume
  <2>3. pc' \in [Writers -> Labels]
    BY <1>2 DEF ReaderResponse
  <2> QED  BY <1>2, <2>1, <2>2, <2>3 DEF ReaderResponse
<1>3. CASE ReaderSend        BY <1>3 DEF ReaderSend
<1>4. CASE ReaderSendPanics  BY <1>4 DEF ReaderSendPanics
<1>5. CASE ReaderServerRequest
  BY <1>1, <1>5 DEF ReaderServerRequest, Consume
<1>6. CASE ReaderIgnores
  BY <1>1, <1>6 DEF ReaderIgnores, Consume
<1>7. CASE ReaderFails
  BY <1>7, TypeShutdown DEF ReaderFails, Causes
<1> QED  BY <1>2, <1>3, <1>4, <1>5, <1>6, <1>7 DEF ReaderStep

\* A step of tsgo.  A request comes from an invocation: notify is what
\* notifiers write with, and readLoop writes replies.
LEMMA TypeServer ==
    ASSUME TypeOK, InputTagged, ServerStep
    PROVE  TypeOK'
<1> USE DEF TypeOK, table, channels, results, stdinEnd, stdoutEnd, readerLocals,
            server
<1>1. CASE ServerRead
  <2>1. stdin' \in Seq(Writes)
    BY <1>1, OneFrameLess DEF ServerRead
  <2>2. inbox' \subseteq Invocations
    BY <1>1 DEF ServerRead, InputTagged
  <2> QED  BY <1>1, <2>1, <2>2 DEF ServerRead
<1>2. ASSUME NEW kind \in {"response", "request", "notification", "badframe"},
             NEW src \in Invocations \cup {None}, ServerSends(kind, src)
      PROVE  stdout' \in Seq(Frames)
  <2>1. [kind |-> kind, src |-> src] \in Frames
    BY DEF Frames
  <2> QED  BY <1>2, <2>1 DEF ServerSends
<1>3. ASSUME NEW p \in Invocations, ServerAnswer(p)
      PROVE  TypeOK'
  BY <1>2, <1>3 DEF ServerAnswer
<1>4. ASSUME NEW kind \in {"request", "notification", "badframe"}, ServerPush(kind)
      PROVE  TypeOK'
  BY <1>2, <1>4 DEF ServerPush
<1>5. CASE ServerExit  BY <1>5, EmptySeq DEF ServerExit, Die
<1> QED  BY <1>1, <1>3, <1>4, <1>5 DEF ServerStep

-----------------------------------------------------------------------------
(* Ids.                                                                    *)

\* At the start no id has been drawn.
LEMMA IdsInit == Init => IdsDistinct
BY DEF Init, IdsDistinct

\* No step draws an id a second time (nextID only grows).
LEMMA IdsStep ==
    ASSUME TypeOK, IdsDistinct, [Next]_vars
    PROVE  IdsDistinct'
<1>1. CASE UNCHANGED <<nextID, id>>
  BY <1>1 DEF IdsDistinct
<1>2. ASSUME NEW p \in Invocations, CallRegister(p)
      PROVE  IdsDistinct'
  <2>1. nextID' = nextID + 1 /\ id' = [id EXCEPT ![p] = nextID + 1]
    BY <1>2 DEF CallRegister, NextKey
  <2> QED  BY <2>1 DEF IdsDistinct, TypeOK
<1> QED  BY <1>1, <1>2, IdsDrawnOnce

-----------------------------------------------------------------------------
(* Bookkeeping.                                                            *)

\* At the start no call has an entry or a channel.
LEMMA BookkeepingInit == Init => Bookkept
BY DistinctActors DEF Init, Bookkept, Bookkeeping, InFlight, Invocations, Writers

\* The map's lookup by key finds the one owner of the key.
LEMMA KeyHasOneOwner ==
    ASSUME TypeOK, IdsDistinct, NEW p \in Invocations
    PROVE  /\ id[p] # 0 => EntriesAt(id[p]) \subseteq {p}
           /\ EntriesAt(NextKey) = {}
BY DEF TypeOK, IdsDistinct, EntriesAt, NextKey

\* A step in call() keeps label, entry and channel of every call in agreement.
LEMMA BookkeepingCall ==
    ASSUME TypeOK, IdsDistinct, Bookkept, NEW p \in Invocations, CallStep(p)
    PROVE  Bookkept'
<1> SUFFICES ASSUME NEW q \in Invocations PROVE Bookkeeping(q)'
  BY DEF Bookkept
<1> USE DEF Bookkept, Bookkeeping, InFlight, Moves, table, channels, TypeOK,
            Writers, AfterCall
<1>1. CASE CallRefused(p)   BY <1>1 DEF CallRefused, Admits
<1>2. CASE CallRegister(p)
  <2>1. pending' = pending \cup {p} /\ id'[p] # 0
    BY <1>2, KeyHasOneOwner DEF CallRegister, NextKey
  <2> QED  BY <1>2, <2>1 DEF CallRegister, Admits, results
<1>3. CASE CallReceive(p)   BY <1>3 DEF CallReceive, Return
<1>4. CASE CallReleased(p)  BY <1>4 DEF CallReleased, Return
<1>5. CASE CallTimeout(p)   BY <1>5 DEF CallTimeout, Return
<1>6. CASE CallDelete(p)
  <2>1. pending' \in {pending, pending \ {p}} /\ p \notin pending'
    BY <1>6, KeyHasOneOwner DEF CallDelete, WithoutEntry, EntriesAt
  <2> QED  BY <1>6, <2>1 DEF CallDelete, results
<1> QED  BY <1>1, <1>2, <1>3, <1>4, <1>5, <1>6 DEF CallStep

\* shutdownPending closes the channel of every call in flight.
LEMMA BookkeepingShutdown ==
    ASSUME NEW q \in Invocations, Bookkeeping(q), NEW cause, ShutdownPending(cause),
           pc'[q] = pc[q] \/ (pc'[q] = "done" /\ pc[q] = "release"), UNCHANGED outcome
    PROVE  Bookkeeping(q)'
BY DEF Bookkeeping, InFlight, ShutdownPending, table

\* So does a step of Close or of notify.
LEMMA BookkeepingClose ==
    ASSUME TypeOK, Bookkept, NEW p \in Writers,
           \/ p \in Closers /\ CloseStep(p)
           \/ p \in Closers \cup Notifiers /\ NotifyStep(p)
    PROVE  Bookkept'
<1> SUFFICES ASSUME NEW q \in Invocations PROVE Bookkeeping(q)'
  BY DEF Bookkept
<1> USE DEF Moves, table, channels, results, TypeOK, Writers
<1>1. CASE CloseRelease(p)
  <2>1. /\ pc'[q] = pc[q] \/ (pc'[q] = "done" /\ pc[q] = "release")
        /\ ShutdownPending("providerClosed") /\ UNCHANGED outcome
    BY <1>1 DEF CloseRelease
  <2>2. Bookkeeping(q)
    BY DEF Bookkept
  <2> QED  BY <2>1, <2>2, BookkeepingShutdown
<1> USE DEF Bookkept, Bookkeeping, InFlight
<1>2. CASE NotifyStep(p)
  BY <1>2 DEF NotifyStep, NotifyRefused, NotifyAdmitted
<1>3. CASE CloseStart(p)   BY <1>3 DEF CloseStart
<1>4. CASE CloseStdin(p)   BY <1>4 DEF CloseStdin
<1>5. CASE CloseKill(p)    BY <1>5 DEF CloseKill
<1>6. CASE CloseWaited(p)  BY <1>6 DEF CloseWaited
<1> QED  BY <1>1, <1>2, <1>3, <1>4, <1>5, <1>6 DEF CloseStep

\* So does a step in writeMessage, failed writes included.
LEMMA BookkeepingWrite ==
    ASSUME TypeOK, Bookkept, NEW p \in Writers, WriteStep(p)
    PROVE  Bookkept'
<1> SUFFICES ASSUME NEW q \in Invocations PROVE Bookkeeping(q)'
  BY DEF Bookkept
<1> USE DEF Bookkept, Bookkeeping, InFlight, Moves, table, channels, results,
            TypeOK, Writers
<1>1. CASE AcquireWrite(p)  BY <1>1 DEF AcquireWrite
<1>2. CASE WriteHeader(p)   BY <1>2 DEF WriteHeader
<1>3. CASE WriteBody(p)     BY <1>3, DistinctActors DEF WriteBody, AfterWrite
<1>4. CASE WriteFails(p)
  <2>1. /\ UNCHANGED <<id, pending, closed, chanClosed>>
        /\ q # p => pc'[q] = pc[q] /\ outcome'[q] = outcome[q]
    BY <1>4 DEF WriteFails
  <2>2. CASE Sending(p) = "request"
    <3>1. p \in Invocations => pc'[p] = "cleanup" /\ outcome'[p] = "writeErr"
      BY <1>4, <2>2 DEF WriteFails
    <3>2. p \in Invocations => InFlight(p)
      BY <1>4, <2>2, DistinctActors DEF WriteFails, Sending
    <3> QED  BY <2>1, <3>1, <3>2
  <2>3. CASE Sending(p) # "request"
    <3>1. p \in Invocations => outcome[p] # "none" /\ pc'[p] = "closeStdin"
      BY <1>4, <2>3, DistinctActors DEF WriteFails, Sending, AfterWrite
    <3>2. p \in Invocations => pc[p] \in {"header", "body"} /\ outcome' = outcome
      BY <1>4, <2>3 DEF WriteFails
    <3> QED  BY <2>1, <3>1, <3>2
  <2> QED  BY <2>2, <2>3
<1> QED  BY <1>1, <1>2, <1>3, <1>4 DEF WriteStep

\* So does a step of readLoop.
LEMMA BookkeepingReader ==
    ASSUME TypeOK, Bookkept, ReaderStep
    PROVE  Bookkept'
<1> SUFFICES ASSUME NEW q \in Invocations PROVE Bookkeeping(q)'
  BY DEF Bookkept
<1>1. pc'[q] = pc[q] /\ UNCHANGED outcome
  BY DistinctActors DEF ReaderStep, ReaderResponse, ReaderSend, ReaderSendPanics,
     ReaderServerRequest, ReaderIgnores, ReaderFails, Moves, results, TypeOK, Writers
<1>2. CASE ReaderFails
  <2>1. ShutdownPending("eof") /\ Bookkeeping(q)
    BY <1>2 DEF ReaderFails, Bookkept
  <2> QED  BY <1>1, <2>1, BookkeepingShutdown
<1>3. CASE ~ReaderFails
  <2>1. UNCHANGED <<id, pending, closed, chanClosed>>
    BY <1>3 DEF ReaderStep, ReaderResponse, ReaderSend, ReaderSendPanics,
       ReaderServerRequest, ReaderIgnores, table, channels
  <2> QED  BY <1>1, <2>1 DEF Bookkept, Bookkeeping, InFlight
<1> QED  BY <1>2, <1>3

\* Together: every step keeps the bookkeeping.
LEMMA BookkeepingStep ==
    ASSUME TypeOK, IdsDistinct, Bookkept, [Next]_vars
    PROVE  Bookkept'
<1>1. ASSUME ServerStep \/ UNCHANGED vars
      PROVE  Bookkept'
  <2>1. UNCHANGED <<pc, id, outcome, pending, closed, chanClosed>>
    BY <1>1 DEF ServerStep, ServerRead, ServerAnswer, ServerPush, ServerExit,
       vars, table, channels, results
  <2> QED  BY <2>1 DEF Bookkept, Bookkeeping, InFlight
<1> QED  BY <1>1, NextCases, BookkeepingCall, BookkeepingClose, BookkeepingWrite,
            BookkeepingReader DEF Writers, Invocations

-----------------------------------------------------------------------------
(* Messages.                                                               *)

\* What a message says of its owner stays true.
LEMMA WrittenStable ==
    ASSUME TypeOK, Bookkept, [Next]_vars, NEW p \in Invocations, Written(p)
    PROVE  Written(p)'
<1> USE DEF Written, Moves, results, TypeOK, Writers
<1>1. ASSUME NEW q \in Invocations, CallStep(q)
      PROVE  Written(p)'
  BY <1>1 DEF CallStep, CallRefused, CallRegister, CallReceive, CallReleased,
     CallTimeout, CallDelete, Return, Bookkept, Bookkeeping
<1>2. ASSUME NEW q, NotifyStep(q) \/ CloseStep(q)
      PROVE  Written(p)'
  BY <1>2 DEF NotifyStep, NotifyRefused, NotifyAdmitted, CloseStep, CloseStart,
     CloseStdin, CloseKill, CloseWaited, CloseRelease
<1>3. ASSUME NEW q, WriteStep(q)
      PROVE  Written(p)'
  BY <1>3 DEF WriteStep, AcquireWrite, WriteHeader, WriteBody, WriteFails
<1>4. ASSUME ReaderStep \/ ServerStep
      PROVE  Written(p)'
  BY <1>4 DEF ReaderStep, ReaderResponse, ReaderSend, ReaderSendPanics,
     ReaderServerRequest, ReaderIgnores, ReaderFails, ServerStep, ServerRead,
     ServerAnswer, ServerPush, ServerExit
<1>5. CASE UNCHANGED vars  BY <1>5 DEF vars
<1> QED  BY <1>1, <1>2, <1>3, <1>4, <1>5, NextCases

\* An id, once drawn, stays.
LEMMA IdStable ==
    ASSUME TypeOK, [Next]_vars, NEW p \in Invocations, id[p] # 0
    PROVE  id'[p] # 0
BY IdsDrawnOnce DEF CallRegister, NextKey, TypeOK

\* At the start no message is on its way.
LEMMA MessagesInit == Init => Messages
BY DistinctActors DEF Init, Messages, InputTagged, InboxTagged, OutputTagged,
   HandedToOwner, Writers

\* tsgo's input.
LEMMA InputStep ==
    ASSUME TypeOK, Bookkept, InputTagged, [Next]_vars
    PROVE  InputTagged'
<1> DEFINE Tagged(w) == w.kind = "request" => /\ w.from \in Invocations
                                              /\ id[w.from] # 0
                                              /\ w.part = "body" => Written(w.from)
<1> DEFINE TaggedNext(w) ==
             w.kind = "request" =>
                /\ w.from \in Invocations
                /\ id'[w.from] # 0
                /\ w.part = "body" => pc'[w.from] = "wait" \/ outcome'[w.from] # "none"
<1>0. ASSUME \A i \in 1..Len(stdin') : TaggedNext(stdin'[i]) PROVE InputTagged'
  BY <1>0 DEF InputTagged, Written
<1>1. ASSUME NEW w, Tagged(w) PROVE TaggedNext(w)
  <2>1. ASSUME NEW p \in Invocations, Written(p)
        PROVE  pc'[p] = "wait" \/ outcome'[p] # "none"
    BY <2>1, WrittenStable DEF Written
  <2> QED  BY <1>1, <2>1, IdStable
<1>2. CASE UNCHANGED stdin \/ stdin' = <<>>
  BY <1>0, <1>1, <1>2 DEF InputTagged
<1>3. ASSUME NEW p \in Writers, NEW part, Write(p, part),
             pc[p] \in {"header", "body"},
             part = "body" => pc' = [pc EXCEPT ![p] = AfterWrite(p)]
      PROVE  InputTagged'
  <2> DEFINE w == [part |-> part, kind |-> Sending(p), from |-> p]
  <2>1. ASSUME Sending(p) = "request" PROVE InFlight(p) /\ p \in Invocations
    BY <1>3, <2>1, DistinctActors DEF Sending, InFlight
  <2>2. ASSUME Sending(p) = "request", part = "body" PROVE Written(p)'
    BY <1>3, <2>1, <2>2, DistinctActors DEF InFlight, AfterWrite, Written, TypeOK,
       Writers, Invocations
  <2>3. TaggedNext(w)
    BY <2>1, <2>2, IdStable DEF Bookkept, Bookkeeping, Written
  <2>4. stdin' = Append(stdin, w)
    BY <1>3 DEF Write
  <2>5. ASSUME NEW i \in 1..Len(stdin') PROVE TaggedNext(stdin'[i])
    <3>1. stdin'[i] = IF i = Len(stdin) + 1 THEN w ELSE stdin[i]
      BY <2>4 DEF TypeOK
    <3>2. i \in 1..Len(stdin) \/ i = Len(stdin) + 1
      BY <2>4 DEF TypeOK
    <3>3. i \in 1..Len(stdin) => Tagged(stdin[i])
      BY DEF InputTagged
    <3> QED  BY <1>1, <2>3, <3>1, <3>2, <3>3
  <2> QED  BY <1>0, <2>5
<1>4. ASSUME ServerRead PROVE InputTagged'
  <2>1. stdin' = SubSeq(stdin, 3, Len(stdin)) /\ Len(stdin) >= 2 /\ Len(stdin) \in Nat
    BY <1>4 DEF ServerRead, TypeOK
  <2>2. ASSUME NEW i \in 1..Len(stdin')
        PROVE  i + 2 \in 1..Len(stdin) /\ stdin'[i] = stdin[i + 2]
    BY <2>1, OneFrameLess DEF TypeOK
  <2>3. ASSUME NEW i \in 1..Len(stdin') PROVE TaggedNext(stdin'[i])
    BY <1>1, <2>2 DEF InputTagged
  <2> QED  BY <1>0, <2>3
<1>5. ASSUME NEW p \in Writers, WriteStep(p) PROVE InputTagged'
  BY <1>2, <1>3, <1>5 DEF WriteStep, AcquireWrite, WriteHeader, WriteBody, WriteFails,
     Moves
<1>6. ASSUME NEW p, CallStep(p) \/ NotifyStep(p) \/ CloseStep(p) PROVE InputTagged'
  BY <1>2, <1>6 DEF CallStep, CallRefused, CallRegister, CallReceive, CallReleased,
     CallTimeout, CallDelete, NotifyStep, NotifyRefused, NotifyAdmitted, CloseStep,
     CloseStart, CloseStdin, CloseKill, CloseWaited, CloseRelease, Die, stdinEnd
<1>7. ASSUME ReaderStep PROVE InputTagged'
  BY <1>2, <1>7 DEF ReaderStep, ReaderResponse, ReaderSend, ReaderSendPanics,
     ReaderServerRequest, ReaderIgnores, ReaderFails, stdinEnd
<1>8. ASSUME ServerStep PROVE InputTagged'
  BY <1>2, <1>4, <1>8 DEF ServerStep, ServerAnswer, ServerPush, ServerExit, Die, stdinEnd
<1>9. CASE UNCHANGED vars  BY <1>2, <1>9 DEF vars, stdinEnd
<1> QED  BY <1>5, <1>6, <1>7, <1>8, <1>9, NextCases

\* Only tsgo touches its inbox.
LEMMA InboxStep ==
    ASSUME TypeOK, Bookkept, InputTagged, FramesIntact, InboxTagged, [Next]_vars
    PROVE  InboxTagged'
<1>1. ASSUME inbox' \subseteq inbox PROVE InboxTagged'
  BY <1>1, WrittenStable, IdStable DEF InboxTagged, TypeOK
<1>2. CASE ServerRead
  <2>1. stdin[2].part = "body" /\ 2 \in 1..Len(stdin)
    <3>1. 2 \in 1..Len(stdin) /\ 2 % 2 # 1
      BY <1>2 DEF ServerRead, TypeOK
    <3> QED  BY <3>1 DEF FramesIntact
  <2>2. inbox' \subseteq inbox \cup {p \in Invocations : id[p] # 0 /\ Written(p)}
    BY <1>2, <2>1 DEF ServerRead, InputTagged
  <2> QED  BY <2>2, WrittenStable, IdStable DEF InboxTagged, TypeOK
<1>3. ASSUME NEW p, CallStep(p) \/ NotifyStep(p) \/ CloseStep(p) PROVE inbox' \subseteq inbox
  BY <1>3 DEF CallStep, CallRefused, CallRegister, CallReceive, CallReleased,
     CallTimeout, CallDelete, NotifyStep, NotifyRefused, NotifyAdmitted, CloseStep,
     CloseStart, CloseStdin, CloseKill, CloseWaited, CloseRelease, Die, server
<1>4. ASSUME NEW p, WriteStep(p) PROVE inbox' \subseteq inbox
  BY <1>4 DEF WriteStep, AcquireWrite, WriteHeader, WriteBody, WriteFails, server
<1>5. ASSUME ReaderStep PROVE inbox' \subseteq inbox
  BY <1>5 DEF ReaderStep, ReaderResponse, ReaderSend, ReaderSendPanics,
     ReaderServerRequest, ReaderIgnores, ReaderFails, server
<1>6. ASSUME ServerStep, ~ServerRead PROVE inbox' \subseteq inbox
  BY <1>6 DEF ServerStep, ServerAnswer, ServerPush, ServerExit, Die
<1>7. CASE UNCHANGED vars  BY <1>1, <1>7 DEF vars, server
<1> QED  BY <1>1, <1>2, <1>3, <1>4, <1>5, <1>6, <1>7, NextCases

\* tsgo's output.
LEMMA OutputStep ==
    ASSUME TypeOK, Bookkept, InboxTagged, OutputTagged, [Next]_vars
    PROVE  OutputTagged'
<1> DEFINE Tagged(m) == m.kind = "response" => /\ m.src \in Invocations
                                               /\ id[m.src] # 0
                                               /\ Written(m.src)
<1> DEFINE TaggedNext(m) ==
             m.kind = "response" =>
                /\ m.src \in Invocations
                /\ id'[m.src] # 0
                /\ pc'[m.src] = "wait" \/ outcome'[m.src] # "none"
<1>0. ASSUME \A i \in 1..Len(stdout') : TaggedNext(stdout'[i]) PROVE OutputTagged'
  BY <1>0 DEF OutputTagged, Written
<1>1. ASSUME NEW m, Tagged(m) PROVE TaggedNext(m)
  <2>1. ASSUME NEW p \in Invocations, Written(p)
        PROVE  pc'[p] = "wait" \/ outcome'[p] # "none"
    BY <2>1, WrittenStable DEF Written
  <2> QED  BY <1>1, <2>1, IdStable
<1>2. CASE UNCHANGED stdout
  BY <1>0, <1>1, <1>2 DEF OutputTagged
<1>3. ASSUME NEW kind, Receives(kind), Consume PROVE OutputTagged'
  <2>1. ASSUME NEW i \in 1..Len(stdout')
        PROVE  i + 1 \in 1..Len(stdout) /\ stdout'[i] = stdout[i + 1]
    BY <1>3, HeadTailProperties, LenProperties DEF Receives, Consume, TypeOK
  <2> QED  BY <1>0, <1>1, <2>1 DEF OutputTagged
<1>4. ASSUME NEW kind, NEW src, ServerSends(kind, src),
             kind = "response" => src \in inbox
      PROVE  OutputTagged'
  <2> DEFINE m == [kind |-> kind, src |-> src]
  <2>1. TaggedNext(m)
    BY <1>1, <1>4 DEF InboxTagged, TypeOK
  <2>2. ASSUME NEW i \in 1..Len(stdout')
        PROVE  \/ stdout'[i] = m
               \/ i \in 1..Len(stdout) /\ stdout'[i] = stdout[i]
    BY <1>4 DEF ServerSends, TypeOK
  <2> QED  BY <1>0, <1>1, <2>1, <2>2 DEF OutputTagged
<1>5. ASSUME NEW p, CallStep(p) \/ NotifyStep(p) \/ CloseStep(p) PROVE OutputTagged'
  BY <1>2, <1>5 DEF CallStep, CallRefused, CallRegister, CallReceive, CallReleased,
     CallTimeout, CallDelete, NotifyStep, NotifyRefused, NotifyAdmitted, CloseStep,
     CloseStart, CloseStdin, CloseKill, CloseWaited, CloseRelease, stdoutEnd
<1>6. ASSUME NEW p, WriteStep(p) PROVE OutputTagged'
  BY <1>2, <1>6 DEF WriteStep, AcquireWrite, WriteHeader, WriteBody, WriteFails, stdoutEnd
<1>7. ASSUME ReaderStep PROVE OutputTagged'
  BY <1>2, <1>3, <1>7 DEF ReaderStep, ReaderResponse, ReaderSend, ReaderSendPanics,
     ReaderServerRequest, ReaderIgnores, ReaderFails, stdoutEnd
<1>8. ASSUME ServerStep PROVE OutputTagged'
  <2>1. CASE ServerRead \/ ServerExit
    BY <1>2, <2>1 DEF ServerRead, ServerExit, stdoutEnd
  <2>2. ASSUME NEW p \in Invocations, ServerAnswer(p) PROVE OutputTagged'
    BY <1>4, <2>2 DEF ServerAnswer
  <2>3. ASSUME NEW kind \in {"request", "notification", "badframe"}, ServerPush(kind)
        PROVE  OutputTagged'
    BY <1>4, <2>3 DEF ServerPush
  <2> QED  BY <1>8, <2>1, <2>2, <2>3 DEF ServerStep
<1>9. CASE UNCHANGED vars  BY <1>2, <1>9 DEF vars, stdoutEnd
<1> QED  BY <1>5, <1>6, <1>7, <1>8, <1>9, NextCases

-----------------------------------------------------------------------------
(* What readLoop hands over.                                               *)

\* readLoop hands a response to nobody but the call it answers.
LEMMA HandoverStep ==
    ASSUME TypeOK, IdsDistinct, Bookkept, OutputTagged, HandedToOwner, [Next]_vars
    PROVE  HandedToOwner'
<1>1. ASSUME UNCHANGED <<target, held, chanBuf>>, pc'[Reader] = "send" => pc[Reader] = "send"
      PROVE  HandedToOwner'
  BY <1>1, WrittenStable DEF HandedToOwner
<1> USE DEF Moves, TypeOK, Writers, channels, readerLocals
<1>2. CASE ReaderResponse
  <2>1. UNCHANGED chanBuf
    BY <1>2 DEF ReaderResponse
  <2> DEFINE src == Head(stdout).src
  <2>2. src \in Invocations /\ id[src] # 0 /\ Written(src)
    <3>1. 1 \in 1..Len(stdout) /\ Head(stdout) = stdout[1] /\ stdout[1].kind = "response"
      BY <1>2, LenProperties DEF ReaderResponse, Receives
    <3> QED  BY <3>1 DEF OutputTagged
  <2>3. EntriesAt(id[src]) \subseteq {src}
    BY <2>2, KeyHasOneOwner
  <2>4. CASE EntriesAt(id[src]) = {}
    BY <1>1, <1>2, <2>1, <2>4 DEF ReaderResponse
  <2>5. CASE EntriesAt(id[src]) # {}
    <3>1. target' = src /\ held' = src
      BY <1>2, <2>3, <2>5 DEF ReaderResponse
    <3> QED  BY <2>1, <2>2, <3>1, WrittenStable DEF HandedToOwner
  <2> QED  BY <2>4, <2>5
<1>3. CASE ReaderSend
  <2>1. pc'[Reader] = "read" /\ chanBuf' = [chanBuf EXCEPT ![target] = held]
    BY <1>3 DEF ReaderSend
  <2>2. held = target /\ target \in Invocations /\ Written(target)
    BY <1>3 DEF ReaderSend, HandedToOwner
  <2> QED  BY <2>1, <2>2, WrittenStable DEF HandedToOwner
<1>4. ASSUME NEW p \in Invocations, CallReceive(p) PROVE HandedToOwner'
  <2>1. /\ UNCHANGED <<target, held>> /\ chanBuf' = [chanBuf EXCEPT ![p] = None]
        /\ pc'[Reader] = pc[Reader]
    BY <1>4, DistinctActors DEF CallReceive, Return
  <2> QED  BY <2>1, WrittenStable DEF HandedToOwner
<1>5. ASSUME NEW p \in Invocations, CallStep(p), ~CallReceive(p) PROVE HandedToOwner'
  BY <1>1, <1>5, DistinctActors DEF CallStep, CallRefused, CallRegister, CallReleased,
     CallTimeout, CallDelete, Return, AfterCall
<1>6. ASSUME NEW p \in Writers, NotifyStep(p) \/ CloseStep(p) PROVE HandedToOwner'
  BY <1>1, <1>6, DistinctActors DEF NotifyStep, NotifyRefused, NotifyAdmitted, CloseStep,
     CloseStart, CloseStdin, CloseKill, CloseWaited, CloseRelease
<1>7. ASSUME NEW p \in Writers, WriteStep(p) PROVE HandedToOwner'
  BY <1>1, <1>7, DistinctActors DEF WriteStep, AcquireWrite, WriteHeader, WriteBody,
     WriteFails, AfterWrite
<1>8. ASSUME ReaderStep, ~ReaderResponse, ~ReaderSend PROVE HandedToOwner'
  BY <1>1, <1>8 DEF ReaderStep, ReaderSendPanics, ReaderServerRequest, ReaderIgnores,
     ReaderFails
<1>9. ASSUME ServerStep \/ UNCHANGED vars PROVE HandedToOwner'
  BY <1>1, <1>9 DEF ServerStep, ServerRead, ServerAnswer, ServerPush, ServerExit, vars
<1> QED  BY <1>2, <1>3, <1>4, <1>5, <1>6, <1>7, <1>8, <1>9, NextCases DEF Invocations

\* A call takes its outcome from its own channel only.
LEMMA AnswersStep ==
    ASSUME TypeOK, HandedToOwner, AnswersMatch, [Next]_vars
    PROVE  AnswersMatch'
<1> USE DEF AnswersMatch, results, Return, TypeOK
<1>1. ASSUME NEW p \in Invocations, CallStep(p) PROVE AnswersMatch'
  BY <1>1 DEF CallStep, CallRefused, CallRegister, CallReceive, CallReleased,
     CallTimeout, CallDelete, HandedToOwner
<1>2. ASSUME NEW p, NotifyStep(p) \/ CloseStep(p) PROVE AnswersMatch'
  BY <1>2 DEF NotifyStep, NotifyRefused, NotifyAdmitted, CloseStep, CloseStart,
     CloseStdin, CloseKill, CloseWaited, CloseRelease
<1>3. ASSUME NEW p, WriteStep(p) PROVE AnswersMatch'
  BY <1>3 DEF WriteStep, AcquireWrite, WriteHeader, WriteBody, WriteFails
<1>4. ASSUME ReaderStep \/ ServerStep \/ UNCHANGED vars PROVE AnswersMatch'
  BY <1>4 DEF ReaderStep, ReaderResponse, ReaderSend, ReaderSendPanics,
     ReaderServerRequest, ReaderIgnores, ReaderFails, ServerStep, ServerRead,
     ServerAnswer, ServerPush, ServerExit, vars
<1> QED  BY <1>1, <1>2, <1>3, <1>4, NextCases

-----------------------------------------------------------------------------
(* Framing.                                                                *)

\* At the start nothing is written and nobody holds the lock.
LEMMA FramingInit == Init => Framing
<1> SUFFICES ASSUME Init PROVE Framing
  OBVIOUS
<1>1. ASSUME NEW p \in Writers PROVE pc[p] \notin {"header", "body"} /\ writeMu # p
  BY DistinctActors DEF Init, Writers, Invocations
<1>2. LockHeld
  BY <1>1 DEF LockHeld
<1>3. Len(stdin) = 0 /\ writeMu = None
  BY DEF Init
<1>4. OpenFrame
  BY <1>3 DEF OpenFrame
<1>5. FramesIntact
  BY <1>3 DEF FramesIntact
<1> QED  BY <1>2, <1>4, <1>5 DEF Framing

\* Taking a whole frame off the front leaves whole frames.
LEMMA FramesAfterRead ==
    ASSUME TypeOK, FramesIntact, ServerRead
    PROVE  FramesIntact'
<1>1. stdin' = SubSeq(stdin, 3, Len(stdin)) /\ Len(stdin) >= 2 /\ Len(stdin) \in Nat
  BY DEF ServerRead, TypeOK
<1>2. ASSUME NEW i \in 1..Len(stdin')
      PROVE  i + 2 \in 1..Len(stdin) /\ stdin'[i] = stdin[i + 2]
  BY <1>1, OneFrameLess DEF TypeOK
<1>3. ASSUME NEW i \in 1..Len(stdin')
      PROVE  /\ stdin'[i].part = (IF i % 2 = 1 THEN "header" ELSE "body")
             /\ i % 2 = 0 => stdin'[i].from = stdin'[i - 1].from
  <2>1. (i + 2) % 2 = i % 2 /\ i \in Nat
    OBVIOUS
  <2>2. stdin'[i].part = (IF i % 2 = 1 THEN "header" ELSE "body")
    BY <1>2, <2>1 DEF FramesIntact
  <2>3. ASSUME i % 2 = 0 PROVE stdin'[i].from = stdin'[i - 1].from
    <3>1. i - 1 \in 1..Len(stdin') /\ (i - 1) + 2 = (i + 2) - 1
      BY <2>1, <2>3
    <3>2. stdin'[i - 1] = stdin[(i + 2) - 1]
      BY <1>2, <3>1
    <3>3. stdin[i + 2].from = stdin[(i + 2) - 1].from
      BY <1>2, <2>1, <2>3 DEF FramesIntact
    <3> QED  BY <1>2, <3>2, <3>3
  <2> QED  BY <2>2, <2>3
<1> QED  BY <1>3 DEF FramesIntact

\* A write by the lock's holder completes the pattern.
LEMMA FramesAfterWrite ==
    ASSUME TypeOK, Framing, NEW p \in Writers, NEW part, Write(p, part), pc[p] = part,
           part \in {"header", "body"}
    PROVE  /\ FramesIntact'
           /\ Len(stdin') % 2 = (IF part = "header" THEN 1 ELSE 0)
           /\ stdin'[Len(stdin')].from = p
<1> DEFINE w == [part |-> part, kind |-> Sending(p), from |-> p]
           n == Len(stdin)
<1>1. /\ stdin' = Append(stdin, w) /\ alive /\ ~stdinClosed
      /\ writeMu = p /\ p # None /\ n \in Nat
  BY DistinctActors DEF Write, Framing, LockHeld, TypeOK
<1>2. IF part = "body" THEN n % 2 = 1 /\ stdin[n].from = p ELSE n % 2 = 0
  BY <1>1 DEF Framing, OpenFrame
<1>3. Len(stdin') = n + 1 /\ stdin'[n + 1] = w
  BY <1>1 DEF TypeOK
<1>4. ASSUME NEW i \in 1..n PROVE stdin'[i] = stdin[i]
  BY <1>1 DEF TypeOK
<1>5. (n + 1) % 2 = (IF part = "header" THEN 1 ELSE 0)
  BY <1>1, <1>2
<1>6. ASSUME NEW i \in 1..Len(stdin')
      PROVE  /\ stdin'[i].part = (IF i % 2 = 1 THEN "header" ELSE "body")
             /\ i % 2 = 0 => stdin'[i].from = stdin'[i - 1].from
  <2>1. CASE i = n + 1
    <3>1. stdin'[i].part = (IF i % 2 = 1 THEN "header" ELSE "body")
      BY <1>3, <1>5, <2>1
    <3>2. ASSUME i % 2 = 0 PROVE stdin'[i].from = stdin'[i - 1].from
      <4>1. part = "body" /\ n \in 1..n /\ i - 1 = n
        BY <1>1, <1>2, <1>5, <2>1, <3>2
      <4> QED  BY <1>2, <1>3, <1>4, <2>1, <4>1
    <3> QED  BY <3>1, <3>2
  <2>2. CASE i \in 1..n
    <3>1. i % 2 = 0 => i - 1 \in 1..n
      BY <1>1, <2>2
    <3> QED  BY <1>4, <2>2, <3>1 DEF Framing, FramesIntact
  <2> QED  BY <1>1, <1>3, <2>1, <2>2
<1> QED  BY <1>3, <1>5, <1>6 DEF FramesIntact

\* A step in writeMessage keeps frames whole.
LEMMA FramingWrite ==
    ASSUME TypeOK, Framing, NEW p \in Writers, WriteStep(p)
    PROVE  Framing'
<1> USE DEF Moves, TypeOK
<1>1. p # None
  BY DistinctActors
<1>2. CASE AcquireWrite(p)
  <2>1. LockHeld'
    BY <1>2, DistinctActors DEF AcquireWrite, LockFree, Framing, LockHeld
  <2>2. OpenFrame' /\ FramesIntact'
    BY <1>1, <1>2 DEF AcquireWrite, LockFree, Framing, OpenFrame, FramesIntact, server
  <2> QED  BY <2>1, <2>2 DEF Framing
<1>3. CASE WriteHeader(p)
  <2>1. FramesIntact' /\ Len(stdin') % 2 = 1 /\ stdin'[Len(stdin')].from = p
    BY <1>3, FramesAfterWrite DEF WriteHeader
  <2>2. LockHeld' /\ OpenFrame'
    BY <1>1, <1>3, <2>1 DEF WriteHeader, Framing, LockHeld, OpenFrame
  <2> QED  BY <2>1, <2>2 DEF Framing
<1>4. CASE WriteBody(p)
  <2>1. FramesIntact' /\ Len(stdin') % 2 = 0
    BY <1>4, FramesAfterWrite DEF WriteBody
  <2>2. AfterWrite(p) \notin {"header", "body"}
    BY DEF AfterWrite
  <2>3. LockHeld' /\ OpenFrame'
    BY <1>1, <1>4, <2>1, <2>2, DistinctActors DEF WriteBody, Framing, LockHeld, OpenFrame
  <2> QED  BY <2>1, <2>3 DEF Framing
<1>5. CASE WriteFails(p)
  <2>1. pc' = [pc EXCEPT ![p] = pc'[p]] /\ pc'[p] \notin {"header", "body"}
    BY <1>5 DEF WriteFails, AfterWrite
  <2>2. /\ UNCHANGED <<stdin, stdinClosed, alive>> /\ writeMu' = None
        /\ stdinClosed \/ ~alive
        /\ pc[p] \in {"header", "body"}
    BY <1>5 DEF WriteFails, server
  <2>3. LockHeld'
    BY <1>1, <2>1, <2>2, DistinctActors DEF Framing, LockHeld
  <2>4. OpenFrame' /\ FramesIntact'
    BY <2>2 DEF Framing, OpenFrame, FramesIntact
  <2> QED  BY <2>3, <2>4 DEF Framing
<1> QED  BY <1>2, <1>3, <1>4, <1>5 DEF WriteStep

\* Every other step leaves the lock alone, and the input too or drains it.
LEMMA FramingStep ==
    ASSUME TypeOK, Framing, [Next]_vars
    PROVE  Framing'
<1> USE DEF Moves, TypeOK, Writers, stdinEnd, server
<1> DEFINE Idle(l) == l \notin {"header", "body"}
<1>1. ASSUME UNCHANGED <<writeMu, stdin>>, stdinClosed => stdinClosed', alive' => alive,
             \/ UNCHANGED pc
             \/ \E p \in Writers : Idle(pc[p]) /\ Idle(pc'[p]) /\ pc' = [pc EXCEPT ![p] = pc'[p]]
      PROVE  Framing'
  <2>1. \A p \in Writers : pc'[p] \in {"header", "body"} <=> pc[p] \in {"header", "body"}
    BY <1>1
  <2>2. \A p \in Writers : pc[p] \in {"header", "body"} => pc'[p] = pc[p]
    BY <1>1
  <2>3. LockHeld'
    BY <1>1, <2>1 DEF Framing, LockHeld
  <2>4. OpenFrame'
    BY <1>1, <2>1, <2>2 DEF Framing, OpenFrame
  <2> QED  BY <1>1, <2>3, <2>4 DEF Framing, FramesIntact
<1>2. ASSUME UNCHANGED <<pc, writeMu>>, Die PROVE Framing'
  BY <1>2 DEF Die, Framing, LockHeld, OpenFrame, FramesIntact
<1>3. ASSUME NEW p \in Invocations, CallStep(p) PROVE Framing'
  <2>1. Idle(pc[p]) /\ Idle(pc'[p]) /\ pc' = [pc EXCEPT ![p] = pc'[p]]
    BY <1>3 DEF CallStep, CallRefused, CallRegister, CallReceive, CallReleased,
       CallTimeout, CallDelete, Return, AfterCall
  <2>2. UNCHANGED <<writeMu, stdin, stdinClosed, alive>>
    BY <1>3 DEF CallStep, CallRefused, CallRegister, CallReceive, CallReleased,
       CallTimeout, CallDelete
  <2> QED  BY <1>1, <2>1, <2>2
<1>4. ASSUME NEW p \in Closers \cup Notifiers, NotifyStep(p) PROVE Framing'
  BY <1>1, <1>4 DEF NotifyStep, NotifyRefused, NotifyAdmitted, Invocations
<1>5. ASSUME NEW p \in Closers, CloseStep(p) PROVE Framing'
  <2>1. CASE CloseKill(p)
    BY <1>2, <2>1 DEF CloseKill
  <2>2. ASSUME ~CloseKill(p)
        PROVE  /\ Idle(pc[p]) /\ Idle(pc'[p]) /\ pc' = [pc EXCEPT ![p] = pc'[p]]
               /\ UNCHANGED <<writeMu, stdin, alive>>
               /\ stdinClosed => stdinClosed'
    BY <1>5, <2>2 DEF CloseStep, CloseStart, CloseStdin, CloseWaited, CloseRelease, Invocations
  <2> QED  BY <1>1, <2>1, <2>2 DEF Invocations
<1>6. ASSUME ReaderStep PROVE Framing'
  <2>1. UNCHANGED <<writeMu, stdin, stdinClosed, alive>>
    BY <1>6 DEF ReaderStep, ReaderResponse, ReaderSend, ReaderSendPanics,
       ReaderServerRequest, ReaderIgnores, ReaderFails
  <2>2. \/ UNCHANGED pc
        \/ /\ Idle(pc[Reader]) /\ Idle(pc'[Reader])
           /\ pc' = [pc EXCEPT ![Reader] = pc'[Reader]]
    BY <1>6 DEF ReaderStep, ReaderResponse, ReaderSend, ReaderSendPanics,
       ReaderServerRequest, ReaderIgnores, ReaderFails
  <2> QED  BY <1>1, <2>1, <2>2
<1>7. CASE ServerRead
  <2>1. FramesIntact'
    BY <1>7, FramesAfterRead DEF Framing
  <2>2. LockHeld'
    BY <1>7 DEF ServerRead, Framing, LockHeld
  <2>3. OpenFrame'
    <3>1. /\ Len(stdin) \in Nat /\ Len(stdin) >= 2 /\ Len(stdin') = Len(stdin) - 2
          /\ \A i \in 1..(Len(stdin) - 2) : stdin'[i] = stdin[i + 2]
      BY <1>7, OneFrameLess DEF ServerRead
    <3>2. Len(stdin') % 2 = Len(stdin) % 2
      BY <3>1
    <3>3. Len(stdin) % 2 = 1 => stdin'[Len(stdin')] = stdin[Len(stdin)]
      BY <3>1
    <3> QED  BY <1>7, <3>2, <3>3 DEF ServerRead, Framing, OpenFrame
  <2> QED  BY <2>1, <2>2, <2>3 DEF Framing
<1>8. ASSUME ServerStep, ~ServerRead PROVE Framing'
  <2>1. CASE ServerExit
    BY <1>2, <2>1 DEF ServerExit
  <2>2. CASE ~ServerExit
    BY <1>1, <1>8, <2>2 DEF ServerStep, ServerAnswer, ServerPush
  <2> QED  BY <2>1, <2>2
<1>9. CASE UNCHANGED vars
  BY <1>1, <1>9 DEF vars
<1> QED  BY <1>3, <1>4, <1>5, <1>6, <1>7, <1>8, <1>9, NextCases, FramingWrite

-----------------------------------------------------------------------------
(* The theorems.                                                           *)

\* Every step keeps every variable in its type.
LEMMA TypeStep ==
    ASSUME TypeOK, InputTagged, [Next]_vars
    PROVE  TypeOK'
<1>1. ASSUME NEW p \in Closers \cup Notifiers, NotifyStep(p) \/ CloseStep(p) PROVE TypeOK'
  BY <1>1, TypeClose DEF Writers, Invocations
<1>2. CASE UNCHANGED vars
  BY <1>2 DEF vars, TypeOK, table, channels, results, stdinEnd, stdoutEnd, readerLocals,
     server
<1> QED  BY <1>1, <1>2, TypeCall, TypeWrite, TypeReader, TypeServer, NextCases

\* The invariant is inductive: it holds at first and every step keeps it.
THEOREM IndInvInductive == Spec => []IndInv
<1>1. Init => IndInv
  BY TypeInit, IdsInit, BookkeepingInit, MessagesInit, FramingInit
     DEF IndInv, Init, AnswersMatch
<1>2. ASSUME IndInv, [Next]_vars PROVE IndInv'
  <2> USE DEF IndInv
  <2>1. TypeOK'         BY <1>2, TypeStep DEF Messages
  <2>2. IdsDistinct'    BY <1>2, IdsStep
  <2>3. Bookkept'       BY <1>2, BookkeepingStep
  <2>4. Messages'
    BY <1>2, InputStep, InboxStep, OutputStep, HandoverStep DEF Messages, Framing
  <2>5. Framing'        BY <1>2, FramingStep
  <2>6. AnswersMatch'   BY <1>2, AnswersStep DEF Messages
  <2> QED  BY <2>1, <2>2, <2>3, <2>4, <2>5, <2>6
<1> QED  BY <1>1, <1>2, PTL DEF Spec

\* Every variable keeps its type, whatever the goroutines and tsgo do.
THEOREM TypeCorrect == Spec => []TypeOK
BY IndInvInductive, PTL DEF IndInv

\* No caller is ever handed the response to another call's request (readLoop's
\* demultiplexing by id, late responses included).
THEOREM AnswersAlwaysMatch == Spec => []AnswersMatch
BY IndInvInductive, PTL DEF IndInv

\* Concurrent writers never interleave frames on tsgo's stdin (writeMessage).
THEOREM FramesAlwaysIntact == Spec => []FramesIntact
<1>1. IndInv => FramesIntact
  BY DEF IndInv, Framing
<1> QED  BY <1>1, IndInvInductive, PTL

\* The pending map holds entries of calls in flight only (call's deferred delete).
THEOREM NoEntryLeaks == Spec => []NoLeakedEntries
<1>1. IndInv => NoLeakedEntries
  BY DEF IndInv, Bookkept, Bookkeeping, InFlight, NoLeakedEntries, CallLabels, TypeOK
<1> QED  BY <1>1, IndInvInductive, PTL

\* Once the provider is marked closed, every call in flight has been released and
\* no new one registers (shutdownPending against call).
THEOREM ClosedAlwaysReleases == Spec => []ClosedReleases
<1>1. IndInv => ClosedReleases
  BY DEF IndInv, Bookkept, Bookkeeping, InFlight, ClosedReleases, TypeOK
<1> QED  BY <1>1, IndInvInductive, PTL

\* The cause of the first shutdown is never overwritten (shutdownPending).
THEOREM FirstCauseAlwaysKept == Spec => FirstCauseKept
<1> USE DEF table
<1>1. ASSUME closed, [Next]_vars PROVE closed' /\ connErr' = connErr
  <2>1. ASSUME NEW p \in Invocations, CallStep(p) PROVE closed' /\ connErr' = connErr
    BY <1>1, <2>1 DEF CallStep, CallRefused, CallRegister, CallReceive, CallReleased,
       CallTimeout, CallDelete
  <2>2. ASSUME NEW p, NotifyStep(p) \/ WriteStep(p) PROVE closed' /\ connErr' = connErr
    BY <1>1, <2>2 DEF NotifyStep, NotifyRefused, NotifyAdmitted, WriteStep,
       AcquireWrite, WriteHeader, WriteBody, WriteFails
  <2>3. ASSUME NEW p, CloseStep(p) PROVE closed' /\ connErr' = connErr
    BY <1>1, <2>3 DEF CloseStep, CloseStart, CloseStdin, CloseKill, CloseWaited,
       CloseRelease, ShutdownPending
  <2>4. ASSUME ReaderStep \/ ServerStep \/ UNCHANGED vars
        PROVE  closed' /\ connErr' = connErr
    BY <1>1, <2>4 DEF ReaderStep, ReaderResponse, ReaderSend, ReaderSendPanics,
       ReaderServerRequest, ReaderIgnores, ReaderFails, ShutdownPending, ServerStep,
       ServerRead, ServerAnswer, ServerPush, ServerExit, vars
  <2> QED  BY <1>1, <2>1, <2>2, <2>3, <2>4, NextCases
<1>2. [Next]_vars => [closed => closed' /\ connErr' = connErr]_vars
  BY <1>1
<1> QED  BY <1>2, PTL DEF Spec, FirstCauseKept

-----------------------------------------------------------------------------
(* Without a closer the reader cannot panic.                               *)

\* Only Close and the reader mark the provider closed, and the reader stops then.
ReaderStopsOnClose == ~panicked /\ (closed => pc[Reader] = "done")

\* Without a closer, the reader closes channels only as it ends.
LEMMA ReaderStopsStep ==
    ASSUME Closers = {}, IndInv, ReaderStopsOnClose, [Next]_vars
    PROVE  ReaderStopsOnClose'
<1> USE DEF ReaderStopsOnClose, Moves, table, IndInv, TypeOK, Writers
<1>1. ASSUME NEW p \in Invocations, CallStep(p) PROVE ReaderStopsOnClose'
  BY <1>1, DistinctActors DEF CallStep, CallRefused, CallRegister, CallReceive,
     CallReleased, CallTimeout, CallDelete, Return
<1>2. ASSUME NEW p \in Closers \cup Notifiers, NotifyStep(p) PROVE ReaderStopsOnClose'
  BY <1>2, DistinctActors DEF NotifyStep, NotifyRefused, NotifyAdmitted, Invocations
<1>3. ASSUME NEW p \in Writers, WriteStep(p) PROVE ReaderStopsOnClose'
  <2>1. UNCHANGED <<closed, panicked>> /\ pc[p] # "done"
        /\ \A q \in Writers : q # p => pc'[q] = pc[q]
    BY <1>3 DEF WriteStep, AcquireWrite, WriteHeader, WriteBody, WriteFails
  <2> QED  BY <2>1
<1>4. ASSUME ReaderStep PROVE ReaderStopsOnClose'
  <2>1. ~ReaderSendPanics
    <3>1. pc[Reader] = "send" => target \in Invocations /\ ~closed
      BY DEF Messages, HandedToOwner
    <3> QED  BY <3>1 DEF ReaderSendPanics, Bookkept, Bookkeeping
  <2>2. CASE ReaderFails
    BY <2>2 DEF ReaderFails, ShutdownPending
  <2>3. CASE ~ReaderFails
    BY <1>4, <2>1, <2>3 DEF ReaderStep, ReaderResponse, ReaderSend,
       ReaderServerRequest, ReaderIgnores
  <2> QED  BY <2>2, <2>3
<1>5. ASSUME ServerStep \/ UNCHANGED vars PROVE ReaderStopsOnClose'
  BY <1>5 DEF ServerStep, ServerRead, ServerAnswer, ServerPush, ServerExit, vars
<1> QED  BY <1>1, <1>2, <1>3, <1>4, <1>5, NextCases

\* As long as nobody calls Close, readLoop never sends on a closed channel.
THEOREM NoPanicWithoutClose ==
    ASSUME Closers = {} PROVE Spec => []ReaderNeverPanics
<1>1. Init => ReaderStopsOnClose
  BY DEF Init, ReaderStopsOnClose
<1>2. ReaderStopsOnClose => ReaderNeverPanics
  BY DEF ReaderStopsOnClose, ReaderNeverPanics
<1>3. IndInv /\ ReaderStopsOnClose /\ [Next]_vars => ReaderStopsOnClose'
  BY ReaderStopsStep
<1> QED  BY <1>1, <1>2, <1>3, IndInvInductive, PTL DEF Spec

-----------------------------------------------------------------------------
(* The client implements RpcCalls.                                         *)

\* The status of a call moves only with its label, outcome or channel.
LEMMA StatusLocal ==
    ASSUME NEW q, pc'[q] = pc[q], outcome'[q] = outcome[q], chanBuf'[q] = chanBuf[q]
    PROVE  Status(q)' = Status(q)
BY DEF Status

\* How a change of one call's status is a step of RpcCalls.
LEMMA OneStatusChanges ==
    ASSUME NEW p \in Calls, \A q \in Calls \ {p} : Status(q)' = Status(q),
           NEW from, NEW to, Status(p) \in from, Status(p)' = to
    PROVE  Promise!Becomes(p, from, to)
BY DEF Promise!Becomes

\* A step that changes no status and leaves closed alone is a stutter.
LEMMA NoStatusChanges ==
    ASSUME \A q \in Calls : Status(q)' = Status(q), closed' = closed
    PROVE  UNCHANGED Promise!vars
BY DEF Promise!vars

\* A step in call() is a step of RpcCalls, or none.
LEMMA PromiseCall ==
    ASSUME IndInv, NEW p \in Invocations, CallStep(p)
    PROVE  [Promise!Next]_Promise!vars
<1> USE DEF Moves, IndInv, TypeOK, Writers, Invocations, channels, results, table
<1>1. ASSUME NEW q \in Calls, q # p PROVE Status(q)' = Status(q)
  <2>1. pc'[q] = pc[q] /\ outcome'[q] = outcome[q] /\ chanBuf'[q] = chanBuf[q]
    BY <1>1 DEF CallStep, CallRefused, CallRegister, CallReceive, CallReleased,
       CallTimeout, CallDelete, Return
  <2> QED  BY <2>1, StatusLocal
<1>2. closed' = closed
  BY DEF CallStep, CallRefused, CallRegister, CallReceive, CallReleased, CallTimeout,
     CallDelete
<1>3. CASE p \in Closers
  BY <1>1, <1>2, <1>3, DistinctActors, NoStatusChanges
<1>4. CASE p \in Calls
  <2>1. \A q \in Calls \ {p} : Status(q)' = Status(q)
    BY <1>1
  <2>2. Bookkeeping(p)
    BY <1>4 DEF Bookkept
  <2>3. CASE CallRefused(p)
    <3>0. /\ pc[p] = "call" /\ outcome[p] = "none" /\ closed
          /\ outcome'[p] = "refused"
      BY <1>4, <2>2, <2>3 DEF CallRefused, Admits, Bookkeeping
    <3>1. Status(p) = "new" /\ Status(p)' = "failed"
      BY <3>0 DEF Status
    <3> QED  BY <1>2, <1>4, <2>1, <3>0, <3>1, OneStatusChanges DEF Promise!Next,
                Promise!Begin, Promise!Refuse
  <2>4. CASE CallRegister(p)
    <3>1. Status(p) = "new" /\ Status(p)' = "open" /\ ~closed
      BY <1>4, <2>2, <2>4 DEF CallRegister, Admits, Status, Bookkeeping
    <3> QED  BY <1>2, <1>4, <2>1, <3>1, OneStatusChanges DEF Promise!Next, Promise!Begin,
                Promise!Issue
  <2>5. CASE CallReceive(p)
    <3>1. Status(p) = "delivered" /\ Status(p)' = "answered"
      BY <1>4, <2>2, <2>5 DEF CallReceive, Return, Status, Bookkeeping,
         Messages, HandedToOwner
    <3> QED  BY <1>2, <1>4, <2>1, <3>1, OneStatusChanges DEF Promise!Next,
                Promise!Settle, Promise!Answer
  <2>6. CASE CallReleased(p) \/ CallTimeout(p)
    <3>1. Status(p) \in {"open", "sent", "delivered"} /\ Status(p)' = "failed"
      BY <1>4, <2>2, <2>6 DEF CallReleased, CallTimeout, Return, Status,
         Bookkeeping
    <3> QED  BY <1>2, <1>4, <2>1, <3>1, OneStatusChanges DEF Promise!Next,
                Promise!Settle, Promise!Fail
  <2>7. CASE CallDelete(p)
    <3>1. Status(p)' = Status(p)
      BY <1>4, <2>2, <2>7 DEF CallDelete, Status, Bookkeeping
    <3> QED  BY <1>1, <1>2, <3>1, NoStatusChanges
  <2> QED  BY <2>3, <2>4, <2>5, <2>6, <2>7 DEF CallStep
<1> QED  BY <1>3, <1>4

\* So is a step in writeMessage.
LEMMA PromiseWrite ==
    ASSUME IndInv, NEW p \in Writers, WriteStep(p)
    PROVE  [Promise!Next]_Promise!vars
<1> USE DEF Moves, IndInv, TypeOK, Writers, Invocations, channels, results, table
<1>1. ASSUME NEW q \in Calls, q # p PROVE Status(q)' = Status(q)
  <2>1. pc'[q] = pc[q] /\ outcome'[q] = outcome[q] /\ chanBuf'[q] = chanBuf[q]
    BY <1>1 DEF WriteStep, AcquireWrite, WriteHeader, WriteBody, WriteFails
  <2> QED  BY <2>1, StatusLocal
<1>2. closed' = closed
  BY DEF WriteStep, AcquireWrite, WriteHeader, WriteBody, WriteFails
<1>3. CASE p \notin Calls \/ Status(p)' = Status(p)
  BY <1>1, <1>2, <1>3, NoStatusChanges
<1>4. CASE p \in Calls /\ Status(p)' # Status(p)
  <2>1. \A q \in Calls \ {p} : Status(q)' = Status(q)
    BY <1>1
  <2>2. p # Reader /\ p \notin Notifiers
    BY <1>4, DistinctActors
  <2>3. CASE outcome[p] # "none"
    <3>1. outcome'[p] = outcome[p]
      BY <2>2, <2>3 DEF WriteStep, AcquireWrite, WriteHeader, WriteBody, WriteFails,
         Sending
    <3> QED  BY <1>4, <2>3, <3>1 DEF Status
  <2>4. CASE outcome[p] = "none" /\ (AcquireWrite(p) \/ WriteHeader(p))
    BY <1>4, <2>4 DEF AcquireWrite, WriteHeader, Status
  <2>5. CASE outcome[p] = "none" /\ WriteBody(p)
    <3>1. chanBuf[p] = None
      BY <1>4, <2>5 DEF WriteBody, Messages, HandedToOwner, Written
    <3>2. pc[p] = "body" /\ pc'[p] = "wait" /\ UNCHANGED <<outcome, chanBuf>>
      BY <1>4, <2>2, <2>5 DEF WriteBody, AfterWrite
    <3>3. Status(p) = "open" /\ Status(p)' = "sent"
      BY <1>4, <2>5, <3>1, <3>2, DistinctActors DEF Status
    <3> QED  BY <1>2, <1>4, <2>1, <3>3, OneStatusChanges DEF Promise!Next, Promise!Send
  <2>6. CASE outcome[p] = "none" /\ WriteFails(p)
    <3>1. Sending(p) = "request"
      BY <1>4, <2>2, <2>6 DEF Sending
    <3>2. Status(p) = "open" /\ Status(p)' = "failed"
      BY <1>4, <2>6, <3>1 DEF WriteFails, Status
    <3> QED  BY <1>2, <1>4, <2>1, <3>2, OneStatusChanges DEF Promise!Next,
                Promise!Settle, Promise!Fail
  <2> QED  BY <2>3, <2>4, <2>5, <2>6 DEF WriteStep
<1> QED  BY <1>3, <1>4

\* Marking the connection closed is RpcCalls losing it.
LEMMA PromiseShutdown ==
    ASSUME NEW cause, ShutdownPending(cause), \A q \in Calls : Status(q)' = Status(q)
    PROVE  [Promise!Next]_Promise!vars
<1>1. CASE closed
  BY <1>1, NoStatusChanges DEF ShutdownPending, table
<1>2. CASE ~closed
  BY <1>2 DEF ShutdownPending, Promise!Next, Promise!GoDown
<1> QED  BY <1>1, <1>2

\* A step of Close or notify changes no status but by that.
LEMMA PromiseClose ==
    ASSUME IndInv, NEW p \in Closers \cup Notifiers, NotifyStep(p) \/ CloseStep(p)
    PROVE  [Promise!Next]_Promise!vars
<1> USE DEF Moves, IndInv, TypeOK, Writers, Invocations, channels, results, table
<1>1. ASSUME NEW q \in Calls PROVE Status(q)' = Status(q)
  <2>1. pc'[q] = pc[q] /\ outcome'[q] = outcome[q] /\ chanBuf'[q] = chanBuf[q]
    BY <1>1, DistinctActors DEF NotifyStep, NotifyRefused, NotifyAdmitted, CloseStep,
       CloseStart, CloseStdin, CloseKill, CloseWaited, CloseRelease
  <2> QED  BY <2>1, StatusLocal
<1>2. CASE CloseRelease(p)
  BY <1>1, <1>2, PromiseShutdown DEF CloseRelease
<1>3. CASE ~CloseRelease(p)
  BY <1>1, <1>3, NoStatusChanges DEF NotifyStep, NotifyRefused, NotifyAdmitted,
     CloseStep, CloseStart, CloseStdin, CloseKill, CloseWaited
<1> QED  BY <1>2, <1>3

\* A step of readLoop delivers a response, loses the connection, or is none.
LEMMA PromiseReader ==
    ASSUME IndInv, ReaderStep
    PROVE  [Promise!Next]_Promise!vars
<1> USE DEF Moves, IndInv, TypeOK, Writers, Invocations, channels, results, table
<1>1. CASE ReaderSend
  <2> PICK t : t = target
    OBVIOUS
  <2>1. /\ UNCHANGED <<outcome, closed>> /\ chanBuf' = [chanBuf EXCEPT ![t] = held]
        /\ \A q \in Calls : pc'[q] = pc[q]
    BY <1>1, DistinctActors DEF ReaderSend
  <2>2. ASSUME NEW q \in Calls, q # t PROVE Status(q)' = Status(q)
    BY <2>1, <2>2, StatusLocal
  <2>3. /\ held = t /\ t \in Invocations /\ Written(t)
        /\ chanBuf[t] = None /\ t \notin chanClosed
    BY <1>1 DEF ReaderSend, ChannelHasRoom, Messages, HandedToOwner
  <2>4. CASE t \in Calls /\ outcome[t] = "none"
    <3>1. ~closed /\ pc[t] = "wait" /\ chanBuf'[t] = t /\ t # None
      BY <2>1, <2>3, <2>4, DistinctActors DEF Written, Bookkept, Bookkeeping, InFlight
    <3>2. Status(t) = "sent" /\ Status(t)' = "delivered"
      BY <2>1, <2>3, <2>4, <3>1 DEF Status
    <3> QED  BY <2>1, <2>2, <2>4, <3>1, <3>2, OneStatusChanges DEF Promise!Next,
                Promise!Deliver
  <2>5. CASE t \notin Calls \/ outcome[t] # "none"
    <3>1. t \in Calls => Status(t)' = Status(t)
      BY <2>1, <2>5 DEF Status
    <3> QED  BY <2>1, <2>2, <3>1, NoStatusChanges
  <2> QED  BY <2>4, <2>5
<1>2. ASSUME ~ReaderSend, NEW q \in Calls PROVE Status(q)' = Status(q)
  <2>1. pc'[q] = pc[q] /\ outcome'[q] = outcome[q] /\ chanBuf'[q] = chanBuf[q]
    BY <1>2, DistinctActors DEF ReaderStep, ReaderResponse, ReaderSendPanics,
       ReaderServerRequest, ReaderIgnores, ReaderFails
  <2> QED  BY <2>1, StatusLocal
<1>3. CASE ReaderFails
  BY <1>1, <1>2, <1>3, PromiseShutdown DEF ReaderFails
<1>4. CASE ~ReaderFails /\ ~ReaderSend
  BY <1>2, <1>4, NoStatusChanges DEF ReaderStep, ReaderResponse, ReaderSendPanics,
     ReaderServerRequest, ReaderIgnores
<1> QED  BY <1>1, <1>3, <1>4

\* The client implements RpcCalls, whatever the number of calls, notifiers and
\* closers: a call settles once, with its own response or a failure, and none
\* opens or is delivered a response once the connection is down.
THEOREM PromiseKept == Spec => KeepsPromise
<1>1. Init => Promise!Init
  <2>1. ASSUME Init, NEW p \in Calls PROVE Status(p) = "new"
    BY <2>1, DistinctActors DEF Init, Status, Writers, Invocations
  <2> QED  BY <2>1 DEF Promise!Init, Init
<1>2. ASSUME IndInv, [Next]_vars PROVE [Promise!Next]_Promise!vars
  <2>1. CASE ServerStep \/ UNCHANGED vars
    <3>1. UNCHANGED <<pc, outcome, chanBuf, closed>>
      BY <2>1 DEF ServerStep, ServerRead, ServerAnswer, ServerPush, ServerExit, vars,
         table, channels, results
    <3> QED  BY <3>1, StatusLocal, NoStatusChanges
  <2> QED  BY <1>2, <2>1, NextCases, PromiseCall, PromiseWrite, PromiseClose,
              PromiseReader
<1> QED  BY <1>1, <1>2, IndInvInductive, PTL DEF Spec, KeepsPromise, Promise!SafeSpec
=============================================================================
