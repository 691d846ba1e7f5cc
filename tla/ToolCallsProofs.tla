-------------------------- MODULE ToolCallsProofs --------------------------
(***************************************************************************)
(* What TLAPS proves of ToolCalls, for any number of calls, files, edits   *)
(* and syncs and any capacity of the stream: its invariants, and that it   *)
(* implements ToolPromise.                                                 *)
(***************************************************************************)
EXTENDS ToolCalls, SequenceTheorems, TLAPS

USE DEF handler, opening, tsgo, world

-----------------------------------------------------------------------------
(* The inductive invariant.                                                *)

\* A call has its file from its first step on.
Placed == \A r \in Requests : pc[r] # "new" => file[r] \in Files

\* openMu is held exactly from the look into openFiles to its end.
Locked == \A r \in Requests : openMu = r <=> pc[r] \in {"check", "opening"}

\* What is about to be opened has not been, and its text is one the file has had.
Reading ==
    \A r \in Requests : pc[r] = "opening" =>
        file[r] \notin openFiles /\ text[r] \in 1..disk[file[r]]

\* Only about a file that is open a question is asked.
Asking == \A r \in Requests : pc[r] = "ask" => file[r] \in openFiles

\* A message is about the file of the call that sent it.
Sent ==
    \A i \in 1..Len(stream) :
        pc[stream[i].from] # "new" /\ stream[i].file = file[stream[i].from]

\* A file of openFiles has one open, on its way or handled; no other file has any.
Tracked(msgs, held, open, f) ==
    /\ \A i, j \in OpensOf(msgs, f) : i = j
    /\ held[f] # None => OpensOf(msgs, f) = {}
    /\ f \in open <=> held[f] # None \/ OpensOf(msgs, f) # {}

Tracking == \A f \in Files : Tracked(stream, docs, openFiles, f)

\* An answer comes from the text of the file tsgo holds, and the second answer
\* after the first.
Answered ==
    \A r \in Requests :
        /\ \A l \in {1, 2} : answer[r][l] # None => pc[r] # "new" /\ answer[r][l] = docs[file[r]]
        /\ leg[r] = 2 => answer[r][1] # None
        /\ answer[r][2] # None => leg[r] = 2

\* A call that has ended otherwise than with an error has its answer.
Concluded ==
    \A r \in Requests : pc[r] \in {"emit", "done"} =>
        /\ result[r] \in {"error", "empty", "found"}
        /\ result[r] # "error" => answer[r][leg[r]] # None

Handlers == Placed /\ Locked /\ Reading /\ Asking /\ Answered /\ Concluded
Traffic  == Sent /\ Tracking /\ AskedAfterOpen /\ OpenedOnce

IndInv == TypeOK /\ Handlers /\ Traffic

-----------------------------------------------------------------------------
(* The stream.                                                             *)

\* One message more.
LEMMA OneMore ==
    ASSUME NEW s \in Seq(Messages), NEW m \in Messages
    PROVE  /\ Append(s, m) \in Seq(Messages) /\ Len(s) \in Nat
           /\ Len(Append(s, m)) = Len(s) + 1
           /\ \A i \in 1..Len(s) : Append(s, m)[i] = s[i]
           /\ Append(s, m)[Len(s) + 1] = m
<1>1. Len(s) \in Nat
  BY LenProperties
<1> QED  BY <1>1, AppendProperties

\* One message less.
LEMMA OneLess ==
    ASSUME NEW s \in Seq(Messages), s # <<>>
    PROVE  /\ Tail(s) \in Seq(Messages) /\ Len(s) \in Nat /\ Len(s) >= 1
           /\ Len(Tail(s)) = Len(s) - 1
           /\ \A i \in 1..(Len(s) - 1) : Tail(s)[i] = s[i + 1]
           /\ Head(s) = s[1] /\ Head(s) \in Messages
<1>1. Len(s) \in Nat /\ Len(s) >= 1
  BY EmptySeq
<1>2. Head(s) = s[1]
  OBVIOUS
<1> QED  BY <1>1, <1>2, HeadTailProperties

\* An open at the end of the stream is the only change to the opens on it.
LEMMA OpensAppended ==
    ASSUME NEW s \in Seq(Messages), NEW m \in Messages, NEW f
    PROVE  OpensOf(Append(s, m), f) = OpensOf(s, f) \cup
               (IF m.kind = "open" /\ m.file = f THEN {Len(s) + 1} ELSE {})
<1>1. ASSUME NEW i \in 1..Len(s)
      PROVE  i \in OpensOf(Append(s, m), f) <=> i \in OpensOf(s, f)
  <2>1. i \in 1..Len(Append(s, m)) /\ Append(s, m)[i] = s[i]
    BY OneMore
  <2> QED  BY <2>1 DEF OpensOf
<1>2. Len(s) + 1 \in OpensOf(Append(s, m), f) <=> m.kind = "open" /\ m.file = f
  <2>1. Len(s) + 1 \in 1..Len(Append(s, m)) /\ Append(s, m)[Len(s) + 1] = m
    BY OneMore
  <2> QED  BY <2>1 DEF OpensOf
<1>3. 1..Len(Append(s, m)) = 1..Len(s) \cup {Len(s) + 1}
  BY OneMore
<1>4. OpensOf(Append(s, m), f) \subseteq 1..Len(Append(s, m)) /\ OpensOf(s, f) \subseteq 1..Len(s)
  BY DEF OpensOf
<1>5. Len(s) + 1 \notin OpensOf(s, f)
  BY <1>4, OneMore
<1> QED  BY <1>1, <1>2, <1>3, <1>4, <1>5

\* What is handled leaves the stream, and the opens behind it move up.
LEMMA OpensHandled ==
    ASSUME NEW s \in Seq(Messages), s # <<>>, NEW f
    PROVE  /\ \A i \in OpensOf(Tail(s), f) : i + 1 \in OpensOf(s, f) /\ Tail(s)[i] = s[i + 1]
           /\ \A i \in OpensOf(s, f) : i # 1 => i - 1 \in OpensOf(Tail(s), f)
           /\ OpensOf(Tail(s), f) \subseteq Nat \ {0} /\ OpensOf(s, f) \subseteq Nat \ {0}
           /\ 1 \in OpensOf(s, f) <=> Head(s).kind = "open" /\ Head(s).file = f
<1>1. ASSUME NEW i \in OpensOf(Tail(s), f)
      PROVE  i + 1 \in OpensOf(s, f) /\ Tail(s)[i] = s[i + 1]
  <2>1. i \in 1..(Len(s) - 1) /\ Tail(s)[i].kind = "open" /\ Tail(s)[i].file = f
    BY OneLess DEF OpensOf
  <2>2. i + 1 \in 1..Len(s) /\ Tail(s)[i] = s[i + 1]
    BY <2>1, OneLess
  <2> QED  BY <2>1, <2>2 DEF OpensOf
<1>2. ASSUME NEW i \in OpensOf(s, f), i # 1
      PROVE  i - 1 \in OpensOf(Tail(s), f)
  <2>1. i \in 1..Len(s) /\ s[i].kind = "open" /\ s[i].file = f
    BY DEF OpensOf
  <2>2. i - 1 \in 1..Len(Tail(s)) /\ Tail(s)[i - 1] = s[(i - 1) + 1] /\ (i - 1) + 1 = i
    BY <1>2, <2>1, OneLess
  <2> QED  BY <2>1, <2>2 DEF OpensOf
<1>3. OpensOf(Tail(s), f) \subseteq Nat \ {0} /\ OpensOf(s, f) \subseteq Nat \ {0}
  BY OneLess DEF OpensOf
<1>4. 1 \in OpensOf(s, f) <=> Head(s).kind = "open" /\ Head(s).file = f
  <2>1. 1 \in 1..Len(s) /\ s[1] = Head(s)
    BY OneLess
  <2> QED  BY <2>1 DEF OpensOf
<1> QED  BY <1>1, <1>2, <1>3, <1>4

\* The text on its way to tsgo is that of the one open.
LEMMA ShownIsOpened ==
    ASSUME NEW s, NEW d, NEW f, NEW i, OpensOf(s, f) = {i}, d[f] = None
    PROVE  ShownBy(s, d, f) = s[i].version
BY DEF ShownBy

\* Of a tracked file, an open on its way is the only one.
LEMMA OneOpen ==
    ASSUME NEW s, NEW d, NEW o, NEW f, Tracked(s, d, o, f), NEW i \in OpensOf(s, f)
    PROVE  OpensOf(s, f) = {i} /\ d[f] = None /\ ShownBy(s, d, f) = s[i].version
<1>1. OpensOf(s, f) = {i} /\ d[f] = None
  BY DEF Tracked
<1> QED  BY <1>1, ShownIsOpened

\* With no open on its way, tsgo has been shown what it has open.
LEMMA ShownIsHeld ==
    ASSUME NEW s, NEW d, NEW f, OpensOf(s, f) = {}
    PROVE  ShownBy(s, d, f) = d[f]
<1>1. CASE d[f] = None
  BY <1>1, Zenon DEF ShownBy
<1>2. CASE d[f] # None
  BY <1>2, Zenon DEF ShownBy
<1> QED  BY <1>1, <1>2

\* A message that opens nothing of f leaves f as it was.
LEMMA SentBeside ==
    ASSUME NEW s \in Seq(Messages), NEW m \in Messages, NEW d, NEW o, NEW f,
           ~(m.kind = "open" /\ m.file = f), Tracked(s, d, o, f)
    PROVE  Tracked(Append(s, m), d, o, f) /\ ShownBy(Append(s, m), d, f) = ShownBy(s, d, f)
<1>1. OpensOf(Append(s, m), f) = OpensOf(s, f)
  <2>1. OpensOf(Append(s, m), f) = OpensOf(s, f) \cup {}
    BY OpensAppended, Zenon
  <2> QED  BY <2>1
<1>2. Tracked(Append(s, m), d, o, f)
  BY <1>1 DEF Tracked
<1>3. CASE OpensOf(s, f) = {}
  BY <1>1, <1>2, <1>3, ShownIsHeld
<1>4. ASSUME NEW i \in OpensOf(s, f)
      PROVE  ShownBy(Append(s, m), d, f) = ShownBy(s, d, f)
  <2>1. Append(s, m)[i] = s[i]
    BY OneMore DEF OpensOf
  <2>2. OpensOf(s, f) = {i} /\ d[f] = None /\ ShownBy(s, d, f) = s[i].version
    BY OneOpen
  <2>3. ShownBy(Append(s, m), d, f) = Append(s, m)[i].version
    <3> DEFINE t == Append(s, m)
    <3>1. OpensOf(t, f) = {i} /\ d[f] = None
      BY <1>1, <2>2
    <3> HIDE DEF t
    <3>2. ShownBy(t, d, f) = t[i].version
      BY <3>1, ShownIsOpened
    <3> QED  BY <3>2 DEF t
  <2> QED  BY <2>1, <2>2, <2>3
<1> QED  BY <1>2, <1>3, <1>4

\* A handled message that opens nothing of f leaves f as it was.
LEMMA HandledBeside ==
    ASSUME NEW s \in Seq(Messages), s # <<>>, NEW d, NEW e, NEW o, NEW f,
           ~(Head(s).kind = "open" /\ Head(s).file = f), e[f] = d[f], Tracked(s, d, o, f)
    PROVE  Tracked(Tail(s), e, o, f) /\ ShownBy(Tail(s), e, f) = ShownBy(s, d, f)
<1>1. /\ \A i \in OpensOf(Tail(s), f) : i + 1 \in OpensOf(s, f) /\ Tail(s)[i] = s[i + 1]
      /\ \A i \in OpensOf(s, f) : i - 1 \in OpensOf(Tail(s), f)
      /\ OpensOf(Tail(s), f) \subseteq Nat \ {0}
  BY OpensHandled
<1>2. OpensOf(Tail(s), f) = {} <=> OpensOf(s, f) = {}
  BY <1>1
<1>3. \A i, j \in OpensOf(Tail(s), f) : i = j
  <2>1. ASSUME NEW i \in OpensOf(Tail(s), f), NEW j \in OpensOf(Tail(s), f)
        PROVE  i = j
    <3>1. i + 1 = j + 1
      BY <1>1 DEF Tracked
    <3>2. i \in Nat /\ j \in Nat
      BY <1>1
    <3> QED  BY <3>1, <3>2
  <2> QED  BY <2>1
<1>4. Tracked(Tail(s), e, o, f)
  BY <1>2, <1>3 DEF Tracked
<1>5. CASE OpensOf(s, f) = {}
  BY <1>2, <1>4, <1>5, ShownIsHeld
<1>6. ASSUME NEW i \in OpensOf(Tail(s), f)
      PROVE  ShownBy(Tail(s), e, f) = ShownBy(s, d, f)
  <2>1. d[f] = None /\ ShownBy(s, d, f) = s[i + 1].version
    BY <1>1, OneOpen
  <2>2. OpensOf(Tail(s), f) = {i} /\ e[f] = None
    BY <1>3, <2>1
  <2>3. ShownBy(Tail(s), e, f) = Tail(s)[i].version
    BY <2>2, ShownIsOpened
  <2> QED  BY <1>1, <1>4, <2>1, <2>3
<1> QED  BY <1>2, <1>4, <1>5, <1>6

-----------------------------------------------------------------------------
(* The cases of a step.                                                    *)

\* A step of a handler that sends nothing.
QuietStep(r) ==
    \/ \E f \in Files : Begin(r, f)
    \/ AbsFails(r) \/ LockOpen(r) \/ AlreadyOpen(r)
    \/ ReadFile(r) \/ ReadFails(r) \/ SendOpenFails(r)
    \/ CallFails(r) \/ Resolve(r) \/ (\E how \in {"empty", "found"} : Conclude(r, how))
    \/ Emit(r)

WorldStep == GoDown \/ (\E f \in Files : Edit(f)) \/ Sync

\* A step is a handler's, quiet or not, one of tsgo, one of the world, or none.
LEMMA NextCases ==
    ASSUME [Next]_vars
    PROVE  \/ \E r \in Requests : QuietStep(r) \/ SendOpen(r) \/ Ask(r)
           \/ ServerOpens \/ ServerAnswers
           \/ WorldStep
           \/ UNCHANGED vars
BY DEF Next, HandlerStep, OpenStep, CallStep, ServerStep, Terminated, QuietStep, WorldStep

\* A quiet step leaves alone what is on its way and what tsgo holds, and a call
\* keeps its file.
LEMMA QuietIsQuiet ==
    ASSUME TypeOK, NEW r \in Requests, QuietStep(r)
    PROVE  /\ UNCHANGED <<stream, docs, openFiles, doubleOpen, down, world>>
           /\ \A q \in Requests : pc[q] # "new" => pc'[q] # "new" /\ file'[q] = file[q]
<1> USE DEF TypeOK, Moves, Settles
<1>1. CASE \E f \in Files : Begin(r, f)
  BY <1>1 DEF Begin
<1>2. CASE \/ AbsFails(r) \/ LockOpen(r) \/ AlreadyOpen(r)
            \/ ReadFile(r) \/ ReadFails(r) \/ SendOpenFails(r)
  BY <1>2 DEF AbsFails, LockOpen, AlreadyOpen, ReadFile, ReadFails, SendOpenFails, MarkedByRead
<1>3. CASE CallFails(r) \/ Resolve(r) \/ (\E how \in {"empty", "found"} : Conclude(r, how)) \/ Emit(r)
  BY <1>3 DEF CallFails, Resolve, Conclude, Emit
<1> QED  BY <1>1, <1>2, <1>3 DEF QuietStep

\* The traffic is as it was when nothing of it changes.
LEMMA TrafficKept ==
    ASSUME TypeOK, Traffic, UNCHANGED <<stream, docs, openFiles, doubleOpen>>,
           \A q \in Requests : pc[q] # "new" => pc'[q] # "new" /\ file'[q] = file[q]
    PROVE  Traffic'
<1>1. \A i \in 1..Len(stream) : stream[i].from \in Requests
  <2>1. \A i \in 1..Len(stream) : stream[i] \in Messages
    BY ElementOfSeq DEF TypeOK
  <2> QED  BY <2>1 DEF Messages
<1>2. Sent'
  BY <1>1 DEF Sent, Traffic
<1>3. Tracking'
  BY DEF Tracking, Tracked, OpensOf, Traffic
<1>4. AskedAfterOpen' /\ OpenedOnce'
  BY DEF AskedAfterOpen, OpenedOnce, Traffic
<1> QED  BY <1>2, <1>3, <1>4 DEF Traffic

-----------------------------------------------------------------------------
(* Each step keeps the invariant.                                          *)

\* A call begins.
LEMMA BeginStep ==
    ASSUME IndInv, NEW r \in Requests, NEW g \in Files, Begin(r, g)
    PROVE  TypeOK' /\ Handlers'
<1> USE DEF IndInv, Handlers, TypeOK, Begin, Moves
<1>1. TypeOK'          OBVIOUS
<1>2. Placed'          BY DEF Placed
<1>3. Locked'          BY DEF Locked
<1>4. Reading'         BY DEF Reading
<1>5. Asking'          BY DEF Asking
<1>6. Answered'        BY DEF Answered
<1>7. Concluded'       BY DEF Concluded
<1> QED  BY <1>1, <1>2, <1>3, <1>4, <1>5, <1>6, <1>7

\* ensureOpen takes openMu and looks, or finds the file open.
LEMMA LookStep ==
    ASSUME IndInv, NEW r \in Requests, LockOpen(r) \/ AlreadyOpen(r)
    PROVE  TypeOK' /\ Handlers'
<1> USE DEF IndInv, Handlers, TypeOK, LockOpen, AlreadyOpen, OpenMuFree, Opened, Moves
<1>1. TypeOK'          OBVIOUS
<1>2. Placed'          BY DEF Placed
<1>3. Locked'          BY DistinctRequests DEF Locked
<1>4. Reading'         BY DEF Reading
<1>5. Asking'          BY DEF Asking
<1>6. Answered'        BY DEF Answered
<1>7. Concluded'       BY DEF Concluded
<1> QED  BY <1>1, <1>2, <1>3, <1>4, <1>5, <1>6, <1>7

\* ensureOpen reads the file.
LEMMA ReadStep ==
    ASSUME IndInv, NEW r \in Requests, ReadFile(r)
    PROVE  TypeOK' /\ Handlers'
<1> USE DEF IndInv, Handlers, TypeOK, ReadFile, TextRead, MarkedByRead, Opened, Moves
<1>0. file[r] \in Files
  BY DEF Placed
<1>1. TypeOK'          BY <1>0
<1>2. Placed'          BY DEF Placed
<1>3. Locked'          BY DEF Locked
<1>4. Reading'
  <2>1. disk[file[r]] \in Versions /\ disk[file[r]] # 0
    BY <1>0
  <2>2. disk[file[r]] \in 1..disk[file[r]]
    BY <2>1, BoundsAreNaturals DEF Versions
  <2> QED  BY <2>2 DEF Reading
<1>5. Asking'          BY DEF Asking
<1>6. Answered'        BY DEF Answered
<1>7. Concluded'       BY DEF Concluded
<1> QED  BY <1>1, <1>2, <1>3, <1>4, <1>5, <1>6, <1>7

\* prepareOpen or the provider's call fails.
LEMMA FailStep ==
    ASSUME IndInv, NEW r \in Requests,
           AbsFails(r) \/ ReadFails(r) \/ SendOpenFails(r) \/ CallFails(r)
    PROVE  TypeOK' /\ Handlers'
<1> USE DEF IndInv, Handlers, TypeOK, AbsFails, ReadFails, SendOpenFails, CallFails,
            MarkedByRead, Released, Settles, Moves, Results
<1>1. TypeOK'
  <2>1. CASE ReadFails(r)         BY <2>1
  <2>2. CASE SendOpenFails(r)     BY <2>2
  <2>3. CASE CallFails(r)         BY <2>3
  <2>4. CASE AbsFails(r)          BY <2>4
  <2> QED  BY <2>1, <2>2, <2>3, <2>4
<1>2. Placed'          BY DEF Placed
<1>3. Locked'
  <2> USE DistinctRequests DEF Locked
  <2>1. CASE ReadFails(r)         BY <2>1
  <2>2. CASE SendOpenFails(r)     BY <2>2
  <2>3. CASE CallFails(r)         BY <2>3
  <2>4. CASE AbsFails(r)          BY <2>4
  <2> QED  BY <2>1, <2>2, <2>3, <2>4
<1>4. Reading'         BY DEF Reading
<1>5. Asking'          BY DEF Asking
<1>6. Answered'        BY DEF Answered
<1>7. Concluded'       BY DEF Concluded
<1> QED  BY <1>1, <1>2, <1>3, <1>4, <1>5, <1>6, <1>7

\* A lookup goes on to its second call.
LEMMA ResolveStep ==
    ASSUME IndInv, NEW r \in Requests, Resolve(r)
    PROVE  TypeOK' /\ Handlers'
<1> USE DEF IndInv, Handlers, TypeOK, Resolve, Moves
<1>1. TypeOK'          OBVIOUS
<1>2. Placed'          BY DEF Placed
<1>3. Locked'          BY DEF Locked
<1>4. Reading'         BY DEF Reading
<1>5. Asking'          BY DEF Asking
<1>6. Answered'        BY DEF Answered
<1>7. Concluded'       BY DEF Concluded
<1> QED  BY <1>1, <1>2, <1>3, <1>4, <1>5, <1>6, <1>7

\* A call has its last answer, and returns.
LEMMA EndStep ==
    ASSUME IndInv, NEW r \in Requests,
           Emit(r) \/ \E how \in {"empty", "found"} : Conclude(r, how)
    PROVE  TypeOK' /\ Handlers'
<1> USE DEF IndInv, Handlers, TypeOK, Emit, Conclude, Settles, Moves, Results
<1>1. TypeOK'
  <2>1. CASE Emit(r)              BY <2>1
  <2>2. CASE \E how \in {"empty", "found"} : Conclude(r, how)
    BY <2>2
  <2> QED  BY <2>1, <2>2
<1>2. Placed'          BY DEF Placed
<1>3. Locked'          BY DEF Locked
<1>4. Reading'         BY DEF Reading
<1>5. Asking'          BY DEF Asking
<1>6. Answered'        BY DEF Answered
<1>7. Concluded'       BY DEF Concluded
<1> QED  BY <1>1, <1>2, <1>3, <1>4, <1>5, <1>6, <1>7

\* The connection is lost, a file is edited, the generation is bumped.
LEMMA WorldKeeps ==
    ASSUME IndInv, WorldStep
    PROVE  IndInv'
<1>0. UNCHANGED <<pc, handler, opening, stream, docs, doubleOpen>>
  BY DEF WorldStep, GoDown, Edit, Sync
<1>1. TypeOK'
  <2> USE DEF IndInv, TypeOK
  <2>1. CASE GoDown               BY <2>1 DEF GoDown
  <2>2. ASSUME NEW f \in Files, Edit(f)
        PROVE  TypeOK'            BY <2>2, BoundsAreNaturals DEF Edit, Versions
  <2>3. CASE Sync                 BY <2>3, BoundsAreNaturals DEF Sync
  <2> QED  BY <2>1, <2>2, <2>3 DEF WorldStep
<1>2. Reading'
  <2>1. ASSUME NEW r \in Requests, pc[r] = "opening"
        PROVE  file'[r] \notin openFiles' /\ text'[r] \in 1..disk'[file'[r]]
    <3>1. file[r] \in Files /\ file[r] \notin openFiles /\ text[r] \in 1..disk[file[r]]
      BY <2>1 DEF IndInv, Handlers, Placed, Reading
    <3>2. disk[file[r]] \in Nat /\ disk'[file[r]] \in {disk[file[r]], disk[file[r]] + 1}
      BY <3>1, BoundsAreNaturals DEF WorldStep, GoDown, Edit, Sync, IndInv, TypeOK, Versions
    <3> QED  BY <1>0, <3>1, <3>2
  <2> QED  BY <1>0, <2>1 DEF Reading
<1>3. Placed' /\ Locked' /\ Asking' /\ Answered' /\ Concluded'
  BY <1>0 DEF IndInv, Handlers, Placed, Locked, Asking, Answered, Concluded
<1>4. Traffic'
  BY <1>0, TrafficKept DEF IndInv
<1> QED  BY <1>1, <1>2, <1>3, <1>4 DEF IndInv, Handlers

\* What a handler sends is a message, about its file.
LEMMA SentTyped ==
    ASSUME TypeOK, NEW r \in Requests, file[r] \in Files, NEW k \in {"open", "ask"}
    PROVE  [kind |-> k, from |-> r, file |-> file[r], version |-> text[r]] \in Messages
BY DEF TypeOK, Messages

\* Every message stays about its sender's file when one is sent about its own.
LEMMA SentStep ==
    ASSUME TypeOK, Sent, NEW r \in Requests, file[r] \in Files, pc[r] # "new",
           NEW k \in {"open", "ask"}, NEW to \in {"ask", "await"},
           Sends(r, k), pc' = [pc EXCEPT ![r] = to], UNCHANGED file
    PROVE  Sent'
<1> DEFINE m == [kind |-> k, from |-> r, file |-> file[r], version |-> text[r]]
<1>1. m \in Messages /\ m.from = r /\ m.file = file[r]
  BY SentTyped
<1>2. stream' = Append(stream, m)
  BY DEF Sends
<1>3. stream \in Seq(Messages) /\ pc \in [Requests -> {"new", "prepare", "check", "opening",
          "ask", "await", "emit", "done"}]
  BY DEF TypeOK
<1> HIDE DEF m
<1>4. /\ Len(stream') = Len(stream) + 1 /\ Len(stream) \in Nat
      /\ \A i \in 1..Len(stream) : stream'[i] = stream[i]
      /\ stream'[Len(stream) + 1] = m
  BY <1>1, <1>2, <1>3, OneMore
<1>5. ASSUME NEW i \in 1..Len(stream')
      PROVE  pc'[stream'[i].from] # "new" /\ stream'[i].file = file'[stream'[i].from]
  <2>1. CASE i = Len(stream) + 1
    BY <1>1, <1>3, <1>4, <2>1
  <2>2. CASE i # Len(stream) + 1
    <3>1. i \in 1..Len(stream) /\ stream'[i] = stream[i]
      BY <1>4, <2>2
    <3>2. stream[i].from \in Requests
      <4>1. stream[i] \in Messages
        BY <1>3, <3>1, ElementOfSeq
      <4> QED  BY <4>1 DEF Messages
    <3>3. pc[stream[i].from] # "new" /\ stream[i].file = file[stream[i].from]
      BY <3>1 DEF Sent
    <3> QED  BY <1>3, <3>1, <3>2, <3>3
  <2> QED  BY <2>1, <2>2
<1> QED  BY <1>5 DEF Sent

\* Every question comes after an open of its file, there or handled.
Asked(s, d) ==
    \A i \in 1..Len(s) : s[i].kind = "ask" =>
        d[s[i].file] # None \/ \E j \in 1..i : s[j].kind = "open" /\ s[j].file = s[i].file

\* A question put after its file was opened comes after the open; the others
\* stay where they are.
LEMMA AskedStep ==
    ASSUME NEW s \in Seq(Messages), NEW m \in Messages, NEW d, Asked(s, d),
           m.kind = "ask" => d[m.file] # None \/ OpensOf(s, m.file) # {}
    PROVE  Asked(Append(s, m), d)
<1> DEFINE t == Append(s, m)
<1>1. /\ Len(t) = Len(s) + 1 /\ Len(s) \in Nat
      /\ \A i \in 1..Len(s) : t[i] = s[i]
      /\ t[Len(s) + 1] = m
  BY OneMore
<1> HIDE DEF t
<1>2. ASSUME NEW i \in 1..Len(t), t[i].kind = "ask", d[t[i].file] = None
      PROVE  \E j \in 1..i : t[j].kind = "open" /\ t[j].file = t[i].file
  <2>1. CASE i = Len(s) + 1
    <3>1. PICK j \in OpensOf(s, m.file) : TRUE
      BY <1>1, <1>2, <2>1
    <3>2. j \in 1..Len(s) /\ s[j].kind = "open" /\ s[j].file = m.file
      BY DEF OpensOf
    <3> QED  BY <1>1, <2>1, <3>2
  <2>2. CASE i # Len(s) + 1
    <3>1. i \in 1..Len(s) /\ t[i] = s[i]
      BY <1>1, <2>2
    <3>2. PICK j \in 1..i : s[j].kind = "open" /\ s[j].file = s[i].file
      BY <1>2, <3>1 DEF Asked
    <3>3. t[j] = s[j]
      BY <1>1, <3>1
    <3> QED  BY <3>1, <3>2, <3>3
  <2> QED  BY <2>1, <2>2
<1> QED  BY <1>2 DEF Asked, t

\* ensureOpen tells tsgo of a file that was not open.
LEMMA OpenSent ==
    ASSUME IndInv, NEW r \in Requests, SendOpen(r)
    PROVE  TypeOK' /\ Handlers'
<1> USE DEF IndInv, Handlers, TypeOK, SendOpen, Moves
<1>0. file[r] \in Files
  BY DEF Placed
<1>1. TypeOK'
  <2>1. stream' \in Seq(Messages)
    BY <1>0, SentTyped, OneMore DEF Sends
  <2> QED  BY <1>0, <2>1
<1>2. Placed'          BY DEF Placed
<1>3. Locked'          BY DistinctRequests DEF Locked
<1>4. Reading'         BY DEF Reading, Locked
<1>5. Asking'          BY DEF Asking
<1>6. Answered'        BY DEF Answered
<1>7. Concluded'       BY DEF Concluded
<1> QED  BY <1>1, <1>2, <1>3, <1>4, <1>5, <1>6, <1>7

\* A call asks its question.
LEMMA QuestionSent ==
    ASSUME IndInv, NEW r \in Requests, Ask(r)
    PROVE  TypeOK' /\ Handlers'
<1> USE DEF IndInv, Handlers, TypeOK, Ask, Moves
<1>0. file[r] \in Files
  BY DEF Placed
<1>1. TypeOK'
  <2>1. stream' \in Seq(Messages)
    BY <1>0, SentTyped, OneMore DEF Sends
  <2> QED  BY <1>0, <2>1
<1>2. Placed'          BY DEF Placed
<1>3. Locked'          BY DEF Locked
<1>4. Reading'         BY DEF Reading
<1>5. Asking'          BY DEF Asking
<1>6. Answered'        BY DEF Answered
<1>7. Concluded'       BY DEF Concluded
<1> QED  BY <1>1, <1>2, <1>3, <1>4, <1>5, <1>6, <1>7

\* The opens and the questions stay in order as either is sent; what tsgo has been
\* shown changes by the text sent, of the file opened.
LEMMA SendKeepsTraffic ==
    ASSUME IndInv, NEW r \in Requests, SendOpen(r) \/ Ask(r)
    PROVE  /\ Traffic'
           /\ \A f \in Files : ShownBy(stream', docs', f) =
                  IF SendOpen(r) /\ f = file[r] THEN text[r] ELSE ShownBy(stream, docs, f)
           /\ SendOpen(r) => ShownBy(stream, docs, file[r]) = None
<1> DEFINE k == IF SendOpen(r) THEN "open" ELSE "ask"
           m == [kind |-> k, from |-> r, file |-> file[r], version |-> text[r]]
           g == file[r]
<1>1. SendOpen(r) => ~Ask(r)
  BY DEF SendOpen, Ask, Moves
<1>2. k \in {"open", "ask"} /\ Sends(r, k)
  BY <1>1 DEF SendOpen, Ask
<1>3. g \in Files /\ pc[r] # "new"
  BY DEF SendOpen, Ask, Moves, IndInv, Handlers, Placed
<1>4. stream' = Append(stream, m) /\ m \in Messages
  BY <1>2, <1>3, SentTyped DEF Sends, IndInv
<1>5. m.kind = k /\ m.file = g /\ m.version = text[r]
  OBVIOUS
<1>6. /\ UNCHANGED <<docs, doubleOpen, file>>
      /\ SendOpen(r) => openFiles' = openFiles \cup {g} /\ g \notin openFiles
      /\ ~SendOpen(r) => openFiles' = openFiles /\ g \in openFiles
  BY DEF SendOpen, Ask, Moves, IndInv, Handlers, Reading, Asking
<1>7. stream \in Seq(Messages) /\ Tracking /\ AskedAfterOpen /\ OpenedOnce
  BY DEF IndInv, TypeOK, Traffic
<1>8. SendOpen(r) <=> k = "open"
  OBVIOUS
<1> HIDE DEF k, m, g
<1>9. Sent'
  <2>1. \E to \in {"ask", "await"} : pc' = [pc EXCEPT ![r] = to]
    BY DEF SendOpen, Ask, Moves
  <2> QED  BY <1>2, <1>3, <1>6, <2>1, SentStep DEF IndInv, Traffic, g
<1>10. ASSUME NEW f \in Files, ~(SendOpen(r) /\ f = g)
       PROVE  /\ Tracked(stream', docs', openFiles', f)
              /\ ShownBy(stream', docs', f) = ShownBy(stream, docs, f)
  <2>1. /\ Tracked(stream', docs, openFiles, f)
        /\ ShownBy(stream', docs, f) = ShownBy(stream, docs, f)
    BY <1>4, <1>5, <1>7, <1>8, <1>10, SentBeside DEF Tracking
  <2>2. f \in openFiles' <=> f \in openFiles
    BY <1>6, <1>10
  <2>3. Tracked(stream', docs, openFiles', f)
    BY <2>1, <2>2 DEF Tracked
  <2> QED  BY <1>6, <2>1, <2>3
<1>11. ASSUME SendOpen(r)
       PROVE  /\ Tracked(stream', docs', openFiles', g)
              /\ ShownBy(stream', docs', g) = text[r]
              /\ ShownBy(stream, docs, g) = None
  <2>1. docs[g] = None /\ OpensOf(stream, g) = {}
    BY <1>3, <1>6, <1>7, <1>11 DEF Tracking, Tracked
  <2>2. OpensOf(Append(stream, m), g) = OpensOf(stream, g) \cup {Len(stream) + 1}
    BY <1>4, <1>5, <1>7, <1>8, <1>11, OpensAppended, Zenon
  <2>3. OpensOf(stream', g) = {Len(stream) + 1} /\ docs'[g] = None
    BY <1>4, <1>6, <2>1, <2>2
  <2>4. stream'[Len(stream) + 1] = m
    BY <1>4, <1>7, OneMore
  <2>5. ShownBy(stream', docs', g) = text[r]
    <3> DEFINE n == Len(stream) + 1
    <3>1. OpensOf(stream', g) = {n} /\ docs'[g] = None /\ stream'[n].version = text[r]
      BY <1>5, <2>3, <2>4
    <3> HIDE DEF n
    <3> QED  BY <3>1, ShownIsOpened
  <2>6. ShownBy(stream, docs, g) = None
    BY <2>1, ShownIsHeld
  <2>7. Tracked(stream', docs', openFiles', g)
    BY <1>6, <1>11, <2>3 DEF Tracked
  <2> QED  BY <2>5, <2>6, <2>7
<1>12. Tracking'
  <2>1. ASSUME NEW f \in Files
        PROVE  Tracked(stream', docs', openFiles', f)
    BY <1>10, <1>11
  <2> QED  BY <2>1 DEF Tracking
<1>13. AskedAfterOpen'
  <2>1. m.kind = "ask" => docs[m.file] # None \/ OpensOf(stream, m.file) # {}
    BY <1>3, <1>5, <1>6, <1>7, <1>8 DEF Tracking, Tracked
  <2>2. Asked(stream, docs)
    BY <1>7 DEF AskedAfterOpen, Asked
  <2>3. Asked(Append(stream, m), docs)
    BY <1>4, <1>7, <2>1, <2>2, AskedStep
  <2> QED  BY <1>4, <1>6, <2>3 DEF AskedAfterOpen, Asked
<1>14. OpenedOnce'
  BY <1>6, <1>7 DEF OpenedOnce
<1>15. Traffic'
  BY <1>9, <1>12, <1>13, <1>14 DEF Traffic
<1> QED  BY <1>10, <1>11, <1>15 DEF g

\* The message at the head is from a call that has begun, about its file.
LEMMA HeadSent ==
    ASSUME IndInv, stream # <<>>
    PROVE  /\ Head(stream) \in Messages /\ Head(stream).from \in Requests
           /\ Head(stream).file \in Files /\ Head(stream).version \in Versions
           /\ pc[Head(stream).from] # "new"
           /\ Head(stream).file = file[Head(stream).from]
<1>1. Head(stream) \in Messages /\ Head(stream) = stream[1] /\ 1 \in 1..Len(stream)
  BY OneLess DEF IndInv, TypeOK
<1>2. /\ Head(stream).from \in Requests /\ Head(stream).file \in Files
      /\ Head(stream).version \in Versions
  BY <1>1 DEF Messages
<1>3. pc[Head(stream).from] # "new" /\ Head(stream).file = file[Head(stream).from]
  BY <1>1 DEF IndInv, Traffic, Sent
<1> QED  BY <1>1, <1>2, <1>3

\* An open waiting at the head is the first its file has had.
LEMMA HeadOpens ==
    ASSUME IndInv, stream # <<>>, Head(stream).kind = "open"
    PROVE  /\ docs[Head(stream).file] = None
           /\ OpensOf(stream, Head(stream).file) = {1}
           /\ Head(stream).file \in openFiles
           /\ ShownBy(stream, docs, Head(stream).file) = Head(stream).version
<1> DEFINE m == Head(stream)
<1>1. m \in Messages /\ m.file \in Files /\ stream \in Seq(Messages)
  BY HeadSent DEF IndInv, TypeOK
<1>2. 1 \in OpensOf(stream, m.file)
  BY <1>1, OpensHandled
<1>3. Tracked(stream, docs, openFiles, m.file)
  BY <1>1 DEF IndInv, Traffic, Tracking
<1>4. stream[1] = m
  BY <1>1, OneLess
<1> HIDE DEF m
<1>5. /\ OpensOf(stream, m.file) = {1} /\ docs[m.file] = None
      /\ ShownBy(stream, docs, m.file) = stream[1].version
  BY <1>2, <1>3, OneOpen
<1>6. m.file \in openFiles
  BY <1>2, <1>3 DEF Tracked
<1> QED  BY <1>4, <1>5, <1>6 DEF m

\* A question at the head is about a file that tsgo has open.
LEMMA HeadAsks ==
    ASSUME IndInv, stream # <<>>, Head(stream).kind = "ask"
    PROVE  docs[Head(stream).file] # None
<1>1. stream[1] = Head(stream) /\ 1 \in 1..Len(stream)
  BY OneLess DEF IndInv, TypeOK
<1>2. docs[Head(stream).file] # None \/ \E j \in 1..1 : stream[j].kind = "open"
  BY <1>1 DEF IndInv, Traffic, AskedAfterOpen
<1> QED  BY <1>1, <1>2

\* What is still on the stream stays in order as its head is handled.
LEMMA SentAndAskedHandled ==
    ASSUME IndInv, stream # <<>>, stream' = Tail(stream), UNCHANGED <<pc, file>>,
           \A f \in Files : docs[f] # None => docs'[f] # None,
           Head(stream).kind = "open" => docs'[Head(stream).file] # None
    PROVE  Sent' /\ AskedAfterOpen'
<1>1. /\ stream \in Seq(Messages) /\ Len(stream) \in Nat
      /\ Len(stream') = Len(stream) - 1 /\ stream[1] = Head(stream)
      /\ \A i \in 1..(Len(stream) - 1) : stream'[i] = stream[i + 1]
  BY OneLess DEF IndInv, TypeOK
<1>2. Sent'
  <2>1. ASSUME NEW i \in 1..Len(stream')
        PROVE  pc'[stream'[i].from] # "new" /\ stream'[i].file = file'[stream'[i].from]
    <3>1. i + 1 \in 1..Len(stream) /\ stream'[i] = stream[i + 1]
      BY <1>1
    <3> QED  BY <3>1 DEF IndInv, Traffic, Sent
  <2> QED  BY <2>1 DEF Sent
<1>3. AskedAfterOpen'
  <2>1. ASSUME NEW i \in 1..Len(stream'), stream'[i].kind = "ask", docs'[stream'[i].file] = None
        PROVE  \E j \in 1..i : stream'[j].kind = "open" /\ stream'[j].file = stream'[i].file
    <3>1. i + 1 \in 1..Len(stream) /\ stream'[i] = stream[i + 1] /\ i \in Nat
      BY <1>1
    <3>2. stream[i + 1].file \in Files
      <4>1. stream[i + 1] \in Messages
        BY <1>1, <3>1, ElementOfSeq
      <4> QED  BY <4>1 DEF Messages
    <3>3. docs[stream[i + 1].file] = None /\ stream[i + 1].kind = "ask"
      BY <2>1, <3>1, <3>2
    <3>4. PICK j \in 1..(i + 1) : stream[j].kind = "open" /\ stream[j].file = stream[i + 1].file
      BY <3>1, <3>3 DEF IndInv, Traffic, AskedAfterOpen
    <3>5. j # 1
      BY <1>1, <2>1, <3>1, <3>4
    <3>6. j # i + 1
      BY <3>3, <3>4
    <3>7. j - 1 \in 1..i /\ j - 1 \in 1..(Len(stream) - 1) /\ (j - 1) + 1 = j
      BY <1>1, <3>1, <3>4, <3>5, <3>6
    <3>8. stream'[j - 1] = stream[j]
      BY <1>1, <3>7
    <3> QED  BY <3>1, <3>4, <3>7, <3>8
  <2> QED  BY <2>1 DEF AskedAfterOpen
<1> QED  BY <1>2, <1>3

\* tsgo opens a file it had not open: it holds the text it was shown.
LEMMA ServerOpensStep ==
    ASSUME IndInv, ServerOpens
    PROVE  IndInv' /\ \A f \in Files : ShownBy(stream', docs', f) = ShownBy(stream, docs, f)
<1> DEFINE m == Head(stream)
<1>0. /\ stream # <<>> /\ m.kind = "open" /\ stream' = Tail(stream)
      /\ docs' = [docs EXCEPT ![m.file] = m.version]
      /\ doubleOpen' = (doubleOpen \/ docs[m.file] # None)
      /\ UNCHANGED <<pc, handler, opening, down, world>>
  BY DEF ServerOpens
<1>1. /\ m.file \in Files /\ m.version \in Versions /\ stream \in Seq(Messages)
      /\ docs \in [Files -> Versions \cup {None}]
  BY <1>0, HeadSent DEF IndInv, TypeOK
<1>2. /\ docs[m.file] = None /\ OpensOf(stream, m.file) = {1} /\ m.file \in openFiles
      /\ ShownBy(stream, docs, m.file) = m.version
  BY <1>0, HeadOpens
<1>3. Tail(stream) \in Seq(Messages)
  BY <1>0, <1>1, OneLess
<1>4. m.version # None
  BY <1>1, DistinctRequests DEF Versions
<1>5. docs'[m.file] = m.version /\ \A f \in Files : f # m.file => docs'[f] = docs[f]
  BY <1>0, <1>1
<1>6. OpensOf(Tail(stream), m.file) = {}
  BY <1>0, <1>1, <1>2, OpensHandled
<1> HIDE DEF m
<1>7. TypeOK'
  <2>1. doubleOpen' = FALSE
    BY <1>0, <1>2 DEF IndInv, Traffic, OpenedOnce
  <2>2. docs' \in [Files -> Versions \cup {None}] /\ stream' \in Seq(Messages)
    BY <1>0, <1>1, <1>3
  <2>3. down' \in BOOLEAN
    BY <1>0 DEF IndInv, TypeOK
  <2> QED  BY <1>0, <2>1, <2>2, <2>3 DEF IndInv, TypeOK
<1>8. Placed' /\ Locked' /\ Reading' /\ Asking' /\ Concluded'
  BY <1>0 DEF IndInv, Handlers, Placed, Locked, Reading, Asking, Concluded
<1>9. Answered'
  <2>1. ASSUME NEW r \in Requests, NEW l \in {1, 2}, answer[r][l] # None
        PROVE  pc'[r] # "new" /\ answer'[r][l] = docs'[file'[r]]
    <3>1. pc[r] # "new" /\ answer[r][l] = docs[file[r]] /\ file[r] \in Files
      BY <2>1 DEF IndInv, Handlers, Answered, Placed
    <3> QED  BY <1>0, <1>2, <1>5, <2>1, <3>1
  <2> QED  BY <1>0, <2>1 DEF IndInv, Handlers, Answered
<1>10. Sent' /\ AskedAfterOpen'
  BY <1>0, <1>4, <1>5, SentAndAskedHandled DEF m
<1>11. ASSUME NEW f \in Files
       PROVE  /\ Tracked(stream', docs', openFiles', f)
              /\ ShownBy(stream', docs', f) = ShownBy(stream, docs, f)
  <2>1. CASE f = m.file
    <3>1. ShownBy(stream', docs', f) = docs'[f]
      <4>1. OpensOf(Tail(stream), f) = {}
        BY <1>6, <2>1
      <4>2. ShownBy(Tail(stream), docs', f) = docs'[f]
        BY <4>1, ShownIsHeld
      <4> QED  BY <1>0, <4>2
    <3>2. Tracked(stream', docs', openFiles', f)
      BY <1>0, <1>2, <1>4, <1>5, <1>6, <2>1 DEF Tracked
    <3> QED  BY <1>2, <1>5, <2>1, <3>1, <3>2
  <2>2. CASE f # m.file
    <3>1. Tracked(stream, docs, openFiles, f) /\ docs'[f] = docs[f]
      BY <1>5, <2>2 DEF IndInv, Traffic, Tracking
    <3>2. /\ Tracked(Tail(stream), docs', openFiles, f)
          /\ ShownBy(Tail(stream), docs', f) = ShownBy(stream, docs, f)
      <4>1. stream # <<>> /\ ~(Head(stream).kind = "open" /\ Head(stream).file = f)
        BY <1>0, <2>2 DEF m
      <4> QED  BY <1>1, <3>1, <4>1, HandledBeside
    <3> QED  BY <1>0, <3>2
  <2> QED  BY <2>1, <2>2
<1>12. Tracking'
  BY <1>11 DEF Tracking
<1>13. OpenedOnce'
  BY <1>0, <1>2 DEF IndInv, Traffic, OpenedOnce
<1> QED  BY <1>7, <1>8, <1>9, <1>10, <1>11, <1>12, <1>13 DEF IndInv, Handlers, Traffic

\* tsgo answers a question from the text of the file it holds.
LEMMA ServerAnswersStep ==
    ASSUME IndInv, ServerAnswers
    PROVE  IndInv' /\ \A f \in Files : ShownBy(stream', docs', f) = ShownBy(stream, docs, f)
<1> DEFINE m == Head(stream)
<1>0. /\ stream # <<>> /\ m.kind = "ask" /\ stream' = Tail(stream)
      /\ answer' = IF pc[m.from] = "await"
                   THEN [answer EXCEPT ![m.from][leg[m.from]] = docs[m.file]]
                   ELSE answer
      /\ UNCHANGED <<pc, file, leg, text, stamp, result, opening, down, docs, doubleOpen, world>>
  BY DEF ServerAnswers
<1>1. /\ m.from \in Requests /\ m.file \in Files /\ m.file = file[m.from]
      /\ pc[m.from] # "new" /\ docs[m.file] # None
  BY <1>0, HeadSent, HeadAsks
<1>2. /\ stream \in Seq(Messages) /\ docs \in [Files -> Versions \cup {None}]
      /\ answer \in [Requests -> [{1, 2} -> Versions \cup {None}]]
      /\ leg \in [Requests -> {1, 2}]
  BY DEF IndInv, TypeOK
<1>3. Tail(stream) \in Seq(Messages)
  BY <1>0, <1>2, OneLess
<1>4. ASSUME NEW f \in Files
      PROVE  /\ Tracked(stream', docs', openFiles', f)
             /\ ShownBy(stream', docs', f) = ShownBy(stream, docs, f)
  <2>1. Tracked(stream, docs, openFiles, f)
    BY DEF IndInv, Traffic, Tracking
  <2>2. /\ Tracked(Tail(stream), docs, openFiles, f)
        /\ ShownBy(Tail(stream), docs, f) = ShownBy(stream, docs, f)
    BY <1>0, <1>2, <2>1, HandledBeside
  <2> QED  BY <1>0, <2>2
<1>5. Sent' /\ AskedAfterOpen'
  BY <1>0, SentAndAskedHandled
<1> HIDE DEF m
<1>6. ASSUME NEW r \in Requests, NEW l \in {1, 2}
      PROVE  \/ answer'[r][l] = answer[r][l]
             \/ r = m.from /\ l = leg[r] /\ pc[r] = "await" /\ answer'[r][l] = docs[file[r]]
  BY <1>0, <1>1, <1>2
<1>7. ASSUME NEW r \in Requests, NEW l \in {1, 2}, answer[r][l] # None
      PROVE  answer'[r][l] = answer[r][l]
  BY <1>6, <1>7 DEF IndInv, Handlers, Answered
<1>8. TypeOK'
  <2>1. answer' \in [Requests -> [{1, 2} -> Versions \cup {None}]]
    BY <1>0, <1>1, <1>2
  <2>2. stream' \in Seq(Messages)
    BY <1>0, <1>3
  <2>3. {down, doubleOpen}' \subseteq BOOLEAN
    BY <1>0 DEF IndInv, TypeOK
  <2> QED  BY <1>0, <2>1, <2>2, <2>3 DEF IndInv, TypeOK
<1>9. Placed' /\ Locked' /\ Reading' /\ Asking'
  BY <1>0 DEF IndInv, Handlers, Placed, Locked, Reading, Asking
<1>10. Answered'
  <2>1. ASSUME NEW r \in Requests, NEW l \in {1, 2}, answer'[r][l] # None
        PROVE  pc'[r] # "new" /\ answer'[r][l] = docs'[file'[r]]
    BY <1>0, <1>6, <2>1 DEF IndInv, Handlers, Answered
  <2>2. ASSUME NEW r \in Requests
        PROVE  (leg'[r] = 2 => answer'[r][1] # None) /\ (answer'[r][2] # None => leg'[r] = 2)
    BY <1>0, <1>6, <1>7 DEF IndInv, Handlers, Answered
  <2> QED  BY <2>1, <2>2 DEF Answered
<1>11. Concluded'
  <2>1. ASSUME NEW r \in Requests, pc'[r] \in {"emit", "done"}
        PROVE  /\ result'[r] \in {"error", "empty", "found"}
               /\ result'[r] # "error" => answer'[r][leg'[r]] # None
    BY <1>0, <1>2, <1>7, <2>1 DEF IndInv, Handlers, Concluded
  <2> QED  BY <2>1 DEF Concluded
<1>12. Tracking' /\ OpenedOnce'
  BY <1>0, <1>4 DEF Tracking, IndInv, Traffic, OpenedOnce
<1> QED  BY <1>4, <1>5, <1>8, <1>9, <1>10, <1>11, <1>12 DEF IndInv, Handlers, Traffic

\* The invariant holds at first.
LEMMA InvInit == Init => IndInv
<1> SUFFICES ASSUME Init PROVE IndInv
  OBVIOUS
<1> USE DEF Init
<1>1. TypeOK
  <2>1. pc \in [Requests -> {"new", "prepare", "check", "opening", "ask", "await", "emit", "done"}]
    OBVIOUS
  <2>2. /\ file \in [Requests -> Files \cup {None}] /\ leg \in [Requests -> {1, 2}]
        /\ answer \in [Requests -> [{1, 2} -> Versions \cup {None}]]
        /\ result \in [Requests -> Results]
    BY DEF Results
  <2>3. text \in [Requests -> Versions] /\ {0, 1} \subseteq Versions
    BY BoundsAreNaturals DEF Versions
  <2>4. {disk, synced} \subseteq [Files -> Versions] /\ gen \in 0..MaxSyncs
    BY <2>3, BoundsAreNaturals
  <2>5. stamp \in [Requests -> [generation : 0..MaxSyncs, disk : [Files -> Versions]]]
    BY <2>4
  <2>6. stream \in Seq(Messages) /\ docs \in [Files -> Versions \cup {None}]
    BY EmptySeq
  <2>7. {down, doubleOpen} \subseteq BOOLEAN /\ openMu \in Requests \cup {None}
        /\ openFiles \subseteq Files
    OBVIOUS
  <2> QED  BY <2>1, <2>2, <2>3, <2>4, <2>5, <2>6, <2>7 DEF TypeOK
<1>2. Placed /\ Reading /\ Asking /\ Answered /\ Concluded
  BY DEF Placed, Reading, Asking, Answered, Concluded
<1>3. Locked
  BY DistinctRequests DEF Locked
<1>4. Len(stream) = 0
  BY EmptySeq
<1>5. Sent /\ AskedAfterOpen
  BY <1>4 DEF Sent, AskedAfterOpen
<1>6. \A f \in Files : OpensOf(stream, f) = {}
  BY <1>4 DEF OpensOf
<1>7. Tracking /\ OpenedOnce
  BY <1>6 DEF Tracking, Tracked, OpenedOnce
<1> QED  BY <1>1, <1>2, <1>3, <1>5, <1>7 DEF IndInv, Handlers, Traffic

\* A quiet step keeps the invariant.
LEMMA QuietKeeps ==
    ASSUME IndInv, NEW r \in Requests, QuietStep(r)
    PROVE  IndInv'
<1>1. TypeOK' /\ Handlers'
  BY BeginStep, LookStep, ReadStep, FailStep, ResolveStep, EndStep DEF QuietStep
<1>2. Traffic'
  BY QuietIsQuiet, TrafficKept DEF IndInv
<1> QED  BY <1>1, <1>2 DEF IndInv

\* Every step keeps the invariant.
LEMMA InvStep == IndInv /\ [Next]_vars => IndInv'
<1> SUFFICES ASSUME IndInv, [Next]_vars PROVE IndInv'
  OBVIOUS
<1>1. ASSUME NEW r \in Requests, QuietStep(r)
      PROVE  IndInv'
  BY <1>1, QuietKeeps
<1>2. ASSUME NEW r \in Requests, SendOpen(r) \/ Ask(r)
      PROVE  IndInv'
  BY <1>2, OpenSent, QuestionSent, SendKeepsTraffic DEF IndInv
<1>3. CASE ServerOpens \/ ServerAnswers
  BY <1>3, ServerOpensStep, ServerAnswersStep
<1>4. CASE WorldStep
  BY <1>4, WorldKeeps
<1>5. CASE UNCHANGED vars
  BY <1>5 DEF vars, IndInv, TypeOK, Handlers, Placed, Locked, Reading, Asking, Answered,
     Concluded, Traffic, Sent, Tracking, Tracked, OpensOf, AskedAfterOpen, OpenedOnce
<1> QED  BY <1>1, <1>2, <1>3, <1>4, <1>5, NextCases

\* IndInv is an invariant of the handlers.
THEOREM IndInvInductive == Spec => []IndInv
BY InvInit, InvStep, PTL DEF Spec

\* Every variable keeps its type.
THEOREM TypeCorrect == Spec => []TypeOK
<1>1. IndInv => TypeOK
  BY DEF IndInv
<1> QED  BY <1>1, IndInvInductive, PTL

\* tsgo is never told to open a file it has open: openMu covers the look, the
\* read and the notification, and openFiles what is sent under it (ensureOpen).
THEOREM OpenedAtMostOnce == Spec => []OpenedOnce
<1>1. IndInv => OpenedOnce
  BY DEF IndInv, Traffic
<1> QED  BY <1>1, IndInvInductive, PTL

\* tsgo is never asked about a file it was not told to open first.
THEOREM AlwaysAskedAfterOpen == Spec => []AskedAfterOpen
<1>1. IndInv => AskedAfterOpen
  BY DEF IndInv, Traffic
<1> QED  BY <1>1, IndInvInductive, PTL

\* The two answers of a lookup come from one text of the file.
THEOREM PositionsAlwaysFit == Spec => []PositionsFit
<1>1. IndInv => PositionsFit
  BY DEF IndInv, Handlers, Answered, PositionsFit
<1> QED  BY <1>1, IndInvInductive, PTL

-----------------------------------------------------------------------------
(* The handlers implement ToolPromise.                                     *)

statuses == [r \in Requests |-> Status(r)]
outcomes == [r \in Requests |-> Outcome(r)]
shownTo  == [f \in Files |-> ShownBy(stream, docs, f)]

\* What a call has returned stays as it is while the call returns nothing.
LEMMA OutcomesKept ==
    ASSUME \A q \in Requests : /\ pc'[q] = "done" <=> pc[q] = "done"
                               /\ pc[q] = "done" => UNCHANGED <<result[q], leg[q], answer[q]>>
    PROVE  outcomes' = outcomes
<1>1. ASSUME NEW q \in Requests
      PROVE  Outcome(q)' = Outcome(q)
  <2>1. CASE pc[q] = "done"      BY <2>1 DEF Outcome
  <2>2. CASE pc[q] # "done"      BY <2>2 DEF Outcome
  <2> QED  BY <2>1, <2>2
<1> QED  BY <1>1 DEF outcomes

\* A call keeps its status while its label stays among the running ones.
LEMMA StatusesKept ==
    ASSUME \A q \in Requests : /\ pc'[q] = "done" <=> pc[q] = "done"
                               /\ pc'[q] = "new" <=> pc[q] = "new"
    PROVE  statuses' = statuses
<1>1. ASSUME NEW q \in Requests
      PROVE  Status(q)' = Status(q)
  BY DEF Status
<1> QED  BY <1>1 DEF statuses

\* What tsgo has been shown does not change with the rest.
LEMMA ShownKept ==
    ASSUME UNCHANGED <<stream, docs>>
    PROVE  shownTo' = shownTo
BY DEF shownTo, ShownBy, OpensOf

\* The first state is one of the promise.
LEMMA PromiseInit == Init => Promise!Init
<1> SUFFICES ASSUME Init PROVE Promise!Init
  OBVIOUS
<1>1. statuses = [r \in Requests |-> "idle"]
  BY DEF Init, statuses, Status
<1>2. outcomes = [r \in Requests |-> [how |-> "none", text |-> None]]
  BY DEF Init, outcomes, Outcome
<1>3. shownTo = [f \in Files |-> None]
  <2>1. ASSUME NEW f \in Files
        PROVE  ShownBy(stream, docs, f) = None
    <3>1. OpensOf(stream, f) = {}
      BY EmptySeq DEF Init, OpensOf
    <3> QED  BY <3>1, ShownIsHeld DEF Init
  <2> QED  BY <2>1 DEF shownTo
<1> QED  BY <1>1, <1>2, <1>3 DEF Init, Promise!Init, Promise!NoOutcome, statuses, outcomes, shownTo

\* To begin is to start.
LEMMA BeginStarts ==
    ASSUME IndInv, NEW r \in Requests, NEW f \in Files, Begin(r, f)
    PROVE  Promise!Start(r, f)
<1> USE DEF Begin, Moves, IndInv, TypeOK
<1>1. statuses[r] = "idle"
  BY DEF statuses, Status
<1>2. statuses' = [statuses EXCEPT ![r] = "running"]
  <2>1. ASSUME NEW q \in Requests
        PROVE  Status(q)' = IF q = r THEN "running" ELSE Status(q)
    BY DEF Status
  <2> QED  BY <2>1 DEF statuses
<1>3. outcomes' = outcomes
  BY OutcomesKept
<1>4. shownTo' = shownTo
  BY ShownKept
<1> QED  BY <1>1, <1>2, <1>3, <1>4 DEF Promise!Start, statuses, outcomes, shownTo

\* To emit the event is to return, and what is returned speaks of the text shown.
LEMMA EmitReturns ==
    ASSUME IndInv, NEW r \in Requests, Emit(r)
    PROVE  result[r] \in {"error", "empty", "found"} /\ Promise!Return(r, result[r])
<1> DEFINE t == IF result[r] = "error" THEN None ELSE shownTo[file[r]]
<1>0. /\ pc[r] = "emit" /\ pc' = [pc EXCEPT ![r] = "done"]
      /\ pc \in [Requests -> {"new", "prepare", "check", "opening", "ask", "await", "emit", "done"}]
      /\ UNCHANGED <<handler, opening, tsgo, world>>
  BY DEF Emit, Moves, IndInv, TypeOK
<1>1. /\ file[r] \in Files /\ leg[r] \in {1, 2}
      /\ result[r] \in {"error", "empty", "found"}
      /\ result[r] # "error" => answer[r][leg[r]] # None /\ answer[r][leg[r]] = docs[file[r]]
  BY <1>0 DEF IndInv, TypeOK, Handlers, Placed, Concluded, Answered
<1>2. statuses[r] = "running"
  BY <1>0 DEF statuses, Status
<1>3. statuses' = [statuses EXCEPT ![r] = "returned"]
  <2>1. ASSUME NEW q \in Requests
        PROVE  Status(q)' = IF q = r THEN "returned" ELSE Status(q)
    BY <1>0 DEF Status
  <2> QED  BY <2>1 DEF statuses
<1>4. result[r] # "error" => shownTo[file[r]] = answer[r][leg[r]]
  BY <1>1 DEF shownTo, ShownBy
<1>5. outcomes' = [outcomes EXCEPT ![r] = [how |-> result[r], text |-> t]]
  <2>1. Outcome(r)' = [how |-> result[r], text |-> t]
    BY <1>0, <1>4 DEF Outcome
  <2>2. ASSUME NEW q \in Requests, q # r
        PROVE  Outcome(q)' = Outcome(q)
    BY <1>0, <2>2 DEF Outcome
  <2> QED  BY <2>1, <2>2 DEF outcomes
<1>6. shownTo' = shownTo
  BY <1>0, ShownKept
<1>7. result[r] # "error" => shownTo[file[r]] # None
  BY <1>1, <1>4
<1> QED  BY <1>0, <1>1, <1>2, <1>3, <1>5, <1>6, <1>7
         DEF Promise!Return, statuses, outcomes, shownTo

\* To send the open is to show tsgo the text.
LEMMA SendOpenShows ==
    ASSUME IndInv, NEW r \in Requests, SendOpen(r)
    PROVE  /\ file[r] \in Files /\ text[r] \in 1..disk[file[r]]
           /\ Promise!Show(file[r], text[r])
<1>0. /\ pc[r] = "opening" /\ pc' = [pc EXCEPT ![r] = "ask"]
      /\ pc \in [Requests -> {"new", "prepare", "check", "opening", "ask", "await", "emit", "done"}]
      /\ UNCHANGED <<handler, world>>
  BY DEF SendOpen, Moves, IndInv, TypeOK
<1>1. file[r] \in Files /\ text[r] \in 1..disk[file[r]]
  BY <1>0 DEF IndInv, Handlers, Placed, Reading
<1>2. /\ shownTo[file[r]] = None
      /\ shownTo' = [shownTo EXCEPT ![file[r]] = text[r]]
  BY <1>1, SendKeepsTraffic DEF shownTo
<1>3. statuses' = statuses
  BY <1>0, StatusesKept
<1>4. outcomes' = outcomes
  BY <1>0, OutcomesKept
<1> QED  BY <1>0, <1>1, <1>2, <1>3, <1>4 DEF Promise!Show, statuses, outcomes, shownTo

\* An edit is an edit.
LEMMA EditEdits ==
    ASSUME NEW f \in Files, Edit(f)
    PROVE  Promise!Edit(f)
<1>1. UNCHANGED <<pc, handler, tsgo>> /\ disk' = [disk EXCEPT ![f] = @ + 1]
  BY DEF Edit
<1>2. statuses' = statuses /\ outcomes' = outcomes /\ shownTo' = shownTo
  BY <1>1, StatusesKept, OutcomesKept, ShownKept
<1> QED  BY <1>1, <1>2 DEF Promise!Edit, statuses, outcomes, shownTo

\* The other steps are none of the promise's.
LEMMA OthersStutter ==
    ASSUME IndInv,
           \/ \E r \in Requests : Ask(r) \/ (QuietStep(r) /\ ~Emit(r) /\ ~\E f \in Files : Begin(r, f))
           \/ ServerOpens \/ ServerAnswers \/ GoDown \/ Sync \/ UNCHANGED vars
    PROVE  UNCHANGED Promise!vars
<1>1. ASSUME NEW r \in Requests, QuietStep(r), ~Emit(r), ~\E f \in Files : Begin(r, f)
      PROVE  UNCHANGED <<statuses, file, outcomes, shownTo, disk>>
  <2> USE DEF Moves, Settles, IndInv, TypeOK
  <2>1. CASE \/ AbsFails(r) \/ LockOpen(r) \/ AlreadyOpen(r)
              \/ ReadFile(r) \/ ReadFails(r) \/ SendOpenFails(r)
    <3> USE <2>1 DEF AbsFails, LockOpen, AlreadyOpen, ReadFile, ReadFails, SendOpenFails
    <3>1. statuses' = statuses       BY StatusesKept
    <3>2. outcomes' = outcomes       BY OutcomesKept
    <3>3. shownTo' = shownTo         BY ShownKept
    <3> QED  BY <3>1, <3>2, <3>3
  <2>2. CASE CallFails(r) \/ Resolve(r) \/ \E how \in {"empty", "found"} : Conclude(r, how)
    <3> USE <2>2 DEF CallFails, Resolve, Conclude
    <3>1. statuses' = statuses       BY StatusesKept
    <3>2. outcomes' = outcomes       BY OutcomesKept
    <3>3. shownTo' = shownTo         BY ShownKept
    <3> QED  BY <3>1, <3>2, <3>3
  <2> QED  BY <1>1, <2>1, <2>2 DEF QuietStep
<1>2. ASSUME NEW r \in Requests, Ask(r)
      PROVE  UNCHANGED <<statuses, file, outcomes, shownTo, disk>>
  <2>0. /\ pc[r] = "ask" /\ pc' = [pc EXCEPT ![r] = "await"]
        /\ pc \in [Requests -> {"new", "prepare", "check", "opening", "ask", "await", "emit", "done"}]
        /\ UNCHANGED <<handler, world>>
    BY <1>2 DEF Ask, Moves, IndInv, TypeOK
  <2>1. statuses' = statuses         BY <2>0, StatusesKept
  <2>2. outcomes' = outcomes         BY <2>0, OutcomesKept
  <2>3. ~SendOpen(r)                 BY <2>0 DEF SendOpen, Moves
  <2>4. shownTo' = shownTo           BY <1>2, <2>3, SendKeepsTraffic DEF shownTo
  <2> QED  BY <2>0, <2>1, <2>2, <2>4
<1>3. ASSUME ServerOpens \/ ServerAnswers
      PROVE  UNCHANGED <<statuses, file, outcomes, shownTo, disk>>
  <2>0. /\ UNCHANGED <<pc, file, leg, result, disk>>
        /\ \A q \in Requests : pc[q] = "done" => answer'[q] = answer[q]
    BY <1>3 DEF ServerOpens, ServerAnswers, IndInv, TypeOK
  <2>1. statuses' = statuses         BY <2>0, StatusesKept
  <2>2. outcomes' = outcomes         BY <2>0, OutcomesKept
  <2>3. shownTo' = shownTo           BY <1>3, ServerOpensStep, ServerAnswersStep DEF shownTo
  <2> QED  BY <2>0, <2>1, <2>2, <2>3
<1>4. ASSUME GoDown \/ Sync \/ UNCHANGED vars
      PROVE  UNCHANGED <<statuses, file, outcomes, shownTo, disk>>
  <2>0. UNCHANGED <<pc, handler, stream, docs, disk>>
    BY <1>4 DEF GoDown, Sync, vars
  <2>1. statuses' = statuses         BY <2>0, StatusesKept
  <2>2. outcomes' = outcomes         BY <2>0, OutcomesKept
  <2>3. shownTo' = shownTo           BY <2>0, ShownKept
  <2> QED  BY <2>0, <2>1, <2>2, <2>3
<1>5. UNCHANGED <<statuses, file, outcomes, shownTo, disk>>
  BY <1>1, <1>2, <1>3, <1>4
<1> QED  BY <1>5 DEF Promise!vars, statuses, outcomes, shownTo

\* Every step is one of the promise, or none of it.
LEMMA PromiseStep == IndInv /\ [Next]_vars => [Promise!Next]_(Promise!vars)
<1> SUFFICES ASSUME IndInv, [Next]_vars PROVE Promise!Next \/ UNCHANGED Promise!vars
  OBVIOUS
<1>1. ASSUME NEW r \in Requests, NEW f \in Files, Begin(r, f)
      PROVE  Promise!Next
  BY <1>1, BeginStarts DEF Promise!Next
<1>2. ASSUME NEW r \in Requests, Emit(r)
      PROVE  Promise!Next
  BY <1>2, EmitReturns DEF Promise!Next
<1>3. ASSUME NEW r \in Requests, SendOpen(r)
      PROVE  Promise!Next
  BY <1>3, SendOpenShows DEF Promise!Next
<1>4. ASSUME NEW f \in Files, Edit(f)
      PROVE  Promise!Next
  BY <1>4, EditEdits DEF Promise!Next
<1> QED  BY <1>1, <1>2, <1>3, <1>4, OthersStutter, NextCases DEF WorldStep

\* The handlers, with ensureOpen and its lock, keep the promise of ToolPromise:
\* whoever opened a file, whatever failed and however it was edited, results about
\* it speak of one text of it.
THEOREM PromiseKept == Spec => KeepsPromise
BY IndInvInductive, PromiseInit, PromiseStep, PTL DEF Spec, KeepsPromise, Promise!Spec
=============================================================================
