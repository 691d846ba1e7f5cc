----------------------------- MODULE ToolCalls -----------------------------
(***************************************************************************)
(* The MCP tool handlers of internal/tools over the provider: a call       *)
(* stamps its result, makes tsgo open the file (prepareOpen, ensureOpen),  *)
(* asks for the file's symbols, and, unless it is an outline, asks again   *)
(* at the position it resolved.  Meanwhile files are edited, and the       *)
(* control socket's sync bumps the generation.                             *)
(*                                                                         *)
(* The transport is what LspTransport shows of it: whole messages, first   *)
(* in first out towards tsgo; a call ends answered or failed.              *)
(***************************************************************************)
EXTENDS Naturals, Sequences

CONSTANTS
    Outlines, Lookups,  \* invocations of get_outline; of find_definition and
                        \* find_references
    Files, None,
    MaxEdits,           \* bound: edits of one file
    MaxSyncs,           \* bound: sync commands
    StreamCap           \* messages tsgo leaves unread before a writer blocks

Requests == Outlines \cup Lookups

ASSUME DistinctRequests ==
    Outlines \cap Lookups = {} /\ None \notin Requests \cup Files \cup 0..MaxEdits + 1
ASSUME BoundsAreNaturals == {MaxEdits, MaxSyncs, StreamCap} \subseteq Nat

VARIABLES
    pc,
    file,      \* the file a request is about
    leg,       \* which of its provider calls it is in: 1 symbols, 2 locations
    text,      \* what ensureOpen read of the file
    answer,    \* per leg, the version of the file tsgo answered from
    stamp,     \* the Freshness stamp; Stale is always FALSE
    result,    \* how the call ended
    openMu, openFiles,
    down,      \* the provider is marked closed
    stream,    \* messages on their way to tsgo
    docs,      \* the version of each open file that tsgo holds
    doubleOpen,\* tsgo was told to open a file it has open
    disk,      \* the version of each file on disk; 0: no such file
    gen, synced\* the generation; the disk versions when it was last bumped

handler == <<file, leg, text, answer, stamp, result>>
opening == <<openMu, openFiles>>
tsgo    == <<down, stream, docs, doubleOpen>>
world   == <<disk, gen, synced>>
vars == <<pc, handler, opening, tsgo, world>>

Versions == 0..MaxEdits + 1
Results == {"none", "error", "empty", "found"}
Messages == [kind : {"open", "ask"}, from : Requests, file : Files, version : Versions]

TypeOK ==
    /\ pc \in [Requests -> {"new", "prepare", "check", "opening", "ask", "await",
                            "emit", "done"}]
    /\ file \in [Requests -> Files \cup {None}]
    /\ leg \in [Requests -> {1, 2}]
    /\ text \in [Requests -> Versions]
    /\ answer \in [Requests -> [{1, 2} -> Versions \cup {None}]]
    /\ stamp \in [Requests -> [generation : 0..MaxSyncs, disk : [Files -> Versions]]]
    /\ result \in [Requests -> Results]
    /\ openMu \in Requests \cup {None} /\ openFiles \subseteq Files
    /\ stream \in Seq(Messages)
    /\ docs \in [Files -> Versions \cup {None}] /\ {down, doubleOpen} \subseteq BOOLEAN
    /\ {disk, synced} \subseteq [Files -> Versions] /\ gen \in 0..MaxSyncs

\* A file may be missing at first (version 0).
Init ==
    /\ pc = [r \in Requests |-> "new"]
    /\ file = [r \in Requests |-> None]
    /\ leg = [r \in Requests |-> 1]
    /\ text = [r \in Requests |-> 0]
    /\ answer = [r \in Requests |-> [l \in {1, 2} |-> None]]
    /\ result = [r \in Requests |-> "none"]
    /\ openMu = None /\ openFiles = {}
    /\ down = FALSE /\ stream = <<>> /\ docs = [f \in Files |-> None] /\ doubleOpen = FALSE
    /\ disk \in [Files -> {0, 1}] /\ synced = disk /\ gen = 0
    /\ stamp = [r \in Requests |-> [generation |-> 0, disk |-> disk]]

Moves(r, from, to) == pc[r] = from /\ pc' = [pc EXCEPT ![r] = to]

\* A handler whose provider call has ended goes on to emit its event.
Settles(r, from, how) ==
    /\ Moves(r, from, "emit")
    /\ result' = [result EXCEPT ![r] = how]

-----------------------------------------------------------------------------
(* The handler.                                                            *)

\* The stamp is taken at the start of the call.
Begin(r, f) ==
    /\ Moves(r, "new", "prepare")
    /\ file' = [file EXCEPT ![r] = f]
    /\ stamp' = [stamp EXCEPT ![r] = [generation |-> gen, disk |-> synced]]
    /\ UNCHANGED <<leg, text, answer, result, opening, tsgo, world>>

\* prepareOpen: the path cannot be made absolute (filepath.Abs).  A handler that
\* waits for openMu is past that, so fairness does not count on it.
AbsFails(r) ==
    /\ Settles(r, "prepare", "error")
    /\ UNCHANGED <<file, leg, text, answer, stamp, opening, tsgo, world>>

\* A mistake: ensureOpen takes no lock.
OpenMuIgnored == TRUE

OpenMuFree == openMu = None

LockOpen(r) ==
    /\ OpenMuFree
    /\ Moves(r, "prepare", "check")
    /\ openMu' = r
    /\ UNCHANGED <<handler, openFiles, tsgo, world>>

\* A mistake: a file that has changed on disk is opened again.
OpenAndCurrent(f) == f \in openFiles /\ docs[f] = disk[f]

\* The cache of ensureOpen: once opened, a file is never read again.
Opened(f) == f \in openFiles

AlreadyOpen(r) ==
    /\ Moves(r, "check", "ask")
    /\ Opened(file[r])
    /\ openMu' = None
    /\ UNCHANGED <<handler, openFiles, tsgo, world>>

\* A mistake: the file is marked open before it is known to be readable.
MarkedEarly(f) == {f}

\* What reading a file marks open: nothing yet.
MarkedByRead(f) == {}

\* A mistake: the file is opened without its text.
TextLost(f) == None

TextRead(f) == disk[f]

ReadFile(r) ==
    /\ Moves(r, "check", "opening")
    /\ ~Opened(file[r]) /\ disk[file[r]] # 0
    /\ text' = [text EXCEPT ![r] = TextRead(file[r])]
    /\ openFiles' = openFiles \cup MarkedByRead(file[r])
    /\ UNCHANGED <<file, leg, answer, stamp, result, openMu, tsgo, world>>

\* A mistake: the lock is kept when the file cannot be read.
ReleasedOnError == openMu

Released == None

ReadFails(r) ==
    /\ Settles(r, "check", "error")
    /\ ~Opened(file[r]) /\ disk[file[r]] = 0
    /\ openMu' = Released
    /\ openFiles' = openFiles \cup MarkedByRead(file[r])
    /\ UNCHANGED <<file, leg, text, answer, stamp, tsgo, world>>

Sends(r, kind) ==
    /\ ~down /\ Len(stream) < StreamCap
    /\ stream' = Append(stream, [kind |-> kind, from |-> r, file |-> file[r],
                                 version |-> text[r]])

\* notify blocks while the stream is full, and openMu stays held.
SendOpen(r) ==
    /\ Moves(r, "opening", "ask")
    /\ Sends(r, "open")
    /\ openFiles' = openFiles \cup {file[r]}
    /\ openMu' = None
    /\ UNCHANGED <<handler, down, docs, doubleOpen, world>>

\* The connection is down: the file is not marked open.
SendOpenFails(r) ==
    /\ down
    /\ Settles(r, "opening", "error")
    /\ openMu' = Released
    /\ UNCHANGED <<file, leg, text, answer, stamp, openFiles, tsgo, world>>

Ask(r) ==
    /\ Moves(r, "ask", "await")
    /\ Sends(r, "ask")
    /\ UNCHANGED <<handler, opening, down, docs, doubleOpen, world>>

\* call() fails: refused or unable to write, or, once it has written, timed out,
\* released, or answered with a server error.
CallFails(r) ==
    /\ pc[r] = "await" \/ (pc[r] = "ask" /\ down)
    /\ Settles(r, pc[r], "error")
    /\ UNCHANGED <<file, leg, text, answer, stamp, opening, tsgo, world>>

\* The symbols have come and the name resolves: on to the second call.
Resolve(r) ==
    /\ r \in Lookups /\ leg[r] = 1 /\ answer[r][1] # None
    /\ Moves(r, "await", "prepare")
    /\ leg' = [leg EXCEPT ![r] = 2]
    /\ UNCHANGED <<file, text, answer, stamp, result, opening, tsgo, world>>

\* The last answer has come: something, or nothing (an honest null).
Conclude(r, how) ==
    /\ answer[r][leg[r]] # None
    /\ r \in Lookups /\ leg[r] = 1 => how = "empty"
    /\ Settles(r, "await", how)
    /\ UNCHANGED <<file, leg, text, answer, stamp, opening, tsgo, world>>

\* Every path ends in one Log (see Telemetry).
Emit(r) ==
    /\ Moves(r, "emit", "done")
    /\ UNCHANGED <<handler, opening, tsgo, world>>

-----------------------------------------------------------------------------
(* tsgo (external) handles its input in order.                             *)

ServerOpens ==
    /\ stream # <<>> /\ Head(stream).kind = "open"
    /\ LET m == Head(stream) IN
       /\ docs' = [docs EXCEPT ![m.file] = m.version]
       /\ doubleOpen' = (doubleOpen \/ docs[m.file] # None)
    /\ stream' = Tail(stream)
    /\ UNCHANGED <<pc, handler, opening, down, world>>

\* Whatever tsgo has not open it knows nothing of: no answer.  The answer to a
\* call that has given up is dropped.
ServerAnswers ==
    /\ stream # <<>> /\ Head(stream).kind = "ask"
    /\ LET m == Head(stream) IN
       answer' = IF pc[m.from] = "await"
                 THEN [answer EXCEPT ![m.from][leg[m.from]] = docs[m.file]]
                 ELSE answer
    /\ stream' = Tail(stream)
    /\ UNCHANGED <<pc, file, leg, text, stamp, result, opening, down, docs,
                   doubleOpen, world>>

GoDown ==
    /\ ~down
    /\ down' = TRUE
    /\ UNCHANGED <<pc, handler, opening, stream, docs, doubleOpen, world>>

-----------------------------------------------------------------------------
(* The project and its harness.                                            *)

Edit(f) ==
    /\ disk[f] <= MaxEdits
    /\ disk' = [disk EXCEPT ![f] = @ + 1]
    /\ UNCHANGED <<pc, handler, opening, tsgo, gen, synced>>

\* sync <file>, whichever file it names.
Sync ==
    /\ gen < MaxSyncs
    /\ gen' = gen + 1
    /\ synced' = disk
    /\ UNCHANGED <<pc, handler, opening, tsgo, disk>>

-----------------------------------------------------------------------------
OpenStep(r) == \/ LockOpen(r) \/ AlreadyOpen(r) \/ ReadFile(r) \/ ReadFails(r)
               \/ SendOpen(r) \/ SendOpenFails(r)
CallStep(r) == \/ Ask(r) \/ CallFails(r) \/ Resolve(r)
               \/ \E how \in {"empty", "found"} : Conclude(r, how)
HandlerStep(r) == OpenStep(r) \/ CallStep(r) \/ Emit(r)
ServerStep == ServerOpens \/ ServerAnswers

Terminated == (\A r \in Requests : pc[r] = "done") /\ UNCHANGED vars

Next == \/ \E r \in Requests : HandlerStep(r) \/ AbsFails(r) \/ \E f \in Files : Begin(r, f)
        \/ ServerStep \/ GoDown
        \/ \E f \in Files : Edit(f)
        \/ Sync
        \/ Terminated

Spec == Init /\ [][Next]_vars

\* The scheduler runs the handlers, call() is bounded by its timeout, and tsgo
\* keeps draining its input (without that a writer blocks: see LspTransport).
FairSpec == Spec /\ WF_vars(ServerStep) /\ \A r \in Requests : WF_vars(HandlerStep(r))

-----------------------------------------------------------------------------
(* Properties.                                                             *)

\* tsgo is never told to open a file it has open, however many calls ask about
\* the file at once (ensureOpen).
OpenedOnce == ~doubleOpen

\* tsgo is never asked about a file it has not been told to open first: every
\* question on the stream comes after an open, there or already handled.
AskedAfterOpen ==
    \A i \in 1..Len(stream) : stream[i].kind = "ask" =>
        \/ docs[stream[i].file] # None
        \/ \E j \in 1..i : stream[j].kind = "open" /\ stream[j].file = stream[i].file

\* A position resolved from the first answer is used against the same text of
\* the file: edits between the two calls do not shift it.
PositionsFit ==
    \A r \in Requests : answer[r][2] # None => answer[r][2] = answer[r][1]

\* Where a file is opened among the messages.
OpensOf(msgs, f) == {i \in 1..Len(msgs) : msgs[i].kind = "open" /\ msgs[i].file = f}

\* The text of a file that tsgo has been shown: the one it has open, or the one on
\* its way.
ShownBy(msgs, held, f) ==
    CASE held[f] # None -> held[f]
      [] held[f] = None /\ OpensOf(msgs, f) = {} -> None
      [] OTHER -> msgs[CHOOSE i \in OpensOf(msgs, f) : TRUE].version

Status(r) == CASE pc[r] = "new" -> "idle"
               [] pc[r] = "done" -> "returned"
               [] OTHER -> "running"

Outcome(r) ==
    IF pc[r] # "done" THEN [how |-> "none", text |-> None]
    ELSE [how |-> result[r],
          text |-> IF result[r] = "error" THEN None ELSE answer[r][leg[r]]]

Promise == INSTANCE ToolPromise WITH
    Calls <- Requests,
    status <- [r \in Requests |-> Status(r)],
    about <- file,
    outcome <- [r \in Requests |-> Outcome(r)],
    shown <- [f \in Files |-> ShownBy(stream, docs, f)]

\* The handlers and ensureOpen implement ToolPromise: results about a file speak
\* of one text of it, whoever opened it, whatever failed and was tried again, and
\* both answers of a lookup of the same.
KeepsPromise == Promise!Spec

\* Every call that has begun returns, errors and the lock of ensureOpen included.
CallsFinish == \A r \in Requests : (pc[r] = "prepare") ~> (pc[r] = "done")

\* A result stamped fresh at a generation comes from a text of the file at least
\* as new as the file was when the generation began.
FreshnessHonest ==
    \A r \in Requests : result[r] = "found" =>
        answer[r][leg[r]] >= stamp[r].disk[file[r]]
=============================================================================
