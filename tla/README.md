# Verification of cgraphd

`cgraphd` is a daemon that answers questions about a TypeScript project ("where
is this defined, where is it used, what is in this file") over MCP. It asks a
language server, tsgo, that it runs as a subprocess. This directory holds TLA+
models of the daemon, the TLC configurations that check them, and proofs for the
TLA+ proof system. Source paths below are relative to the repository's root.

## The system

| Component | Source | State | Operations |
|---|---|---|---|
| LSP transport | `internal/lsp/transport.go` | `nextID`, `pending` map, `closed`, `connErr`, one channel per call, `writeMu` | `call`, `notify`, `writeMessage`, `readLoop`, `shutdownPending` |
| LSP provider | `internal/lsp/provider.go` | the subprocess, `openMu`, `openFiles` | `New`, `ensureOpen`, `Definition`, `References`, `DocumentSymbols`, `Close` |
| Tool handlers | `internal/tools` | none of their own | `FindDefinition`, `FindReferences`, `GetOutline` |
| Generation counter | `internal/core/config.go` | one atomic integer | `Bump`, `Current` |
| Control socket | `internal/mcp/control.go` | listener, WaitGroup, the socket file | `Start`, `Wait`, accept loop, connection handler |
| Daemon main | `cmd/cgraphd/main.go` | the signal context, the order of deferred calls | `run` |
| Telemetry | `internal/telemetry` | file, encoder (with its sticky error), mutex | `NewJSONL`, `Log`, `Close`; fan-out and OTEL, not wired in |
| MCP server | `internal/mcp/server.go` | held by the SDK | tool registration, `RunStdio` |
| Path normalisation | `internal/pathnorm` | none | `Normalize`, `WindowsToWSL`, `WSLToWindows`, `PathToURI`, `URIToPath` |
| LSP messages | `internal/lsp/protocol.go`, `uri.go` | none | types and pure conversions |
| Evaluation | `eval/tiera` | none | a test |

How they interact: `run` opens the log, starts the provider, then the control
socket, then serves MCP. The SDK runs one goroutine per tool call. A tool call
takes a freshness stamp, has the provider tell tsgo about the file once
(`ensureOpen`), asks for the file's symbols and, for a definition or the
references, asks again at the position it resolved; then it logs one event. All
calls share one pipe to tsgo, written under a mutex, and one reader goroutine that
hands each response to the caller whose id it carries. A client of the control
socket bumps the generation. At the end `run`'s deferred calls wait for the
control socket, cancel the context, and close the provider and the log.

What is hard to get right: the hand-over from the reader to a caller that may have
given up; a connection that goes down between two critical sections; pipe writes
that block under a lock; two Close calls; a check-then-open over a blocking write;
two requests that must see one text of a file; deferred calls in the wrong order;
a socket file that two processes share; a disk that fills up; and, in the data, one
file under many spellings, one name under many symbols, replies with gaps, a cap
that cuts. `hazards` in PROJECT.json lists them at their lines.

What makes each part correct:

- transport: a response reaches the call it answers and no other; frames stay
  whole; entries do not leak; a closed provider releases every caller; calls and
  Close return; nothing panics.
- provider: tsgo hears of a file once and before any question about it; a failed
  start leaves no subprocess; timeouts are the ones the code names.
- tools: both halves of a lookup fit one text; results about a file speak of one text
  of it; a call returns on every path; a stamp says what it is documented to say; a
  result withholds nothing that tsgo named but what the cap cuts, and the event
  tells of the result.
- path normalisation: one file, one spelling; what goes out comes back.
- control socket and main: Wait covers every handler; a daemon that serves can be
  found at its path; cancelling stops the accepting and ends the daemon, a failed
  start included.
- telemetry: lines are whole events; Log never gets stuck, Close cuts none short.

## Modules

| Module | Models | Correspondence |
|---|---|---|
| `LspTransport` | transport and `Close` | `pc[w]` is where a goroutine stands; a critical section under `pendingMu` is one step, because nothing blocks in it; `writeMu` is explicit and a frame is two writes. A call's key is `id[p]`, and `pending` is the set of calls with an entry: `EntriesAt` is the lookup. The reader's lookup and its send on the channel are two steps, as the unlock between them demands. |
| `RpcCalls` | what the transport promises | No ids, maps, channels, locks or pipes: a call is issued, sent, delivered its own response, and settles once. `LspTransport!Promise` instantiates it with the mapping `Status`. |
| `LspTransportProofs` | proofs about `LspTransport` | see below |
| `Daemon` | `run` and the control socket, for several processes at one socket path | `main[d]` follows `run` and its deferred calls; `wg[d]` is the WaitGroup as the set of goroutines it counts; `watcher[d]` is the goroutine of `Start` that waits for the context, whose `ln.Close` is two steps (unlink, close) and whose `RemoveAll` is a third; `path` is the socket file. |
| `ToolCalls` | tool handlers, `ensureOpen`, and what tsgo knows of the files | `pc[r]` follows a call through `ensureOpen` and the request; `leg[r]` says which of its provider calls it is in; files are versions; `stream` is tsgo's input, in order. |
| `ToolPromise` | what the tool handlers promise | No locks, streams, legs or stamps: a call starts, a file is shown once, with a text it has had, and a call returns, with an error or speaking of that text. `ToolCalls!Promise` instantiates it with the mappings `Status`, `Outcome` and `ShownBy`. |
| `ToolCallsProofs` | proofs about `ToolCalls`, the refinement included | see below |
| `DaemonProofs` | proofs about `Daemon` | see below |
| `Telemetry` | `JSONLLogger` | `file` is the sequence of pieces written; `broken` is the encoder's error; the disk fills up and is freed. |
| `ProviderStart` | `New` with its two timeouts | `stage` follows `New`; a clock advances while it waits; `lost` says that the reader has ended, for tsgo has exited or has sent a broken frame and runs on. |
| `Process` | `run` as the owner of the logger and of tsgo | composes `Telemetry` and `ProviderStart`: the log is opened before `New` starts tsgo, tool calls log once `New` has returned, and the logger's Close is only deferred then: when `New` fails the process ends without it. It may be killed anywhere. |
| `ProcessProofs` | proofs about `Telemetry`, `ProviderStart` and `Process` | see below |
| `PathNorm` | `internal/pathnorm` | a path is a sequence of tokens, separators and names; `path.Clean` is external. |
| `ToolResults` | the data of one tool call | the caller spells a path, it is normalised and made absolute, a tree of symbols comes, is flattened or resolved, a reply is decoded, capped, returned and logged. The tree is a parent function over symbols numbered so that parents precede children and siblings are in order. |
| `SequenceFacts` | nothing of the daemon | induction and recursion over numbers and sequences, and facts about flattening, sorting and counting, for the three modules below |
| `PathNormProofs`, `OutlineProofs` | proofs about the operators of `PathNorm` and of `ToolResults` | see below |
| `ToolResultsProofs` | proofs about `ToolResults` | see below |

The `MC` modules name the small sets the configurations use. Definitions marked
"A mistake" are not part of any specification: each is a bug one could plausibly
write in place of the definition next to it, and shows that a property would
notice.

`ToolCalls` and `ToolResults` are the two halves of a handler: the first has the
order of its calls, the locks and the connection, the second what becomes of the
data. Neither needs the other's detail: which file, name or locations a call is
about changes nothing in when it blocks, and whom it races changes nothing in what
its reply decodes to.

### Modelling decisions

- tsgo is external. It reads when it likes, answers in any order, each request at
  most once, sends requests, notifications and broken frames of its own, and may
  exit at any time. A call it never answers is one it leaves in `inbox`.
- In `LspTransport` the caller's context and the timeout are one action,
  `CallTimeout`, enabled as long as the call waits: how long a timeout is does not
  matter there. It matters in `ProviderStart`, where both clocks are explicit.
- `readFrame` and the map lookup are one step of the reader. Nothing lies
  between them but the reader's own decoding.
- Once tsgo has exited a write fails (`EPIPE`), and `cmd.Wait`, when it
  returns, closes the read end of stdout, which the reader sees as an error.
- `ToolCalls` stands on the transport: messages arrive whole and in order, a call
  ends answered or failed, and a late answer is dropped. `LspTransport` is where
  that is shown. A result that does not decode counts as a failed call.
- In `PathNorm` a drive and its colon are one token, `wsl$` and `wsl.localhost` in any
  case are one, and `c`/`C` are the names of one letter. No two names stand side by
  side. Percent-encoding is undone by the decoder of the same library and left out.
- In `ToolResults` a symbol is its place in the tree, whether it bears the name that is
  looked up, and its line; a location is the item of the reply it comes from and the
  range it was taken from. Variables are cleared when they have been used for the last
  time, so that the instance stays small; properties about a conversion speak of the
  state before.
- The SDK's session is external: `RunStdio` returns when the client is gone or the
  context is cancelled. `Daemon!Exit` assumes that `provider.Close` returns:
  `LspTransport` shows under which condition it does.
- A handler of the control socket is counted, and blocked, until its client hangs
  up. A line it cannot parse is answered and changes nothing.

## Runs

Bounds in brackets: they are the smallest at which every interesting case occurs
(two calls to confuse, one writer besides them, a pipe that holds a frame
and a half, a second start after a crash).

| Run | Shows |
|---|---|
| `lsp_calls` [2 calls, 1 notification, 1 message of tsgo's own; pipe of 3 writes, stdout of 2 frames] | answers match, frames whole, no leaked entries, no panic as long as nobody closes; under `DrainSpec` every call returns, the reader never stays stuck, and the client implements `RpcCalls`, its liveness included |
| `lsp_close` [1 call, 1 notification, 1 closer, same pipes] | who is registered at the close is released, the first cause stays, the client implements `RpcCalls` (safety); under `DrainSpec` Close returns. Two closers at once are covered by the proofs, for safety |
| `daemon_life` [2 daemons, each started once, 1 client, 1 sync] | Wait covers the handlers; no sync after Wait; no socket file left behind; cancelling stops the accepting, and ends the daemon unless a client keeps a connection, whether its start found a crashed daemon's file, a live one's or none, and whether it could remove and bind the path or not |
| `tool_life` [1 outline and 1 lookup on 1 file, 1 sync; the file may be missing at first and has up to 2 versions after that] | one `didOpen`, before any question; both legs of a lookup fit one text; the handlers implement `ToolPromise`; every call that begins returns. More calls and files are covered by the proofs, for safety |
| `process` [3 events, disk full twice, timeouts of 5 and 20] | `New` returns, and leaves no subprocess when it fails; a cut line stays last; Close cuts no Log short; no Log is stuck |
| `tool_data` [paths of up to 4 tokens after one of 6 beginnings, trees of up to 3 symbols on 2 lines, replies of up to 3 items of 7 kinds, caps -1, 0, 1 and 3 with a default of 2] | conversions are stable, agree on every spelling of a drive path and undo each other; a name resolves to the first symbol in document order, its line preferred; an outline can be rebuilt; a lookup withholds nothing; one event, that tells of the result |

Why the bounds of `tool_data` suffice: the code looks at no more than the first four
tokens of a path (`/mnt/c/`), and what follows is only cleaned; with beginnings of up
to six tokens and four more, every prefix test is met on both sides, `..` crosses
every one of them, and doubled separators stand everywhere. Three symbols are a
nesting of three, two siblings with a child, and three siblings; lists reach one below,
at, and one above the caps 1 and 2; a cap of 3 leaves an outline whole.

A restart after a crash is the second daemon starting once the first is gone: a new
process shares nothing with the old one but the socket file, as in the code.

`CHECK_DEADLOCK FALSE` stands where the system may stop: daemons that have used
up their start, events all logged, `New` returned. `LspTransport` and `ToolCalls`
keep the deadlock check and have an explicit `Terminated` step.

### What disagrees with the documentation

Each of these runs checks one statement of a comment or a document, and TLC finds
the behaviour that refutes it. `findings` in PROJECT.json quotes the lines.

| Run | Counterexample |
|---|---|
| `lsp_stuck_server` | tsgo runs but stops reading: a call blocks in its pipe write, before its timeout has started |
| `lsp_close_panics` | Close releases the callers between the reader's lookup and its send: send on a closed channel |
| `daemon_eof` | the MCP client disconnects: `control.Wait` runs before `stop()`, and waits until a signal comes |
| `daemon_pair` | a second daemon of the project takes the path of the first, which serves on unreachable |
| `tool_freshness` | after an edit and a sync, a result stamped fresh at the new generation comes from the text of the first open |
| `start_impatient` | `initialize` is given up after the 5 seconds of `call`, not the 20 of `New` |

Two more sentences do not hold word for word, and the properties say what does.
Start's comment has it that cancelling shuts down "the accept loop and connections"
(`internal/mcp/control.go:60-62`). It does the first (`CancelStopsAccepting`); a
connection ends only when its client hangs up, and until then `WaitCoversHandlers` keeps
the daemon in `Wait`. So `CancelEndsUnlessHeld` excepts a daemon whose connection is
kept (`Held`), and `findings` lists the comment.

`Normalize` is not idempotent on relative paths, contrary to
`internal/pathnorm/pathnorm.go:212`: `./C:/x` is cleaned to `C:/x`, which a second call
takes for a drive path. So `NormalizeStable` speaks of rooted paths, and `findings` lists
the comment; a handler normalises what its caller typed once. And `/mnt/C` and `/mnt/c` stay two host paths
although both are drive C, so `RoundTrips` is up to that case.

Close sends `shutdown` through the same unbounded write, so `ClosesReturn` needs
`DrainSpec` too. `DrainSpec` lets tsgo read whatever becomes of its own output, so that
tsgo and the daemon should block one another, each in a write, is among the
behaviours of `lsp_stuck_server` only. `LinesWhole` is a property of one daemon: the next one
appends to whatever the file ends with.

## Fairness

- `LspTransport!FairSpec`: weak fairness of each goroutine. The Go scheduler runs
  what can run; timers fire, so a waiting call can always move on. Nothing is
  assumed of tsgo. `DrainSpec` adds that a running tsgo keeps reading its input.
  The code does not ensure that, and `lsp_stuck_server` shows what happens without it.
- `Daemon!FairSpec`: the same for the goroutines of the daemon; no signal, crash,
  disconnect or client action is fair. Clients need never hang up.
- `ToolCalls!FairSpec`: the handlers run (a call in `await` may time out), and
  tsgo drains its input, for the reason above.
- `Process!RunSpec`: `New` runs whenever it can, and time passes; a Log or a Close that
  can go on does. Nothing is assumed of tsgo, the disk or the tool calls.
- `ToolResults` has safety properties only: a single call, step by step.

## Proofs

`LspTransportProofs` proves, for any sets of calls, notifiers and closers and any
pipe capacities:

| Theorem | Statement |
|---|---|
| `IndInvInductive` | `Spec => []IndInv` |
| `TypeCorrect` | `Spec => []TypeOK` |
| `AnswersAlwaysMatch` | `Spec => []AnswersMatch` |
| `FramesAlwaysIntact` | `Spec => []FramesIntact` |
| `NoEntryLeaks` | `Spec => []NoLeakedEntries` |
| `ClosedAlwaysReleases` | `Spec => []ClosedReleases` |
| `FirstCauseAlwaysKept` | `Spec => FirstCauseKept` |
| `NoPanicWithoutClose` | `Closers = {}` implies `Spec => []ReaderNeverPanics` |
| `PromiseKept` | `Spec => KeepsPromise`: the refinement of `RpcCalls` |

They rest on the two assumptions `LspTransport` names: actors are distinct, and
capacities are natural numbers.

The invariant. `AnswersMatch` alone says nothing of a response still on its way, so
`IndInv` follows a message through its life: a request on stdin (`InputTagged`), in
tsgo (`InboxTagged`), its response on stdout (`OutputTagged`), in the reader's hand
and in a channel (`HandedToOwner`). At each place it belongs to a call that drew an
id and has written its request. With ids drawn only once (`IdsDistinct`), the
lookup by key can find only that call. `Bookkept` ties a call's label to its entry
and its channel: while the provider is open exactly the calls in flight, and those
cleaning up, may have entries, and once it is closed every call in flight has a
closed channel. `NoLeakedEntries` and `ClosedReleases` follow from it. `Framing` says
that the write lock is held exactly while a frame is open, and that an odd number of
writes on stdin means the holder is between its two, as long as anybody can still
write: a write that fails leaves half a frame, but then none follows it.

`NoPanicWithoutClose` needs one fact more: without a closer only the reader itself
closes channels, in its last step. With a closer the statement is false
(`lsp_close_panics`).

The refinement. A step of one goroutine changes the status of at most one call; the
lemmas `PromiseCall`, `PromiseWrite`, `PromiseClose` and `PromiseReader` map it to a
step of `RpcCalls` or to a stutter, using `IndInv`.

`ToolCallsProofs` proves, for any sets of outlines, lookups and files, any number of
edits and syncs and any capacity of the stream:

| Theorem | Statement |
|---|---|
| `IndInvInductive` | `Spec => []IndInv` |
| `TypeCorrect` | `Spec => []TypeOK` |
| `OpenedAtMostOnce` | `Spec => []OpenedOnce` |
| `AlwaysAskedAfterOpen` | `Spec => []AskedAfterOpen` |
| `PositionsAlwaysFit` | `Spec => []PositionsFit` |
| `PromiseKept` | `Spec => KeepsPromise`: the refinement of `ToolPromise` |

None of these is inductive. `OpenedOnce` fails after two opens of one file on the
stream, and those come from two handlers that both found it closed. So `IndInv`
follows the one open of a file: nobody is between look and send but the holder of
`openMu` (`Locked`), who has found the file closed (`Reading`); a file of `openFiles` has
exactly one open, on the stream or handled, and no other file has any (`Tracking`). A
question is only sent about a file of `openFiles` (`Asking`), hence behind its open. An
answer is the text tsgo holds (`Answered`), which never changes once there is one, so
both answers of a lookup are the same. The lemmas `OpensAppended` and `OpensHandled` say
how the places of opens move as the stream grows and shrinks; `SentBeside` and
`HandledBeside` that other files do not notice. In the refinement, sending the open is
`Show`, emitting the event is `Return`, and tsgo's steps are invisible: what it was shown
is the same text before and after it reads it.

`DaemonProofs` proves, for any number of daemons at one path and of connections:

| Theorem | Statement |
|---|---|
| `IndInvInductive` | `Spec => []IndInv` |
| `TypeCorrect` | `Spec => []TypeOK` |
| `WaitAlwaysCovers` | `Spec => []WaitCoversHandlers` |
| `NoSyncEverAfterWait` | `Spec => NoSyncAfterWait` |
| `NoSocketEverLeft` | `Spec => []NoSocketLeftBehind` |

The invariant: the WaitGroup counts exactly the accept loop and the handlers that have
not returned (`Group`), nothing of the socket runs before Start or after the end
(`NothingEarly`), an empty group after Wait stays empty (`WaitedFor`), the listener is
open until the watcher closes it (`ListenerKept`), and a socket file is one its daemon
will still remove, or a dead one's (`PathOwned`).

`ProcessProofs` proves, for any number of events and disk faults and any two timeouts:

| Theorem | Statement |
|---|---|
| `LoggerInvInductive`, `StartInvInductive` | the invariants of the two parts |
| `LoggerTypeCorrect`, `LinesAlwaysWhole`, `CloseAlwaysWaits` | `Spec` of `Telemetry` implies `[]TypeOK`, `[]LinesWhole`, `CloseWaitsForLog` |
| `ProcessIsBoth` | `RunSpec => Spec /\ StartSpec`: every run of the process is one of the logger and one of the start |
| `StartTypeCorrect`, `NoSubprocessEverLeft` | `RunSpec` implies `[]StartTypeOK`, `[]NoSubprocessLeft` |

What was cut short is the last line because the encoder keeps its error and every later
Log drops its event (`TornIsLast`); that needs there to be one daemon, which is the
assumption `OneProcess`. Each theorem about a part carries over to the process by
`ProcessIsBoth`.

`ToolResultsProofs` proves, for any names of files, any lines and caps, paths of any
length, and trees and replies of any size:

| Theorem | Statement |
|---|---|
| `TypeCorrect` | `Spec => []TypeOK` |
| `NormalizeAlwaysStable` | `Spec => []NormalizeStable` |
| `SpellingsAlwaysAgree` | `Spec => []SpellingsAgree` |
| `AlwaysRoundTrips` | `Spec => []RoundTrips` |
| `UrisAlwaysAgree` | `Spec => []UrisAgree` |
| `AlwaysResolvesFirst` | `Spec => ResolvesFirst` |
| `OutlineAlwaysReadable` | `Spec => []OutlineReadable` |
| `NothingEverWithheld` | `Spec => []NothingWithheld` |
| `EventAlwaysTells` | `Spec => []EventTellsResult` |

Here the state is simple and the data is not. The invariants say little: the path is one
of tokens (`PathOfTokens`), the tree and the reply are such as tsgo sends (`TreeHeld`,
`ReplyHeld`). The weight lies on what the operators compute, for every input, and that
needs induction over data.

Induction. The library's induction theorems take an operator as a parameter, which the
provers cannot instantiate, so `SequenceFacts` states induction with sets: a set that
contains 0, and n + 1 whenever it contains n, contains every natural number
(`UpFromZero`, from the well-founded order of the library), and likewise for sequences
(`SeqInduction`) and for trees, from the leaves up or the root down (`FromTheLeaves`,
`FromTheRoot`). The same way it shows that the function a recursive definition describes
exists (`SeqRecursion`, `NatRecursion`), without which nothing can be said of it.

Paths (`PathNormProofs`). `HostPaths` are the normal forms: the root, and plain names each
under a slash. Everything absolute that a conversion makes is one (`CleanIsHost`,
`DriveClean`, `UncIsHost`, `NormalForm`), and a normal form is left alone by `Clean` and
`Normalize` (`HostPathFacts`), which is stability. What `path.Clean` keeps of a path depends
on its beginning only through what it kept of that (`KeptSplit`), so neither doubled nor
leading separators matter (`KeptSkips`, `WithoutFacts`): that gives `SpellingsOfDrives`. The
round trips need that cutting `/mnt/c` off, turning the rest, and putting `/mnt/c` back cleans
to the same names (`MountedHost`).

Outlines (`OutlineProofs`). The walk of `flattenSymbols` exists (`WalkExists`) and, by
induction from the leaves, what it lists below a node is a `Forest`: each entry at the top, or
`Placed`, with its parent before it one level up and nothing of that level between. A
prefix of a forest is one too, so an outline that was cut is still readable. It has every
symbol (`WalkComplete`) and is in document order (`WalkSorted`), for the ways down to two
entries of different branches part at the branches (`BranchesApart`). A lookup keeps the first
match of that list (`FirstStep`), hence the first in document order. A list of places has
the items that name one, in order (`InOrderFacts`), and the j-th of them has j - 1 before it
(`CountBelow`), which is how `NothingWithheld` says that none is missing or moved.

Assumptions: only those the modules name. Names of actors and None are distinct, bounds and
capacities are natural numbers, the request timeout is positive and the shorter one. In
`ToolResults` the daemon's directory is a path, no name of a file is a separator, caps are
integers, and a reply may have one item at least.

### Checked, not proved

- Liveness under fairness, and everything that rests on `ENABLED`: `CallsReturn`,
  `ClosesReturn`, `ReaderHandsOver`, `KeepsLivePromise`, `CancelStopsAccepting`,
  `CancelEndsUnlessHeld`, `CallsFinish`, `NewReturns`, `LogReturns` are out of the prover's reach and stay with
  TLC.

Every other property that a passing run checks has a theorem. No module uses a `RECURSIVE`
operator: recursion is by recursive functions, in one argument, a pair where the code
passes two.

## Not modelled

- The MCP SDK's session, tool registration, JSON schemas: a third-party library.
- The stderr buffer, which only words an error; the table of symbol kinds and the
  language id of a file, which nothing depends on; percent-encoding.
- `parseConfig`, `SocketPath`'s hash, `defaultJSONLPath`: pure functions of flags and
  environment, with no state and no failure but a usage error.
- `Tee`, `FromConfig` and the OTEL mirror: the daemon does not use them
  (`cmd/cgraphd/main.go:38-42`), and they forward without state.
- Core types, the stub provider and the evaluation: declarations and test code.
- What a restarted daemon makes of a last line its predecessor left cut: nothing, so
  `LinesWhole` is of one daemon.

## Plan

Done, in this order: `LspTransport` with `RpcCalls` (the core: everything else stands
on it) and its proofs, `Daemon`, `ToolCalls`, `Telemetry`, `ProviderStart`; then
`ToolResults` over `PathNorm`, the composition `Process`, `ToolPromise`, and the proofs
of `Daemon`, `Process` and `ToolCalls` with its refinement; then those of `PathNorm` and
`ToolResults`, with the induction they need.

Left, should the code grow that way: the staleness barrier that the generation counter
stands in for, with `FreshnessHonest` as its promise; didChange; the fan-out of `Tee`,
when a second sink is wired in.
