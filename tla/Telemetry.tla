----------------------------- MODULE Telemetry -----------------------------
(***************************************************************************)
(* The JSONL telemetry stream: tool handlers log one event each (emit,     *)
(* JSONLLogger.Log), run() closes the logger, and daemons of one project   *)
(* root, one after the other or at once, append to the same file.  The     *)
(* disk may fill up and be freed again; a write into a full disk may still *)
(* leave the first part of its line.                                       *)
(***************************************************************************)
EXTENDS Naturals, Sequences

CONSTANTS
    Events,    \* one Log call each
    Daemons,   \* the processes that append to the file
    Closer,    \* run()'s deferred Close, as a holder of mu
    None,
    MaxFaults  \* bound: how often the disk fills up

ASSUME DistinctHolders == Closer \notin Events /\ None \notin Events \cup Daemons \cup {Closer}
ASSUME FaultsAreNatural == MaxFaults \in Nat

VARIABLES
    pc,      \* where the Log call of each event stands
    home,    \* the daemon it runs in
    fate,    \* what became of the event
    phase,   \* of each daemon: before NewJSONL, up, closing the logger, ended
    mu,      \* the holder of each logger's lock
    open,    \* the logger's file is open
    broken,  \* the encoder's error is set
    file,    \* the pieces written, each a whole line or the start of one
    full,    \* the disk is full
    faults

call == <<pc, home, fate>>
logger == <<phase, mu, open, broken>>
disk == <<full, faults>>
vars == <<call, logger, file, disk>>

TypeOK ==
    /\ pc \in [Events -> {"new", "lock", "write", "done"}]
    /\ home \in [Events -> Daemons \cup {None}]
    /\ fate \in [Events -> {"none", "written", "torn", "dropped", "killed"}]
    /\ phase \in [Daemons -> {"off", "up", "closing", "closed", "ended"}]
    /\ mu \in [Daemons -> Events \cup {Closer, None}]
    /\ {open, broken} \subseteq [Daemons -> BOOLEAN]
    /\ file \in Seq([of : Events, whole : BOOLEAN])
    /\ full \in BOOLEAN /\ faults \in 0..MaxFaults

Init ==
    /\ pc = [e \in Events |-> "new"] /\ home = [e \in Events |-> None]
    /\ fate = [e \in Events |-> "none"]
    /\ phase = [d \in Daemons |-> "off"] /\ mu = [d \in Daemons |-> None]
    /\ open = [d \in Daemons |-> FALSE] /\ broken = [d \in Daemons |-> FALSE]
    /\ file = <<>>
    /\ full = FALSE /\ faults = 0

-----------------------------------------------------------------------------
(* NewJSONL and Log.                                                       *)

\* The file is opened for append: what an earlier daemon wrote stays as it is.
NewJSONL(d) ==
    /\ phase[d] = "off"
    /\ phase' = [phase EXCEPT ![d] = "up"]
    /\ open' = [open EXCEPT ![d] = TRUE]
    /\ UNCHANGED <<call, mu, broken, file, disk>>

\* A handler may still be logging when run() has begun to close the logger.
Log(e, d) ==
    /\ pc[e] = "new"
    /\ phase[d] \in {"up", "closing", "closed"}
    /\ pc' = [pc EXCEPT ![e] = "lock"]
    /\ home' = [home EXCEPT ![e] = d]
    /\ UNCHANGED <<fate, logger, file, disk>>

LogLocks(e) ==
    /\ pc[e] = "lock"
    /\ mu[home[e]] = None
    /\ pc' = [pc EXCEPT ![e] = "write"]
    /\ mu' = [mu EXCEPT ![home[e]] = e]
    /\ UNCHANGED <<home, fate, phase, open, broken, file, disk>>

\* A mistake: the lock is kept when the write fails.
UnlockedIfWritten(e, how) == IF how = "written" THEN None ELSE e

Unlocked(e, how) == None

\* Log returns, having released the lock: Encode's error goes nowhere.
Returns(e, how) ==
    /\ pc[e] = "write"
    /\ pc' = [pc EXCEPT ![e] = "done"]
    /\ fate' = [fate EXCEPT ![e] = how]
    /\ mu' = [mu EXCEPT ![home[e]] = Unlocked(e, how)]
    /\ UNCHANGED <<home, phase, open, disk>>

\* A mistake: a line names the daemon, not the event.
PieceOfDaemon(e, whole) == [of |-> home[e], whole |-> whole]

Piece(e, whole) == [of |-> e, whole |-> whole]

\* A mistake: the encoder tries again after an error.
Retrying(d) == FALSE

\* json.Encoder keeps its first error and returns it ever after.
Sticks(d) == broken[d]

LogWrites(e) ==
    /\ Returns(e, "written")
    /\ ~Sticks(home[e]) /\ open[home[e]] /\ ~full
    /\ file' = Append(file, Piece(e, TRUE))
    /\ UNCHANGED broken

\* The disk is full: the line is lost, or cut short.
LogTears(e, how) ==
    /\ Returns(e, how)
    /\ ~Sticks(home[e]) /\ open[home[e]] /\ full
    /\ file' = IF how = "torn" THEN Append(file, Piece(e, FALSE)) ELSE file
    /\ broken' = [broken EXCEPT ![home[e]] = TRUE]

\* The file is closed, or the encoder's error returned without a write.
LogDrops(e) ==
    /\ Returns(e, "dropped")
    /\ Sticks(home[e]) \/ ~open[home[e]]
    /\ broken' = [broken EXCEPT ![home[e]] = TRUE]
    /\ UNCHANGED file

-----------------------------------------------------------------------------
(* Close, and the end of the process.                                      *)

\* A mistake: Close does not wait for the lock.
LockIgnored(d) == mu[d] # Closer

LockFree(d) == mu[d] = None

CloseLocks(d) ==
    /\ phase[d] = "up"
    /\ LockFree(d)
    /\ phase' = [phase EXCEPT ![d] = "closing"]
    /\ mu' = [mu EXCEPT ![d] = Closer]
    /\ UNCHANGED <<call, open, broken, file, disk>>

CloseFile(d) ==
    /\ phase[d] = "closing"
    /\ phase' = [phase EXCEPT ![d] = "closed"]
    /\ open' = [open EXCEPT ![d] = FALSE]
    /\ mu' = [mu EXCEPT ![d] = None]
    /\ UNCHANGED <<call, broken, file, disk>>

\* The process exits or is killed, with what its handlers had not yet logged.
Ends(d) ==
    /\ phase[d] \in {"up", "closing", "closed"}
    /\ LET cut == {e \in Events : home[e] = d /\ pc[e] # "done"} IN
       /\ pc' = [e \in Events |-> IF e \in cut THEN "done" ELSE pc[e]]
       /\ fate' = [e \in Events |-> IF e \in cut THEN "killed" ELSE fate[e]]
    /\ phase' = [phase EXCEPT ![d] = "ended"]
    /\ open' = [open EXCEPT ![d] = FALSE]
    /\ mu' = [mu EXCEPT ![d] = None]
    /\ UNCHANGED <<home, broken, file, disk>>

-----------------------------------------------------------------------------
(* The disk (external).                                                    *)

DiskFills ==
    /\ ~full /\ faults < MaxFaults
    /\ full' = TRUE /\ faults' = faults + 1
    /\ UNCHANGED <<call, logger, file>>

DiskFreed ==
    /\ full
    /\ full' = FALSE
    /\ UNCHANGED <<call, logger, file, faults>>

-----------------------------------------------------------------------------
LogStep(e) == \/ LogLocks(e) \/ LogWrites(e) \/ LogDrops(e)
              \/ \E how \in {"torn", "dropped"} : LogTears(e, how)
DaemonStep(d) == NewJSONL(d) \/ CloseLocks(d) \/ CloseFile(d) \/ Ends(d)

Next == \/ \E e \in Events : LogStep(e) \/ \E d \in Daemons : Log(e, d)
        \/ \E d \in Daemons : DaemonStep(d)
        \/ DiskFills \/ DiskFreed

Spec == Init /\ [][Next]_vars

-----------------------------------------------------------------------------
(* Properties.                                                             *)

\* A line that was cut short stays the last piece of the file: no other event is
\* ever glued to it, so every line before the last is one whole event.
LinesWhole == \A i \in 1..Len(file) : i < Len(file) => file[i].whole

\* Closing the logger cuts no Log short: the file of a daemon is never closed
\* under an event that holds the logger's lock.
CloseWaitsForLog ==
    [][\A d \in Daemons : phase[d] = "closing" /\ phase'[d] = "closed" =>
          \A e \in Events : pc[e] = "write" => home[e] # d]_vars
=============================================================================
