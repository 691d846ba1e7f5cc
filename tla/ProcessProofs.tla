--------------------------- MODULE ProcessProofs ---------------------------
(***************************************************************************)
(* What TLAPS proves of the process, of its logger and of its start, for   *)
(* any number of events and faults of the disk and for any timeouts.       *)
(***************************************************************************)
EXTENDS Process, TLAPS

USE DEF call, logger, disk

-----------------------------------------------------------------------------
(* The logger.                                                             *)

\* A lock is held by the event that writes, or by the Close that is under way.
LocksHeld ==
    /\ \A e \in Events :
          /\ pc[e] \in {"lock", "write"} => home[e] \in Daemons
          /\ pc[e] = "write" => mu[home[e]] = e
    /\ \A d \in Daemons : phase[d] = "closing" => mu[d] = Closer

\* After a line that was cut short, nobody writes any more.
TornIsLast ==
    \A i \in 1..Len(file) :
        ~file[i].whole => i = Len(file) /\ \A d \in Daemons : broken[d]

LoggerInv == TypeOK /\ LocksHeld /\ TornIsLast

\* A step of the logger is one of a Log call, of the process, of the disk, or none.
LEMMA LoggerCases ==
    ASSUME [Next]_vars
    PROVE  \/ \E e \in Events : LogLocks(e)
           \/ \E e \in Events : LogWrites(e)
           \/ \E e \in Events : LogDrops(e)
           \/ \E e \in Events, how \in {"torn", "dropped"} : LogTears(e, how)
           \/ \E e \in Events, d \in Daemons : Log(e, d)
           \/ \E d \in Daemons : NewJSONL(d)
           \/ \E d \in Daemons : CloseLocks(d)
           \/ \E d \in Daemons : CloseFile(d)
           \/ \E d \in Daemons : Ends(d)
           \/ DiskFills \/ DiskFreed
           \/ UNCHANGED vars
BY DEF Next, LogStep, DaemonStep

\* The file after one more piece.
LEMMA OnePieceMore ==
    ASSUME NEW S, NEW s \in Seq(S), NEW x \in S
    PROVE  /\ Append(s, x) \in Seq(S)
           /\ Len(Append(s, x)) = Len(s) + 1
           /\ \A i \in 1..Len(s) : Append(s, x)[i] = s[i]
           /\ Append(s, x)[Len(s) + 1] = x
OBVIOUS

\* Every variable keeps its type.
LEMMA LoggerTypeStep ==
    ASSUME TypeOK, LocksHeld, [Next]_vars
    PROVE  TypeOK'
<1> USE DEF TypeOK, LocksHeld
<1>1. ASSUME NEW e \in Events, LogLocks(e) PROVE TypeOK'
  BY <1>1 DEF LogLocks
<1>2. ASSUME NEW e \in Events, LogWrites(e) PROVE TypeOK'
  <2>1. Piece(e, TRUE) \in [of : Events, whole : BOOLEAN]
    BY DEF Piece
  <2>2. file' \in Seq([of : Events, whole : BOOLEAN])
    BY <1>2, <2>1, OnePieceMore DEF LogWrites
  <2> QED  BY <1>2, <2>2 DEF LogWrites, Returns, Unlocked
<1>3. ASSUME NEW e \in Events, LogDrops(e) PROVE TypeOK'
  BY <1>3 DEF LogDrops, Returns, Unlocked
<1>4. ASSUME NEW e \in Events, NEW how \in {"torn", "dropped"}, LogTears(e, how)
      PROVE  TypeOK'
  <2>1. Piece(e, FALSE) \in [of : Events, whole : BOOLEAN]
    BY DEF Piece
  <2>2. file' \in Seq([of : Events, whole : BOOLEAN])
    BY <1>4, <2>1, OnePieceMore DEF LogTears
  <2> QED  BY <1>4, <2>2 DEF LogTears, Returns, Unlocked
<1>5. ASSUME NEW e \in Events, NEW d \in Daemons, Log(e, d) PROVE TypeOK'
  BY <1>5 DEF Log
<1>6. ASSUME NEW d \in Daemons, NewJSONL(d) PROVE TypeOK'
  BY <1>6 DEF NewJSONL
<1>7. ASSUME NEW d \in Daemons, CloseLocks(d) PROVE TypeOK'
  BY <1>7 DEF CloseLocks
<1>8. ASSUME NEW d \in Daemons, CloseFile(d) PROVE TypeOK'
  BY <1>8 DEF CloseFile
<1>9. ASSUME NEW d \in Daemons, Ends(d) PROVE TypeOK'
  BY <1>9 DEF Ends
<1>10. ASSUME DiskFills \/ DiskFreed \/ UNCHANGED vars PROVE TypeOK'
  <2>1. CASE DiskFills
    <3>1. faults' \in 0..MaxFaults
      BY <2>1, FaultsAreNatural DEF DiskFills
    <3> QED  BY <2>1, <3>1 DEF DiskFills
  <2>2. CASE DiskFreed          BY <2>2 DEF DiskFreed
  <2>3. CASE UNCHANGED vars     BY <2>3 DEF vars
  <2> QED  BY <1>10, <2>1, <2>2, <2>3
<1> QED  BY <1>1, <1>2, <1>3, <1>4, <1>5, <1>6, <1>7, <1>8, <1>9, <1>10, LoggerCases

\* The locks keep their holders.
LEMMA LocksStep ==
    ASSUME TypeOK, LocksHeld, [Next]_vars
    PROVE  LocksHeld'
<1> USE DistinctHolders DEF TypeOK, LocksHeld
<1>1. ASSUME NEW e \in Events, LogLocks(e) PROVE LocksHeld'
  BY <1>1 DEF LogLocks
<1>2. ASSUME NEW e \in Events, NEW how, Returns(e, how) PROVE LocksHeld'
  BY <1>2 DEF Returns, Unlocked
<1>3. ASSUME NEW e \in Events, NEW d \in Daemons, Log(e, d) PROVE LocksHeld'
  BY <1>3 DEF Log
<1>4. ASSUME NEW d \in Daemons, NewJSONL(d) PROVE LocksHeld'
  BY <1>4 DEF NewJSONL
<1>5. ASSUME NEW d \in Daemons, CloseLocks(d) PROVE LocksHeld'
  BY <1>5 DEF CloseLocks, LockFree
<1>6. ASSUME NEW d \in Daemons, CloseFile(d) PROVE LocksHeld'
  BY <1>6 DEF CloseFile
<1>7. ASSUME NEW d \in Daemons, Ends(d) PROVE LocksHeld'
  BY <1>7 DEF Ends
<1>8. ASSUME DiskFills \/ DiskFreed \/ UNCHANGED vars PROVE LocksHeld'
  BY <1>8 DEF DiskFills, DiskFreed, vars
<1> QED
  BY <1>1, <1>2, <1>3, <1>4, <1>5, <1>6, <1>7, <1>8, LoggerCases
     DEF LogWrites, LogDrops, LogTears

\* Whoever may write has found every line whole.
LEMMA WriterFindsWhole ==
    ASSUME LoggerInv, NEW e \in Events, pc[e] = "write", ~Sticks(home[e])
    PROVE  /\ home[e] \in Daemons /\ ~broken[home[e]]
           /\ \A i \in 1..Len(file) : file[i].whole
<1>1. home[e] \in Daemons /\ ~broken[home[e]]
  BY DEF LoggerInv, LocksHeld, Sticks
<1> QED  BY <1>1 DEF LoggerInv, TornIsLast

\* Nothing is appended to a line that was cut short: its daemon, the only one, has
\* the encoder's error.
LEMMA TornStep ==
    ASSUME LoggerInv, [Next]_vars
    PROVE  TornIsLast'
<1> DEFINE Pieces == [of : Events, whole : BOOLEAN]
<1>0. file \in Seq(Pieces) /\ \A e \in Events : Piece(e, TRUE) \in Pieces /\ Piece(e, FALSE) \in Pieces
  BY DEF LoggerInv, TypeOK, Piece
<1> HIDE DEF Pieces
<1>1. ASSUME NEW e \in Events, LogWrites(e) PROVE TornIsLast'
  <2>1. \A i \in 1..Len(file) : file[i].whole
    BY <1>1, WriterFindsWhole DEF LogWrites, Returns
  <2>2. file' = Append(file, Piece(e, TRUE))
    BY <1>1 DEF LogWrites
  <2>3. /\ Len(file') = Len(file) + 1 /\ file'[Len(file) + 1] = Piece(e, TRUE)
        /\ \A i \in 1..Len(file) : file'[i] = file[i]
    BY <1>0, <2>2, OnePieceMore
  <2>4. Piece(e, TRUE).whole
    BY DEF Piece
  <2>5. Len(file) \in Nat
    BY <1>0
  <2>6. \A i \in 1..Len(file') : file'[i].whole
    <3>1. ASSUME NEW i \in 1..Len(file'), i # Len(file) + 1 PROVE file'[i] = file[i] /\ i \in 1..Len(file)
      BY <2>3, <2>5, <3>1
    <3>2. ASSUME NEW i \in 1..Len(file'), i # Len(file) + 1 PROVE file'[i].whole
      <4>1. file'[i] = file[i] /\ file[i].whole
        BY <2>1, <3>1, <3>2
      <4> QED  BY <4>1, Zenon
    <3>3. file'[Len(file) + 1].whole
      BY <2>3, <2>4, Zenon
    <3> QED  BY <3>2, <3>3, Zenon
  <2> QED  BY <2>6 DEF TornIsLast
<1>2. ASSUME NEW e \in Events, NEW how \in {"torn", "dropped"}, LogTears(e, how)
      PROVE  TornIsLast'
  <2>1. home[e] \in Daemons /\ \A i \in 1..Len(file) : file[i].whole
    BY <1>2, WriterFindsWhole DEF LogTears, Returns
  <2>2. \A d \in Daemons : broken'[d]
    BY <1>2, <2>1, OneProcess DEF LogTears, LoggerInv, TypeOK
  <2>3. CASE how = "torn"
    <3>1. file' = Append(file, Piece(e, FALSE))
      BY <1>2, <2>3 DEF LogTears
    <3>2. Len(file') = Len(file) + 1 /\ \A i \in 1..Len(file) : file'[i] = file[i]
      BY <1>0, <3>1, OnePieceMore
    <3>3. Len(file) \in Nat
      BY <1>0
    <3> QED  BY <2>1, <2>2, <3>2, <3>3 DEF TornIsLast
  <2>4. CASE how = "dropped"
    <3>1. file' = file
      BY <1>2, <2>4 DEF LogTears
    <3> QED  BY <2>1, <3>1 DEF TornIsLast
  <2> QED  BY <2>3, <2>4
<1>3. ASSUME NEW e \in Events, LogDrops(e) PROVE TornIsLast'
  BY <1>3 DEF LogDrops, Returns, LoggerInv, TypeOK, TornIsLast
<1>4. ASSUME UNCHANGED <<file, broken>> PROVE TornIsLast'
  BY <1>4 DEF LoggerInv, TornIsLast
<1> QED
  BY <1>1, <1>2, <1>3, <1>4, LoggerCases
     DEF LogLocks, Log, NewJSONL, CloseLocks, CloseFile, Ends, DiskFills, DiskFreed, vars

\* The strengthening is inductive.
THEOREM LoggerInvInductive == Spec => []LoggerInv
<1>1. Init => LoggerInv
  <2> SUFFICES ASSUME Init PROVE LoggerInv
    OBVIOUS
  <2>1. Len(file) = 0 /\ file \in Seq([of : Events, whole : BOOLEAN])
    BY DEF Init
  <2>2. TypeOK
    <3>1. faults \in 0..MaxFaults
      BY FaultsAreNatural DEF Init
    <3>4. full \in BOOLEAN
      BY DEF Init
    <3>2. /\ pc \in [Events -> {"new", "lock", "write", "done"}]
          /\ home \in [Events -> Daemons \cup {None}]
          /\ fate \in [Events -> {"none", "written", "torn", "dropped", "killed"}]
      BY DEF Init
    <3>3. /\ phase \in [Daemons -> {"off", "up", "closing", "closed", "ended"}]
          /\ mu \in [Daemons -> Events \cup {Closer, None}]
          /\ {open, broken} \subseteq [Daemons -> BOOLEAN]
      BY DEF Init
    <3> QED  BY <2>1, <3>1, <3>2, <3>3, <3>4 DEF TypeOK
  <2>3. LocksHeld /\ TornIsLast
    BY <2>1 DEF Init, LocksHeld, TornIsLast
  <2> QED  BY <2>2, <2>3 DEF LoggerInv
<1>2. LoggerInv /\ [Next]_vars => LoggerInv'
  BY LoggerTypeStep, LocksStep, TornStep DEF LoggerInv
<1> QED  BY <1>1, <1>2, PTL DEF Spec

\* Every variable of the logger keeps its type.
THEOREM LoggerTypeCorrect == Spec => []TypeOK
BY LoggerInvInductive, PTL DEF LoggerInv

\* No event is ever glued to a line that was cut short, as long as one daemon
\* appends to the file (JSONLLogger.Log and the encoder's error).
THEOREM LinesAlwaysWhole == Spec => []LinesWhole
<1>1. LoggerInv => LinesWhole
  <2> SUFFICES ASSUME LoggerInv, NEW i \in 1..Len(file), i < Len(file) PROVE file[i].whole
    BY DEF LinesWhole
  <2>1. Len(file) \in Nat
    BY DEF LoggerInv, TypeOK
  <2>2. i # Len(file)
    BY <2>1
  <2> QED  BY <2>2 DEF LoggerInv, TornIsLast
<1> QED  BY <1>1, LoggerInvInductive, PTL

\* The file is never closed under an event that is being written (Log and Close
\* share the lock).
THEOREM CloseAlwaysWaits == Spec => CloseWaitsForLog
<1> DEFINE Waits == \A d \in Daemons : phase[d] = "closing" /\ phase'[d] = "closed" =>
                        \A e \in Events : pc[e] = "write" => home[e] # d
<1>1. LoggerInv => Waits
  BY DistinctHolders DEF LoggerInv, LocksHeld
<1>2. LoggerInv /\ [Next]_vars => [Waits]_vars
  BY <1>1
<1> QED  BY <1>2, LoggerInvInductive, PTL DEF Spec, CloseWaitsForLog

-----------------------------------------------------------------------------
(* lsp.New.                                                                *)

\* The clock starts with the wait, and tsgo with its spawning.
StartInv ==
    /\ StartTypeOK
    /\ stage \in {"spawn", "root"} => now = 0
    /\ stage = "spawn" => tsgo = "none"
    /\ NoSubprocessLeft

\* A step of New, of tsgo or of the clock keeps the invariant.
LEMMA StartStep ==
    ASSUME StartInv, [StartNext]_startVars
    PROVE  StartInv'
<1> USE TimeoutsAreOrdered DEF StartInv, StartTypeOK, NoSubprocessLeft
<1>1. ASSUME NewStep PROVE StartInv'
  <2>1. CASE SpawnFails          BY <2>1 DEF SpawnFails, Fails
  <2>2. CASE Spawn               BY <2>2 DEF Spawn
  <2>3. CASE RootFails           BY <2>3 DEF RootFails, Fails
  <2>4. CASE RootResolved        BY <2>4 DEF RootResolved
  <2>5. CASE RequestWritten      BY <2>5 DEF RequestWritten, CallDeadline, Earlier
  <2>6. CASE RequestFails        BY <2>6 DEF RequestFails, Fails
  <2>7. CASE Initialized         BY <2>7 DEF Initialized
  <2>8. CASE InitializeRefused   BY <2>8 DEF InitializeRefused, Fails
  <2>9. CASE ConnectionLost      BY <2>9 DEF ConnectionLost, Fails
  <2>10. CASE CallTimesOut       BY <2>10 DEF CallTimesOut, Fails
  <2>11. CASE Ready              BY <2>11 DEF Ready
  <2>12. CASE NotifyFails        BY <2>12 DEF NotifyFails, Fails
  <2>13. CASE KillAndWait        BY <2>13 DEF KillAndWait, KilledAndWaited
  <2> QED
    BY <1>1, <2>1, <2>2, <2>3, <2>4, <2>5, <2>6, <2>7, <2>8, <2>9, <2>10, <2>11,
       <2>12, <2>13 DEF NewStep
<1>2. CASE Exits \/ ReaderEnds
  BY <1>2 DEF Exits, ReaderEnds
<1>3. CASE Tick
  BY <1>3 DEF Tick
<1>4. ASSUME NEW what \in {"result", "error"}, Replies(what) PROVE StartInv'
  BY <1>4 DEF Replies
<1>5. CASE UNCHANGED startVars
  BY <1>5 DEF startVars
<1> QED  BY <1>1, <1>2, <1>3, <1>4, <1>5 DEF StartNext

\* The strengthening is inductive.
THEOREM StartInvInductive == StartSpec => []StartInv
<1>1. StartInit => StartInv
  <2> SUFFICES ASSUME StartInit PROVE StartInv
    OBVIOUS
  <2>1. 0 \in 0..InitializeTimeout
    BY TimeoutsAreOrdered
  <2>2. StartTypeOK
    BY <2>1 DEF StartInit, StartTypeOK
  <2> QED  BY <2>2 DEF StartInit, StartInv, NoSubprocessLeft
<1>2. StartInv /\ [StartNext]_startVars => StartInv'
  BY StartStep
<1> QED  BY <1>1, <1>2, PTL DEF StartSpec

-----------------------------------------------------------------------------
(* The process.                                                            *)

\* What the process does to its logger is what a logger does, and what it does to
\* tsgo is what lsp.New does: the order run() puts them in takes steps away and
\* adds none.
THEOREM ProcessIsBoth == RunSpec => Spec /\ StartSpec
<1>1. RunInit => Init /\ StartInit
  BY DEF RunInit
<1>2. [RunNext]_runVars => [Next]_vars /\ [StartNext]_startVars
  <2>1. CASE Starting(StartNext)
    BY <2>1 DEF Starting
  <2>2. CASE Logging
    BY <2>2 DEF Logging, Next, DaemonStep
  <2>3. CASE UNCHANGED runVars
    BY <2>3 DEF runVars
  <2> QED  BY <2>1, <2>2, <2>3 DEF RunNext
<1> QED  BY <1>1, <1>2, PTL DEF RunSpec, Spec, StartSpec

\* Every variable of the start keeps its type, the clock's within its bounds.
THEOREM StartTypeCorrect == RunSpec => []StartTypeOK
<1>1. StartInv => StartTypeOK
  BY DEF StartInv
<1> QED  BY <1>1, ProcessIsBoth, StartInvInductive, PTL

\* New fails on no path with tsgo still running, or dead and not reaped, whatever
\* the timeouts (killAndWait).
THEOREM NoSubprocessEverLeft == RunSpec => []NoSubprocessLeft
<1>1. StartInv => NoSubprocessLeft
  BY DEF StartInv
<1> QED  BY <1>1, ProcessIsBoth, StartInvInductive, PTL
=============================================================================
