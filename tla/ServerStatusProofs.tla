-------------------------- MODULE ServerStatusProofs --------------------------
(***************************************************************************)
(* Proofs about ServerStatus for any number of channels, any settings that *)
(* could not be read, and any of the four compositions of main.            *)
(***************************************************************************)
EXTENDS ServerStatus, TLAPS

\* The process has started nothing yet, so the timer is off and no channel free.
NothingYet ==
  /\ mainPc \in {"config", "build"} => idleNow = 0
  /\ mainPc \in {"config", "build", "start"} => ~timerOn
  /\ At("config") => flushed < Len(Names)

\* Without the timer only main writes: nothing undoes what its last steps did.
Undisturbed ==
  ~TimerRuns =>
    /\ ioPc = "wait"
    /\ mainPc \in {"close", "setClosed", "exited"} /\ ~lost => freeNum = 0
    /\ At("setClosed") => started = Closed
    /\ At("exited") /\ ~lost => status = Closed

\* The inductive invariant.
StatusInv == TypeOK /\ NothingYet /\ Undisturbed

\* The constructor reads eight settings.
LEMMA EightNames == Len(Names) = 8
  BY DEF Names

\* A process starts with nothing built and nothing written.
LEMMA StatusInit == Init => StatusInv
<1> SUFFICES ASSUME Init PROVE StatusInv
  OBVIOUS
<1>1. setting \in [Settings -> {0, 1}]
  BY DEF Init
<1>2. Total \in Nat
  BY StatusAssumption DEF Total
<1>3. idleNow \in 0 .. Total
  BY <1>2 DEF Init
<1>4. TypeOK
  <2>1. /\ freeNum \in 0 .. Channels \cup {TestChannels, StubChannels}
        /\ ioFree \in 0 .. Channels \cup {StubChannels}
    BY StatusAssumption DEF Init
  <2>2. flushed \in 0 .. Len(Names)
    BY EightNames DEF Init
  <2>3. mainPc \in MainPcs /\ ioPc \in IoPcs
    BY DEF Init, MainPcs, IoPcs
  <2>4. zkUp \in BOOLEAN /\ timerOn \in BOOLEAN /\ lost \in BOOLEAN
    BY DEF Init
  <2> QED
    BY <1>1, <1>3, <2>1, <2>2, <2>3, <2>4 DEF Init, TypeOK
<1>5. NothingYet /\ Undisturbed
  BY EightNames DEF Init, NothingYet, Undisturbed, At
<1> QED
  BY <1>4, <1>5 DEF StatusInv

\* Reading the settings keeps the invariant.
LEMMA FlushKeeps == StatusInv /\ Flush => StatusInv'
<1> SUFFICES ASSUME StatusInv, Flush PROVE StatusInv'
  OBVIOUS
<1>1. mainPc' \in {"config", "build"} /\ ~timerOn /\ idleNow = 0
  BY DEF Flush, Goto, At, StatusInv, NothingYet
<1>2. setting' \in [Settings -> {0, 1}]
  BY DEF Flush, StatusInv, TypeOK
<1>3. flushed' \in 0 .. Len(Names) /\ (mainPc' = "config" => flushed' < Len(Names))
  BY EightNames DEF Flush, StatusInv, TypeOK, NothingYet
<1>4. Total' \in Nat
  BY StatusAssumption DEF Total
<1>5. TypeOK'
  BY <1>1, <1>2, <1>3, <1>4 DEF Flush, StatusInv, TypeOK, MainPcs, nodeVars, ioVars
<1>6. NothingYet'
  BY <1>1, <1>3 DEF Flush, NothingYet, At
<1>7. ~TimerRuns /\ ioPc = "wait" /\ ioPc' = "wait"
  BY <1>1 DEF TimerRuns, StatusInv, Undisturbed, Flush, ioVars
<1> QED
  BY <1>1, <1>5, <1>6, <1>7 DEF StatusInv, Undisturbed, At

\* So does each later step of main.
LEMMA MainKeeps == StatusInv /\ (Main \/ Quit) => StatusInv'
<1> SUFFICES ASSUME StatusInv, Main \/ Quit PROVE StatusInv'
  OBVIOUS
<1> USE StatusAssumption, EightNames
    DEF StatusInv, TypeOK, NothingYet, Undisturbed, At, Goto, MainPcs, IoPcs, Total,
        TimerRuns, HasCard, HasServer, Open, Closed, nodeVars, ioVars, configVars
<1>1. CASE Flush
  BY <1>1, FlushKeeps
<1>2. CASE Build
  BY <1>2 DEF Build
<1>3. CASE BuildFails
  BY <1>3 DEF BuildFails
<1>4. CASE Start
  BY <1>4 DEF Start
<1>5. CASE TestCTI
  BY <1>5 DEF TestCTI
<1>6. CASE TestConfigServer
  BY <1>6 DEF TestConfigServer, SetFree, TestChannels
<1>7. CASE AssignOpen
  BY <1>7 DEF AssignOpen
<1>8. CASE WriteOpen
  BY <1>8 DEF WriteOpen, SetStatus
<1>9. CASE Quit
  BY <1>9 DEF Quit
<1>10. CASE WriteZero
  <2>1. lost' \in BOOLEAN /\ (~lost' => zkUp)
    BY <1>10 DEF WriteZero
  <2>2. freeNum' \in 0 .. Channels \cup {TestChannels, StubChannels} /\ (zkUp => freeNum' = 0)
    BY <1>10 DEF WriteZero, SetFree
  <2>3. /\ mainPc' = "close"
        /\ UNCHANGED <<zkUp, status, configVars, started, idleNow, timerOn, ioVars>>
    BY <1>10 DEF WriteZero
  <2>4. TypeOK'
    BY <2>1, <2>2, <2>3
  <2> QED
    BY <2>1, <2>2, <2>3, <2>4
<1>11. CASE AssignClosed
  BY <1>11 DEF AssignClosed
<1>12. CASE WriteClosed
  BY <1>12 DEF WriteClosed, SetStatus
<1> QED
  BY <1>1, <1>2, <1>3, <1>4, <1>5, <1>6, <1>7, <1>8, <1>9, <1>10, <1>11, <1>12 DEF Main

\* The timer's handler takes a step only while the timer runs.
LEMMA IoNeedsTimer == StatusInv /\ Io => TimerRuns /\ TimerRuns'
  BY DEF StatusInv, Undisturbed, Io, TimerFires, IoReadSize, IoWriteFree, IoReadStatus,
         IoAssignOpen, IoWriteOpen, IoGoto, TimerRuns, configVars

\* The handler of the timer keeps the invariant.
LEMMA IoKeeps == StatusInv /\ Io => StatusInv'
<1> SUFFICES ASSUME StatusInv, Io PROVE StatusInv'
  OBVIOUS
<1>1. TimerRuns /\ TimerRuns'
  BY IoNeedsTimer
<1>2. IdleChannels \in 0 .. Channels \cup {StubChannels}
  BY StatusAssumption DEF IdleChannels, StatusInv, TypeOK, Total
<1>3. UNCHANGED <<zkUp, configVars, idleNow, timerOn, mainPc, lost>> /\ ioPc' \in IoPcs
  BY DEF Io, TimerFires, IoReadSize, IoWriteFree, IoReadStatus, IoAssignOpen, IoWriteOpen,
         IoGoto, IoPcs
<1>4. status' \in {Open, Closed} /\ started' \in {Open, Closed}
  BY DEF Io, TimerFires, IoReadSize, IoWriteFree, IoReadStatus, IoAssignOpen, IoWriteOpen,
         SetStatus, nodeVars, StatusInv, TypeOK
<1>5. /\ freeNum' \in 0 .. Channels \cup {TestChannels, StubChannels}
      /\ ioFree' \in 0 .. Channels \cup {StubChannels}
  BY <1>2 DEF Io, TimerFires, IoReadSize, IoWriteFree, IoReadStatus, IoAssignOpen, IoWriteOpen,
         SetFree, nodeVars, StatusInv, TypeOK
<1>6. TypeOK'
  BY <1>3, <1>4, <1>5 DEF StatusInv, TypeOK, Total, configVars
<1>7. NothingYet'
  BY <1>3 DEF StatusInv, NothingYet, At, configVars
<1> QED
  BY <1>1, <1>6, <1>7 DEF StatusInv, Undisturbed

\* So do the remote service, ZooKeeper and the calls.
LEMMA OutsideKeeps == StatusInv /\ (RemoteCloses \/ ZkChanges \/ CallsChange) => StatusInv'
<1> SUFFICES ASSUME StatusInv, RemoteCloses \/ ZkChanges \/ CallsChange PROVE StatusInv'
  OBVIOUS
<1> USE DEF StatusInv, TypeOK, NothingYet, Undisturbed, At, Total, TimerRuns,
            nodeVars, ioVars, configVars
<1>1. CASE RemoteCloses
  BY <1>1 DEF RemoteCloses
<1>2. CASE ZkChanges
  BY <1>2 DEF ZkChanges
<1>3. CASE CallsChange
  BY <1>3 DEF CallsChange
<1> QED
  BY <1>1, <1>2, <1>3

\* A step that changes nothing keeps the invariant.
LEMMA StutterKeeps == StatusInv /\ UNCHANGED vars => StatusInv'
  BY DEF StatusInv, TypeOK, NothingYet, Undisturbed, At, Total, TimerRuns, vars,
         nodeVars, ioVars, configVars

\* The inductive invariant holds throughout.
THEOREM StatusConsistent == Spec => []StatusInv
<1>1. StatusInv /\ [Next]_vars => StatusInv'
  BY MainKeeps, IoKeeps, OutsideKeeps, StutterKeeps DEF Next
<1> QED
  BY StatusInit, <1>1, PTL DEF Spec

\* Types: the free channels never exceed what the card has, however the
\* settings were read.
THEOREM StatusTypes == Spec => []TypeOK
<1>1. StatusInv => TypeOK
  BY DEF StatusInv
<1> QED
  BY StatusConsistent, <1>1, PTL

\* A process whose idle-channel timer does not run, for want of a period or of
\* io threads, and whose writes arrived, leaves the node closed and no channels.
THEOREM StoppedIsClosed == Spec => []ClosedWithoutTimer
<1>1. StatusInv => ClosedWithoutTimer
  BY DEF StatusInv, Undisturbed, ClosedWithoutTimer, ClosedAtExit, At
<1> QED
  BY StatusConsistent, <1>1, PTL
==============================================================================
