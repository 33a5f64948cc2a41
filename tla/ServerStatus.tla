---------------------------- MODULE ServerStatus -----------------------------
(***************************************************************************)
(* How a process of the server comes up, tells the rest of the system that *)
(* it is there, and goes: config_server reads its eight settings, main     *)
(* runs one of its four compositions (app), and the two ZooKeeper nodes    *)
(* status and freeNum are written by main and by the idle-channel timer of *)
(* cia_server.                                                             *)
(*                                                                         *)
(* The handler of the timer keeps a shared_ptr to the server in the        *)
(* server's own io_service, so once it is armed ~cia_server never runs:    *)
(* the timer goes on until the process ends.                               *)
(*                                                                         *)
(* ZooKeeper, the calls that take channels, and the remote service that    *)
(* sets status to closed when it loses its connection are external.        *)
(***************************************************************************)
EXTENDS Integers, Sequences

CONSTANT Channels  \* channels of the voice card

ASSUME StatusAssumption == Channels \in Nat \ {0}

\* The values of the status node, and get_started when it cannot be read.
Open == 1
Closed == 2
ReadFailed == -1

\* The settings, in the order in which the constructor reads them.
Names == <<"iocpThreads", "serverPort", "socketTimeout", "totalChannels",
           "idlePeriod", "callTimeout", "warning", "sleeping">>
Settings == {Names[i] : i \in DOMAIN Names}

\* What the tests write and say of channels they do not have.
TestChannels == 10
StubChannels == 100000

\* The compositions of main: test_all, testNetLogic, testCTI, test_config_server.
Apps == {"all", "net", "cti", "config"}

VARIABLES
  zkUp,      \* ZooKeeper answers
  status,    \* the node /auth/ip/status
  freeNum,   \* the node /auth/ip/freeNum
  app,       \* the composition that this build of main runs
  setting,   \* the members of config_server: 0, or 1 for the number in the node
  flushed,   \* how many of them the constructor has set
  started,   \* m_started of config_server
  idleNow,   \* m_channel_queue.size() of the voice card
  timerOn,   \* the idle-channel timer was started
  mainPc,    \* what the main thread is about to do
  ioPc,      \* what the handler of the timer is about to do
  ioFree,    \* the number of channels it has read
  lost       \* a write of the shutdown did not reach ZooKeeper

nodeVars == <<status, freeNum>>
ioVars == <<ioPc, ioFree>>
configVars == <<app, setting, flushed>>
vars == <<zkUp, nodeVars, configVars, started, idleNow, timerOn, mainPc, ioVars, lost>>

MainPcs == {"config", "build", "start", "test", "open", "setOpen", "running",
            "zero", "close", "setClosed", "exited", "aborted"}
IoPcs == {"wait", "size", "free", "status", "open", "setOpen"}

\* The channels of the voice card, if their number could be read.
Total == IF setting["totalChannels"] = 0 THEN 0 ELSE Channels

TypeOK ==
  /\ zkUp \in BOOLEAN
  /\ status \in {Open, Closed}
  /\ freeNum \in 0 .. Channels \cup {TestChannels, StubChannels}
  /\ app \in Apps
  /\ setting \in [Settings -> {0, 1}]
  /\ flushed \in 0 .. Len(Names)
  /\ started \in {Open, Closed}
  /\ idleNow \in 0 .. Total
  /\ timerOn \in BOOLEAN
  /\ mainPc \in MainPcs
  /\ ioPc \in IoPcs
  /\ ioFree \in 0 .. Channels \cup {StubChannels}
  /\ lost \in BOOLEAN

\* The nodes hold what the last run left there.
Init ==
  /\ zkUp \in BOOLEAN
  /\ status \in {Open, Closed}
  /\ freeNum \in 0 .. Channels
  /\ app \in Apps
  /\ setting = [name \in Settings |-> 0]
  /\ flushed = 0
  /\ started = Closed
  /\ idleNow = 0
  /\ timerOn = FALSE
  /\ mainPc = "config"
  /\ ioPc = "wait"
  /\ ioFree = 0
  /\ lost = FALSE

------------------------------------------------------------------------------
(* config_server                                                            *)

At(step) == mainPc = step
Goto(step) == mainPc' = step

\* Mutant: get_started is one of the cached settings.
GetStartedCached == IF zkUp THEN started ELSE ReadFailed

\* zk_set_data: nothing is written while ZooKeeper is away.
SetStatus(value) == status' = IF zkUp THEN value ELSE status
SetFree(n) == freeNum' = IF zkUp THEN n ELSE freeNum

\* get_started.
GetStarted == IF zkUp THEN status ELSE ReadFailed

\* One flush_ of the constructor. What it returns is not looked at: a setting
\* that could not be read is 0, and the next one is read.
Flush ==
  /\ At("config")
  /\ flushed' = flushed + 1
  /\ setting' = [setting EXCEPT ![Names[flushed + 1]] = IF zkUp THEN 1 ELSE 0]
  /\ mainPc' = IF flushed' = Len(Names) THEN "build" ELSE "config"
  /\ UNCHANGED <<zkUp, nodeVars, app, started, idleNow, timerOn, ioVars, lost>>

------------------------------------------------------------------------------
(* main                                                                     *)

HasCard == app \in {"all", "cti"}
HasServer == app \in {"all", "net"}

\* The voice card fills its channel queue, the server binds its port.
Build ==
  /\ At("build")
  /\ idleNow' = IF HasCard THEN Total ELSE 0
  /\ Goto(IF HasServer THEN "start" ELSE "test")
  /\ UNCHANGED <<zkUp, nodeVars, configVars, started, timerOn, ioVars, lost>>

\* The card does not start or the port is taken. Only testCTI catches it; the
\* others end the process there.
BuildFails ==
  /\ At("build") /\ app # "config"
  /\ Goto(IF app = "cti" THEN "zero" ELSE "aborted")
  /\ UNCHANGED <<zkUp, nodeVars, configVars, started, idleNow, timerOn, ioVars, lost>>

\* cia_server::start arms the timer, if it has a period.
Start ==
  /\ At("start")
  /\ timerOn' = (setting["idlePeriod"] # 0)
  /\ Goto("open")
  /\ UNCHANGED <<zkUp, nodeVars, configVars, started, idleNow, ioVars, lost>>

\* testCTI makes its calls and announces nothing.
TestCTI ==
  /\ At("test") /\ app = "cti"
  /\ Goto("zero")
  /\ UNCHANGED <<zkUp, nodeVars, configVars, started, idleNow, timerOn, ioVars, lost>>

\* test_config_server writes ten channels and then status 1.
TestConfigServer ==
  /\ At("test") /\ app = "config"
  /\ SetFree(TestChannels)
  /\ Goto("open")
  /\ UNCHANGED <<zkUp, status, configVars, started, idleNow, timerOn, ioVars, lost>>

\* set_started(true) and set_started(false): m_started, then the node.
AssignOpen ==
  /\ At("open")
  /\ started' = Open
  /\ Goto("setOpen")
  /\ UNCHANGED <<zkUp, nodeVars, configVars, idleNow, timerOn, ioVars, lost>>

WriteOpen ==
  /\ At("setOpen")
  /\ SetStatus(started)
  /\ Goto(IF HasServer THEN "running" ELSE "zero")
  /\ UNCHANGED <<zkUp, freeNum, configVars, started, idleNow, timerOn, ioVars, lost>>

\* "quit" is typed.
Quit ==
  /\ At("running")
  /\ Goto("zero")
  /\ UNCHANGED <<zkUp, nodeVars, configVars, started, idleNow, timerOn, ioVars, lost>>

WriteZero ==
  /\ At("zero")
  /\ SetFree(0)
  /\ lost' = ~zkUp
  /\ Goto("close")
  /\ UNCHANGED <<zkUp, status, configVars, started, idleNow, timerOn, ioVars>>

\* Mutant: m_started keeps its value.
AssignClosedForgotten ==
  /\ At("close")
  /\ Goto("setClosed")
  /\ UNCHANGED <<zkUp, nodeVars, configVars, started, idleNow, timerOn, ioVars, lost>>

AssignClosed ==
  /\ At("close")
  /\ started' = Closed
  /\ Goto("setClosed")
  /\ UNCHANGED <<zkUp, nodeVars, configVars, idleNow, timerOn, ioVars, lost>>

\* The last step of main: the process ends, its other threads with it.
WriteClosed ==
  /\ At("setClosed")
  /\ SetStatus(started)
  /\ lost' = (lost \/ ~zkUp)
  /\ Goto("exited")
  /\ UNCHANGED <<zkUp, freeNum, configVars, started, idleNow, timerOn, ioVars>>

Main ==
  \/ Flush \/ Build \/ BuildFails \/ Start \/ TestCTI \/ TestConfigServer
  \/ AssignOpen \/ WriteOpen
  \/ WriteZero \/ AssignClosed \/ WriteClosed

------------------------------------------------------------------------------
(* The handler of the idle-channel timer                                    *)

\* It needs a thread that runs the io_service, and ends with the process.
IoGoto(from, to) ==
  /\ ~At("exited")
  /\ setting["iocpThreads"] # 0
  /\ ioPc = from /\ ioPc' = to
  /\ UNCHANGED <<zkUp, configVars, idleNow, timerOn, mainPc, lost>>

TimerFires == timerOn /\ IoGoto("wait", "size") /\ UNCHANGED <<nodeVars, started, ioFree>>

\* get_idol_channel_number of the voice card, and of the stub of testNetLogic.
IdleChannels == IF HasCard THEN idleNow ELSE StubChannels

\* Mutant: the number of channels is read once and cached.
IoReadSizeCached ==
  /\ IoGoto("size", "free")
  /\ ioFree' = IF ioFree = 0 THEN IdleChannels ELSE ioFree
  /\ UNCHANGED <<nodeVars, started>>

IoReadSize ==
  /\ IoGoto("size", "free")
  /\ ioFree' = IdleChannels
  /\ UNCHANGED <<nodeVars, started>>

IoWriteFree ==
  /\ IoGoto("free", "status")
  /\ SetFree(ioFree)
  /\ UNCHANGED <<status, started, ioFree>>

\* Only a node that says closed is set again; the timer is armed again.
IoReadStatus ==
  /\ IoGoto("status", IF GetStarted = Closed THEN "open" ELSE "wait")
  /\ UNCHANGED <<nodeVars, started, ioFree>>

IoAssignOpen ==
  /\ IoGoto("open", "setOpen")
  /\ started' = Open
  /\ UNCHANGED <<nodeVars, ioFree>>

IoWriteOpen ==
  /\ IoGoto("setOpen", "wait")
  /\ SetStatus(started)
  /\ UNCHANGED <<freeNum, started, ioFree>>

Io == TimerFires \/ IoReadSize \/ IoWriteFree \/ IoReadStatus \/ IoAssignOpen \/ IoWriteOpen

------------------------------------------------------------------------------
(* The environment, and the whole                                           *)

\* The remote service, having lost its connection, says closed.
RemoteCloses ==
  /\ zkUp /\ status' = Closed
  /\ UNCHANGED <<zkUp, freeNum, configVars, started, idleNow, timerOn, mainPc, ioVars, lost>>

ZkChanges ==
  /\ zkUp' = ~zkUp
  /\ UNCHANGED <<nodeVars, configVars, started, idleNow, timerOn, mainPc, ioVars, lost>>

\* Mutant: a channel is freed twice.
CallsChangeTwice ==
  /\ HasCard /\ mainPc \notin {"config", "build", "exited", "aborted"}
  /\ \E n \in {idleNow - 1, idleNow + 1, idleNow + 2} \cap (0 .. Total + 1) : idleNow' = n
  /\ UNCHANGED <<zkUp, nodeVars, configVars, started, timerOn, mainPc, ioVars, lost>>

\* Calls take and free channels.
CallsChange ==
  /\ HasCard /\ mainPc \notin {"config", "build", "exited", "aborted"}
  /\ \E n \in {idleNow - 1, idleNow + 1} \cap (0 .. Total) : idleNow' = n
  /\ UNCHANGED <<zkUp, nodeVars, configVars, started, timerOn, mainPc, ioVars, lost>>

Next == Main \/ Quit \/ Io \/ RemoteCloses \/ ZkChanges \/ CallsChange

Spec == Init /\ [][Next]_vars

\* Both threads run and the timer fires; nobody has to type "quit".
FairSpec == Spec /\ WF_vars(Main) /\ WF_vars(Io)

------------------------------------------------------------------------------
(* Properties                                                               *)

\* The timer ticks: it has a period, and the io_service has a thread.
TimerRuns == timerOn /\ setting["iocpThreads"] # 0

(***************************************************************************)
(* What the comments on the status node say: the application sets it on    *)
(* every start and stop, 1 for open and 2 for closed. A process that has   *)
(* ended and whose writes all arrived leaves it closed, with no channels.  *)
(***************************************************************************)
ClosedAtExit == At("exited") /\ ~lost => status = Closed /\ freeNum = 0

(***************************************************************************)
(* That much holds, in every composition, of a process whose idle-channel  *)
(* timer does not run: a period or a number of io threads that could not   *)
(* be read is zero and stops the timer. With the timer it does not: see    *)
(* the handler's writes, which may come after those of main.               *)
(***************************************************************************)
ClosedWithoutTimer == ~TimerRuns => ClosedAtExit

(***************************************************************************)
(* With the timer a running server whose node says closed is set to open   *)
(* again, if ZooKeeper stays up.                                           *)
(***************************************************************************)
StatusIsRestored ==
  <>[]zkUp =>
    ((At("running") /\ TimerRuns /\ status = Closed) ~> (status = Open \/ ~At("running")))

(***************************************************************************)
(* With the timer freeNum follows the pool: if the number of free channels *)
(* settles while the server runs, freeNum becomes and stays that number.   *)
(***************************************************************************)
FreeNumFollows ==
  \A n \in 0 .. Channels \cup {StubChannels} :
    <>[](zkUp /\ TimerRuns /\ At("running") /\ IdleChannels = n) => <>[](freeNum = n)
==============================================================================
