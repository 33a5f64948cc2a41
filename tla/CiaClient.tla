------------------------------ MODULE CiaClient ------------------------------
(***************************************************************************)
(* The sessions of the communication server: cia_client, its pool of write *)
(* buffers (blocking_queue) and the accept loop of cia_server, run by the  *)
(* io threads of one io_service, together with the threads of the voice    *)
(* card that answer calls through do_write.                                *)
(*                                                                         *)
(* An io thread takes one completion at a time and runs its handler; the   *)
(* handlers of one session are not serialised, so two threads may run two  *)
(* of them at once. A handler is one action up to the next point at which  *)
(* another thread can interfere: do_write waits for a buffer, stop() reads *)
(* m_started_ and the vector of clients without a lock.                    *)
(*                                                                         *)
(* The peers, the sockets and the voice card are external.                 *)
(***************************************************************************)
EXTENDS Integers, Sequences, FiniteSets, SequencesExt

CONSTANTS
  Clients,         \* cia_client objects
  IoThreads,       \* m_io_comppletions_thread_
  Callers,         \* threads of the voice card that answer calls
  NoClient,        \* the client of a thread that runs no handler
  Buffers,         \* buffers of a client's m_write_msg_queue_
  TimeoutElapsed,  \* m_timeout_elapsed, in ticks; 0 turns the check off
  CheckPeriod,     \* TIMEOUT_CHECK_ELAPSED, in ticks
  MaxMessages      \* bound: messages a peer sends

Threads == IoThreads \cup Callers

\* The constructor makes as many buffers as there are io threads.
ASSUME BufferAssumption ==
  IsFiniteSet(IoThreads) /\ Buffers = Cardinality(IoThreads) /\ IoThreads # {}

ASSUME SessionAssumption ==
  /\ IoThreads \cap Callers = {}
  /\ {TimeoutElapsed, CheckPeriod, MaxMessages} \subseteq Nat
  /\ {"waiting", "closed"} \cap IoThreads = {}
  /\ NoClient \notin Clients

VARIABLES
  acceptor,    \* the io thread that runs handle_accept, "waiting" or "closed"
  registered,  \* the global vector clients
  started,     \* m_started_
  open,        \* m_sock_ is open
  idle,        \* ticks since m_update_time
  timer,       \* m_check_timeout_timer: ticks until it expires
  read,        \* the outstanding async_read, or its result
  free,        \* buffers in m_write_msg_queue_
  flying,      \* async_send operations under way, one buffer each
  calls,       \* call requests the voice card has not answered yet
  peer,        \* what the peer does
  sent,        \* messages the peer has sent
  pc,          \* what each thread is about to do
  cl,          \* the client it does it for
  rest,        \* what it does after do_write or stop()
  pos,         \* the iterator of stop()
  broken       \* stop() has erased clients.end()

sessionVars == <<acceptor, registered, started, open, idle, timer>>
ioVars      == <<read, free, flying, calls>>
peerVars    == <<peer, sent>>
threadVars  == <<pc, cl, rest>>
stopVars    == <<pos, broken>>
vars == <<sessionVars, ioVars, peerVars, threadVars, stopVars>>

NoTimer == -1
Reads == {"none", "header", "gotHeader", "body", "gotBody"}
Peers == {"absent", "talking", "silent", "stuck", "gone"}
Pcs == {"idle", "rearm", "reaccept", "heart", "callout", "take", "stop", "close", "find", "erase"}

TypeOK ==
  /\ acceptor \in IoThreads \cup {"waiting", "closed"}
  /\ registered \in Seq(Clients)
  /\ started \in [Clients -> BOOLEAN]
  /\ open \in [Clients -> BOOLEAN]
  /\ idle \in [Clients -> 0 .. TimeoutElapsed + 1]
  /\ timer \in [Clients -> (0 .. CheckPeriod) \cup {NoTimer}]
  /\ read \in [Clients -> Reads]
  /\ free \in [Clients -> 0 .. Buffers]
  /\ flying \in [Clients -> 0 .. Buffers]
  /\ calls \in [Clients -> Nat]
  /\ peer \in [Clients -> Peers]
  /\ sent \in [Clients -> 0 .. MaxMessages]
  /\ pc \in [Threads -> Pcs]
  /\ cl \in [Threads -> Clients \cup {NoClient}]
  /\ rest \in [Threads -> {"idle", "rearm"}]
  /\ pos \in [Threads -> Nat]
  /\ broken \in BOOLEAN

Init ==
  /\ acceptor = "waiting"
  /\ registered = <<>>
  /\ started = [c \in Clients |-> FALSE]
  /\ open = [c \in Clients |-> FALSE]
  /\ idle = [c \in Clients |-> 0]
  /\ timer = [c \in Clients |-> NoTimer]
  /\ read = [c \in Clients |-> "none"]
  /\ free = [c \in Clients |-> Buffers]
  /\ flying = [c \in Clients |-> 0]
  /\ calls = [c \in Clients |-> 0]
  /\ peer = [c \in Clients |-> "absent"]
  /\ sent = [c \in Clients |-> 0]
  /\ pc = [t \in Threads |-> "idle"]
  /\ cl = [t \in Threads |-> NoClient]
  /\ rest = [t \in Threads |-> "idle"]
  /\ pos = [t \in Threads |-> 0]
  /\ broken = FALSE

------------------------------------------------------------------------------
(* Helpers                                                                  *)

\* Thread t turns to step for client c, and to after when that is done; an idle
\* thread is out of its handler.
Turn(t, c, step, after) ==
  /\ pc' = [pc EXCEPT ![t] = step]
  /\ cl' = [cl EXCEPT ![t] = IF step = "idle" THEN NoClient ELSE c]
  /\ rest' = [rest EXCEPT ![t] = IF step = "idle" THEN "idle" ELSE after]

Goto(t, step) == Turn(t, cl[t], step, rest[t])

\* m_update_time = local_time().
Refresh(c) == idle' = [idle EXCEPT ![c] = 0]

\* An operation on the socket of c fails.
Fails(c) == ~open[c] \/ peer[c] = "gone"

\* So do its sends, or they succeed, unless the peer has stopped to read.
SendCompletes(c) == peer[c] # "stuck" \/ Fails(c)

------------------------------------------------------------------------------
(* cia_server::handle_accept and cia_client::start, on io thread t          *)

Accept(t, c) ==
  /\ pc[t] = "idle" /\ acceptor = "waiting" /\ peer[c] = "absent"
  /\ acceptor' = t
  /\ peer' = [peer EXCEPT ![c] = "talking"]
  /\ open' = [open EXCEPT ![c] = TRUE]
  /\ started' = [started EXCEPT ![c] = TRUE]
  /\ registered' = Append(registered, c)
  /\ Refresh(c)
  /\ read' = [read EXCEPT ![c] = "header"]
  /\ Turn(t, c, IF TimeoutElapsed # 0 THEN "rearm" ELSE "reaccept", "idle")
  /\ UNCHANGED <<timer, free, flying, calls, sent, stopVars>>

\* async_accept for the next client.
Reaccept(t) ==
  /\ pc[t] = "reaccept"
  /\ acceptor' = "waiting"
  /\ Goto(t, "idle")
  /\ UNCHANGED <<registered, started, open, idle, timer, ioVars, peerVars, stopVars>>

\* Any error ends the accept loop.
AcceptFails(t) ==
  /\ pc[t] = "idle" /\ acceptor = "waiting"
  /\ acceptor' = "closed"
  /\ UNCHANGED <<registered, started, open, idle, timer, ioVars, peerVars, threadVars, stopVars>>

------------------------------------------------------------------------------
(* The read chain                                                           *)

\* Mutant: a header that is refused does not stop the session.
HeaderDoneLeavesOpen(t, c) ==
  /\ pc[t] = "idle" /\ read[c] = "gotHeader"
  /\ \E next \in {"body", "gotBody", "none"} : read' = [read EXCEPT ![c] = next]
  /\ UNCHANGED <<sessionVars, free, flying, calls, peerVars, threadVars, stopVars>>

\* The header is read, and decode_header accepts it or not. The read of an empty
\* body completes at once.
HeaderDone(t, c) ==
  /\ pc[t] = "idle" /\ read[c] = "gotHeader"
  /\ \/ \E next \in {"body", "gotBody"} :
          read' = [read EXCEPT ![c] = next] /\ UNCHANGED threadVars
     \/ read' = [read EXCEPT ![c] = "none"] /\ Turn(t, c, "stop", "idle")
  /\ UNCHANGED <<sessionVars, free, flying, calls, peerVars, stopVars>>

\* The body is read: the next read starts, then do_deal_request looks at the
\* message: a login, a heartbeat response, a call request, or nothing it knows.
BodyDone(t, c) ==
  /\ pc[t] = "idle" /\ read[c] = "gotBody"
  /\ Refresh(c)
  /\ read' = [read EXCEPT ![c] = "header"]
  /\ \E request \in {"take", "heart", "callout", "idle"} : Turn(t, c, request, "idle")
  /\ UNCHANGED <<acceptor, registered, started, open, timer, free, flying, calls, peerVars,
                 stopVars>>

ReadFails(t, c) ==
  /\ pc[t] = "idle" /\ read[c] \in {"header", "body"} /\ Fails(c)
  /\ read' = [read EXCEPT ![c] = "none"]
  /\ Turn(t, c, "stop", "idle")
  /\ UNCHANGED <<sessionVars, free, flying, calls, peerVars, stopVars>>

\* Mutant: a heartbeat response starts the timeout check anew.
HeartRearms(t) ==
  /\ pc[t] = "heart"
  /\ Refresh(cl[t])
  /\ Goto(t, "rearm")
  /\ UNCHANGED <<acceptor, registered, started, open, timer, ioVars, peerVars, stopVars>>

\* CIA_HEART_RESPONSE.
Heart(t) ==
  /\ pc[t] = "heart"
  /\ Refresh(cl[t])
  /\ Goto(t, "idle")
  /\ UNCHANGED <<acceptor, registered, started, open, timer, ioVars, peerVars, stopVars>>

\* cti_callout: the voice card answers later on a thread of its own, the stub
\* base_voice_card_control at once.
CallOut(t) ==
  /\ pc[t] = "callout"
  /\ \/ calls' = [calls EXCEPT ![cl[t]] = @ + 1] /\ Goto(t, "idle")
     \/ UNCHANGED calls /\ Goto(t, "take")
  /\ UNCHANGED <<sessionVars, read, free, flying, peerVars, stopVars>>

------------------------------------------------------------------------------
(* do_write                                                                 *)

\* The voice card answers a call.
CallerAnswers(w, c) ==
  /\ pc[w] = "idle" /\ calls[c] > 0
  /\ calls' = [calls EXCEPT ![c] = @ - 1]
  /\ Turn(w, c, "take", "idle")
  /\ UNCHANGED <<sessionVars, read, free, flying, peerVars, stopVars>>

\* Mutant: Take() does not wait for a buffer.
WriteNoWait(t) ==
  LET c == cl[t] IN
  /\ pc[t] = "take"
  /\ free' = [free EXCEPT ![c] = @ - 1]
  /\ flying' = [flying EXCEPT ![c] = @ + 1]
  /\ Goto(t, rest[t])
  /\ UNCHANGED <<sessionVars, read, calls, peerVars, stopVars>>

\* m_write_msg_queue_.Take() waits for a buffer, async_send does not wait.
Write(t) ==
  LET c == cl[t] IN
  /\ pc[t] = "take" /\ free[c] > 0
  /\ free' = [free EXCEPT ![c] = @ - 1]
  /\ flying' = [flying EXCEPT ![c] = @ + 1]
  /\ Goto(t, rest[t])
  /\ UNCHANGED <<sessionVars, read, calls, peerVars, stopVars>>

\* Mutant: a send that fails keeps its buffer.
SendDoneKeepsBuffer(t, c) ==
  /\ pc[t] = "idle" /\ flying[c] > 0 /\ SendCompletes(c)
  /\ flying' = [flying EXCEPT ![c] = @ - 1]
  /\ \/ Refresh(c) /\ free' = [free EXCEPT ![c] = @ + 1] /\ UNCHANGED threadVars
     \/ Fails(c) /\ Turn(t, c, "stop", "idle") /\ UNCHANGED <<idle, free>>
  /\ UNCHANGED <<acceptor, registered, started, open, timer, read, calls, peerVars, stopVars>>

\* The handler of async_send gives the buffer back; then an error stops the
\* session and a success counts as activity. While the peer is stuck, a send
\* neither succeeds nor fails before the socket is closed. A send that was over
\* when the peer got stuck is one that the peer got stuck after.
SendDone(t, c) ==
  /\ pc[t] = "idle" /\ flying[c] > 0 /\ SendCompletes(c)
  /\ flying' = [flying EXCEPT ![c] = @ - 1]
  /\ free' = [free EXCEPT ![c] = @ + 1]
  /\ \/ Refresh(c) /\ UNCHANGED threadVars
     \/ Fails(c) /\ Turn(t, c, "stop", "idle") /\ UNCHANGED idle
  /\ UNCHANGED <<acceptor, registered, started, open, timer, read, calls, peerVars, stopVars>>

------------------------------------------------------------------------------
(* do_timeout_check                                                         *)

\* Mutant: a heartbeat ends the timeout check.
TimerDoneHeartbeatEnds(t, c) ==
  /\ pc[t] = "idle" /\ timer[c] = 0
  /\ timer' = [timer EXCEPT ![c] = NoTimer]
  /\ IF idle[c] > TimeoutElapsed THEN Turn(t, c, "stop", "rearm")
     ELSE IF idle[c] > TimeoutElapsed \div 2 THEN Turn(t, c, "take", "idle")
     ELSE Turn(t, c, "rearm", "rearm")
  /\ UNCHANGED <<acceptor, registered, started, open, idle, ioVars, peerVars, stopVars>>

\* The timer has expired: too long without activity stops the session, half as
\* long sends a heartbeat request. Nothing cancels the timer, so its handler never
\* gets an error.
TimerDone(t, c) ==
  /\ pc[t] = "idle" /\ timer[c] = 0
  /\ timer' = [timer EXCEPT ![c] = NoTimer]
  /\ Turn(t, c, IF idle[c] > TimeoutElapsed THEN "stop"
                ELSE IF idle[c] > TimeoutElapsed \div 2 THEN "take" ELSE "rearm", "rearm")
  /\ UNCHANGED <<acceptor, registered, started, open, idle, ioVars, peerVars, stopVars>>

\* Mutant: the timer is set again for a session that has stopped.
RearmAlways(t) ==
  LET c == cl[t] IN
  /\ pc[t] = "rearm"
  /\ timer' = [timer EXCEPT ![c] = CheckPeriod]
  /\ Goto(t, IF acceptor = t THEN "reaccept" ELSE "idle")
  /\ UNCHANGED <<acceptor, registered, started, open, idle, ioVars, peerVars, stopVars>>

\* do_timeout_check itself, called by start and at the end of its own handler.
Rearm(t) ==
  LET c == cl[t] IN
  /\ pc[t] = "rearm"
  /\ timer' = [timer EXCEPT ![c] = IF started[c] THEN CheckPeriod ELSE @]
  /\ Goto(t, IF acceptor = t THEN "reaccept" ELSE "idle")
  /\ UNCHANGED <<acceptor, registered, started, open, idle, ioVars, peerVars, stopVars>>

------------------------------------------------------------------------------
(* stop()                                                                   *)

\* Mutant: stop() does not test m_started_.
StopTestless(t) ==
  /\ pc[t] = "stop"
  /\ Goto(t, "close")
  /\ UNCHANGED <<sessionVars, ioVars, peerVars, stopVars>>

StopTest(t) ==
  /\ pc[t] = "stop"
  /\ Goto(t, IF started[cl[t]] THEN "close" ELSE rest[t])
  /\ UNCHANGED <<sessionVars, ioVars, peerVars, stopVars>>

StopClose(t) ==
  /\ pc[t] = "close"
  /\ started' = [started EXCEPT ![cl[t]] = FALSE]
  /\ open' = [open EXCEPT ![cl[t]] = FALSE]
  /\ Goto(t, "find")
  /\ UNCHANGED <<acceptor, registered, idle, timer, ioVars, peerVars, stopVars>>

\* Mutant: the last entry of the vector, whoever's it is.
FindNewest(s, c) == Len(s)

\* The first i with s[i] = c, or one past the end.
Find(s, c) ==
  IF \E i \in DOMAIN s : s[i] = c
  THEN CHOOSE i \in DOMAIN s : s[i] = c /\ \A j \in 1 .. i - 1 : s[j] # c
  ELSE Len(s) + 1

StopFind(t) ==
  /\ pc[t] = "find"
  /\ pos' = [pos EXCEPT ![t] = Find(registered, cl[t])]
  /\ Goto(t, "erase")
  /\ UNCHANGED <<sessionVars, ioVars, peerVars, broken>>

StopErase(t) ==
  /\ pc[t] = "erase"
  /\ pos[t] <= Len(registered)
  /\ registered' = RemoveAt(registered, pos[t])
  /\ Goto(t, rest[t])
  /\ pos' = [pos EXCEPT ![t] = 0]
  /\ UNCHANGED <<acceptor, started, open, idle, timer, ioVars, peerVars, broken>>

\* erase(end()) is undefined; the model ends there.
StopBreaks(t) ==
  /\ pc[t] = "erase"
  /\ pos[t] > Len(registered)
  /\ broken' = TRUE
  /\ UNCHANGED <<sessionVars, ioVars, peerVars, threadVars, pos>>

Stop(t) == StopTest(t) \/ StopClose(t) \/ StopFind(t) \/ StopErase(t) \/ StopBreaks(t)

------------------------------------------------------------------------------
(* The environment, and the whole                                           *)

\* A header or a body arrives and completes the read that waits for it.
Arrive(c) ==
  /\ open[c] /\ peer[c] \in {"talking", "stuck"}
  /\ \/ /\ read[c] = "header" /\ sent[c] < MaxMessages
        /\ read' = [read EXCEPT ![c] = "gotHeader"]
        /\ sent' = [sent EXCEPT ![c] = @ + 1]
     \/ /\ read[c] = "body"
        /\ read' = [read EXCEPT ![c] = "gotBody"]
        /\ UNCHANGED sent
  /\ UNCHANGED <<sessionVars, free, flying, calls, peer, threadVars, stopVars>>

\* A peer falls silent but still receives; it stops to read for good, whether it
\* sends or not (one that pauses is a send that takes long); or its connection is
\* gone.
PeerLeaves(c) ==
  /\ \/ peer[c] = "talking" /\ peer' = [peer EXCEPT ![c] = "silent"]
     \/ peer[c] \in {"talking", "silent"} /\ peer' = [peer EXCEPT ![c] = "stuck"]
     \/ peer[c] \in {"talking", "silent", "stuck"} /\ peer' = [peer EXCEPT ![c] = "gone"]
  /\ UNCHANGED <<sessionVars, ioVars, sent, threadVars, stopVars>>

Tick ==
  /\ idle' = [c \in Clients |-> IF idle[c] > TimeoutElapsed THEN idle[c] ELSE idle[c] + 1]
  /\ timer' = [c \in Clients |-> IF timer[c] > 0 THEN timer[c] - 1 ELSE timer[c]]
  /\ UNCHANGED <<acceptor, registered, started, open, ioVars, peerVars, threadVars, stopVars>>

ReadDone(t, c) == HeaderDone(t, c) \/ BodyDone(t, c) \/ ReadFails(t, c)

Work(t) == Heart(t) \/ CallOut(t) \/ Write(t) \/ Rearm(t) \/ Reaccept(t) \/ Stop(t)

Next ==
  /\ ~broken
  /\ \/ \E t \in IoThreads, c \in Clients :
          Accept(t, c) \/ ReadDone(t, c) \/ SendDone(t, c) \/ TimerDone(t, c)
     \/ \E t \in IoThreads : AcceptFails(t)
     \/ \E t \in Threads : Work(t)
     \/ \E w \in Callers, c \in Clients : CallerAnswers(w, c)
     \/ \E c \in Clients : Arrive(c) \/ PeerLeaves(c)
     \/ Tick

Spec == Init /\ [][Next]_vars

(***************************************************************************)
(* Fairness: every thread runs; the io_service hands out completions in    *)
(* order, so each gets its turn if threads keep coming free, and a thread  *)
(* in Take() gets a buffer if buffers keep coming back (strong fairness);  *)
(* a send completes if the peer reads or the connection is over, and need  *)
(* not otherwise; the voice card answers; time passes. Peers may do        *)
(* nothing.                                                                *)
(***************************************************************************)
Fairness ==
  /\ \A c \in Clients :
       /\ SF_vars(~broken /\ \E t \in IoThreads : ReadDone(t, c))
       /\ SF_vars(~broken /\ \E t \in IoThreads : SendDone(t, c))
       /\ SF_vars(~broken /\ \E t \in IoThreads : TimerDone(t, c))
       /\ WF_vars(~broken /\ \E w \in Callers : CallerAnswers(w, c))
  /\ \A t \in Threads : WF_vars(~broken /\ Work(t)) /\ SF_vars(~broken /\ Write(t))
  /\ WF_vars(~broken /\ Tick)

FairSpec == Spec /\ Fairness

------------------------------------------------------------------------------
(* Safety                                                                   *)

Stopping(t, c) == cl[t] = c /\ pc[t] \in {"stop", "close", "find", "erase"}

(***************************************************************************)
(* A session that is started is being read, or a thread is about to stop   *)
(* it: no path through the read chain leaves an open session deaf.         *)
(***************************************************************************)
SessionIsRead ==
  \A c \in Clients : started[c] => read[c] # "none" \/ \E t \in Threads : Stopping(t, c)

\* Thread t is on its way to set the timer of c.
Watches(t, c) ==
  /\ cl[t] = c
  /\ pc[t] = "rearm" \/ (rest[t] = "rearm" /\ (pc[t] = "take" \/ Stopping(t, c)))

(***************************************************************************)
(* A session that is started has its timeout timer running, or a thread is *)
(* on its way to set it, through a heartbeat or a stop() as the case may   *)
(* be: the timeout check never dies before its session.                    *)
(***************************************************************************)
SessionIsWatched ==
  TimeoutElapsed # 0 =>
    \A c \in Clients : started[c] => timer[c] # NoTimer \/ \E t \in IoThreads : Watches(t, c)

(***************************************************************************)
(* There is one timeout check per session: do_timeout_check, which start() *)
(* and its own handler call, is never called while the timer runs or       *)
(* another thread is about to set it. Two would send each heartbeat twice. *)
(***************************************************************************)
TimerIsAlone ==
  \A c \in Clients :
    /\ timer[c] # NoTimer => ~\E t \in IoThreads : Watches(t, c)
    /\ \A t, u \in IoThreads : Watches(t, c) /\ Watches(u, c) => t = u

(***************************************************************************)
(* stop() erases its client from the vector once, whichever of the read,   *)
(* send and timer handlers that outlive the socket call it again, and the  *)
(* iterator it erases points at its own client, whatever the other         *)
(* sessions have done to the vector. It holds with one io thread, or as    *)
(* long as StopsExclude does.                                              *)
(***************************************************************************)
EraseIsSafe ==
  /\ ~broken
  /\ \A t \in Threads : pc[t] = "erase" =>
       pos[t] \in DOMAIN registered /\ registered[pos[t]] = cl[t]

(***************************************************************************)
(* The vector holds every started client and keeps no stopped one beyond   *)
(* its stop(): one client's stop() does not erase another's entry.         *)
(***************************************************************************)
StartedIsRegistered ==
  /\ \A i, j \in DOMAIN registered : registered[i] = registered[j] => i = j
  /\ \A c \in Clients :
       (\E i \in DOMAIN registered : registered[i] = c)
         <=> started[c] \/ \E t \in IoThreads : cl[t] = c /\ pc[t] \in {"find", "erase"}

(***************************************************************************)
(* No two threads are between the test of m_started_ and its reset for the *)
(* same client, and no two have an iterator into the vector: what a mutex  *)
(* of its own for each of the two would ensure. The code has neither, and  *)
(* more than one io thread can break both.                                 *)
(***************************************************************************)
StopsExclude ==
  \A t, u \in Threads : t # u =>
    /\ ~(pc[t] = "close" /\ pc[u] = "close" /\ cl[t] = cl[u])
    /\ ~(pc[t] = "erase" /\ pc[u] = "erase")

------------------------------------------------------------------------------
(* The parts of the inductive invariant                                     *)

\* No send loses its buffer.
BuffersConserved == \A c \in Clients : free[c] + flying[c] = Buffers

\* Nothing happens for a client before it is accepted.
AbsentIsUntouched ==
  \A c \in Clients : peer[c] = "absent" =>
    /\ ~started[c] /\ read[c] = "none" /\ flying[c] = 0 /\ timer[c] = NoTimer /\ calls[c] = 0
    /\ \A t \in Threads : cl[t] # c

\* A thread in a handler has a client; it looks for it in the vector only after the
\* session has been stopped, and has an iterator when it erases.
HandlersHaveClients ==
  \A t \in Threads :
    /\ pc[t] # "idle" => cl[t] \in Clients
    /\ pc[t] \in {"find", "erase"} => ~started[cl[t]]
    /\ pc[t] = "erase" => pos[t] # 0

\* The threads of the voice card only write.
CallersOnlyWrite == \A w \in Callers : pc[w] \in {"idle", "take"} /\ rest[w] = "idle"

(***************************************************************************)
(* The inductive invariant: together with the two promises about a started *)
(* session, no buffer is lost, nothing happens for a client before it is   *)
(* accepted, and whoever goes on in stop() does so for a stopped session.  *)
(***************************************************************************)
SessionInv ==
  /\ BuffersConserved
  /\ AbsentIsUntouched
  /\ HandlersHaveClients
  /\ CallersOnlyWrite
  /\ SessionIsRead
  /\ SessionIsWatched

------------------------------------------------------------------------------
(* The write buffers                                                        *)

\* The client in whose Take() each io thread is.
Waiting == [t \in IoThreads |-> IF pc[t] = "take" THEN cl[t] ELSE NoClient]

Pool == INSTANCE WriteBuffers WITH waiting <- Waiting

(***************************************************************************)
(* Whatever the handlers of the sessions do, what the threads of the voice *)
(* card see of them is WriteBuffers: stop(), a failed send or a session    *)
(* that ends never takes a buffer away or gives one back that was not      *)
(* taken, and only an io thread that does not wait itself gives one back.  *)
(***************************************************************************)
ImplementsWriteBuffers == Pool!Spec

------------------------------------------------------------------------------
(* Liveness                                                                 *)

\* Every io thread waits for a buffer, which only an io thread can give back.
IoBlocked == \A t \in IoThreads : pc[t] = "take" /\ free[cl[t]] = 0

(***************************************************************************)
(* That is for good, whatever peers, the voice card and the timers do.     *)
(***************************************************************************)
BlockedForGood == [][IoBlocked => IoBlocked']_vars

\* The peer reads no more and all buffers of the session are on their way to it.
Clogged(c) == peer[c] = "stuck" /\ open[c] /\ free[c] = 0

(***************************************************************************)
(* No thread stays in do_write for good, unless all io threads wait for a  *)
(* buffer for good, or it waits for one of a peer that keeps them all.     *)
(***************************************************************************)
WriterGetsBuffer ==
  \A t \in Threads :
    \/ []<>(pc[t] # "take")
    \/ <>[](pc[t] = "take" /\ Clogged(cl[t]))
    \/ <>[]IoBlocked
    \/ <>broken

\* The timeout check of c waits to send its heartbeat request.
HeartbeatWaits(c) ==
  free[c] = 0 /\ \E t \in IoThreads : cl[t] = c /\ pc[t] = "take" /\ rest[t] = "rearm"

(***************************************************************************)
(* A peer that neither reads nor sends any more (no read of it completes)  *)
(* is closed by the timeout check in the end. The one exception is that    *)
(* the check itself waits in do_write for good, to send its heartbeat      *)
(* request, because the peer has all the buffers: then nothing closes the  *)
(* session.                                                                *)
(***************************************************************************)
HungClientIsClosed ==
  \A c \in Clients :
    TimeoutElapsed # 0 /\ <>[](peer[c] = "stuck" /\ read[c] \notin {"gotHeader", "gotBody"})
      => <>[]~started[c] \/ <>[]HeartbeatWaits(c) \/ <>[]IoBlocked \/ <>broken

\* Nothing refers to the session any more: its object can be destroyed.
Released(c) ==
  /\ read[c] = "none" /\ flying[c] = 0 /\ timer[c] = NoTimer /\ calls[c] = 0
  /\ ~\E i \in DOMAIN registered : registered[i] = c
  /\ \A t \in Threads : cl[t] = c => pc[t] = "idle"

(***************************************************************************)
(* Once its peer is gone a session ends and lets go of everything, its     *)
(* timer and the answers still to come included.                           *)
(***************************************************************************)
SessionEnds ==
  \A c \in Clients : peer[c] = "gone" ~> (Released(c) \/ IoBlocked \/ broken)

(***************************************************************************)
(* What the comment on get_client_socket_timeout_elapsed says: a socket    *)
(* without any response for that long is closed.                           *)
(***************************************************************************)
SilentClientIsClosed ==
  \A c \in Clients : peer[c] = "silent" ~> (~started[c] \/ IoBlocked \/ broken)
==============================================================================
