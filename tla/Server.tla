-------------------------------- MODULE Server --------------------------------
(***************************************************************************)
(* The voice card and the sessions together: every answer of VoiceCard     *)
(* goes through cia_client::do_write, which waits for one of the write     *)
(* buffers of the client (m_write_msg_queue_.Take()) on the thread that    *)
(* calls it. cti_hangUp calls it with the trunk mutex held, the timeout    *)
(* thread and the driver's threads among its callers; cti_callout_again    *)
(* calls it on one of the few threads of the retry timers. A buffer comes  *)
(* back when an io thread runs the handler of its async_send, and an io    *)
(* thread may itself wait for a buffer, for a login answer or a heartbeat. *)
(*                                                                         *)
(* CiaClient and MessageStream model the sessions in detail. Here a        *)
(* session is its buffers and what its peer does with what it is sent.     *)
(***************************************************************************)
EXTENDS VoiceCard

CONSTANTS
  Clients,      \* cia_client objects
  Owner,        \* m_base_client of each call
  Buffers,      \* chat_messages in m_write_msg_queue_ of each client
  IoThreads,    \* threads that run the io_service of the sessions
  RetryThreads  \* thread_num: how many run m_io_service_ of the voice card

ASSUME ServerAssumption ==
  /\ Owner \in [Calls -> Clients]
  /\ Buffers \in Nat /\ RetryThreads \in Nat
  /\ IsFiniteSet(IoThreads) /\ Nobody \notin Clients

VARIABLES
  stuck,   \* clients whose peer does not read: their sends do not complete
  free,    \* buffers in m_write_msg_queue_
  asking   \* the client for which each io thread waits in Take()

sessionVars == <<stuck, free, asking>>
serverVars == <<vars, sessionVars>>

ServerTypeOK ==
  /\ stuck \subseteq Clients
  /\ free \in [Clients -> 0 .. Buffers]
  /\ asking \in [IoThreads -> Clients \cup {Nobody}]

ServerInit ==
  /\ Init
  /\ stuck = {}
  /\ free = [c \in Clients |-> Buffers]
  /\ asking = [t \in IoThreads |-> Nobody]

\* Calls whose cti_callout is running: at first on the io thread that read the
\* request, after a wait on a thread of the retry timers.
Running == {k \in Calls : callPc[k] \in {"take", "dial", "again", "failed", "record", "restart"}}
OnRetryThread == {k \in Running : timer[k] # NoTimer}

\* Io threads that wait in Take() for themselves.
Asking == {t \in IoThreads : asking[t] # Nobody}

\* An io thread, or a retry thread, is there to run a handler.
IoThreadFree == Cardinality(Asking) + Cardinality(Running \ OnRetryThread) < Cardinality(IoThreads)
RetryThreadFree == Cardinality(OnRetryThread) < RetryThreads

\* do_write of the answer of call k: Take() a buffer of its client, async_send.
DoWrite(k) ==
  /\ free[Owner[k]] > 0
  /\ free' = [free EXCEPT ![Owner[k]] = @ - 1]

Answered == {k \in Calls : responses'[k] # responses[k]}

(***************************************************************************)
(* A step of the controller. If it answers a call it waits for a buffer,   *)
(* with everything the thread holds; requests and retries wait for a        *)
(* thread.                                                                 *)
(***************************************************************************)
WithSessions(controllerStep) ==
  /\ controllerStep
  /\ IF Answered = {} THEN UNCHANGED free ELSE \A k \in Answered : DoWrite(k)
  /\ UNCHANGED <<stuck, asking>>

CallStep(k) ==
  WithSessions(\/ Request(k) /\ IoThreadFree
               \/ CallOut(k) /\ (callPc[k] = "wait" => RetryThreadFree))

ThreadStep(t) == WithSessions(HandlerStep(t))

\* An io thread is about to send a login answer or a heartbeat request.
IoAsks(t, c) ==
  /\ IoThreadFree /\ t \notin Asking
  /\ asking' = [asking EXCEPT ![t] = c]
  /\ UNCHANGED <<vars, stuck, free>>

IoWrites(t) ==
  /\ t \in Asking /\ free[asking[t]] > 0
  /\ asking' = [asking EXCEPT ![t] = Nobody]
  /\ free' = [free EXCEPT ![asking[t]] = @ - 1]
  /\ UNCHANGED <<vars, stuck>>

\* Mutant: the handler does not put the buffer back.
SendDoneKeepsBuffer(t, c) ==
  /\ IoThreadFree /\ t \notin Asking /\ free[c] < Buffers /\ c \notin stuck
  /\ UNCHANGED serverVars

\* A send is over, or has failed, and its handler puts the buffer back.
SendDone(t, c) ==
  /\ IoThreadFree /\ t \notin Asking /\ free[c] < Buffers /\ c \notin stuck
  /\ free' = [free EXCEPT ![c] = @ + 1]
  /\ UNCHANGED <<vars, stuck, asking>>

\* The peer stops to read, or reads again or is gone: then all sends complete or
\* fail.
PeerChanges(c) ==
  /\ stuck' = IF c \in stuck THEN stuck \ {c} ELSE stuck \cup {c}
  /\ UNCHANGED <<vars, free, asking>>

ServerNext ==
  \/ /\ ~crashed
     /\ \/ \E k \in Calls : CallStep(k)
        \/ \E t \in Handlers : ThreadStep(t)
        \/ WithSessions((\E t \in CallbackThreads : CardEvent(t)) \/ Tick)
  \/ \E t \in IoThreads, c \in Clients : IoAsks(t, c) \/ SendDone(t, c)
  \/ \E t \in IoThreads : IoWrites(t)
  \/ \E c \in Clients : PeerChanges(c)

ServerSpec == ServerInit /\ [][ServerNext]_serverVars

\* Some thread of the voice card gets a buffer.
CardWrites ==
  /\ (\E k \in Calls : CallStep(k)) \/ (\E t \in Handlers : ThreadStep(t))
  /\ responses' # responses

(***************************************************************************)
(* Fairness: every thread runs, and if there is a buffer again and again,  *)
(* a thread of the voice card that waits for it is served in the end, not  *)
(* io threads alone. Peers do what they like.                              *)
(***************************************************************************)
ServerFairness ==
  /\ \A k \in Calls : WF_serverVars(~crashed /\ callPc[k] # "new" /\ CallStep(k))
  /\ \A t \in Handlers : WF_serverVars(~crashed /\ ThreadStep(t))
  /\ \A c \in Clients : SF_serverVars(\E t \in IoThreads : SendDone(t, c))
  /\ \A t \in IoThreads : WF_serverVars(IoWrites(t))
  /\ SF_serverVars(~crashed /\ CardWrites)
  /\ WF_serverVars(~crashed /\ WithSessions(Tick))

ServerFairSpec == ServerSpec /\ ServerFairness

\* The peer does not read, and all buffers of its client are on their way to it.
Clogged(c) == c \in stuck /\ free[c] = 0

\* The call waits for its answer.
Pending(k) == callPc[k] \notin {"new", "lost"} /\ responses[k] = <<>>

(***************************************************************************)
(* Every call is answered through the buffers of its client, whoever waits *)
(* for one with a trunk mutex or a retry thread in hand, unless a peer     *)
(* that does not read keeps all of its buffers for good, or all io threads *)
(* wait for a buffer for good: in the end no call is pending.              *)
(***************************************************************************)
AnswersGetOut ==
  \/ <>[](crashed \/ \A k \in Calls : ~Pending(k))
  \/ \E c \in Clients : <>[]Clogged(c)
  \/ <>[]~IoThreadFree
==============================================================================
