----------------------------- MODULE ServerProofs -----------------------------
(***************************************************************************)
(* What the write buffers, the io threads and the retry threads of Server  *)
(* add only delays the controller: its steps are still steps of VoiceCard, *)
(* so everything proved of VoiceCard holds with the sessions attached.     *)
(***************************************************************************)
EXTENDS Server, VoiceCardRefinement

(***************************************************************************)
(* The server runs the controller of VoiceCard: whoever waits in do_write, *)
(* a step of the server is a step of the controller or leaves it alone.    *)
(***************************************************************************)
THEOREM ServerRunsController == ServerSpec => Spec
  <1>1. ServerInit => Init
    BY DEF ServerInit
  <1>2. [ServerNext]_serverVars => [Next]_vars
    <2> SUFFICES ASSUME [ServerNext]_serverVars PROVE [Next]_vars
      OBVIOUS
    <2>1. CASE UNCHANGED serverVars
      BY <2>1 DEF serverVars
    <2>2. ASSUME NEW k \in Calls, ~crashed, CallStep(k) PROVE Next
      BY <2>2 DEF CallStep, WithSessions, Next
    <2>3. ASSUME NEW t \in Handlers, ~crashed, ThreadStep(t) PROVE Next
      BY <2>3 DEF ThreadStep, WithSessions, Next
    <2>4. ASSUME ~crashed, WithSessions((\E t \in CallbackThreads : CardEvent(t)) \/ Tick)
          PROVE  Next
      BY <2>4 DEF WithSessions, Next
    <2>5. ASSUME NEW t \in IoThreads, NEW c \in Clients, IoAsks(t, c) \/ SendDone(t, c)
          PROVE  UNCHANGED vars
      BY <2>5 DEF IoAsks, SendDone
    <2>6. ASSUME NEW t \in IoThreads, IoWrites(t) PROVE UNCHANGED vars
      BY <2>6 DEF IoWrites
    <2>7. ASSUME NEW c \in Clients, PeerChanges(c) PROVE UNCHANGED vars
      BY <2>7 DEF PeerChanges
    <2> QED
      BY <2>1, <2>2, <2>3, <2>4, <2>5, <2>6, <2>7 DEF ServerNext
  <1> QED
    BY <1>1, <1>2, PTL DEF ServerSpec, Spec

(***************************************************************************)
(* With the sessions attached, a call that waits for a buffer in the hands *)
(* of one thread is still not answered by another one, nor is its channel  *)
(* given away.                                                             *)
(***************************************************************************)
THEOREM ServerAnswersOnce == ServerSpec => []CallHasOneAnswer /\ []ChannelHasOnePlace
  BY ServerRunsController, AnsweredOnce, ChannelConservation, PTL

\* A step of the controller leaves the pools as they are, or takes one buffer.
LEMMA StepKeepsPools ==
  ASSUME NEW A, ServerTypeOK, WithSessions(A)
  PROVE  ServerTypeOK'
  <1>1. UNCHANGED <<stuck, asking>>
    BY DEF WithSessions
  <1>2. CASE Answered = {}
    BY <1>1, <1>2 DEF WithSessions, ServerTypeOK
  <1>3. CASE Answered # {}
    <2>1. PICK k \in Calls : DoWrite(k)
      BY <1>3 DEF WithSessions, Answered
    <2>2. Owner[k] \in Clients /\ Buffers \in Nat
      BY ServerAssumption
    <2>3. free' \in [Clients -> 0 .. Buffers]
      BY <2>1, <2>2 DEF DoWrite, ServerTypeOK
    <2> QED
      BY <1>1, <2>3 DEF ServerTypeOK
  <1> QED
    BY <1>2, <1>3

(***************************************************************************)
(* No pool of write buffers ever has more than it began with, or gives one *)
(* away that it does not have.                                             *)
(***************************************************************************)
THEOREM PoolsKeepTheirSize == ServerSpec => []ServerTypeOK
  <1>1. ServerInit => ServerTypeOK
    BY ServerAssumption DEF ServerInit, ServerTypeOK
  <1>2. ServerTypeOK /\ [ServerNext]_serverVars => ServerTypeOK'
    <2> SUFFICES ASSUME ServerTypeOK, [ServerNext]_serverVars PROVE ServerTypeOK'
      OBVIOUS
    <2>0. Buffers \in Nat
      BY ServerAssumption
    <2>1. CASE UNCHANGED serverVars
      BY <2>1 DEF serverVars, sessionVars, ServerTypeOK
    <2>2. ASSUME NEW k \in Calls, CallStep(k) PROVE ServerTypeOK'
      BY <2>2, StepKeepsPools DEF CallStep
    <2>3. ASSUME NEW t \in Handlers, ThreadStep(t) PROVE ServerTypeOK'
      BY <2>3, StepKeepsPools DEF ThreadStep
    <2>4. ASSUME WithSessions((\E t \in CallbackThreads : CardEvent(t)) \/ Tick)
          PROVE  ServerTypeOK'
      BY <2>4, StepKeepsPools
    <2>5. ASSUME NEW t \in IoThreads, NEW c \in Clients, IoAsks(t, c) PROVE ServerTypeOK'
      BY <2>5 DEF IoAsks, ServerTypeOK
    <2>6. ASSUME NEW t \in IoThreads, NEW c \in Clients, SendDone(t, c) PROVE ServerTypeOK'
      BY <2>0, <2>6 DEF SendDone, ServerTypeOK
    <2>7. ASSUME NEW t \in IoThreads, IoWrites(t) PROVE ServerTypeOK'
      <3>1. asking[t] \in Clients
        BY <2>7 DEF IoWrites, Asking, ServerTypeOK
      <3> QED
        BY <2>0, <2>7, <3>1 DEF IoWrites, ServerTypeOK
    <2>8. ASSUME NEW c \in Clients, PeerChanges(c) PROVE ServerTypeOK'
      BY <2>8 DEF PeerChanges, ServerTypeOK
    <2> QED
      BY <2>1, <2>2, <2>3, <2>4, <2>5, <2>6, <2>7, <2>8 DEF ServerNext
  <1> QED
    BY <1>1, <1>2, PTL DEF ServerSpec

(***************************************************************************)
(* With answers that wait for buffers, too, the server implements          *)
(* CallService, and keeps what the service promises its clients.           *)
(***************************************************************************)
THEOREM ServerImplementsService == ServerSpec => ImplementsService /\ []ServicePromises
  BY ServerRunsController, ControllerImplementsService, PromisesKept, PTL
==============================================================================
