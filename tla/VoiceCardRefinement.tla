------------------------- MODULE VoiceCardRefinement -------------------------
(***************************************************************************)
(* VoiceCard implements CallService, for any number of calls, channels and *)
(* threads: each step of the controller is a step of the service or leaves *)
(* the service's state alone.                                              *)
(***************************************************************************)
EXTENDS VoiceCardProofs

\* The state of the service, as VoiceCard maps it.
Submitted == {k \in Calls : callPc[k] # "new"}
Dialled == {k \in Calls : callPc[k] \in {"record", "restart", "handed", "lost"}}
HolderMap == [c \in Channels |-> Holder(c)]
mappedVars == <<Submitted, Dialled, HolderMap, responses>>

\* What the mapping reads of the controller.
readVars == <<client, callPc, callCh, responses>>

\* Call k has channel c: recorded in its trunk, or about to be.
Has(k, c) == client[c] = k \/ Holds(k, c)

HolderIsSound ==
  \A c \in Channels :
    /\ Holder(c) \in Calls \cup {Nobody}
    /\ \A k \in Calls : Holder(c) = k <=> Has(k, c)

\* A channel is never both recorded for one call and taken by another, so the
\* mapping names the one call that has it.
LEMMA HolderNamesTheCall == IndInv => HolderIsSound
  <1> SUFFICES ASSUME IndInv, NEW c \in Channels
               PROVE  /\ Holder(c) \in Calls \cup {Nobody}
                      /\ \A k \in Calls : Holder(c) = k <=> Has(k, c)
    BY DEF HolderIsSound
  <1>1. Nobody \notin Calls
    BY ThreadAssumption
  <1>2. client[c] \in Calls \cup {Nobody}
    BY DEF IndInv, TypeOK
  <1>3. /\ client[c] # Nobody => \A k \in Calls : ~Holds(k, c)
        /\ \A j, k \in Calls : Holds(j, c) /\ Holds(k, c) => j = k
    BY DEF IndInv, ChannelHasOnePlace
  <1>4. CASE client[c] # Nobody
    BY <1>1, <1>2, <1>3, <1>4 DEF Holder, Has
  <1>5. CASE client[c] = Nobody /\ \E k \in Calls : Holds(k, c)
    <2>1. PICK k \in Calls : Holds(k, c)
      BY <1>5
    <2>2. Holder(c) = CHOOSE j \in Calls : Holds(j, c)
      BY <1>5 DEF Holder
    <2>3. Holder(c) \in Calls /\ Holds(Holder(c), c)
      BY <2>1, <2>2
    <2> QED
      BY <1>1, <1>3, <1>5, <2>1, <2>3 DEF Has
  <1>6. CASE client[c] = Nobody /\ ~\E k \in Calls : Holds(k, c)
    BY <1>1, <1>6 DEF Holder, Has
  <1> QED
    BY <1>4, <1>5, <1>6

\* The mapping changes with what it reads of the controller and not otherwise.
LEMMA UnreadStepStutters == UNCHANGED readVars => UNCHANGED mappedVars
  BY DEF readVars, mappedVars, Submitted, Dialled, HolderMap, Holder, Holds

\* The mapping is the same while the same calls have the same channels.
LEMMA HoldersKept ==
  ASSUME HolderIsSound, HolderIsSound',
         \A c \in Channels, k \in Calls : Has(k, c)' <=> Has(k, c)
  PROVE  UNCHANGED HolderMap
  <1>1. \A c \in Channels : Holder(c)' = Holder(c)
    BY ThreadAssumption DEF HolderIsSound
  <1> QED
    BY <1>1 DEF HolderMap

\* Only channel d changes hands.
LEMMA HolderChanged ==
  ASSUME HolderIsSound, HolderIsSound',
         NEW d \in Channels, NEW x \in Calls \cup {Nobody},
         \A c \in Channels \ {d}, k \in Calls : Has(k, c)' <=> Has(k, c),
         \A k \in Calls : Has(k, d)' <=> k = x
  PROVE  HolderMap' = [HolderMap EXCEPT ![d] = x]
  <1>1. \A c \in Channels \ {d} : Holder(c)' = Holder(c)
    BY ThreadAssumption DEF HolderIsSound
  <1>2. Holder(d)' = x
    BY ThreadAssumption DEF HolderIsSound
  <1> QED
    BY <1>1, <1>2 DEF HolderMap

\* Initially no call has a channel or an answer.
LEMMA InitMapped == Init => Service!Init
  <1> SUFFICES ASSUME Init PROVE Service!Init
    OBVIOUS
  <1>1. \A c \in Channels : Holder(c) = Nobody
    BY DEF Init, Holder, Holds
  <1>2. Submitted = {} /\ Dialled = {}
    BY DEF Init, Submitted, Dialled
  <1> QED
    BY <1>1, <1>2 DEF Init, Service!Init, Submitted, Dialled

\* What the guards of the service's actions ask about a call on its way.
LEMMA OnItsWay ==
  ASSUME IndInv, HolderIsSound, NEW k \in Calls, callPc[k] \notin {"new", "handed", "answered"}
  PROVE  /\ k \in Submitted /\ responses[k] = <<>>
         /\ \A c \in Channels : client[c] = k <=> callPc[k] = "restart" /\ callCh[k] = c
  BY DEF IndInv, TrunkRecordsCall, Submitted

\* A step of cti_callout is a step of the service or none: one case per action.
LEMMA CallOutMapped ==
  ASSUME IndInv, HolderIsSound, HolderIsSound', NEW k \in Calls, CallOut(k)
  PROVE  [Service!Next]_mappedVars
  <1> USE DEF queueVars
  <1>0. /\ Nobody \notin Calls
        /\ callPc \in [Calls -> CallPcs] /\ callCh \in [Calls -> Channels]
        /\ client \in [Channels -> Calls \cup {Nobody}]
        /\ responses \in [Calls -> Seq(Statuses)]
    BY ThreadAssumption DEF IndInv, TypeOK
  <1>1. CASE TakeChannel(k)
    <2>1. PICK d \in Channels : d = Head(channelQueue) /\ InQueue(channelQueue, d)
      BY <1>1 DEF TakeChannel, IndInv, TypeOK, InQueue
    <2>2. client[d] = Nobody /\ \A j \in Calls : ~Holds(j, d)
      BY <2>1 DEF IndInv, ChannelHasOnePlace
    <2>3. /\ callPc[k] = "take" /\ callPc' = [callPc EXCEPT ![k] = "dial"]
          /\ callCh' = [callCh EXCEPT ![k] = d] /\ UNCHANGED <<client, responses>>
      BY <1>1, <2>1 DEF TakeChannel, CallGoto, trunkVars
    <2>4. \A c \in Channels : ~Has(k, c)
      BY <2>3, OnItsWay DEF Has, Holds
    <2>5. \A c \in Channels \ {d}, j \in Calls : Has(j, c)' <=> Has(j, c)
      BY <1>0, <2>3, <2>4 DEF Has, Holds
    <2>6. \A j \in Calls : Has(j, d)' <=> j = k
      BY <1>0, <2>2, <2>3 DEF Has, Holds
    <2>7. HolderMap' = [HolderMap EXCEPT ![d] = k]
      BY <2>1, <2>5, <2>6, HolderChanged
    <2>8. HolderMap[d] = Nobody /\ \A c \in Channels : HolderMap[c] # k
      BY <1>0, <2>1, <2>2, <2>4 DEF HolderIsSound, HolderMap, Has
    <2>9. UNCHANGED <<Submitted, Dialled>>
      BY <1>0, <2>3 DEF Submitted, Dialled
    <2>10. Service!Seize(k, d)
      BY <2>3, <2>7, <2>8, <2>9, OnItsWay
      DEF Service!Seize, Service!Unanswered, Service!HasNoChannel, Submitted, Dialled, HolderMap
    <2> QED
      BY <2>1, <2>10 DEF Service!Next
  <1>2. CASE AutoDial(k)
    <2>0. PICK d \in Channels : d = callCh[k]
      BY <1>0
    <2>1. /\ callPc[k] = "dial" /\ callPc' = [callPc EXCEPT ![k] = "record"]
          /\ UNCHANGED <<client, callCh, responses>>
      BY <1>2 DEF AutoDial, CallGoto, trunkVars
    <2>2. \A c \in Channels, j \in Calls : Has(j, c)' <=> Has(j, c)
      BY <1>0, <2>1 DEF Has, Holds
    <2>3. UNCHANGED HolderMap
      BY <2>2, HoldersKept
    <2>4. HolderMap[d] = k
      BY <1>0, <2>0, <2>1 DEF HolderIsSound, HolderMap, Has, Holds
    <2>5. Submitted' = Submitted /\ Dialled' = Dialled \cup {k}
      BY <1>0, <2>1 DEF Submitted, Dialled
    <2>6. Service!Dial(k, d)
      BY <2>1, <2>3, <2>4, <2>5, OnItsWay
      DEF Service!Dial, Service!Unanswered, Submitted, Dialled, HolderMap
    <2> QED
      BY <2>4, <2>6 DEF Service!Next
  <1>3. CASE AutoDialFails(k)
    <2>0. PICK d \in Channels : d = callCh[k]
      BY <1>0
    <2>1. /\ callPc[k] = "dial" /\ UNCHANGED <<client, responses>>
          /\ \E next \in {"again", "failed"} : callPc' = [callPc EXCEPT ![k] = next]
          /\ callCh' = [callCh EXCEPT ![k] = 0]
      BY <1>3 DEF AutoDialFails, CallGoto, trunkVars
    <2>2. Holds(k, d)
      BY <1>0, <2>0, <2>1 DEF Holds
    <2>3. client[d] = Nobody /\ \A j \in Calls : Holds(j, d) => j = k
      BY <1>0, <2>2 DEF IndInv, ChannelHasOnePlace
    <2>4. \A j \in Calls : ~Has(j, d)'
      BY <1>0, <2>0, <2>1, <2>3 DEF Has, Holds
    <2>5. \A c \in Channels \ {d}, j \in Calls : Has(j, c)' <=> Has(j, c)
      BY <1>0, <2>0, <2>1 DEF Has, Holds
    <2>6. HolderMap' = [HolderMap EXCEPT ![d] = Nobody]
      BY <1>0, <2>2, <2>4, <2>5, HolderChanged
    <2>7. HolderMap[d] = k
      BY <2>2 DEF HolderIsSound, HolderMap, Has
    <2>8. k \notin Dialled /\ UNCHANGED <<Submitted, Dialled>>
      BY <1>0, <2>1 DEF Submitted, Dialled
    <2>9. Service!DialRefused(k, d)
      BY <2>1, <2>6, <2>7, <2>8, OnItsWay
      DEF Service!DialRefused, Service!Unanswered, Service!Free, Submitted, Dialled, HolderMap
    <2> QED
      BY <2>2, <2>9 DEF Service!Next
  <1>4. CASE AnswerFailure(k) \/ GiveUp(k)
    <2>1. /\ callPc[k] \in {"again", "failed"} /\ callPc' = [callPc EXCEPT ![k] = "answered"]
          /\ \E a \in {CIA_CALL_TIMEOUT, CIA_CALL_FAIL} : Respond(k, a)
          /\ UNCHANGED <<client, callCh>>
      BY <1>4 DEF AnswerFailure, GiveUp, Finish, CallGoto, trunkVars
    <2>2. \A c \in Channels, j \in Calls : Has(j, c)' <=> Has(j, c)
      BY <1>0, <2>1 DEF Has, Holds
    <2>3. UNCHANGED HolderMap
      BY <2>2, HoldersKept
    <2>4. \A c \in Channels : HolderMap[c] # k
      BY <2>1, OnItsWay DEF HolderIsSound, HolderMap, Has, Holds
    <2>5. UNCHANGED <<Submitted, Dialled>>
      BY <1>0, <2>1 DEF Submitted, Dialled
    <2>6. Service!GiveUp(k)
      BY <2>1, <2>3, <2>4, <2>5, OnItsWay
      DEF Service!GiveUp, Service!Unanswered, Service!HasNoChannel, Service!Answer, Respond,
          Submitted, Dialled, HolderMap
    <2> QED
      BY <2>6 DEF Service!Next
  <1>5. CASE RecordCall(k)
    <2>0. PICK d \in Channels : d = callCh[k]
      BY <1>0
    <2>1. /\ callPc[k] = "record" /\ callPc' = [callPc EXCEPT ![k] = "restart"]
          /\ client' = [client EXCEPT ![d] = k] /\ UNCHANGED <<callCh, responses>>
      BY <1>5, <2>0 DEF RecordCall, CallGoto, FillTrunk
    <2>2. Holds(k, d)
      BY <1>0, <2>0, <2>1 DEF Holds
    <2>3. client[d] = Nobody /\ \A j \in Calls : Holds(j, d) => j = k
      BY <1>0, <2>2 DEF IndInv, ChannelHasOnePlace
    <2>4. \A c \in Channels, j \in Calls : Has(j, c)' <=> Has(j, c)
      BY <1>0, <2>1, <2>2, <2>3 DEF Has, Holds
    <2> QED
      BY <1>0, <2>1, <2>4, HoldersKept DEF mappedVars, Submitted, Dialled
  <1>6. CASE RestartTimer(k) \/ RecordFails(k)
    <2>1. /\ UNCHANGED <<client, callCh, responses>>
          /\ \/ callPc[k] = "restart" /\ callPc' = [callPc EXCEPT ![k] = "handed"]
             \/ callPc[k] = "record" /\ callPc' = [callPc EXCEPT ![k] = "lost"]
      BY <1>6 DEF RestartTimer, RecordFails, Finish, CallGoto, trunkVars
    <2>2. \A c \in Channels, j \in Calls : Has(j, c)' <=> Has(j, c)
      BY <1>0, <2>1 DEF Has, Holds
    <2> QED
      BY <1>0, <2>1, <2>2, HoldersKept DEF mappedVars, Submitted, Dialled
  <1>7. CASE TakeThrows(k) \/ WaitToRetry(k) \/ RetryFires(k)
    <2>1. /\ UNCHANGED <<client, callCh, responses>> /\ callPc[k] \in {"take", "again", "wait"}
          /\ \E next \in {"take", "again", "wait"} : callPc' = [callPc EXCEPT ![k] = next]
      BY <1>7 DEF TakeThrows, WaitToRetry, RetryFires, CallGoto, trunkVars
    <2>2. \A c \in Channels, j \in Calls : Has(j, c)' <=> Has(j, c)
      BY <1>0, <2>1 DEF Has, Holds
    <2> QED
      BY <1>0, <2>1, <2>2, HoldersKept DEF mappedVars, Submitted, Dialled
  <1> QED
    BY <1>1, <1>2, <1>3, <1>4, <1>5, <1>6, <1>7 DEF CallOut

\* cti_hangUp is told a success or a failure, never the status of a request
\* that was given up.
LEMMA FinalStatus ==
  ASSUME TypeOK, NEW t \in Handlers
  PROVE  HangupStatus(t) \in {CIA_CALL_SUCCESS, CIA_CALL_FAIL}
  BY DEF TypeOK, Handlers, HangupStatus

\* The release in cti_hangUp ends the call its trunk records.
LEMMA ReleaseMapped ==
  ASSUME IndInv, HolderIsSound, HolderIsSound', NEW t \in Handlers, HangupRelease(t)
  PROVE  Service!Next
  <1>0. /\ Nobody \notin Calls
        /\ client \in [Channels -> Calls \cup {Nobody}] /\ ch[t] \in Channels
    BY ThreadAssumption DEF IndInv, TypeOK
  <1>1. PICK d \in Channels : d = ch[t]
    BY <1>0
  <1>2. PICK k \in Calls : k = client[d] /\ Respond(k, HangupStatus(t))
    BY <1>0, <1>1 DEF HangupRelease
  <1>3. client' = [client EXCEPT ![d] = Nobody] /\ UNCHANGED <<callPc, callCh>>
    BY <1>1 DEF HangupRelease, ReleaseTrunk, callVars
  <1>4. callPc[k] \in {"restart", "handed"} /\ responses[k] = <<>>
    BY <1>2 DEF IndInv, TrunkRecordsCall
  <1>5. \A j \in Calls : ~Holds(j, d)
    BY <1>0, <1>2 DEF IndInv, ChannelHasOnePlace
  <1>6. \A c \in Channels \ {d}, j \in Calls : Has(j, c)' <=> Has(j, c)
    BY <1>0, <1>3 DEF Has, Holds
  <1>7. \A j \in Calls : ~Has(j, d)'
    BY <1>0, <1>3, <1>5 DEF Has, Holds
  <1>8. HolderMap' = [HolderMap EXCEPT ![d] = Nobody]
    BY <1>0, <1>6, <1>7, HolderChanged
  <1>9. HolderMap[d] = k
    BY <1>2 DEF HolderIsSound, HolderMap, Has
  <1>10. k \in Submitted /\ k \in Dialled /\ UNCHANGED <<Submitted, Dialled>>
    BY <1>3, <1>4 DEF Submitted, Dialled
  <1>11. HangupStatus(t) \in {CIA_CALL_SUCCESS, CIA_CALL_FAIL}
    BY FinalStatus DEF IndInv
  <1>12. Service!HangUp(k, d)
    BY <1>2, <1>4, <1>8, <1>9, <1>10, <1>11
    DEF Service!HangUp, Service!Unanswered, Service!Free, Service!Answer, Respond,
        Submitted, Dialled, HolderMap
  <1> QED
    BY <1>12 DEF Service!Next

\* No other step of a handler thread touches what the mapping reads.
LEMMA HandlerMapped ==
  ASSUME IndInv, HolderIsSound, HolderIsSound', NEW t \in Handlers, HandlerStep(t)
  PROVE  [Service!Next]_mappedVars
  <1> USE DEF readVars, trunkVars, callVars
  <1>1. CASE HangUp(t)
    <2>1. CASE HangupRelease(t)
      BY <2>1, ReleaseMapped
    <2>2. CASE \/ HangupLock(t) \/ HangupBusy(t) \/ HangupRefused(t) \/ HangupCard(t)
               \/ HangupCrash(t) \/ HangupUnlock(t)
      <3>1. UNCHANGED readVars
        BY <2>2 DEF HangupLock, HangupBusy, HangupRefused, HangupCard, HangupCrash, HangupUnlock
      <3> QED
        BY <3>1, UnreadStepStutters
    <2> QED
      BY <1>1, <2>1, <2>2 DEF HangUp
  <1>2. CASE Callback(t)
    <2>1. UNCHANGED readVars
      BY <1>2 DEF Callback, EchoDecide, EchoSleep, EchoBusy, EchoPut
    <2> QED
      BY <2>1, UnreadStepStutters
  <1>3. CASE TimeoutCheck(t)
    <2>1. UNCHANGED readVars
      BY <1>3
      DEF TimeoutCheck, TimeoutScan, TimeoutElapsed, TimeoutHangup, TimeoutSetFlag, TimeoutSkip,
          TimeoutFlagUnlock
    <2> QED
      BY <2>1, UnreadStepStutters
  <1>4. CASE Strategy(t)
    <2>1. UNCHANGED readVars
      BY <1>4 DEF Strategy, StrategyTake, StrategyLock, StrategyWake
    <2> QED
      BY <2>1, UnreadStepStutters
  <1> QED
    BY <1>1, <1>2, <1>3, <1>4 DEF HandlerStep

\* The arrival of a request is its submission.
LEMMA RequestMapped ==
  ASSUME IndInv, HolderIsSound, HolderIsSound', NEW k \in Calls, Request(k)
  PROVE  Service!Next
  <1>1. /\ callPc \in [Calls -> CallPcs] /\ callPc[k] = "new"
        /\ callPc' = [callPc EXCEPT ![k] = "take"] /\ UNCHANGED <<client, callCh, responses>>
    BY DEF Request, CallGoto, trunkVars, IndInv, TypeOK
  <1>2. \A c \in Channels, j \in Calls : Has(j, c)' <=> Has(j, c)
    BY <1>1 DEF Has, Holds
  <1>3. UNCHANGED HolderMap
    BY <1>2, HoldersKept
  <1>4. k \notin Submitted /\ Submitted' = Submitted \cup {k} /\ UNCHANGED Dialled
    BY <1>1 DEF Submitted, Dialled
  <1>5. Service!Submit(k)
    BY <1>1, <1>3, <1>4 DEF Service!Submit, Submitted, Dialled, HolderMap
  <1> QED
    BY <1>5 DEF Service!Next

\* Every step of the controller is a step of the service or none.
LEMMA StepMapped ==
  ASSUME IndInv, HolderIsSound, HolderIsSound', [Next]_vars
  PROVE  [Service!Next]_mappedVars
  <1> USE DEF readVars, trunkVars, callVars
  <1>1. CASE UNCHANGED vars
    BY <1>1, UnreadStepStutters DEF vars
  <1>2. ASSUME NEW k \in Calls, Request(k) PROVE Service!Next
    BY <1>2, RequestMapped
  <1>3. ASSUME NEW k \in Calls, CallOut(k) PROVE [Service!Next]_mappedVars
    BY <1>3, CallOutMapped
  <1>4. ASSUME NEW t \in Handlers, HandlerStep(t) PROVE [Service!Next]_mappedVars
    BY <1>4, HandlerMapped
  <1>5. ASSUME NEW t \in CallbackThreads, CardEvent(t) PROVE UNCHANGED readVars
    BY <1>5 DEF CardEvent, EventEchoTone, EventFinal, EventSilent, CardReports
  <1>6. CASE Tick
    <2>1. UNCHANGED readVars
      BY <1>6 DEF Tick
    <2> QED
      BY <2>1, UnreadStepStutters
  <1> QED
    BY <1>1, <1>2, <1>3, <1>4, <1>5, <1>6, UnreadStepStutters DEF Next

(***************************************************************************)
(* The controller implements the service, however many calls, channels and *)
(* threads there are: behind the mutexes, queues and retries a call seizes *)
(* one free channel at a time and is answered once.                        *)
(***************************************************************************)
THEOREM ControllerImplementsService == Spec => ImplementsService
  <1>1. IndInv /\ IndInv' /\ [Next]_vars => [Service!Next]_mappedVars
    <2> SUFFICES ASSUME IndInv, IndInv', [Next]_vars PROVE [Service!Next]_mappedVars
      OBVIOUS
    <2>1. HolderIsSound
      BY HolderNamesTheCall
    <2>2. IndInv' => HolderIsSound'
      BY HolderNamesTheCall, PTL
    <2> QED
      BY <2>1, <2>2, StepMapped
  <1>2. [Service!Next]_mappedVars => [Service!Next]_(Service!serviceVars)
    BY DEF mappedVars, Submitted, Dialled, HolderMap, Service!serviceVars
  <1> QED
    BY <1>1, <1>2, InitMapped, Consistent, PTL DEF Spec, ImplementsService, Service!Spec

------------------------------------------------------------------------------
(* What CallService promises, carried over                                  *)

Promised == INSTANCE CallServiceProofs WITH
  NoCall    <- Nobody,
  Success   <- CIA_CALL_SUCCESS,
  Fail      <- CIA_CALL_FAIL,
  Timeout   <- CIA_CALL_TIMEOUT,
  submitted <- Submitted,
  dialled   <- Dialled,
  holder    <- HolderMap,
  answers   <- responses

\* The instance is that of ImplementsService.
LEMMA SameService ==
  /\ Service!Init => Promised!Init
  /\ [Service!Next]_mappedVars => [Promised!Next]_(Promised!serviceVars)
  <1>1. Service!Init => Promised!Init
    BY DEF Service!Init, Promised!Init, Submitted, Dialled, HolderMap
  <1>2. Service!Next => Promised!Next
    BY DEF Service!Next, Service!Submit, Service!GiveUp, Service!Seize, Service!Dial,
           Service!DialRefused, Service!HangUp, Service!Unanswered, Service!HasNoChannel,
           Service!Answer, Service!Free,
           Promised!Next, Promised!Submit, Promised!GiveUp, Promised!Seize, Promised!Dial,
           Promised!DialRefused, Promised!HangUp, Promised!Unanswered, Promised!HasNoChannel,
           Promised!Answer, Promised!Free, Submitted, Dialled, HolderMap
  <1>3. UNCHANGED mappedVars => UNCHANGED Promised!serviceVars
    BY DEF mappedVars, Promised!serviceVars
  <1> QED
    BY <1>1, <1>2, <1>3

\* The statuses of cia_def.h are different strings.
LEMMA StatusesDiffer == Promised!ConstantsDiffer
  BY ThreadAssumption
  DEF Promised!ConstantsDiffer, CIA_CALL_SUCCESS, CIA_CALL_FAIL, CIA_CALL_TIMEOUT

(***************************************************************************)
(* The promises of CallService hold in the controller: no call has two     *)
(* channels or one after its answer, 99 is only answered to a call the     *)
(* card accepted and 01 only to one it never got.                          *)
(***************************************************************************)
THEOREM PromisesKept == Spec => []ServicePromises
  <1>1. Spec => Promised!Spec
    <2>1. Spec => Service!Init /\ [][Service!Next]_mappedVars
      BY ControllerImplementsService, PTL
      DEF ImplementsService, Service!Spec, Service!serviceVars, mappedVars, Submitted, Dialled,
          HolderMap
    <2> QED
      BY <2>1, SameService, PTL DEF Promised!Spec
  <1>2. Promised!Spec => []Promised!HoldsAtMostOne /\ []Promised!AnswersAreSound
    BY StatusesDiffer, Promised!OneChannelEach, Promised!SoundAnswers, PTL
  <1>3. Promised!HoldsAtMostOne /\ Promised!AnswersAreSound => ServicePromises
    BY DEF ServicePromises, Promised!HoldsAtMostOne, Promised!AnswersAreSound,
           Promised!HasNoChannel, Service!HoldsAtMostOne, Service!AnswersAreSound,
           Service!HasNoChannel, Submitted, Dialled, HolderMap
  <1> QED
    BY <1>1, <1>2, <1>3, PTL
==============================================================================
