--------------------------- MODULE VoiceCardProofs ---------------------------
(***************************************************************************)
(* Proofs about VoiceCard, for any number of calls, channels and threads   *)
(* and any timer settings.                                                 *)
(***************************************************************************)
EXTENDS VoiceCard, SequenceTheorems, TLAPS

------------------------------------------------------------------------------
(* Types                                                                    *)

\* Initially every variable has its type.
LEMMA InitType == Init => TypeOK
  <1> SUFFICES ASSUME Init PROVE TypeOK
    OBVIOUS
  <1>1. channelQueue \in Seq(Channels)
    <2>1. \A i \in 1 .. NumChannels : i - 1 \in Channels
      BY ChannelAssumption DEF Channels
    <2>2. channelQueue \in [1 .. NumChannels -> Channels]
      BY <2>1 DEF Init
    <2> QED
      BY <2>2, ChannelAssumption, SeqDef
  <1>2. 0 \in Channels
    BY ChannelAssumption DEF Channels
  <1>3. 0 \in 0 .. MaxTime /\ 0 \in 0 .. RetryLimit + 1
    BY TimeAssumption
  <1>4. sleepQueue \in Seq(Channels) /\ \A k \in Calls : responses[k] \in Seq(Statuses)
    BY DEF Init
  <1>5. /\ step \in [Channels -> TrunkStates]
        /\ client \in [Channels -> Calls \cup {Nobody}]
        /\ echoFlag \in [Channels -> BOOLEAN]
        /\ callTime \in [Channels -> 0 .. MaxTime]
        /\ lock \in [Channels -> Calls \cup Handlers \cup {Nobody}]
        /\ card \in [Channels -> CardStates]
    BY <1>3 DEF Init, TrunkStates, CardStates
  <1>6. /\ callPc \in [Calls -> CallPcs]
        /\ callCh \in [Calls -> Channels]
        /\ repeat \in [Calls -> BOOLEAN]
        /\ age \in [Calls -> 0 .. RetryLimit + 1]
        /\ timer \in [Calls -> (0 .. RetryDelay) \cup {NoTimer}]
        /\ responses \in [Calls -> Seq(Statuses)]
    BY <1>2, <1>3, <1>4 DEF Init, CallPcs
  <1>7. /\ pc \in [Handlers -> HandlerPcs]
        /\ ch \in [Handlers -> Channels]
        /\ verdict \in [CallbackThreads -> {CIA_CALL_SUCCESS, CIA_CALL_FAIL}]
        /\ crashed \in BOOLEAN
    BY <1>2 DEF Init, HandlerPcs, Statuses, CIA_CALL_FAIL
  <1> QED
    BY <1>1, <1>4, <1>5, <1>6, <1>7 DEF TypeOK

\* The channels are numbered from 0, and the scan of timeout_check stays among them.
LEMMA ScanStaysInRange ==
  0 \in Channels /\ \A c \in Channels : NextChannel(c) \in Channels
  BY ChannelAssumption DEF Channels, NextChannel

\* The end of a turn leaves the locals of a thread well typed.
LEMMA ReturnType ==
  ASSUME TypeOK, NEW t \in Handlers, Return(t)
  PROVE  /\ pc' \in [Handlers -> HandlerPcs]
         /\ ch' \in [Handlers -> Channels]
         /\ verdict' \in [CallbackThreads -> {CIA_CALL_SUCCESS, CIA_CALL_FAIL}]
  <1>1. pc' \in [Handlers -> HandlerPcs]
    BY DEF TypeOK, Return, Goto, HandlerPcs
  <1>2. ch' \in [Handlers -> Channels]
    BY ScanStaysInRange DEF TypeOK, Return
  <1>3. verdict' \in [CallbackThreads -> {CIA_CALL_SUCCESS, CIA_CALL_FAIL}]
    BY DEF TypeOK, Return, Statuses, CIA_CALL_FAIL
  <1> QED
    BY <1>1, <1>2, <1>3

\* The bounds of the timers are natural numbers.
LEMMA BoundsAreNat ==
  /\ MaxTime \in Nat /\ RetryLimit \in Nat /\ RetryDelay \in Nat
  BY TimeAssumption

\* An activation that answers its request keeps the types.
LEMMA AnswerType ==
  ASSUME TypeOK, NEW k \in Calls, NEW s \in Statuses, Respond(k, s), Finish(k, "answered")
  PROVE  /\ callPc' \in [Calls -> CallPcs]
         /\ repeat' \in [Calls -> BOOLEAN]
         /\ age' \in [Calls -> 0 .. RetryLimit + 1]
         /\ timer' \in [Calls -> (0 .. RetryDelay) \cup {NoTimer}]
         /\ responses' \in [Calls -> Seq(Statuses)]
  <1>1. Append(responses[k], s) \in Seq(Statuses)
    BY DEF TypeOK
  <1>2. responses' \in [Calls -> Seq(Statuses)]
    BY <1>1 DEF TypeOK, Respond
  <1>3. callPc' \in [Calls -> CallPcs] /\ repeat' \in [Calls -> BOOLEAN]
    BY DEF TypeOK, Finish, CallGoto, CallPcs
  <1>4. age' \in [Calls -> 0 .. RetryLimit + 1]
    BY BoundsAreNat DEF TypeOK, Finish
  <1>5. timer' \in [Calls -> (0 .. RetryDelay) \cup {NoTimer}]
    BY DEF TypeOK, Finish
  <1> QED
    BY <1>2, <1>3, <1>4, <1>5

\* The steps of a cti_callout activation keep the types.
LEMMA CallOutType ==
  ASSUME TypeOK, NEW k \in Calls, Request(k) \/ CallOut(k)
  PROVE  TypeOK'
  <1> USE DEF trunkVars, queueVars, callVars, threadVars
  <1>1. CASE Request(k)
    BY <1>1 DEF TypeOK, Request, CallGoto, CallPcs
  <1>2. CASE TakeChannel(k)
    <2>1. Head(channelQueue) \in Channels /\ Tail(channelQueue) \in Seq(Channels)
      BY <1>2 DEF TypeOK, TakeChannel
    <2> QED
      BY <1>2, <2>1 DEF TypeOK, TakeChannel, CallGoto, CallPcs
  <1>3. CASE TakeThrows(k)
    BY <1>3 DEF TypeOK, TakeThrows, CallGoto, CallPcs
  <1>4. CASE AutoDial(k)
    BY <1>4 DEF TypeOK, AutoDial, CallGoto, CallPcs, CardStates
  <1>5. CASE AutoDialFails(k)
    <2>1. Append(channelQueue, callCh[k]) \in Seq(Channels)
      BY DEF TypeOK
    <2>2. channelQueue' \in Seq(Channels) /\ callCh' \in [Calls -> Channels]
      BY <1>5, <2>1, ScanStaysInRange DEF TypeOK, AutoDialFails, PutChannel
    <2> QED
      BY <1>5, <2>2 DEF TypeOK, AutoDialFails, PutChannel, CallGoto, CallPcs
  <1>6. CASE RecordCall(k)
    <2>1. \A flag \in EchoToneFlags : flag \in BOOLEAN
      BY FlagAssumption
    <2> QED
      BY <1>6, <2>1 DEF TypeOK, RecordCall, FillTrunk, TryLock, CallGoto, CallPcs, TrunkStates
  <1>7. CASE RestartTimer(k)
    BY <1>7, BoundsAreNat DEF TypeOK, RestartTimer, Unlock, Finish, CallGoto, CallPcs
  <1>8. CASE RecordFails(k)
    BY <1>8, BoundsAreNat DEF TypeOK, RecordFails, LockBusy, Finish, CallGoto, CallPcs
  <1>9. CASE RetryFires(k)
    BY <1>9 DEF TypeOK, RetryFires, CallGoto, CallPcs
  <1>10. CASE AnswerFailure(k) \/ GiveUp(k)
    <2>1. PICK s \in Statuses : Respond(k, s) /\ Finish(k, "answered")
      BY <1>10 DEF AnswerFailure, GiveUp, Statuses
    <2>2. UNCHANGED <<trunkVars, queueVars, lock, callCh, threadVars, card, crashed>>
      BY <1>10 DEF AnswerFailure, GiveUp
    <2> QED
      BY <2>1, <2>2, AnswerType DEF TypeOK
  <1>11. CASE WaitToRetry(k)
    BY <1>11, BoundsAreNat DEF TypeOK, WaitToRetry, CallGoto, CallPcs
  <1> QED
    BY <1>1, <1>2, <1>3, <1>4, <1>5, <1>6, <1>7, <1>8, <1>9, <1>10, <1>11 DEF CallOut

\* The steps of cti_hangUp keep the types.
LEMMA HangUpType ==
  ASSUME TypeOK, NEW t \in Handlers, HangUp(t)
  PROVE  TypeOK'
  <1> USE DEF trunkVars, queueVars, callVars, threadVars
  <1>1. CASE HangupLock(t)
    BY <1>1 DEF TypeOK, HangupLock, TryLock, Goto, HandlerPcs
  <1>2. CASE HangupBusy(t)
    BY <1>2, ReturnType DEF TypeOK, HangupBusy, LockBusy
  <1>3. CASE HangupRefused(t)
    BY <1>3, ReturnType DEF TypeOK, HangupRefused, Unlock
  <1>4. CASE HangupCard(t)
    BY <1>4 DEF TypeOK, HangupCard, Goto, HandlerPcs, CardStates
  <1>5. CASE HangupRelease(t)
    <2> DEFINE c == ch[t]
    <2>1. c \in Channels /\ client[c] \in Calls
      BY <1>5 DEF TypeOK, HangupRelease, ReleaseTrunk, PutChannel
    <2>2. HangupStatus(t) \in Statuses
      BY DEF HangupStatus, TypeOK, Statuses, Handlers
    <2>3. Append(responses[client[c]], HangupStatus(t)) \in Seq(Statuses)
      BY <2>1, <2>2 DEF TypeOK
    <2>4. Append(channelQueue, c) \in Seq(Channels)
      BY <2>1 DEF TypeOK
    <2> QED
      BY <1>5, <2>1, <2>3, <2>4, BoundsAreNat, SMTT(60)
      DEF TypeOK, HangupRelease, ReleaseTrunk, PutChannel, Respond, Goto, HandlerPcs, TrunkStates
  <1>6. CASE HangupCrash(t)
    BY <1>6 DEF TypeOK, HangupCrash
  <1>7. CASE HangupUnlock(t)
    BY <1>7, ReturnType DEF TypeOK, HangupUnlock, Unlock
  <1> QED
    BY <1>1, <1>2, <1>3, <1>4, <1>5, <1>6, <1>7 DEF HangUp

\* The steps of the card driver's threads, and its events, keep the types.
LEMMA CallbackType ==
  ASSUME TypeOK, NEW t \in CallbackThreads, Callback(t) \/ CardEvent(t)
  PROVE  TypeOK'
  <1> USE DEF trunkVars, queueVars, callVars, threadVars
  <1>0. t \in Handlers
    BY DEF Handlers
  <1>1. CASE EchoDecide(t)
    BY <1>0, <1>1 DEF TypeOK, EchoDecide, Goto, HandlerPcs
  <1>2. CASE EchoSleep(t)
    BY <1>0, <1>2 DEF TypeOK, EchoSleep, TryLock, Goto, HandlerPcs, TrunkStates
  <1>3. CASE EchoBusy(t)
    BY <1>0, <1>3 DEF TypeOK, EchoBusy, LockBusy, Goto, HandlerPcs
  <1>4. CASE EchoPut(t)
    <2>1. Append(sleepQueue, ch[t]) \in Seq(Channels)
      BY <1>0 DEF TypeOK
    <2>2. lock' \in [Channels -> Calls \cup Handlers \cup {Nobody}]
      BY <1>4 DEF TypeOK, EchoPut, Unlock
    <2> QED
      BY <1>0, <1>4, <2>1, <2>2, ReturnType DEF TypeOK, EchoPut
  <1>5. CASE CardEvent(t)
    <2> SUFFICES ASSUME NEW c \in Channels,
                        EventEchoTone(t, c) \/ EventFinal(t, c) \/ EventSilent(t, c)
                 PROVE  TypeOK'
      BY <1>5 DEF CardEvent
    <2>1. \A event \in DOMAIN FinalVerdict :
            FinalVerdict[event] \in {CIA_CALL_SUCCESS, CIA_CALL_FAIL}
      BY DEF FinalVerdict
    <2>2. CASE EventEchoTone(t, c)
      BY <1>0, <2>2 DEF TypeOK, EventEchoTone, CardReports, Goto, HandlerPcs, CardStates
    <2>3. CASE EventFinal(t, c)
      BY <1>0, <2>1, <2>3 DEF TypeOK, EventFinal, CardReports, Goto, HandlerPcs, CardStates
    <2>4. CASE EventSilent(t, c)
      BY <2>4 DEF TypeOK, EventSilent, CardStates
    <2> QED
      BY <2>2, <2>3, <2>4
  <1> QED
    BY <1>1, <1>2, <1>3, <1>4, <1>5 DEF Callback

\* The steps of timeout_check keep the types.
LEMMA TimeoutType ==
  ASSUME TypeOK, TimeoutCheck(TimeoutThread)
  PROVE  TypeOK'
  <1> USE DEF trunkVars, queueVars, callVars, threadVars
  <1> DEFINE t == TimeoutThread
  <1>0. t \in Handlers
    BY DEF Handlers
  <1>1. CASE TimeoutScan(t)
    BY <1>0, <1>1, ReturnType DEF TypeOK, TimeoutScan, Goto, HandlerPcs
  <1>2. CASE TimeoutElapsed(t)
    BY <1>0, <1>2, ReturnType DEF TypeOK, TimeoutElapsed, Goto, HandlerPcs
  <1>3. CASE TimeoutHangup(t)
    BY <1>0, <1>3 DEF TypeOK, TimeoutHangup, Goto, HandlerPcs
  <1>4. CASE TimeoutSetFlag(t)
    BY <1>0, <1>4 DEF TypeOK, TimeoutSetFlag, TryLock, Goto, HandlerPcs
  <1>5. CASE TimeoutSkip(t)
    BY <1>0, <1>5, ReturnType DEF TypeOK, TimeoutSkip, LockBusy
  <1>6. CASE TimeoutFlagUnlock(t)
    BY <1>0, <1>6 DEF TypeOK, TimeoutFlagUnlock, Unlock, Goto, HandlerPcs
  <1> QED
    BY <1>1, <1>2, <1>3, <1>4, <1>5, <1>6 DEF TimeoutCheck

\* The steps of deal_hungup_strategy keep the types.
LEMMA StrategyType ==
  ASSUME TypeOK, NEW t \in StrategyThreads, Strategy(t)
  PROVE  TypeOK'
  <1> USE DEF trunkVars, queueVars, callVars, threadVars
  <1>0. t \in Handlers
    BY DEF Handlers
  <1>1. CASE StrategyTake(t)
    <2>1. Head(sleepQueue) \in Channels /\ Tail(sleepQueue) \in Seq(Channels)
      BY <1>1 DEF TypeOK, StrategyTake
    <2> QED
      BY <1>0, <1>1, <2>1 DEF TypeOK, StrategyTake, Goto, HandlerPcs
  <1>2. CASE StrategyLock(t)
    BY <1>0, <1>2 DEF TypeOK, StrategyLock, TryLock, Goto, HandlerPcs
  <1>3. CASE StrategyWake(t)
    BY <1>0, <1>3 DEF TypeOK, StrategyWake, Unlock, Goto, HandlerPcs, TrunkStates
  <1> QED
    BY <1>1, <1>2, <1>3 DEF Strategy

\* A tick keeps the timers within their bounds.
LEMMA TickType == TypeOK /\ Tick => TypeOK'
  BY BoundsAreNat, SMTT(60)
  DEF TypeOK, Tick, NoTimer, trunkVars, queueVars, threadVars, CallPcs

\* Every step keeps the types.
LEMMA NextType == TypeOK /\ [Next]_vars => TypeOK'
  <1> SUFFICES ASSUME TypeOK, [Next]_vars PROVE TypeOK'
    OBVIOUS
  <1>1. CASE UNCHANGED vars
    BY <1>1 DEF TypeOK, vars, trunkVars, queueVars, callVars, threadVars
  <1>2. ASSUME NEW k \in Calls, Request(k) \/ CallOut(k) PROVE TypeOK'
    BY <1>2, CallOutType
  <1>3. ASSUME NEW t \in Handlers, HandlerStep(t) PROVE TypeOK'
    BY <1>3, HangUpType, CallbackType, TimeoutType, StrategyType DEF HandlerStep
  <1>4. ASSUME NEW t \in CallbackThreads, CardEvent(t) PROVE TypeOK'
    BY <1>4, CallbackType
  <1>5. CASE Tick
    BY <1>5, TickType
  <1> QED
    BY <1>1, <1>2, <1>3, <1>4, <1>5 DEF Next

(***************************************************************************)
(* Type correctness: the queues hold channel numbers, the scan of          *)
(* timeout_check stays in range and every status written is one of the     *)
(* three of cia_def.h.                                                     *)
(***************************************************************************)
THEOREM TypeCorrect == Spec => []TypeOK
  BY InitType, NextType, PTL DEF Spec

------------------------------------------------------------------------------
(* Queues of channels                                                       *)

\* After an Append the queue holds the old members and the new one.
LEMMA AppendMembers ==
  ASSUME NEW S, NEW q \in Seq(S), NEW d \in S
  PROVE  /\ \A c : InQueue(Append(q, d), c) <=> InQueue(q, c) \/ c = d
         /\ NoRepeats(q) /\ ~InQueue(q, d) => NoRepeats(Append(q, d))
  <1>1. /\ Len(q) \in Nat
        /\ Len(Append(q, d)) = Len(q) + 1
        /\ \A i \in 1 .. Len(q) : Append(q, d)[i] = q[i]
        /\ Append(q, d)[Len(q) + 1] = d
    OBVIOUS
  <1>2. \A c : InQueue(Append(q, d), c) <=> InQueue(q, c) \/ c = d
    <2> TAKE c
    <2>1. ASSUME InQueue(Append(q, d), c) PROVE InQueue(q, c) \/ c = d
      <3>1. PICK i \in 1 .. Len(q) + 1 : Append(q, d)[i] = c
        BY <1>1, <2>1 DEF InQueue
      <3>2. i \in 1 .. Len(q) \/ i = Len(q) + 1
        BY <1>1
      <3> QED
        BY <1>1, <3>1, <3>2 DEF InQueue
    <2>2. ASSUME InQueue(q, c) PROVE InQueue(Append(q, d), c)
      <3>1. PICK i \in 1 .. Len(q) : q[i] = c
        BY <2>2 DEF InQueue
      <3>2. i \in 1 .. Len(Append(q, d)) /\ Append(q, d)[i] = c
        BY <1>1, <3>1
      <3> QED
        BY <3>2 DEF InQueue
    <2>3. ASSUME c = d PROVE InQueue(Append(q, d), c)
      <3>1. Len(q) + 1 \in 1 .. Len(Append(q, d))
        BY <1>1
      <3> QED
        BY <1>1, <2>3, <3>1 DEF InQueue
    <2> QED
      BY <2>1, <2>2, <2>3
  <1>3. ASSUME NoRepeats(q), ~InQueue(q, d) PROVE NoRepeats(Append(q, d))
    <2> SUFFICES ASSUME NEW i \in 1 .. Len(q) + 1, NEW j \in 1 .. Len(q) + 1,
                        Append(q, d)[i] = Append(q, d)[j]
                 PROVE  i = j
      BY <1>1 DEF NoRepeats
    <2>1. (i \in 1 .. Len(q) \/ i = Len(q) + 1) /\ (j \in 1 .. Len(q) \/ j = Len(q) + 1)
      BY <1>1
    <2> QED
      BY <1>1, <1>3, <2>1 DEF NoRepeats, InQueue
  <1> QED
    BY <1>2, <1>3

\* A queue holds its head and the members of its tail.
LEMMA TailMembers ==
  ASSUME NEW S, NEW q \in Seq(S), q # <<>>
  PROVE  /\ \A c : InQueue(q, c) <=> InQueue(Tail(q), c) \/ c = Head(q)
         /\ NoRepeats(q) => NoRepeats(Tail(q)) /\ ~InQueue(Tail(q), Head(q))
  <1>1. /\ Len(q) \in Nat \ {0}
        /\ Head(q) = q[1]
        /\ Len(Tail(q)) = Len(q) - 1
        /\ \A i \in 1 .. Len(q) - 1 : Tail(q)[i] = q[i + 1]
    BY HeadTailProperties, EmptySeq
  <1>2. \A c : InQueue(q, c) <=> InQueue(Tail(q), c) \/ c = Head(q)
    <2> TAKE c
    <2>1. ASSUME InQueue(q, c) PROVE InQueue(Tail(q), c) \/ c = Head(q)
      <3>1. PICK i \in 1 .. Len(q) : q[i] = c
        BY <2>1 DEF InQueue
      <3>2. CASE i = 1
        BY <1>1, <3>1, <3>2
      <3>3. CASE i # 1
        <4>1. i - 1 \in 1 .. Len(Tail(q)) /\ Tail(q)[i - 1] = q[i]
          BY <1>1, <3>3
        <4> QED
          BY <3>1, <4>1 DEF InQueue
      <3> QED
        BY <3>2, <3>3
    <2>2. ASSUME InQueue(Tail(q), c) PROVE InQueue(q, c)
      <3>1. PICK i \in 1 .. Len(Tail(q)) : Tail(q)[i] = c
        BY <2>2 DEF InQueue
      <3>2. i + 1 \in 1 .. Len(q) /\ q[i + 1] = c
        BY <1>1, <3>1
      <3> QED
        BY <3>2 DEF InQueue
    <2>3. ASSUME c = Head(q) PROVE InQueue(q, c)
      <3>1. 1 \in 1 .. Len(q)
        BY <1>1
      <3> QED
        BY <1>1, <2>3, <3>1 DEF InQueue
    <2> QED
      BY <2>1, <2>2, <2>3
  <1>3. ASSUME NoRepeats(q) PROVE NoRepeats(Tail(q)) /\ ~InQueue(Tail(q), Head(q))
    <2>1. \A i \in 1 .. Len(Tail(q)) :
            i + 1 \in 1 .. Len(q) /\ Tail(q)[i] = q[i + 1] /\ i + 1 # 1
      BY <1>1
    <2>2. NoRepeats(Tail(q))
      <3> SUFFICES ASSUME NEW i \in 1 .. Len(Tail(q)), NEW j \in 1 .. Len(Tail(q)),
                          Tail(q)[i] = Tail(q)[j]
                   PROVE  i = j
        BY DEF NoRepeats
      <3>1. i + 1 = j + 1
        BY <1>3, <2>1 DEF NoRepeats
      <3> QED
        BY <1>1, <3>1
    <2>3. ~InQueue(Tail(q), Head(q))
      <3>1. 1 \in 1 .. Len(q)
        BY <1>1
      <3> QED
        BY <1>1, <1>3, <2>1, <3>1 DEF NoRepeats, InQueue
    <2> QED
      BY <2>2, <2>3
  <1> QED
    BY <1>2, <1>3

------------------------------------------------------------------------------
(* The trunk mutexes                                                        *)

\* A thread that gets a trunk mutex is the one that holds it from then on.
LEMMA HandlerTakesMutex ==
  ASSUME TypeOK, MutexDiscipline, NEW t \in Handlers, NEW to \in LockedPcs,
         pc[t] \notin LockedPcs, TryLock(t, ch[t]), Goto(t, to),
         UNCHANGED <<ch, callPc, callCh>>
  PROVE  MutexDiscipline'
  BY ThreadAssumption DEF TypeOK, MutexDiscipline, HoldsMutex, TryLock, Goto

\* A thread that lets its trunk mutex go holds none, wherever it goes on.
LEMMA HandlerFreesMutex ==
  ASSUME TypeOK, MutexDiscipline, NEW t \in Handlers, NEW to, NEW c,
         pc[t] \in LockedPcs, Unlock(ch[t]), to \notin LockedPcs, Goto(t, to),
         ch' = [ch EXCEPT ![t] = c],
         UNCHANGED <<callPc, callCh>>
  PROVE  MutexDiscipline'
  BY ThreadAssumption DEF TypeOK, MutexDiscipline, HoldsMutex, Unlock, Goto

\* A thread that works on with its trunk mutex keeps it.
LEMMA HandlerKeepsMutex ==
  ASSUME TypeOK, MutexDiscipline, NEW t \in Handlers, NEW to \in LockedPcs,
         pc[t] \in LockedPcs, Goto(t, to), UNCHANGED <<lock, ch, callPc, callCh>>
  PROVE  MutexDiscipline'
  BY ThreadAssumption DEF TypeOK, MutexDiscipline, HoldsMutex, Goto

\* A thread without a trunk mutex that does without one holds none.
LEMMA HandlerWithoutMutex ==
  ASSUME TypeOK, MutexDiscipline, NEW t \in Handlers, NEW to, NEW c,
         pc[t] \notin LockedPcs, to \notin LockedPcs, Goto(t, to),
         ch' = [ch EXCEPT ![t] = c],
         UNCHANGED <<lock, callPc, callCh>>
  PROVE  MutexDiscipline'
  BY ThreadAssumption DEF TypeOK, MutexDiscipline, HoldsMutex, Goto

\* A cti_callout activation that neither is at nor gets to RestartTimer holds
\* no trunk mutex.
LEMMA CallWithoutMutex ==
  ASSUME TypeOK, MutexDiscipline, NEW k \in Calls,
         callPc[k] # "restart", callPc'[k] # "restart",
         \A j \in Calls \ {k} : callPc'[j] = callPc[j] /\ callCh'[j] = callCh[j],
         UNCHANGED <<lock, pc, ch>>
  PROVE  MutexDiscipline'
  <1> SUFFICES ASSUME NEW c \in Channels, NEW p \in Calls \cup Handlers
               PROVE  HoldsMutex(p, c)' <=> HoldsMutex(p, c)
    BY DEF MutexDiscipline
  <1>1. CASE p \in Handlers
    BY <1>1, ThreadAssumption DEF HoldsMutex
  <1>2. CASE p = k
    BY <1>2, ThreadAssumption DEF HoldsMutex
  <1>3. CASE p \in Calls \ {k}
    <2>1. callPc'[p] = callPc[p] /\ callCh'[p] = callCh[p] /\ p \notin Handlers
      BY <1>3, ThreadAssumption
    <2> QED
      BY <1>3, <2>1 DEF HoldsMutex
  <1> QED
    BY <1>1, <1>2, <1>3

\* No two owners share a trunk mutex.
LEMMA MutexExcludes ==
  ASSUME MutexDiscipline, NEW c \in Channels,
         NEW p \in Calls \cup Handlers, NEW q \in Calls \cup Handlers,
         HoldsMutex(p, c), HoldsMutex(q, c)
  PROVE  p = q
  BY DEF MutexDiscipline

\* What a thread does when its turn is over, seen from the mutexes.
LEMMA ReturnGoesOn ==
  ASSUME NEW t \in Handlers, Return(t)
  PROVE  \E to, c : /\ to \in {"scan", "idle"}
                    /\ Goto(t, to)
                    /\ ch' = [ch EXCEPT ![t] = c]
  <1>1. CASE t = TimeoutThread
    BY <1>1 DEF Return
  <1>2. CASE t # TimeoutThread
    BY <1>2 DEF Return
  <1> QED
    BY <1>1, <1>2

\* A thread that ends its turn without having had the mutex.
LEMMA ReturnWithoutMutex ==
  ASSUME TypeOK, MutexDiscipline, NEW t \in Handlers, Return(t), pc[t] \notin LockedPcs,
         UNCHANGED <<lock, callPc, callCh>>
  PROVE  MutexDiscipline'
  <1>1. PICK to, c : to \in {"scan", "idle"} /\ Goto(t, to) /\ ch' = [ch EXCEPT ![t] = c]
    BY ReturnGoesOn
  <1>2. to \notin LockedPcs
    BY <1>1 DEF LockedPcs
  <1> QED
    BY <1>1, <1>2, HandlerWithoutMutex

\* A thread that ends its turn and lets the mutex go.
LEMMA ReturnFreesMutex ==
  ASSUME TypeOK, MutexDiscipline, NEW t \in Handlers, Return(t), pc[t] \in LockedPcs,
         Unlock(ch[t]), UNCHANGED <<callPc, callCh>>
  PROVE  MutexDiscipline'
  <1>1. PICK to, c : to \in {"scan", "idle"} /\ Goto(t, to) /\ ch' = [ch EXCEPT ![t] = c]
    BY ReturnGoesOn
  <1>2. to \notin LockedPcs
    BY <1>1 DEF LockedPcs
  <1> QED
    BY <1>1, <1>2, HandlerFreesMutex

------------------------------------------------------------------------------
(* The inductive invariant                                                  *)

\* It holds once the constructor is done.
LEMMA InitInvariant == Init => IndInv
  <1> SUFFICES ASSUME Init PROVE IndInv
    OBVIOUS
  <1>1. TypeOK
    BY InitType
  <1>2. MutexDiscipline
    BY ThreadAssumption DEF Init, MutexDiscipline, HoldsMutex, LockedPcs
  <1>3. TrunkRecordsCall /\ GuardsStillHold /\ CallHasOneAnswer
    BY ThreadAssumption DEF Init, TrunkRecordsCall, GuardsStillHold, CallHasOneAnswer
  <1>4. Len(channelQueue) = NumChannels /\ \A i \in 1 .. NumChannels : channelQueue[i] = i - 1
    BY ChannelAssumption DEF Init
  <1>5. NoRepeats(channelQueue)
    BY <1>4, ChannelAssumption DEF NoRepeats
  <1>6. \A c \in Channels : InQueue(channelQueue, c)
    <2> TAKE c \in Channels
    <2>1. c + 1 \in 1 .. NumChannels /\ (c + 1) - 1 = c
      BY ChannelAssumption DEF Channels
    <2> QED
      BY <1>4, <2>1 DEF InQueue
  <1>7. ChannelHasOnePlace
    BY <1>5, <1>6 DEF Init, ChannelHasOnePlace, Holds
  <1> QED
    BY <1>1, <1>2, <1>3, <1>7 DEF IndInv

\* Steps that leave the pool, the trunks' calls and the activations alone.
LEMMA BookkeepingKept ==
  ASSUME IndInv, UNCHANGED <<channelQueue, client, callPc, callCh, responses>>
  PROVE  TrunkRecordsCall' /\ ChannelHasOnePlace' /\ CallHasOneAnswer'
  BY DEF IndInv, TrunkRecordsCall, ChannelHasOnePlace, CallHasOneAnswer, Holds

\* Steps of one thread that change no trunk's step and do not pass the guards
\* of cti_hangUp.
LEMMA GuardsKept ==
  ASSUME TypeOK, GuardsStillHold, NEW t \in Handlers, NEW to, to # "write", Goto(t, to),
         NEW c, ch' = [ch EXCEPT ![t] = c] \/ ch' = ch,
         UNCHANGED step
  PROVE  GuardsStillHold'
  BY DEF TypeOK, GuardsStillHold, Goto

\* A turn that ends changes no trunk's step.
LEMMA ReturnKeepsGuards ==
  ASSUME TypeOK, GuardsStillHold, NEW t \in Handlers, Return(t), UNCHANGED step
  PROVE  GuardsStillHold'
  <1>1. PICK to, c : to \in {"scan", "idle"} /\ Goto(t, to) /\ ch' = [ch EXCEPT ![t] = c]
    BY ReturnGoesOn
  <1> QED
    BY <1>1, GuardsKept

\* The owner of a trunk mutex is the only one that may be writing.
LEMMA WriterOwnsTrunk ==
  ASSUME TypeOK, MutexDiscipline, NEW t \in Handlers, pc[t] = "write"
  PROVE  lock[ch[t]] = t
  BY DEF TypeOK, MutexDiscipline, HoldsMutex, LockedPcs

\* A step that changes the step of the trunk of c only, while nobody else
\* writes to that trunk.
LEMMA OthersGuardsKept ==
  ASSUME TypeOK, MutexDiscipline, GuardsStillHold, NEW c \in Channels,
         NEW v, step' = [step EXCEPT ![c] = v],
         \A t \in Handlers : pc'[t] = "write" => lock[c] # t /\ pc[t] = "write" /\ ch'[t] = ch[t]
  PROVE  GuardsStillHold'
  <1> SUFFICES ASSUME NEW t \in Handlers, pc'[t] = "write"
               PROVE  step'[ch'[t]] \notin {"TRK_IDLE", "TRK_SLEEP"}
    BY DEF GuardsStillHold
  <1>1. lock[c] # t /\ pc[t] = "write" /\ ch'[t] = ch[t]
    OBVIOUS
  <1>2. lock[ch[t]] = t /\ ch[t] \in Channels
    BY <1>1, WriterOwnsTrunk DEF TypeOK
  <1>3. ch[t] # c
    BY <1>1, <1>2
  <1> QED
    BY <1>1, <1>2, <1>3 DEF TypeOK, GuardsStillHold

\* An unanswered activation without a trunk is answered: once.
LEMMA ActivationAnswered ==
  ASSUME TypeOK, TrunkRecordsCall, CallHasOneAnswer, NEW k \in Calls, NEW s \in Statuses,
         callPc[k] \in {"failed", "again"}, CallGoto(k, "answered"), Respond(k, s),
         \A j \in Calls \ {k} : callCh'[j] = callCh[j], UNCHANGED client
  PROVE  TrunkRecordsCall' /\ CallHasOneAnswer'
  <1>1. responses[k] = <<>> /\ \A c \in Channels : client[c] # k
    BY DEF TrunkRecordsCall
  <1>2. responses'[k] = Append(<<>>, s) /\ Len(Append(<<>>, s)) = 1
    BY <1>1 DEF TypeOK, Respond
  <1>3. /\ callPc'[k] = "answered"
        /\ \A j \in Calls \ {k} : /\ callPc'[j] = callPc[j]
                                  /\ callCh'[j] = callCh[j]
                                  /\ responses'[j] = responses[j]
    BY DEF TypeOK, CallGoto, Respond
  <1>4. TrunkRecordsCall'
    <2> SUFFICES ASSUME NEW j \in Calls
                 PROVE  /\ \A c \in Channels :
                             client'[c] = j <=> /\ callPc'[j] \in {"restart", "handed"}
                                                /\ callCh'[j] = c
                                                /\ responses'[j] = <<>>
                        /\ callPc'[j] \notin {"handed", "answered"} => responses'[j] = <<>>
      BY DEF TrunkRecordsCall
    <2>1. CASE j = k
      BY <1>1, <1>3, <2>1
    <2>2. CASE j # k
      BY <1>3, <2>2 DEF TrunkRecordsCall
    <2> QED
      BY <2>1, <2>2
  <1>5. CallHasOneAnswer'
    <2>0. Len(responses'[k]) = 1
      BY <1>2
    <2> SUFFICES ASSUME NEW j \in Calls
                 PROVE  /\ Len(responses'[j]) <= 1
                        /\ callPc'[j] = "answered" => Len(responses'[j]) = 1
                        /\ callPc'[j] = "handed"
                             => (client'[callCh'[j]] = j <=> Len(responses'[j]) = 0)
      BY DEF CallHasOneAnswer
    <2>1. CASE j = k
      <3>1. Len(responses'[j]) = 1 /\ callPc'[j] = "answered"
        BY <1>3, <2>0, <2>1
      <3> QED
        BY <3>1
    <2>2. CASE j # k
      BY <1>3, <2>2 DEF CallHasOneAnswer
    <2> QED
      BY <2>1, <2>2
  <1> QED
    BY <1>4, <1>5

\* An activation that moves on before its trunk records it.
LEMMA ActivationGoesOn ==
  ASSUME TypeOK, TrunkRecordsCall, CallHasOneAnswer, NEW k \in Calls,
         NEW to \in CallPcs \ {"restart", "handed", "answered"},
         callPc[k] \notin {"restart", "handed", "answered"}, CallGoto(k, to),
         \A j \in Calls \ {k} : callCh'[j] = callCh[j], UNCHANGED <<client, responses>>
  PROVE  TrunkRecordsCall' /\ CallHasOneAnswer'
  <1>1. /\ callPc'[k] = to
        /\ \A j \in Calls \ {k} : callPc'[j] = callPc[j] /\ callCh'[j] = callCh[j]
    BY DEF TypeOK, CallGoto
  <1>2. responses[k] = <<>> /\ \A c \in Channels : client[c] # k
    BY DEF TrunkRecordsCall
  <1>3. TrunkRecordsCall'
    <2> SUFFICES ASSUME NEW j \in Calls
                 PROVE  /\ \A c \in Channels :
                             client'[c] = j <=> /\ callPc'[j] \in {"restart", "handed"}
                                                /\ callCh'[j] = c
                                                /\ responses'[j] = <<>>
                        /\ callPc'[j] \notin {"handed", "answered"} => responses'[j] = <<>>
      BY DEF TrunkRecordsCall
    <2>1. CASE j = k
      BY <1>1, <1>2, <2>1
    <2>2. CASE j # k
      BY <1>1, <2>2 DEF TrunkRecordsCall
    <2> QED
      BY <2>1, <2>2
  <1>4. CallHasOneAnswer'
    BY <1>1 DEF CallHasOneAnswer
  <1> QED
    BY <1>3, <1>4

\* The steps of a cti_callout activation preserve the invariant.
LEMMA CallOutInvariant ==
  ASSUME IndInv, TypeOK', NEW k \in Calls, Request(k) \/ CallOut(k)
  PROVE  IndInv'
  <1> USE DEF trunkVars, queueVars, callVars, threadVars
  <1>0. /\ TypeOK /\ MutexDiscipline /\ TrunkRecordsCall /\ GuardsStillHold
        /\ ChannelHasOnePlace /\ CallHasOneAnswer
    BY DEF IndInv
  <1>00. /\ {"take", "dial", "again", "failed", "record", "wait", "lost"} \subseteq CallPcs
         /\ CIA_CALL_TIMEOUT \in Statuses /\ CIA_CALL_FAIL \in Statuses
    BY DEF CallPcs, Statuses
  <1>1. CASE \/ Request(k) \/ TakeThrows(k) \/ WaitToRetry(k) \/ RetryFires(k)
             \/ AutoDial(k) \/ RecordFails(k)
    <2>1. PICK to \in {"take", "again", "wait", "record", "lost"} :
            /\ CallGoto(k, to)
            /\ callPc[k] \in {"new", "take", "again", "wait", "dial", "record"}
            /\ callPc[k] \in {"dial", "record"} <=> to \in {"record", "lost"}
            /\ UNCHANGED <<trunkVars, queueVars, lock, callCh, threadVars, responses>>
      BY <1>1 DEF Request, TakeThrows, WaitToRetry, RetryFires, AutoDial, RecordFails, LockBusy,
                  Finish, CallGoto
    <2>2. callPc'[k] = to /\ \A j \in Calls \ {k} : callPc'[j] = callPc[j]
      BY <1>0, <2>1 DEF TypeOK, CallGoto
    <2>3. MutexDiscipline'
      BY <1>0, <2>1, <2>2, CallWithoutMutex
    <2>4. TrunkRecordsCall' /\ CallHasOneAnswer'
      BY <1>0, <1>00, <2>1, ActivationGoesOn
    <2>5. GuardsStillHold'
      BY <1>0, <2>1 DEF GuardsStillHold
    <2>6. \A j \in Calls, c \in Channels : Holds(j, c)' <=> Holds(j, c)
      BY <2>1, <2>2 DEF Holds
    <2>7. ChannelHasOnePlace'
      BY <1>0, <2>1, <2>6 DEF ChannelHasOnePlace
    <2> QED
      BY <2>3, <2>4, <2>5, <2>7 DEF IndInv
  <1>2. CASE TakeChannel(k)
    <2> DEFINE d == Head(channelQueue)
    <2>1. /\ d \in Channels
          /\ callPc[k] = "take" /\ callPc'[k] = "dial" /\ callCh'[k] = d
          /\ \A j \in Calls \ {k} : callPc'[j] = callPc[j] /\ callCh'[j] = callCh[j]
      BY <1>0, <1>2 DEF TypeOK, TakeChannel, CallGoto
    <2>2. MutexDiscipline'
      BY <1>0, <1>2, <2>1, CallWithoutMutex DEF TakeChannel
    <2>3. TrunkRecordsCall' /\ CallHasOneAnswer'
      BY <1>0, <1>00, <1>2, <2>1, ActivationGoesOn DEF TakeChannel
    <2>4. GuardsStillHold'
      BY <1>0, <1>2 DEF GuardsStillHold, TakeChannel
    <2>5. /\ channelQueue # <<>> /\ channelQueue' = Tail(channelQueue)
          /\ NoRepeats(channelQueue')
          /\ \A c \in Channels : InQueue(channelQueue', c) <=> InQueue(channelQueue, c) /\ c # d
          /\ InQueue(channelQueue, d)
      BY <1>0, <1>2, TailMembers DEF TypeOK, TakeChannel, ChannelHasOnePlace
    <2>6. \A j \in Calls, c \in Channels :
            Holds(j, c)' <=> (IF j = k THEN c = d ELSE Holds(j, c))
      BY <2>1 DEF Holds
    <2>7. \A c \in Channels : ~Holds(k, c)
      BY <2>1 DEF Holds
    <2>8. client' = client
      BY <1>2 DEF TakeChannel
    <2>9. ChannelHasOnePlace'
      <3>1. client[d] = Nobody /\ \A j \in Calls : ~Holds(j, d)
        BY <1>0, <2>1, <2>5 DEF ChannelHasOnePlace
      <3> SUFFICES ASSUME NEW c \in Channels
                   PROVE  /\ \/ InQueue(channelQueue', c) \/ client'[c] # Nobody
                             \/ \E j \in Calls : Holds(j, c)'
                          /\ InQueue(channelQueue', c) =>
                               client'[c] = Nobody /\ \A j \in Calls : ~Holds(j, c)'
                          /\ client'[c] # Nobody => \A j \in Calls : ~Holds(j, c)'
                          /\ \A i, j \in Calls : Holds(i, c)' /\ Holds(j, c)' => i = j
        BY <2>5 DEF ChannelHasOnePlace
      <3>2. CASE c = d
        BY <2>5, <2>6, <2>8, <3>1, <3>2
      <3>3. CASE c # d
        <4>1. \A j \in Calls : Holds(j, c)' <=> Holds(j, c)
          BY <2>6, <2>7, <3>3
        <4> QED
          BY <1>0, <2>5, <2>8, <3>3, <4>1 DEF ChannelHasOnePlace
      <3> QED
        BY <3>2, <3>3
    <2> QED
      BY <2>2, <2>3, <2>4, <2>9 DEF IndInv
  <1>3. CASE AnswerFailure(k) \/ GiveUp(k)
    <2>1. PICK s \in Statuses :
            /\ Respond(k, s) /\ CallGoto(k, "answered")
            /\ callPc[k] \in {"failed", "again"}
            /\ UNCHANGED <<trunkVars, queueVars, lock, callCh, threadVars>>
      BY <1>00, <1>3 DEF AnswerFailure, GiveUp, Finish
    <2>2. callPc'[k] = "answered" /\ \A j \in Calls \ {k} : callPc'[j] = callPc[j]
      BY <1>0, <2>1 DEF TypeOK, CallGoto
    <2>3. MutexDiscipline'
      BY <1>0, <2>1, <2>2, CallWithoutMutex
    <2>4. TrunkRecordsCall' /\ CallHasOneAnswer'
      BY <1>0, <2>1, ActivationAnswered
    <2>5. GuardsStillHold'
      BY <1>0, <2>1 DEF GuardsStillHold
    <2>6. \A j \in Calls, c \in Channels : Holds(j, c)' <=> Holds(j, c)
      BY <2>1, <2>2 DEF Holds
    <2>7. ChannelHasOnePlace'
      BY <1>0, <2>1, <2>6 DEF ChannelHasOnePlace
    <2> QED
      BY <2>3, <2>4, <2>5, <2>7 DEF IndInv
  <1>4. CASE AutoDialFails(k)
    <2> DEFINE d == callCh[k]
    <2>1. /\ callPc[k] = "dial" /\ callPc'[k] \in {"again", "failed"} /\ d \in Channels
          /\ \A j \in Calls \ {k} : callPc'[j] = callPc[j] /\ callCh'[j] = callCh[j]
          /\ UNCHANGED <<trunkVars, sleepQueue, lock, threadVars, responses>>
      BY <1>0, <1>4 DEF TypeOK, AutoDialFails, PutChannel, CallGoto
    <2>2. MutexDiscipline'
      BY <1>0, <2>1, CallWithoutMutex
    <2>3. TrunkRecordsCall' /\ CallHasOneAnswer'
      <3>1. PICK to \in {"again", "failed"} : CallGoto(k, to)
        BY <1>4 DEF AutoDialFails
      <3> QED
        BY <1>0, <1>00, <2>1, <3>1, ActivationGoesOn
    <2>4. GuardsStillHold'
      BY <1>0, <2>1 DEF GuardsStillHold
    <2>5. Holds(k, d) /\ ~InQueue(channelQueue, d) /\ client[d] = Nobody
      BY <1>0, <2>1 DEF Holds, ChannelHasOnePlace
    <2>6. /\ NoRepeats(channelQueue')
          /\ \A c \in Channels : InQueue(channelQueue', c) <=> InQueue(channelQueue, c) \/ c = d
      BY <1>0, <1>4, <2>1, <2>5, AppendMembers DEF TypeOK, AutoDialFails, PutChannel,
      ChannelHasOnePlace
    <2>7. \A j \in Calls, c \in Channels : Holds(j, c)' <=> Holds(j, c) /\ j # k
      BY <2>1 DEF Holds
    <2>8. \A c \in Channels : Holds(k, c) => c = d
      BY DEF Holds
    <2>9. ChannelHasOnePlace'
      <3> SUFFICES ASSUME NEW c \in Channels
                   PROVE  /\ \/ InQueue(channelQueue', c) \/ client'[c] # Nobody
                             \/ \E j \in Calls : Holds(j, c)'
                          /\ InQueue(channelQueue', c) =>
                               client'[c] = Nobody /\ \A j \in Calls : ~Holds(j, c)'
                          /\ client'[c] # Nobody => \A j \in Calls : ~Holds(j, c)'
                          /\ \A i, j \in Calls : Holds(i, c)' /\ Holds(j, c)' => i = j
        BY <2>6 DEF ChannelHasOnePlace
      <3>1. CASE c = d
        BY <1>0, <2>1, <2>5, <2>6, <2>7, <3>1 DEF ChannelHasOnePlace
      <3>2. CASE c # d
        <4>1. \A j \in Calls : Holds(j, c)' <=> Holds(j, c)
          BY <2>7, <2>8, <3>2
        <4> QED
          BY <1>0, <2>1, <2>6, <3>2, <4>1 DEF ChannelHasOnePlace
      <3> QED
        BY <3>1, <3>2
    <2> QED
      BY <2>2, <2>3, <2>4, <2>9 DEF IndInv
  <1>5. CASE RecordCall(k)
    <2> DEFINE d == callCh[k]
    <2>1. /\ callPc[k] = "record" /\ callPc'[k] = "restart" /\ d \in Channels
          /\ lock[d] = Nobody /\ lock' = [lock EXCEPT ![d] = k]
          /\ client' = [client EXCEPT ![d] = k]
          /\ step' = [step EXCEPT ![d] = "TRK_CALLOUT_DAIL"]
          /\ \A j \in Calls \ {k} : callPc'[j] = callPc[j]
          /\ UNCHANGED <<queueVars, callCh, threadVars, responses>>
      BY <1>0, <1>5 DEF TypeOK, RecordCall, FillTrunk, TryLock, CallGoto
    <2>2. MutexDiscipline'
      <3> SUFFICES ASSUME NEW c \in Channels, NEW p \in Calls \cup Handlers
                   PROVE  lock'[c] = p <=> HoldsMutex(p, c)'
        BY DEF MutexDiscipline
      <3>1. lock[c] = p <=> HoldsMutex(p, c)
        BY <1>0 DEF MutexDiscipline
      <3>2. p # Nobody
        BY ThreadAssumption
      <3>3. CASE p = k
        BY <1>0, <2>1, <3>1, <3>3, ThreadAssumption DEF HoldsMutex, TypeOK
      <3>4. CASE p # k
        <4>1. HoldsMutex(p, c)' <=> HoldsMutex(p, c)
          BY <2>1, <3>4 DEF HoldsMutex
        <4> QED
          BY <1>0, <2>1, <3>1, <3>2, <3>4, <4>1 DEF TypeOK
      <3> QED
        BY <3>3, <3>4
    <2>3. GuardsStillHold'
      <3>1. \A t \in Handlers :
              pc'[t] = "write" => lock[d] # t /\ pc[t] = "write" /\ ch'[t] = ch[t]
        BY <2>1, ThreadAssumption
      <3>2. lock[d] = Nobody /\ step' = [step EXCEPT ![d] = "TRK_CALLOUT_DAIL"] /\ d \in Channels
        BY <2>1
      <3> QED
        BY <1>0, <3>1, <3>2, OthersGuardsKept
    <2>4. client[d] = Nobody /\ Holds(k, d) /\ ~InQueue(channelQueue, d)
      BY <1>0, <2>1 DEF Holds, ChannelHasOnePlace
    <2>5. responses[k] = <<>> /\ \A c \in Channels : client[c] # k
      BY <1>0, <2>1 DEF TrunkRecordsCall
    <2>6. TrunkRecordsCall'
      <3> SUFFICES ASSUME NEW j \in Calls
                   PROVE  /\ \A c \in Channels :
                               client'[c] = j <=> /\ callPc'[j] \in {"restart", "handed"}
                                                  /\ callCh'[j] = c
                                                  /\ responses'[j] = <<>>
                          /\ callPc'[j] \notin {"handed", "answered"} => responses'[j] = <<>>
        BY DEF TrunkRecordsCall
      <3>1. CASE j = k
        BY <1>0, <2>1, <2>5, <3>1 DEF TypeOK
      <3>2. CASE j # k
        <4>1. \A c \in Channels : client'[c] = j <=> client[c] = j
          BY <1>0, <2>1, <2>4, <3>2, ThreadAssumption DEF TypeOK
        <4> QED
          BY <1>0, <2>1, <3>2, <4>1 DEF TrunkRecordsCall
      <3> QED
        BY <3>1, <3>2
    <2>7. CallHasOneAnswer'
      <3> SUFFICES ASSUME NEW j \in Calls
                   PROVE  /\ Len(responses'[j]) <= 1
                          /\ callPc'[j] = "answered" => Len(responses'[j]) = 1
                          /\ callPc'[j] = "handed"
                               => (client'[callCh'[j]] = j <=> Len(responses'[j]) = 0)
        BY DEF CallHasOneAnswer
      <3>1. CASE j = k
        BY <1>0, <2>1, <3>1 DEF CallHasOneAnswer
      <3>2. CASE j # k
        <4>1. client'[callCh[j]] = j <=> client[callCh[j]] = j
          BY <1>0, <2>1, <2>4, <3>2, ThreadAssumption DEF TypeOK
        <4> QED
          BY <1>0, <2>1, <3>2, <4>1 DEF CallHasOneAnswer
      <3> QED
        BY <3>1, <3>2
    <2>8. \A j \in Calls, c \in Channels : Holds(j, c)' <=> Holds(j, c) /\ j # k
      BY <2>1 DEF Holds
    <2>9. \A c \in Channels : Holds(k, c) => c = d
      BY DEF Holds
    <2>10. ChannelHasOnePlace'
      <3> SUFFICES ASSUME NEW c \in Channels
                   PROVE  /\ \/ InQueue(channelQueue', c) \/ client'[c] # Nobody
                             \/ \E j \in Calls : Holds(j, c)'
                          /\ InQueue(channelQueue', c) =>
                               client'[c] = Nobody /\ \A j \in Calls : ~Holds(j, c)'
                          /\ client'[c] # Nobody => \A j \in Calls : ~Holds(j, c)'
                          /\ \A i, j \in Calls : Holds(i, c)' /\ Holds(j, c)' => i = j
        BY <1>0, <2>1 DEF ChannelHasOnePlace
      <3>1. CASE c = d
        <4>1. client'[d] = k /\ k # Nobody
          BY <1>0, <2>1, ThreadAssumption DEF TypeOK
        <4>2. \A j \in Calls : ~Holds(j, d)'
          BY <1>0, <2>1, <2>4, <2>8 DEF ChannelHasOnePlace
        <4> QED
          BY <2>1, <2>4, <3>1, <4>1, <4>2
      <3>2. CASE c # d
        <4>1. \A j \in Calls : Holds(j, c)' <=> Holds(j, c)
          BY <2>8, <2>9, <3>2
        <4>2. client'[c] = client[c] /\ channelQueue' = channelQueue
          BY <1>0, <2>1, <3>2 DEF TypeOK
        <4> QED
          BY <1>0, <4>1, <4>2 DEF ChannelHasOnePlace
      <3> QED
        BY <3>1, <3>2
    <2> QED
      BY <2>2, <2>3, <2>6, <2>7, <2>10 DEF IndInv
  <1>6. CASE RestartTimer(k)
    <2> DEFINE d == callCh[k]
    <2>1. /\ callPc[k] = "restart" /\ callPc'[k] = "handed" /\ d \in Channels
          /\ lock' = [lock EXCEPT ![d] = Nobody]
          /\ \A j \in Calls \ {k} : callPc'[j] = callPc[j]
          /\ UNCHANGED <<step, client, queueVars, callCh, threadVars, responses>>
      BY <1>0, <1>6 DEF TypeOK, RestartTimer, Unlock, Finish, CallGoto
    <2>2. lock[d] = k
      BY <1>0, <2>1 DEF MutexDiscipline, HoldsMutex
    <2>3. MutexDiscipline'
      <3> SUFFICES ASSUME NEW c \in Channels, NEW p \in Calls \cup Handlers
                   PROVE  lock'[c] = p <=> HoldsMutex(p, c)'
        BY DEF MutexDiscipline
      <3>1. lock[c] = p <=> HoldsMutex(p, c)
        BY <1>0 DEF MutexDiscipline
      <3>2. p # Nobody
        BY ThreadAssumption
      <3>3. CASE p = k
        BY <1>0, <2>1, <2>2, <3>1, <3>2, <3>3, ThreadAssumption DEF HoldsMutex, TypeOK
      <3>4. CASE p # k
        <4>1. HoldsMutex(p, c)' <=> HoldsMutex(p, c)
          BY <2>1, <3>4 DEF HoldsMutex
        <4> QED
          BY <1>0, <2>1, <2>2, <3>1, <3>2, <3>4, <4>1 DEF TypeOK
      <3> QED
        BY <3>3, <3>4
    <2>4. GuardsStillHold'
      BY <1>0, <2>1 DEF GuardsStillHold
    <2>5. TrunkRecordsCall'
      BY <1>0, <2>1 DEF TrunkRecordsCall
    <2>6. CallHasOneAnswer'
      <3>1. client[d] = k /\ responses[k] = <<>>
        BY <1>0, <2>1 DEF TrunkRecordsCall
      <3> QED
        BY <1>0, <2>1, <3>1 DEF CallHasOneAnswer
    <2>7. \A j \in Calls, c \in Channels : Holds(j, c)' <=> Holds(j, c)
      BY <2>1 DEF Holds
    <2>8. ChannelHasOnePlace'
      BY <1>0, <2>1, <2>7 DEF ChannelHasOnePlace
    <2> QED
      BY <2>3, <2>4, <2>5, <2>6, <2>8 DEF IndInv
  <1> QED
    BY <1>1, <1>2, <1>3, <1>4, <1>5, <1>6 DEF CallOut

\* cti_hangUp answers a call and frees its channel.
LEMMA ReleaseInvariant ==
  ASSUME IndInv, TypeOK', NEW t \in Handlers, HangupRelease(t)
  PROVE  IndInv'
  <1> USE DEF trunkVars, queueVars, callVars, threadVars
  <1> DEFINE d == ch[t]
             k == client[d]
  <1>0. /\ TypeOK /\ MutexDiscipline /\ TrunkRecordsCall /\ GuardsStillHold
        /\ ChannelHasOnePlace /\ CallHasOneAnswer
    BY DEF IndInv
  <1>1. /\ pc[t] = "write" /\ d \in Channels /\ k \in Calls
        /\ client' = [client EXCEPT ![d] = Nobody]
        /\ step' = [step EXCEPT ![d] = "TRK_IDLE"]
        /\ channelQueue' = Append(channelQueue, d)
        /\ responses' = [responses EXCEPT ![k] = Append(@, HangupStatus(t))]
        /\ Goto(t, "unlock")
        /\ UNCHANGED <<lock, callPc, callCh, ch>>
    BY <1>0 DEF TypeOK, HangupRelease, ReleaseTrunk, PutChannel, Respond
  <1>2. lock[d] = t
    BY <1>0, <1>1, WriterOwnsTrunk
  <1>3. callPc[k] = "handed" /\ callCh[k] = d /\ responses[k] = <<>>
    <2>1. callPc[k] \in {"restart", "handed"} /\ callCh[k] = d /\ responses[k] = <<>>
      BY <1>0, <1>1 DEF TrunkRecordsCall
    <2>2. ASSUME callPc[k] = "restart" PROVE FALSE
      <3>1. HoldsMutex(k, d)
        BY <1>1, <2>1, <2>2 DEF HoldsMutex
      <3>2. lock[d] = k
        BY <1>0, <1>1, <3>1 DEF MutexDiscipline
      <3> QED
        BY <1>1, <1>2, <3>2, ThreadAssumption
    <2> QED
      BY <2>1, <2>2
  <1>4. \A c \in Channels : client[c] = k <=> c = d
    BY <1>0, <1>1, <1>3 DEF TrunkRecordsCall
  <1>5. MutexDiscipline'
    <2>1. "write" \in LockedPcs /\ "unlock" \in LockedPcs
      BY DEF LockedPcs
    <2> QED
      BY <1>0, <1>1, <2>1, HandlerKeepsMutex
  <1>6. GuardsStillHold'
    <2>1. \A u \in Handlers :
            pc'[u] = "write" => lock[d] # u /\ pc[u] = "write" /\ ch'[u] = ch[u]
      BY <1>0, <1>1, <1>2 DEF TypeOK, Goto
    <2> QED
      BY <1>0, <1>1, <2>1, OthersGuardsKept
  <1>7. responses'[k] # <<>> /\ Len(responses'[k]) = 1
    <2>1. responses'[k] = Append(<<>>, HangupStatus(t))
      BY <1>0, <1>1, <1>3 DEF TypeOK
    <2> QED
      BY <2>1
  <1>8. \A j \in Calls \ {k} : responses'[j] = responses[j]
    BY <1>0, <1>1 DEF TypeOK
  <1>9. \A c \in Channels : client'[c] = IF c = d THEN Nobody ELSE client[c]
    BY <1>0, <1>1 DEF TypeOK
  <1>10. TrunkRecordsCall'
    <2> SUFFICES ASSUME NEW j \in Calls
                 PROVE  /\ \A c \in Channels :
                             client'[c] = j <=> /\ callPc'[j] \in {"restart", "handed"}
                                                /\ callCh'[j] = c
                                                /\ responses'[j] = <<>>
                        /\ callPc'[j] \notin {"handed", "answered"} => responses'[j] = <<>>
      BY DEF TrunkRecordsCall
    <2>1. CASE j = k
      BY <1>1, <1>3, <1>4, <1>7, <1>9, <2>1, ThreadAssumption
    <2>2. CASE j # k
      <3>1. \A c \in Channels : client'[c] = j <=> client[c] = j
        BY <1>9, <2>2, ThreadAssumption
      <3> QED
        BY <1>0, <1>1, <1>8, <2>2, <3>1 DEF TrunkRecordsCall
    <2> QED
      BY <2>1, <2>2
  <1>11. CallHasOneAnswer'
    <2> SUFFICES ASSUME NEW j \in Calls
                 PROVE  /\ Len(responses'[j]) <= 1
                        /\ callPc'[j] = "answered" => Len(responses'[j]) = 1
                        /\ callPc'[j] = "handed"
                             => (client'[callCh'[j]] = j <=> Len(responses'[j]) = 0)
      BY DEF CallHasOneAnswer
    <2>1. CASE j = k
      <3>1. client'[callCh'[j]] = Nobody /\ callPc'[j] = "handed" /\ j # Nobody
        BY <1>1, <1>3, <1>9, <2>1, ThreadAssumption
      <3>2. Len(responses'[j]) = 1
        BY <1>7, <2>1
      <3> QED
        BY <3>1, <3>2
    <2>2. CASE j # k
      <3>1. callCh[j] \in Channels
        BY <1>0 DEF TypeOK
      <3>2. client'[callCh[j]] = j <=> client[callCh[j]] = j
        BY <1>9, <2>2, <3>1, ThreadAssumption
      <3> QED
        BY <1>0, <1>1, <1>8, <2>2, <3>2 DEF CallHasOneAnswer
    <2> QED
      BY <2>1, <2>2
  <1>12. ChannelHasOnePlace'
    <2>1. ~InQueue(channelQueue, d) /\ \A j \in Calls : ~Holds(j, d)
      BY <1>0, <1>1, ThreadAssumption DEF ChannelHasOnePlace
    <2>2. /\ NoRepeats(channelQueue')
          /\ \A c \in Channels : InQueue(channelQueue', c) <=> InQueue(channelQueue, c) \/ c = d
      BY <1>0, <1>1, <2>1, AppendMembers DEF TypeOK, ChannelHasOnePlace
    <2>3. \A j \in Calls, c \in Channels : Holds(j, c)' <=> Holds(j, c)
      BY <1>1 DEF Holds
    <2> QED
      BY <1>0, <1>9, <2>1, <2>2, <2>3 DEF ChannelHasOnePlace
  <1> QED
    BY <1>5, <1>6, <1>10, <1>11, <1>12 DEF IndInv

\* The steps of cti_hangUp preserve the invariant.
LEMMA HangUpInvariant ==
  ASSUME IndInv, TypeOK', NEW t \in Handlers, HangUp(t)
  PROVE  IndInv'
  <1> USE DEF trunkVars, queueVars, callVars, threadVars
  <1>0. TypeOK /\ MutexDiscipline /\ GuardsStillHold
    BY DEF IndInv
  <1>00. /\ {"check", "write", "unlock"} \subseteq LockedPcs
         /\ "hangup" \notin LockedPcs
    BY DEF LockedPcs
  <1>1. CASE HangupLock(t)
    <2>1. MutexDiscipline'
      BY <1>0, <1>00, <1>1, HandlerTakesMutex DEF HangupLock
    <2>2. GuardsStillHold'
      BY <1>0, <1>1, GuardsKept DEF HangupLock
    <2> QED
      BY <1>1, <2>1, <2>2, BookkeepingKept DEF IndInv, HangupLock
  <1>2. CASE HangupBusy(t)
    <2>1. MutexDiscipline'
      BY <1>0, <1>00, <1>2, ReturnWithoutMutex DEF HangupBusy, LockBusy
    <2>2. GuardsStillHold'
      BY <1>0, <1>2, ReturnKeepsGuards DEF HangupBusy
    <2> QED
      BY <1>2, <2>1, <2>2, BookkeepingKept DEF IndInv, HangupBusy
  <1>3. CASE HangupRefused(t)
    <2>1. MutexDiscipline'
      BY <1>0, <1>00, <1>3, ReturnFreesMutex DEF HangupRefused
    <2>2. GuardsStillHold'
      BY <1>0, <1>3, ReturnKeepsGuards DEF HangupRefused
    <2> QED
      BY <1>3, <2>1, <2>2, BookkeepingKept DEF IndInv, HangupRefused
  <1>4. CASE HangupCard(t)
    <2>1. MutexDiscipline'
      BY <1>0, <1>00, <1>4, HandlerKeepsMutex DEF HangupCard
    <2>2. GuardsStillHold'
      BY <1>0, <1>4 DEF TypeOK, GuardsStillHold, HangupCard, MayHangup, Goto
    <2> QED
      BY <1>4, <2>1, <2>2, BookkeepingKept DEF IndInv, HangupCard
  <1>5. CASE HangupRelease(t)
    BY <1>5, ReleaseInvariant
  <1>6. CASE HangupCrash(t)
    <2>1. MutexDiscipline' /\ GuardsStillHold'
      BY <1>0, <1>6 DEF HangupCrash, MutexDiscipline, HoldsMutex, GuardsStillHold
    <2> QED
      BY <1>6, <2>1, BookkeepingKept DEF IndInv, HangupCrash
  <1>7. CASE HangupUnlock(t)
    <2>1. MutexDiscipline'
      BY <1>0, <1>00, <1>7, ReturnFreesMutex DEF HangupUnlock
    <2>2. GuardsStillHold'
      BY <1>0, <1>7, ReturnKeepsGuards DEF HangupUnlock
    <2> QED
      BY <1>7, <2>1, <2>2, BookkeepingKept DEF IndInv, HangupUnlock
  <1> QED
    BY <1>1, <1>2, <1>3, <1>4, <1>5, <1>6, <1>7 DEF HangUp

\* The steps of the card driver's threads preserve the invariant.
LEMMA CallbackInvariant ==
  ASSUME IndInv, TypeOK', NEW t \in CallbackThreads, Callback(t) \/ CardEvent(t)
  PROVE  IndInv'
  <1> USE DEF trunkVars, queueVars, callVars, threadVars
  <1>0. TypeOK /\ MutexDiscipline /\ GuardsStillHold /\ t \in Handlers
    BY DEF IndInv, Handlers
  <1>00. /\ "put" \in LockedPcs
         /\ {"idle", "echo", "echoLock", "putBare", "hangup"} \cap LockedPcs = {}
    BY DEF LockedPcs
  <1>1. CASE EchoDecide(t)
    <2>1. PICK to \in {"echoLock", "hangup"} : Goto(t, to)
      BY <1>1 DEF EchoDecide
    <2>2. ch' = [ch EXCEPT ![t] = ch[t]]
      BY <1>0, <1>1 DEF TypeOK, EchoDecide
    <2>3. MutexDiscipline'
      BY <1>0, <1>00, <1>1, <2>1, <2>2, HandlerWithoutMutex DEF EchoDecide
    <2>4. GuardsStillHold'
      BY <1>0, <1>1, <2>1, <2>2, GuardsKept DEF EchoDecide
    <2> QED
      BY <1>1, <2>3, <2>4, BookkeepingKept DEF IndInv, EchoDecide
  <1>2. CASE EchoSleep(t)
    <2>1. MutexDiscipline'
      BY <1>0, <1>00, <1>2, HandlerTakesMutex DEF EchoSleep
    <2>2. /\ ch[t] \in Channels /\ lock[ch[t]] = Nobody
          /\ step' = [step EXCEPT ![ch[t]] = "TRK_SLEEP"]
      BY <1>0, <1>2 DEF TypeOK, EchoSleep, TryLock
    <2>3. \A u \in Handlers :
            pc'[u] = "write" => lock[ch[t]] # u /\ pc[u] = "write" /\ ch'[u] = ch[u]
      BY <1>0, <1>2, <2>2, ThreadAssumption DEF TypeOK, EchoSleep, Goto
    <2>4. GuardsStillHold'
      BY <1>0, <2>2, <2>3, OthersGuardsKept
    <2> QED
      BY <1>2, <2>1, <2>4, BookkeepingKept DEF IndInv, EchoSleep
  <1>3. CASE EchoBusy(t)
    <2>1. ch' = [ch EXCEPT ![t] = ch[t]]
      BY <1>0, <1>3 DEF TypeOK, EchoBusy
    <2>2. MutexDiscipline'
      BY <1>0, <1>00, <1>3, <2>1, HandlerWithoutMutex DEF EchoBusy, LockBusy
    <2>3. GuardsStillHold'
      BY <1>0, <1>3, <2>1, GuardsKept DEF EchoBusy
    <2> QED
      BY <1>3, <2>2, <2>3, BookkeepingKept DEF IndInv, EchoBusy
  <1>4. CASE EchoPut(t)
    <2>0. /\ \/ pc[t] = "put" /\ Unlock(ch[t])
             \/ pc[t] = "putBare" /\ UNCHANGED lock
          /\ Return(t)
          /\ UNCHANGED <<callPc, callCh>>
      BY <1>4 DEF EchoPut
    <2>1. ASSUME pc[t] = "put", Unlock(ch[t]) PROVE MutexDiscipline'
      BY <1>0, <1>00, <2>0, <2>1, ReturnFreesMutex
    <2>2. ASSUME pc[t] = "putBare", UNCHANGED lock PROVE MutexDiscipline'
      <3>1. pc[t] \notin LockedPcs
        BY <2>2 DEF LockedPcs
      <3> QED
        BY <1>0, <2>0, <2>2, <3>1, ReturnWithoutMutex
    <2>3. MutexDiscipline'
      BY <2>0, <2>1, <2>2
    <2>4. GuardsStillHold'
      BY <1>0, <1>4, ReturnKeepsGuards DEF EchoPut
    <2> QED
      BY <1>4, <2>3, <2>4, BookkeepingKept DEF IndInv, EchoPut
  <1>5. CASE CardEvent(t)
    <2> SUFFICES ASSUME NEW c \in Channels,
                        EventEchoTone(t, c) \/ EventFinal(t, c) \/ EventSilent(t, c)
                 PROVE  IndInv'
      BY <1>5 DEF CardEvent
    <2>1. CASE EventSilent(t, c)
      <3>1. MutexDiscipline' /\ GuardsStillHold'
        BY <1>0, <2>1 DEF EventSilent, MutexDiscipline, HoldsMutex, GuardsStillHold
      <3> QED
        BY <2>1, <3>1, BookkeepingKept DEF IndInv, EventSilent
    <2>2. CASE EventEchoTone(t, c) \/ EventFinal(t, c)
      <3>1. PICK to \in {"echo", "hangup"} :
              /\ pc[t] = "idle" /\ Goto(t, to) /\ ch' = [ch EXCEPT ![t] = c]
              /\ UNCHANGED <<trunkVars, queueVars, lock, callVars, responses>>
        BY <2>2 DEF EventEchoTone, EventFinal, CardReports
      <3>2. MutexDiscipline'
        BY <1>0, <1>00, <3>1, HandlerWithoutMutex
      <3>3. GuardsStillHold'
        BY <1>0, <3>1, GuardsKept
      <3> QED
        BY <3>1, <3>2, <3>3, BookkeepingKept DEF IndInv
    <2> QED
      BY <2>1, <2>2
  <1> QED
    BY <1>1, <1>2, <1>3, <1>4, <1>5 DEF Callback

\* The steps of timeout_check preserve the invariant.
LEMMA TimeoutInvariant ==
  ASSUME IndInv, TypeOK', TimeoutCheck(TimeoutThread)
  PROVE  IndInv'
  <1> USE DEF trunkVars, queueVars, callVars, threadVars
  <1> DEFINE t == TimeoutThread
  <1>0. TypeOK /\ MutexDiscipline /\ GuardsStillHold /\ t \in Handlers
    BY DEF IndInv, Handlers
  <1>00. /\ "flagUnlock" \in LockedPcs
         /\ {"scan", "elapsed", "flag", "hangup"} \cap LockedPcs = {}
    BY DEF LockedPcs
  <1>000. ch = [ch EXCEPT ![t] = ch[t]]
    BY <1>0 DEF TypeOK
  <1>1. CASE TimeoutScan(t) \/ TimeoutElapsed(t) \/ TimeoutHangup(t)
    <2>1. /\ pc[t] \in {"scan", "elapsed", "flag"}
          /\ \/ Return(t)
             \/ \E to \in {"elapsed", "flag", "hangup"} : Goto(t, to) /\ UNCHANGED ch
          /\ UNCHANGED <<trunkVars, queueVars, lock, callVars, responses>>
      BY <1>1 DEF TimeoutScan, TimeoutElapsed, TimeoutHangup
    <2>2. CASE Return(t)
      <3>1. MutexDiscipline' /\ GuardsStillHold'
        BY <1>0, <1>00, <2>1, <2>2, ReturnWithoutMutex, ReturnKeepsGuards
      <3> QED
        BY <2>1, <3>1, BookkeepingKept DEF IndInv
    <2>3. ASSUME NEW to \in {"elapsed", "flag", "hangup"}, Goto(t, to), UNCHANGED ch
          PROVE  IndInv'
      <3>1. MutexDiscipline'
        BY <1>0, <1>00, <1>000, <2>1, <2>3, HandlerWithoutMutex
      <3>2. GuardsStillHold'
        BY <1>0, <1>000, <2>1, <2>3, GuardsKept
      <3> QED
        BY <2>1, <3>1, <3>2, BookkeepingKept DEF IndInv
    <2> QED
      BY <2>1, <2>2, <2>3
  <1>2. CASE TimeoutSetFlag(t)
    <2>1. MutexDiscipline'
      BY <1>0, <1>00, <1>2, HandlerTakesMutex DEF TimeoutSetFlag
    <2>2. GuardsStillHold'
      BY <1>0, <1>000, <1>2, GuardsKept DEF TimeoutSetFlag
    <2> QED
      BY <1>2, <2>1, <2>2, BookkeepingKept DEF IndInv, TimeoutSetFlag
  <1>3. CASE TimeoutSkip(t)
    <2>1. MutexDiscipline' /\ GuardsStillHold'
      BY <1>0, <1>00, <1>3, ReturnWithoutMutex, ReturnKeepsGuards DEF TimeoutSkip, LockBusy
    <2> QED
      BY <1>3, <2>1, BookkeepingKept DEF IndInv, TimeoutSkip
  <1>4. CASE TimeoutFlagUnlock(t)
    <2>1. MutexDiscipline'
      BY <1>0, <1>00, <1>000, <1>4, HandlerFreesMutex DEF TimeoutFlagUnlock
    <2>2. GuardsStillHold'
      BY <1>0, <1>000, <1>4, GuardsKept DEF TimeoutFlagUnlock
    <2> QED
      BY <1>4, <2>1, <2>2, BookkeepingKept DEF IndInv, TimeoutFlagUnlock
  <1> QED
    BY <1>1, <1>2, <1>3, <1>4 DEF TimeoutCheck

\* The steps of deal_hungup_strategy preserve the invariant.
LEMMA StrategyInvariant ==
  ASSUME IndInv, TypeOK', NEW t \in StrategyThreads, Strategy(t)
  PROVE  IndInv'
  <1> USE DEF trunkVars, queueVars, callVars, threadVars
  <1>0. TypeOK /\ MutexDiscipline /\ GuardsStillHold /\ t \in Handlers
    BY DEF IndInv, Handlers
  <1>00. /\ "sleep" \in LockedPcs
         /\ {"idle", "lock", "hangup"} \cap LockedPcs = {}
    BY DEF LockedPcs
  <1>000. ch = [ch EXCEPT ![t] = ch[t]]
    BY <1>0 DEF TypeOK
  <1>1. CASE StrategyTake(t)
    <2>1. MutexDiscipline' /\ GuardsStillHold'
      BY <1>0, <1>00, <1>1, HandlerWithoutMutex, GuardsKept DEF StrategyTake
    <2> QED
      BY <1>1, <2>1, BookkeepingKept DEF IndInv, StrategyTake
  <1>2. CASE StrategyLock(t)
    <2>1. MutexDiscipline'
      BY <1>0, <1>00, <1>2, HandlerTakesMutex DEF StrategyLock
    <2>2. GuardsStillHold'
      BY <1>0, <1>000, <1>2, GuardsKept DEF StrategyLock
    <2> QED
      BY <1>2, <2>1, <2>2, BookkeepingKept DEF IndInv, StrategyLock
  <1>3. CASE StrategyWake(t)
    <2>1. MutexDiscipline'
      BY <1>0, <1>00, <1>000, <1>3, HandlerFreesMutex DEF StrategyWake
    <2>2. ch[t] \in Channels /\ step' = [step EXCEPT ![ch[t]] = "TRK_HUNGUP"] /\ ch' = ch
      BY <1>0, <1>3 DEF TypeOK, StrategyWake
    <2>3. lock[ch[t]] = t
      BY <1>0, <1>00, <1>3, <2>2 DEF StrategyWake, MutexDiscipline, HoldsMutex
    <2>4. \A u \in Handlers :
            pc'[u] = "write" => lock[ch[t]] # u /\ pc[u] = "write" /\ ch'[u] = ch[u]
      BY <1>0, <1>3, <2>2, <2>3 DEF TypeOK, StrategyWake, Goto
    <2>5. GuardsStillHold'
      BY <1>0, <2>2, <2>4, OthersGuardsKept
    <2> QED
      BY <1>3, <2>1, <2>5, BookkeepingKept DEF IndInv, StrategyWake
  <1> QED
    BY <1>1, <1>2, <1>3 DEF Strategy

\* Every step preserves the invariant.
LEMMA NextInvariant == IndInv /\ [Next]_vars => IndInv'
  <1> SUFFICES ASSUME IndInv, [Next]_vars PROVE IndInv'
    OBVIOUS
  <1> USE DEF trunkVars, queueVars, callVars, threadVars
  <1>0. TypeOK /\ MutexDiscipline /\ GuardsStillHold /\ TypeOK'
    BY NextType DEF IndInv
  <1>1. CASE UNCHANGED vars \/ Tick
    <2>1. UNCHANGED <<channelQueue, client, callPc, callCh, responses, lock, pc, ch, step>>
      BY <1>1 DEF vars, Tick
    <2>2. MutexDiscipline' /\ GuardsStillHold'
      BY <1>0, <2>1 DEF MutexDiscipline, HoldsMutex, GuardsStillHold
    <2> QED
      BY <1>0, <2>1, <2>2, BookkeepingKept DEF IndInv
  <1>2. ASSUME NEW k \in Calls, Request(k) \/ CallOut(k) PROVE IndInv'
    BY <1>0, <1>2, CallOutInvariant
  <1>3. ASSUME NEW t \in Handlers, HandlerStep(t) PROVE IndInv'
    BY <1>0, <1>3, HangUpInvariant, CallbackInvariant, TimeoutInvariant, StrategyInvariant
    DEF HandlerStep
  <1>4. ASSUME NEW t \in CallbackThreads, CardEvent(t) PROVE IndInv'
    BY <1>0, <1>4, CallbackInvariant
  <1> QED
    BY <1>1, <1>2, <1>3, <1>4 DEF Next

(***************************************************************************)
(* The invariant holds throughout: trunk mutexes, trunks, activations and  *)
(* answers stay consistent for any number of calls, channels and threads.  *)
(***************************************************************************)
THEOREM Consistent == Spec => []IndInv
  BY InitInvariant, NextInvariant, PTL DEF Spec

(***************************************************************************)
(* No channel is ever freed twice, shared or dropped, whichever of the     *)
(* card, the timeout thread, the delay strategy and a failing SsmAutoDial  *)
(* frees it.                                                               *)
(***************************************************************************)
THEOREM ChannelConservation == Spec => []ChannelHasOnePlace
  <1>1. IndInv => ChannelHasOnePlace
    BY DEF IndInv
  <1> QED
    BY <1>1, Consistent, PTL

(***************************************************************************)
(* No call is answered twice, and no call handed to a trunk is wiped       *)
(* without its answer, however the hang-ups race.                          *)
(***************************************************************************)
THEOREM AnsweredOnce == Spec => []CallHasOneAnswer
  <1>1. IndInv => CallHasOneAnswer
    BY DEF IndInv
  <1> QED
    BY <1>1, Consistent, PTL

(***************************************************************************)
(* A hang-up that has passed its guards never ends a delayed one early:    *)
(* the mutex it holds keeps the strategy from setting TRK_SLEEP meanwhile. *)
(***************************************************************************)
THEOREM DelayIsKept == Spec => DelayIsNotCutShort
  <1>1. IndInv /\ [Next]_vars
          => [\A c \in Channels : step[c] = "TRK_SLEEP" => step'[c] # "TRK_IDLE"]_vars
    <2> SUFFICES ASSUME IndInv, Next, NEW c \in Channels, step[c] = "TRK_SLEEP"
                 PROVE  step'[c] # "TRK_IDLE"
      OBVIOUS
    <2> USE DEF trunkVars, queueVars, callVars, threadVars
    <2>0. TypeOK /\ GuardsStillHold
      BY DEF IndInv
    <2>1. ASSUME NEW k \in Calls, Request(k) \/ CallOut(k) PROVE step'[c] # "TRK_IDLE"
      BY <2>0, <2>1
      DEF TypeOK, Request, CallOut, TakeChannel, TakeThrows, AutoDial, AutoDialFails, PutChannel,
          AnswerFailure, GiveUp, WaitToRetry,
          RecordCall, FillTrunk,
          RestartTimer, RecordFails, RetryFires
    <2>2. ASSUME NEW t \in Handlers, HangUp(t) PROVE step'[c] # "TRK_IDLE"
      BY <2>0, <2>2
      DEF TypeOK, HangUp, HangupLock, HangupBusy, HangupRefused, HangupCard, HangupRelease,
          ReleaseTrunk, PutChannel,
          HangupCrash, HangupUnlock, GuardsStillHold
    <2>3. ASSUME NEW t \in CallbackThreads, Callback(t) \/ CardEvent(t)
          PROVE  step'[c] # "TRK_IDLE"
      BY <2>0, <2>3
      DEF TypeOK, Callback, EchoDecide, EchoSleep, EchoBusy, EchoPut, CardEvent, EventEchoTone,
          EventFinal, EventSilent, CardReports
    <2>4. ASSUME TimeoutCheck(TimeoutThread) PROVE step'[c] # "TRK_IDLE"
      BY <2>4
      DEF TimeoutCheck, TimeoutScan, TimeoutElapsed, TimeoutHangup, TimeoutSetFlag, TimeoutSkip,
          TimeoutFlagUnlock
    <2>5. ASSUME NEW t \in StrategyThreads, Strategy(t) PROVE step'[c] # "TRK_IDLE"
      BY <2>0, <2>5 DEF TypeOK, Strategy, StrategyTake, StrategyLock, StrategyWake
    <2>6. CASE Tick
      BY <2>6 DEF Tick
    <2> QED
      BY <2>1, <2>2, <2>3, <2>4, <2>5, <2>6 DEF Next, HandlerStep
  <1> QED
    BY <1>1, Consistent, PTL DEF Spec, DelayIsNotCutShort

------------------------------------------------------------------------------
(* Trunk steps                                                              *)

(***************************************************************************)
(* timeout_check never overlooks a trunk that serves a call: whoever sets  *)
(* TRK_IDLE has dropped the call.                                          *)
(***************************************************************************)
THEOREM ServingTrunksWatched == Spec => []ServingTrunkIsWatched
  <1>1. Init => ServingTrunkIsWatched
    BY DEF Init, ServingTrunkIsWatched
  <1>2. TypeOK /\ ServingTrunkIsWatched /\ [Next]_vars => ServingTrunkIsWatched'
    <2> SUFFICES ASSUME TypeOK, ServingTrunkIsWatched, [Next]_vars,
                        NEW c \in Channels, client'[c] # Nobody
                 PROVE  step'[c] # "TRK_IDLE"
      BY DEF ServingTrunkIsWatched
    <2> USE DEF trunkVars, queueVars, callVars, threadVars
    <2>0. client[c] # Nobody => step[c] # "TRK_IDLE"
      BY DEF ServingTrunkIsWatched
    <2>1. CASE UNCHANGED vars \/ Tick
      BY <2>0, <2>1 DEF vars, Tick
    <2>2. ASSUME NEW k \in Calls, RecordCall(k) PROVE step'[c] # "TRK_IDLE"
      BY <2>0, <2>2 DEF TypeOK, RecordCall, FillTrunk
    <2>3. ASSUME NEW k \in Calls, Request(k) \/ CallOut(k), ~RecordCall(k)
          PROVE  step'[c] # "TRK_IDLE"
      BY <2>0, <2>3
      DEF Request, CallOut, TakeChannel, TakeThrows, AutoDial, AutoDialFails, PutChannel,
          AnswerFailure, GiveUp, WaitToRetry,
          RestartTimer,
          RecordFails, RetryFires
    <2>4. ASSUME NEW t \in Handlers, HangUp(t) PROVE step'[c] # "TRK_IDLE"
      BY <2>0, <2>4
      DEF TypeOK, HangUp, HangupLock, HangupBusy, HangupRefused, HangupCard, HangupRelease,
          ReleaseTrunk, PutChannel,
          HangupCrash, HangupUnlock
    <2>5. ASSUME NEW t \in CallbackThreads, Callback(t) \/ CardEvent(t)
          PROVE  step'[c] # "TRK_IDLE"
      BY <2>0, <2>5
      DEF TypeOK, Callback, EchoDecide, EchoSleep, EchoBusy, EchoPut, CardEvent, EventEchoTone,
          EventFinal, EventSilent, CardReports
    <2>6. ASSUME TimeoutCheck(TimeoutThread) PROVE step'[c] # "TRK_IDLE"
      BY <2>0, <2>6
      DEF TimeoutCheck, TimeoutScan, TimeoutElapsed, TimeoutHangup, TimeoutSetFlag, TimeoutSkip,
          TimeoutFlagUnlock
    <2>7. ASSUME NEW t \in StrategyThreads, Strategy(t) PROVE step'[c] # "TRK_IDLE"
      BY <2>0, <2>7 DEF TypeOK, Strategy, StrategyTake, StrategyLock, StrategyWake
    <2> QED
      BY <2>1, <2>2, <2>3, <2>4, <2>5, <2>6, <2>7 DEF Next, HandlerStep
  <1> QED
    BY <1>1, <1>2, TypeCorrect, PTL DEF Spec

\* A trunk in TRK_SLEEP that had somebody to wake it still has, as long as
\* none of the threads in question moves and the queue keeps its entries.
LEMMA SleeperKept ==
  ASSUME NEW c \in Channels, step'[c] = "TRK_SLEEP" => step[c] = "TRK_SLEEP",
         InQueue(sleepQueue, c) => InQueue(sleepQueue', c),
         \A t \in Handlers : pc[t] \in {"put", "lock", "sleep"} => pc'[t] = pc[t] /\ ch'[t] = ch[t],
         SleepIsPending
  PROVE  step'[c] = "TRK_SLEEP" =>
           \/ InQueue(sleepQueue', c)
           \/ \E t \in Handlers : pc'[t] \in {"put", "lock", "sleep"} /\ ch'[t] = c
  BY DEF SleepIsPending

(***************************************************************************)
(* A trunk in TRK_SLEEP is never forgotten: its channel is queued for the  *)
(* strategy threads, or a thread is about to queue or to wake it.          *)
(***************************************************************************)
THEOREM SleepersPending == Spec => []SleepIsPending
  <1>1. Init => SleepIsPending
    BY DEF Init, SleepIsPending
  <1>2. TypeOK /\ SleepIsPending /\ [Next]_vars => SleepIsPending'
    <2> SUFFICES ASSUME TypeOK, SleepIsPending, [Next]_vars, NEW c \in Channels
                 PROVE  step'[c] = "TRK_SLEEP" =>
                          \/ InQueue(sleepQueue', c)
                          \/ \E t \in Handlers :
                               pc'[t] \in {"put", "lock", "sleep"} /\ ch'[t] = c
      BY DEF SleepIsPending
    <2> DEFINE Goal == step'[c] = "TRK_SLEEP" =>
                         \/ InQueue(sleepQueue', c)
                         \/ \E t \in Handlers :
                              pc'[t] \in {"put", "lock", "sleep"} /\ ch'[t] = c
    <2> USE DEF trunkVars, queueVars, callVars, threadVars
    <2>1. CASE UNCHANGED vars \/ Tick
      BY <2>1, SleeperKept DEF vars, Tick
    <2>2. ASSUME NEW k \in Calls, Request(k) \/ CallOut(k) PROVE Goal
      <3>1. /\ UNCHANGED <<sleepQueue, pc, ch>>
            /\ UNCHANGED step \/ step' = [step EXCEPT ![callCh[k]] = "TRK_CALLOUT_DAIL"]
        BY <2>2
        DEF Request, CallOut, TakeChannel, TakeThrows, AutoDial, AutoDialFails, PutChannel,
          AnswerFailure, GiveUp, WaitToRetry,
            RecordCall, FillTrunk,
            RestartTimer, RecordFails, RetryFires
      <3>2. step'[c] = "TRK_SLEEP" => step[c] = "TRK_SLEEP"
        BY <3>1 DEF TypeOK
      <3> QED
        BY <3>1, <3>2, SleeperKept
    <2>3. ASSUME NEW t \in Handlers, HangUp(t) PROVE Goal
      <3>1. /\ UNCHANGED sleepQueue
            /\ pc[t] \in {"hangup", "check", "write", "unlock"}
            /\ UNCHANGED step \/ step' = [step EXCEPT ![ch[t]] = "TRK_IDLE"]
        BY <2>3
        DEF HangUp, HangupLock, HangupBusy, HangupRefused, HangupCard, HangupRelease,
            ReleaseTrunk, PutChannel,
            HangupCrash, HangupUnlock
      <3>2. step'[c] = "TRK_SLEEP" => step[c] = "TRK_SLEEP"
        BY <3>1 DEF TypeOK
      <3>3. \A u \in Handlers \ {t} : pc'[u] = pc[u] /\ ch'[u] = ch[u]
        BY <2>3
        DEF TypeOK, HangUp, HangupLock, HangupBusy, HangupRefused, HangupCard, HangupRelease,
            ReleaseTrunk, PutChannel,
            HangupCrash, HangupUnlock, Return, Goto
      <3> QED
        BY <3>1, <3>2, <3>3, SleeperKept
    <2>4. ASSUME NEW t \in CallbackThreads, Callback(t) \/ CardEvent(t) PROVE Goal
      <3>0. t \in Handlers
        BY DEF Handlers
      <3>1. CASE EchoSleep(t)
        <4>1. /\ UNCHANGED <<sleepQueue, ch>> /\ pc[t] = "echoLock" /\ pc'[t] = "put"
              /\ \A u \in Handlers \ {t} : pc'[u] = pc[u]
              /\ step' = [step EXCEPT ![ch[t]] = "TRK_SLEEP"]
          BY <3>0, <3>1 DEF TypeOK, EchoSleep, Goto
        <4>2. CASE c = ch[t]
          BY <3>0, <4>1, <4>2
        <4>3. CASE c # ch[t]
          <5>1. step'[c] = step[c]
            BY <4>1, <4>3 DEF TypeOK
          <5> QED
            BY <4>1, <5>1, SleeperKept
        <4> QED
          BY <4>2, <4>3
      <3>2. CASE EchoPut(t)
        <4>1. /\ ch[t] \in Channels /\ sleepQueue' = Append(sleepQueue, ch[t])
              /\ UNCHANGED step /\ Return(t)
          BY <3>0, <3>2 DEF TypeOK, EchoPut
        <4>2. InQueue(sleepQueue', c) <=> InQueue(sleepQueue, c) \/ c = ch[t]
          BY <4>1, AppendMembers DEF TypeOK
        <4>3. \A u \in Handlers \ {t} : pc'[u] = pc[u] /\ ch'[u] = ch[u]
          BY <4>1 DEF TypeOK, Return, Goto
        <4> QED
          BY <3>0, <4>1, <4>2, <4>3 DEF SleepIsPending
      <3>3. CASE EchoDecide(t) \/ EchoBusy(t) \/ CardEvent(t)
        <4>1. /\ UNCHANGED <<sleepQueue, step>> /\ pc[t] \in {"idle", "echo", "echoLock"}
              /\ \A u \in Handlers \ {t} : pc'[u] = pc[u] /\ ch'[u] = ch[u]
          BY <3>0, <3>3
          DEF TypeOK, EchoDecide, EchoBusy, CardEvent, EventEchoTone, EventFinal, EventSilent,
              CardReports, Goto
        <4> QED
          BY <4>1, SleeperKept
      <3> QED
        BY <2>4, <3>1, <3>2, <3>3 DEF Callback
    <2>5. ASSUME TimeoutCheck(TimeoutThread) PROVE Goal
      <3>1. /\ UNCHANGED <<sleepQueue, step>>
            /\ pc[TimeoutThread] \in {"scan", "elapsed", "flag", "flagUnlock"}
        BY <2>5
        DEF TimeoutCheck, TimeoutScan, TimeoutElapsed, TimeoutHangup, TimeoutSetFlag,
            TimeoutSkip, TimeoutFlagUnlock
      <3>2. \A u \in Handlers \ {TimeoutThread} : pc'[u] = pc[u] /\ ch'[u] = ch[u]
        BY <2>5
        DEF TypeOK, TimeoutCheck, TimeoutScan, TimeoutElapsed, TimeoutHangup, TimeoutSetFlag,
            TimeoutSkip, TimeoutFlagUnlock, Return, Goto
      <3> QED
        BY <3>1, <3>2, SleeperKept
    <2>6. ASSUME NEW t \in StrategyThreads, Strategy(t) PROVE Goal
      <3>0. t \in Handlers
        BY DEF Handlers
      <3>1. CASE StrategyTake(t)
        <4>1. /\ sleepQueue # <<>> /\ sleepQueue' = Tail(sleepQueue) /\ UNCHANGED step
              /\ pc[t] = "idle" /\ pc'[t] = "lock" /\ ch'[t] = Head(sleepQueue)
              /\ \A u \in Handlers \ {t} : pc'[u] = pc[u] /\ ch'[u] = ch[u]
          BY <3>0, <3>1 DEF TypeOK, StrategyTake, Goto
        <4>2. InQueue(sleepQueue, c) => InQueue(sleepQueue', c) \/ c = Head(sleepQueue)
          BY <4>1, TailMembers DEF TypeOK
        <4> QED
          BY <3>0, <4>1, <4>2 DEF SleepIsPending
      <3>2. CASE StrategyLock(t)
        <4>1. /\ UNCHANGED <<sleepQueue, step, ch>> /\ pc'[t] = "sleep"
              /\ \A u \in Handlers \ {t} : pc'[u] = pc[u]
          BY <3>0, <3>2 DEF TypeOK, StrategyLock, Goto
        <4> QED
          BY <3>0, <4>1 DEF SleepIsPending
      <3>3. CASE StrategyWake(t)
        <4>1. /\ UNCHANGED <<sleepQueue, ch>> /\ step' = [step EXCEPT ![ch[t]] = "TRK_HUNGUP"]
              /\ \A u \in Handlers \ {t} : pc'[u] = pc[u]
          BY <3>0, <3>3 DEF TypeOK, StrategyWake, Goto
        <4>2. step'[c] = "TRK_SLEEP" => step[c] = "TRK_SLEEP" /\ c # ch[t]
          BY <4>1 DEF TypeOK
        <4> QED
          BY <3>0, <4>1, <4>2 DEF SleepIsPending
      <3> QED
        BY <2>6, <3>1, <3>2, <3>3 DEF Strategy
    <2> QED
      BY <2>1, <2>2, <2>3, <2>4, <2>5, <2>6 DEF Next, HandlerStep
  <1> QED
    BY <1>1, <1>2, TypeCorrect, PTL DEF Spec

------------------------------------------------------------------------------
(* Without the delay strategy                                               *)

\* Without the delay strategy nobody sleeps, and a trunk leaves TRK_IDLE only
\* with a call.
NobodySleeps ==
  /\ sleepQueue = <<>>
  /\ \A t \in Handlers : pc[t] \notin {"echoLock", "put", "putBare", "lock", "sleep"}
  /\ \A c \in Channels : step[c] # "TRK_IDLE" => client[c] # Nobody

\* Without the delay strategy every step keeps the trunks awake.
LEMMA NobodySleepsStep ==
  ASSUME ~UseStrategy, TypeOK, NobodySleeps, [Next]_vars
  PROVE  NobodySleeps'
  <1> USE DEF trunkVars, queueVars, callVars, threadVars
  <1>1. CASE UNCHANGED vars \/ Tick
    BY <1>1 DEF NobodySleeps, vars, Tick
  <1>2. ASSUME NEW k \in Calls, RecordCall(k) PROVE NobodySleeps'
    BY <1>2, ThreadAssumption DEF TypeOK, NobodySleeps, RecordCall, FillTrunk
  <1>3. ASSUME NEW k \in Calls, Request(k) \/ CallOut(k), ~RecordCall(k) PROVE NobodySleeps'
    <2>1. UNCHANGED <<sleepQueue, pc, step, client>>
      BY <1>3
      DEF Request, CallOut, TakeChannel, TakeThrows, AutoDial, AutoDialFails, PutChannel,
          AnswerFailure, GiveUp, WaitToRetry,
          RestartTimer,
          RecordFails, RetryFires
    <2> QED
      BY <2>1 DEF NobodySleeps
  <1>4. ASSUME NEW t \in Handlers, HangUp(t) PROVE NobodySleeps'
    <2>1. UNCHANGED sleepQueue
      BY <1>4
      DEF HangUp, HangupLock, HangupBusy, HangupRefused, HangupCard, HangupRelease, ReleaseTrunk,
          PutChannel,
          HangupCrash, HangupUnlock
    <2>2. \A u \in Handlers :
            pc'[u] = pc[u] \/ pc'[u] \in {"check", "idle", "scan", "write", "unlock"}
      BY <1>4
      DEF TypeOK, HangUp, HangupLock, HangupBusy, HangupRefused, HangupCard, HangupRelease,
          ReleaseTrunk, PutChannel,
          HangupCrash, HangupUnlock, Return, Goto
    <2>3. \/ UNCHANGED <<step, client>>
          \/ \E c : /\ step' = [step EXCEPT ![c] = "TRK_IDLE"]
                    /\ client' = [client EXCEPT ![c] = Nobody]
      BY <1>4
      DEF HangUp, HangupLock, HangupBusy, HangupRefused, HangupCard, HangupRelease, ReleaseTrunk,
          PutChannel,
          HangupCrash, HangupUnlock
    <2> QED
      BY <2>1, <2>2, <2>3 DEF TypeOK, NobodySleeps
  <1>5. ASSUME NEW t \in CallbackThreads, Callback(t) \/ CardEvent(t) PROVE NobodySleeps'
    <2>1. t \in Handlers /\ pc[t] \notin {"echoLock", "put", "putBare"}
      BY DEF NobodySleeps, Handlers
    <2>2. UNCHANGED <<sleepQueue, step, client>>
      BY <1>5, <2>1
      DEF Callback, EchoDecide, EchoSleep, EchoBusy, EchoPut, CardEvent, EventEchoTone,
          EventFinal, EventSilent, CardReports
    <2>3. \A u \in Handlers : pc'[u] = pc[u] \/ pc'[u] \in {"hangup", "echo"}
      BY <1>5, <2>1
      DEF TypeOK, Callback, EchoDecide, EchoSleep, EchoBusy, EchoPut, CardEvent, EventEchoTone,
          EventFinal, EventSilent, CardReports, EchoTooEarly, Goto
    <2> QED
      BY <2>2, <2>3 DEF NobodySleeps
  <1>6. ASSUME TimeoutCheck(TimeoutThread) PROVE NobodySleeps'
    <2>1. UNCHANGED <<sleepQueue, step, client>>
      BY <1>6
      DEF TimeoutCheck, TimeoutScan, TimeoutElapsed, TimeoutHangup, TimeoutSetFlag, TimeoutSkip,
          TimeoutFlagUnlock
    <2>2. \A u \in Handlers :
            pc'[u] = pc[u] \/ pc'[u] \in {"scan", "idle", "elapsed", "flag", "hangup", "flagUnlock"}
      BY <1>6
      DEF TypeOK, TimeoutCheck, TimeoutScan, TimeoutElapsed, TimeoutHangup, TimeoutSetFlag,
          TimeoutSkip, TimeoutFlagUnlock, Return, Goto
    <2> QED
      BY <2>1, <2>2 DEF NobodySleeps
  <1>7. ASSUME NEW t \in StrategyThreads, Strategy(t) PROVE NobodySleeps'
    <2>1. t \in Handlers
      BY DEF Handlers
    <2> QED
      BY <1>7, <2>1 DEF NobodySleeps, Strategy, StrategyTake, StrategyLock, StrategyWake
  <1> QED
    BY <1>1, <1>2, <1>3, <1>4, <1>5, <1>6, <1>7 DEF Next, HandlerStep

(***************************************************************************)
(* Without the delay strategy cti_hangUp never gets past its guards on a   *)
(* trunk without a call, so it cannot go through a null m_client_socket:   *)
(* the strategy is the only way to that crash.                             *)
(***************************************************************************)
THEOREM NoStrategyNoCrash == ~UseStrategy => (Spec => []HangupServesACall)
  <1> SUFFICES ASSUME ~UseStrategy PROVE Spec => []HangupServesACall
    OBVIOUS
  <1>1. Init => NobodySleeps
    BY ThreadAssumption DEF Init, NobodySleeps
  <1>2. TypeOK /\ NobodySleeps /\ [Next]_vars => NobodySleeps'
    BY NobodySleepsStep
  <1>3. IndInv /\ NobodySleeps => HangupServesACall
    BY DEF IndInv, TypeOK, GuardsStillHold, NobodySleeps, HangupServesACall
  <1> QED
    BY <1>1, <1>2, <1>3, TypeCorrect, Consistent, PTL DEF Spec
==============================================================================
