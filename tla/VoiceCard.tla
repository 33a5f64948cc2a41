------------------------------ MODULE VoiceCard ------------------------------
(***************************************************************************)
(* The voice-card controller: voice_card_control, its trunks and its two   *)
(* channel queues (src/cti, src/tools/thread_safe_queue.hpp), together     *)
(* with the threads that run in it:                                        *)
(*                                                                         *)
(*   - one cti_callout activation per call request, on a socket thread or  *)
(*     on a retry-timer thread;                                            *)
(*   - the card driver's threads, inside cti_callback;                     *)
(*   - the thread of timeout_check;                                        *)
(*   - the threads of deal_hungup_strategy.                                *)
(*                                                                         *)
(* Each action is one step between two points at which another thread can  *)
(* see or change shared state: the trunk mutex is taken with try_lock and  *)
(* held across steps, the queues are atomic, and the unlocked reads of a   *)
(* trunk's step, timer and flag are steps of their own.                    *)
(*                                                                         *)
(* The card itself (SsmAutoDial, SsmHangup, E_PROC_AutoDial) is external   *)
(* and modelled from how the controller uses it.                           *)
(***************************************************************************)
EXTENDS Integers, Sequences, FiniteSets

CONSTANTS
  Calls,            \* call requests: cti_call_out_param objects
  NumChannels,      \* m_numChannelCount
  CallbackThreads,  \* driver threads that run cti_callback
  StrategyThreads,  \* threads of m_hungup_strategy_thread_group
  TimeoutThread,    \* m_timeout_thread
  Nobody,           \* a null m_client_socket; the holder of a free trunk mutex
  EchoToneFlags,    \* the values callers give to hungup_by_echo_tone
  UseStrategy,      \* m_use_strategy
  WarningElapse,    \* m_cti_warning_elapse, in ticks
  SleepingElapse,   \* m_cti_sleeping_elapse, in ticks
  TimeoutElapse,    \* m_timeout_elapse, in ticks
  RetryDelay,       \* the 2000 ms of m_repeat_call_out_timer, in ticks
  RetryLimit,       \* the 25000 ms of cti_callout_again, in ticks
  MaxTime           \* bound: trunk timers stop counting here

Channels == 0 .. NumChannels - 1
Handlers == CallbackThreads \cup StrategyThreads \cup {TimeoutThread}

ASSUME ChannelAssumption == NumChannels \in Nat \ {0}

ASSUME ThreadAssumption ==
  /\ Nobody \notin Calls \cup Handlers
  /\ Calls \cap Handlers = {}
  /\ CallbackThreads \cap StrategyThreads = {}
  /\ TimeoutThread \notin CallbackThreads \cup StrategyThreads

\* The constructor starts threads 0 .. m_numChannelCount / 2.
ASSUME StrategyPoolAssumption ==
  Cardinality(StrategyThreads) = NumChannels \div 2 + 1

ASSUME FlagAssumption == EchoToneFlags \subseteq BOOLEAN /\ UseStrategy \in BOOLEAN

ASSUME TimeAssumption ==
  /\ {WarningElapse, SleepingElapse, TimeoutElapse, RetryDelay, RetryLimit} \subseteq Nat
  /\ MaxTime \in Nat
  /\ WarningElapse < MaxTime /\ SleepingElapse <= MaxTime /\ TimeoutElapse <= MaxTime

CIA_CALL_SUCCESS == "99"
CIA_CALL_FAIL == "98"
CIA_CALL_TIMEOUT == "01"
Statuses == {CIA_CALL_SUCCESS, CIA_CALL_FAIL, CIA_CALL_TIMEOUT}

\* trunk_state; TRK_WAIT_CONNECT and TRK_CHEK_BARGEIN are never assigned.
TrunkStates == {"TRK_IDLE", "TRK_CALLOUT_DAIL", "TRK_SLEEP", "TRK_HUNGUP"}

VARIABLES
  channelQueue,  \* m_channel_queue
  sleepQueue,    \* m_sleep_channel_queue
  step,          \* m_step of each trunk
  client,        \* m_client_socket and m_transId of each trunk: the call served
  echoFlag,      \* m_hungup_by_echo_tone of each trunk
  callTime,      \* ticks since m_callTime of each trunk was restarted
  lock,          \* holder of each m_trunk_mutex
  callPc,        \* where the cti_callout activation of each call is
  callCh,        \* its chID
  repeat,        \* its m_repeat_call_out
  age,           \* cti_call_out_elapsed_milliseconds(), in ticks
  timer,         \* m_repeat_call_out_timer: ticks until it expires
  pc,            \* where each handler thread is
  ch,            \* its channelID / chID / i
  verdict,       \* the status a driver thread passes to cti_hangUp
  card,          \* the card's state of each channel
  responses,     \* the CIA_CALL_RESPONSE statuses written for each call
  crashed        \* a null m_client_socket was dereferenced

trunkVars  == <<step, client, echoFlag, callTime>>
queueVars  == <<channelQueue, sleepQueue>>
callVars   == <<callPc, callCh, repeat, age, timer>>
threadVars == <<pc, ch, verdict>>
vars == <<trunkVars, queueVars, lock, callVars, threadVars, card, responses, crashed>>

\* The null m_repeat_call_out_timer, before the first retry.
NoTimer == -1

CallPcs == {"new", "take", "dial", "again", "failed", "record", "restart", "wait", "handed",
            "answered", "lost"}
HandlerPcs == {"idle", "echo", "echoLock", "put", "putBare", "scan", "elapsed", "flag",
               "flagUnlock", "lock", "sleep", "hangup", "check", "write", "unlock"}
CardStates == {"idle", "dialing", "echoed", "ended"}

TypeOK ==
  /\ channelQueue \in Seq(Channels)
  /\ sleepQueue \in Seq(Channels)
  /\ step \in [Channels -> TrunkStates]
  /\ client \in [Channels -> Calls \cup {Nobody}]
  /\ echoFlag \in [Channels -> BOOLEAN]
  /\ callTime \in [Channels -> 0 .. MaxTime]
  /\ lock \in [Channels -> Calls \cup Handlers \cup {Nobody}]
  /\ callPc \in [Calls -> CallPcs]
  /\ callCh \in [Calls -> Channels]
  /\ repeat \in [Calls -> BOOLEAN]
  /\ age \in [Calls -> 0 .. RetryLimit + 1]
  /\ timer \in [Calls -> (0 .. RetryDelay) \cup {NoTimer}]
  /\ pc \in [Handlers -> HandlerPcs]
  /\ ch \in [Handlers -> Channels]
  /\ verdict \in [CallbackThreads -> {CIA_CALL_SUCCESS, CIA_CALL_FAIL}]
  /\ card \in [Channels -> CardStates]
  /\ responses \in [Calls -> Seq(Statuses)]
  /\ crashed \in BOOLEAN

(***************************************************************************)
(* After the constructor: init_cti has put every channel into the pool in  *)
(* order, the trunks are IDLE, and m_hungup_by_echo_tone has whatever      *)
(* value memory held, because trunk() assigns m_step only.                 *)
(***************************************************************************)
Init ==
  /\ channelQueue = [i \in 1 .. NumChannels |-> i - 1]
  /\ sleepQueue = <<>>
  /\ step = [c \in Channels |-> "TRK_IDLE"]
  /\ client = [c \in Channels |-> Nobody]
  /\ echoFlag \in [Channels -> BOOLEAN]
  /\ callTime = [c \in Channels |-> 0]
  /\ lock = [c \in Channels |-> Nobody]
  /\ callPc = [k \in Calls |-> "new"]
  /\ callCh = [k \in Calls |-> 0]
  /\ repeat = [k \in Calls |-> TRUE]
  /\ age = [k \in Calls |-> 0]
  /\ timer = [k \in Calls |-> NoTimer]
  /\ pc = [t \in Handlers |-> IF t = TimeoutThread THEN "scan" ELSE "idle"]
  /\ ch = [t \in Handlers |-> 0]
  /\ verdict = [t \in CallbackThreads |-> CIA_CALL_FAIL]
  /\ card = [c \in Channels |-> "idle"]
  /\ responses = [k \in Calls |-> <<>>]
  /\ crashed = FALSE

------------------------------------------------------------------------------
(* Helpers                                                                  *)

\* Mutant: the result of try_lock() is ignored.
TryLockUnchecked(p, c) == lock' = [lock EXCEPT ![c] = p]

\* try_lock() on the trunk mutex of c by thread or activation p.
TryLock(p, c) == lock[c] = Nobody /\ lock' = [lock EXCEPT ![c] = p]
LockBusy(c) == lock[c] # Nobody /\ UNCHANGED lock
Unlock(c) == lock' = [lock EXCEPT ![c] = Nobody]

\* Mutant: the channel is not given back.
PutForgotten(c) == UNCHANGED channelQueue

\* m_channel_queue.put.
PutChannel(c) == channelQueue' = Append(channelQueue, c)

\* Mutant: the trunk looks idle while it serves a call.
FillTrunkKeepsStep(k, c) ==
  /\ client' = [client EXCEPT ![c] = k]
  /\ \E flag \in EchoToneFlags : echoFlag' = [echoFlag EXCEPT ![c] = flag]
  /\ UNCHANGED step

\* The trunk of c takes over the request of call k, m_step last.
FillTrunk(k, c) ==
  /\ client' = [client EXCEPT ![c] = k]
  /\ \E flag \in EchoToneFlags : echoFlag' = [echoFlag EXCEPT ![c] = flag]
  /\ step' = [step EXCEPT ![c] = "TRK_CALLOUT_DAIL"]

\* Mutant: m_client_socket is not reset.
ReleaseKeepsClient(c) ==
  /\ step' = [step EXCEPT ![c] = "TRK_IDLE"]
  /\ echoFlag' = [echoFlag EXCEPT ![c] = TRUE]
  /\ callTime' = [callTime EXCEPT ![c] = 0]
  /\ UNCHANGED client

\* trunk::realseTrunk, which restarts m_callTime, too.
ReleaseTrunk(c) ==
  /\ step' = [step EXCEPT ![c] = "TRK_IDLE"]
  /\ client' = [client EXCEPT ![c] = Nobody]
  /\ echoFlag' = [echoFlag EXCEPT ![c] = TRUE]
  /\ callTime' = [callTime EXCEPT ![c] = 0]

\* base_client::do_write of a CIA_CALL_RESPONSE.
Respond(k, status) == responses' = [responses EXCEPT ![k] = Append(@, status)]

CallGoto(k, to) == callPc' = [callPc EXCEPT ![k] = to]
Goto(t, to) == pc' = [pc EXCEPT ![t] = to]

\* The loop variable i of timeout_check, which starts over after each pass.
NextChannel(c) == IF c + 1 = NumChannels THEN 0 ELSE c + 1

------------------------------------------------------------------------------
(* cti_callout and cti_callout_again, for call k                            *)

\* A request arrives: the cti_call_out_param is built and cti_callout called.
Request(k) ==
  /\ callPc[k] = "new"
  /\ CallGoto(k, "take")
  /\ UNCHANGED <<trunkVars, queueVars, lock, callCh, repeat, age, timer, threadVars, card,
                 responses, crashed>>

\* The activation ends and the last reference to its cti_call_out_param dies.
Finish(k, to) ==
  /\ CallGoto(k, to)
  /\ repeat' = [repeat EXCEPT ![k] = TRUE]
  /\ age' = [age EXCEPT ![k] = 0]
  /\ timer' = [timer EXCEPT ![k] = NoTimer]

\* m_channel_queue.take() returns a channel.
TakeChannel(k) ==
  /\ callPc[k] = "take"
  /\ channelQueue # <<>>
  /\ callCh' = [callCh EXCEPT ![k] = Head(channelQueue)]
  /\ channelQueue' = Tail(channelQueue)
  /\ CallGoto(k, "dial")
  /\ UNCHANGED <<trunkVars, sleepQueue, lock, repeat, age, timer, threadVars, card,
                 responses, crashed>>

\* m_channel_queue.take() throws out_of_range: all channels are busy.
TakeThrows(k) ==
  /\ callPc[k] = "take"
  /\ channelQueue = <<>>
  /\ CallGoto(k, "again")
  /\ UNCHANGED <<trunkVars, queueVars, lock, callCh, repeat, age, timer, threadVars, card,
                 responses, crashed>>

\* SsmAutoDial returns 0: from here on the card reports events of the channel.
AutoDial(k) ==
  /\ callPc[k] = "dial"
  /\ card[callCh[k]] = "idle"
  /\ card' = [card EXCEPT ![callCh[k]] = "dialing"]
  /\ CallGoto(k, "record")
  /\ UNCHANGED <<trunkVars, queueVars, lock, callCh, repeat, age, timer, threadVars,
                 responses, crashed>>

\* SsmAutoDial fails: the channel goes back, the first failure is tried again
\* and the second one answered.
AutoDialFails(k) ==
  /\ callPc[k] = "dial"
  /\ PutChannel(callCh[k])
  /\ callCh' = [callCh EXCEPT ![k] = 0]
  /\ repeat' = [repeat EXCEPT ![k] = FALSE]
  /\ CallGoto(k, IF repeat[k] THEN "again" ELSE "failed")
  /\ UNCHANGED <<trunkVars, sleepQueue, lock, age, timer, threadVars, card, responses, crashed>>

\* do_write of CIA_CALL_FAIL after the second failure.
AnswerFailure(k) ==
  /\ callPc[k] = "failed"
  /\ Respond(k, CIA_CALL_FAIL)
  /\ Finish(k, "answered")
  /\ UNCHANGED <<trunkVars, queueVars, lock, callCh, threadVars, card, crashed>>

\* cti_callout_again gives up a request that is too old.
GiveUp(k) ==
  /\ callPc[k] = "again"
  /\ age[k] > RetryLimit
  /\ Respond(k, CIA_CALL_TIMEOUT)
  /\ Finish(k, "answered")
  /\ UNCHANGED <<trunkVars, queueVars, lock, callCh, threadVars, card, crashed>>

\* cti_callout_again waits on the timer, which gets an expiry time only when it
\* is created.
WaitToRetry(k) ==
  /\ callPc[k] = "again"
  /\ age[k] <= RetryLimit
  /\ timer' = [timer EXCEPT ![k] = IF @ = NoTimer THEN RetryDelay ELSE @]
  /\ CallGoto(k, "wait")
  /\ UNCHANGED <<trunkVars, queueVars, lock, callCh, repeat, age, threadVars, card, responses,
                 crashed>>

\* The trunk mutex is free: the trunk is filled in.
RecordCall(k) ==
  LET c == callCh[k] IN
  /\ callPc[k] = "record"
  /\ TryLock(k, c)
  /\ FillTrunk(k, c)
  /\ CallGoto(k, "restart")
  /\ UNCHANGED <<callTime, queueVars, callCh, repeat, age, timer, threadVars, card,
                 responses, crashed>>

\* m_callTime.restart(), then the mutex is released on return.
RestartTimer(k) ==
  LET c == callCh[k] IN
  /\ callPc[k] = "restart"
  /\ callTime' = [callTime EXCEPT ![c] = 0]
  /\ Unlock(c)
  /\ Finish(k, "handed")
  /\ UNCHANGED <<step, client, echoFlag, queueVars, callCh, threadVars, card, responses,
                 crashed>>

\* The trunk mutex is taken: a Critical log line and nothing else.
RecordFails(k) ==
  /\ callPc[k] = "record"
  /\ LockBusy(callCh[k])
  /\ Finish(k, "lost")
  /\ UNCHANGED <<trunkVars, queueVars, callCh, threadVars, card, responses, crashed>>

\* The retry timer fires and its handler calls cti_callout again.
RetryFires(k) ==
  /\ callPc[k] = "wait"
  /\ timer[k] = 0
  /\ CallGoto(k, "take")
  /\ UNCHANGED <<trunkVars, queueVars, lock, callCh, repeat, age, timer, threadVars, card,
                 responses, crashed>>

CallOut(k) ==
  \/ TakeChannel(k) \/ TakeThrows(k) \/ AutoDial(k) \/ AutoDialFails(k)
  \/ AnswerFailure(k) \/ GiveUp(k) \/ WaitToRetry(k)
  \/ RecordCall(k) \/ RestartTimer(k) \/ RecordFails(k) \/ RetryFires(k)

------------------------------------------------------------------------------
(* cti_hangUp(ch[t], HangupStatus(t)), called by handler thread t           *)

\* Mutant: a forced hang-up is reported as a timeout.
HangupStatusTimeout(t) ==
  CASE t = TimeoutThread        -> CIA_CALL_TIMEOUT
    [] t \in StrategyThreads    -> CIA_CALL_SUCCESS
    [] t \in CallbackThreads    -> verdict[t]

\* The timeout thread reports a failure, the delay strategy a success.
HangupStatus(t) ==
  CASE t = TimeoutThread        -> CIA_CALL_FAIL
    [] t \in StrategyThreads    -> CIA_CALL_SUCCESS
    [] t \in CallbackThreads    -> verdict[t]

\* What t does when cti_hangUp, or one turn of its loop, is over; the locals of
\* a driver or strategy thread are gone with it.
Return(t) ==
  IF t = TimeoutThread
  THEN /\ Goto(t, "scan")
       /\ ch' = [ch EXCEPT ![t] = NextChannel(@)]
       /\ UNCHANGED verdict
  ELSE /\ Goto(t, "idle")
       /\ ch' = [ch EXCEPT ![t] = 0]
       /\ verdict' = [d \in CallbackThreads |-> IF d = t THEN CIA_CALL_FAIL ELSE verdict[d]]

HangupLock(t) ==
  /\ pc[t] = "hangup"
  /\ TryLock(t, ch[t])
  /\ Goto(t, "check")
  /\ UNCHANGED <<trunkVars, queueVars, callVars, ch, verdict, card, responses, crashed>>

HangupBusy(t) ==
  /\ pc[t] = "hangup"
  /\ LockBusy(ch[t])
  /\ Return(t)
  /\ UNCHANGED <<trunkVars, queueVars, callVars, card, responses, crashed>>

\* Mutant: delayed hang-ups are not left alone.
MayHangupSleeping(c) == echoFlag[c] /\ step[c] # "TRK_IDLE"

\* Mutant: repeated hang-ups are not left alone.
MayHangupIdle(c) == echoFlag[c] /\ step[c] # "TRK_SLEEP"

\* The guards of cti_hangUp: debug calls, repeated hang-ups and delayed
\* hang-ups are left alone.
MayHangup(c) == echoFlag[c] /\ step[c] \notin {"TRK_IDLE", "TRK_SLEEP"}

HangupRefused(t) ==
  /\ pc[t] = "check"
  /\ ~MayHangup(ch[t])
  /\ Unlock(ch[t])
  /\ Return(t)
  /\ UNCHANGED <<trunkVars, queueVars, callVars, card, responses, crashed>>

\* SsmHangup succeeds, or returns -1 and leaves the line as it is; the
\* controller goes on either way.
HangupCard(t) ==
  LET c == ch[t] IN
  /\ pc[t] = "check"
  /\ MayHangup(c)
  /\ card' \in {card, [card EXCEPT ![c] = "idle"]}
  /\ Goto(t, "write")
  /\ UNCHANGED <<trunkVars, queueVars, lock, callVars, ch, verdict, responses, crashed>>

\* do_write, realseTrunk and m_channel_queue.put, still under the mutex.
HangupRelease(t) ==
  LET c == ch[t] IN
  /\ pc[t] = "write"
  /\ client[c] # Nobody
  /\ Respond(client[c], HangupStatus(t))
  /\ ReleaseTrunk(c)
  /\ PutChannel(c)
  /\ Goto(t, "unlock")
  /\ UNCHANGED <<sleepQueue, lock, callVars, ch, verdict, card, crashed>>

\* do_write through a null m_client_socket ends the process.
HangupCrash(t) ==
  /\ pc[t] = "write"
  /\ client[ch[t]] = Nobody
  /\ crashed' = TRUE
  /\ UNCHANGED <<trunkVars, queueVars, lock, callVars, threadVars, card, responses>>

HangupUnlock(t) ==
  /\ pc[t] = "unlock"
  /\ Unlock(ch[t])
  /\ Return(t)
  /\ UNCHANGED <<trunkVars, queueVars, callVars, card, responses, crashed>>

HangUp(t) ==
  \/ HangupLock(t) \/ HangupBusy(t) \/ HangupRefused(t) \/ HangupCard(t)
  \/ HangupRelease(t) \/ HangupCrash(t) \/ HangupUnlock(t)

------------------------------------------------------------------------------
(* cti_callback and deal_e_proc_auto_dial, on driver thread t               *)

\* The status deal_e_proc_auto_dial passes to cti_hangUp for each final
\* AutoDial result; DIAL_NOVOICE and DIAL_ECHO_NOVOICE end the task silently.
FinalVerdict ==
  [DIAL_NO_DIALTONE    |-> CIA_CALL_FAIL,
   DIAL_BUSYTONE       |-> CIA_CALL_SUCCESS,
   DIAL_VOICE          |-> CIA_CALL_SUCCESS,
   DIAL_VOICEF1        |-> CIA_CALL_SUCCESS,
   DIAL_VOICEF2        |-> CIA_CALL_SUCCESS,
   DIAL_NOANSWER       |-> CIA_CALL_FAIL,
   DIAL_FAILURE        |-> CIA_CALL_FAIL,
   DIAL_INVALID_PHONUM |-> CIA_CALL_FAIL]

\* The card reports an event of channel c, in one of the states from, to the
\* callback thread t, which goes on at next with a status for cti_hangUp.
CardReports(t, c, from, to, next, status) ==
  /\ pc[t] = "idle"
  /\ card[c] \in from
  /\ card' = [card EXCEPT ![c] = to]
  /\ Goto(t, next)
  /\ ch' = [ch EXCEPT ![t] = c]
  /\ verdict' = [verdict EXCEPT ![t] = status]
  /\ UNCHANGED <<trunkVars, queueVars, lock, callVars, responses, crashed>>

EventEchoTone(t, c) ==
  CardReports(t, c, {"dialing"}, "echoed", "echo", CIA_CALL_SUCCESS)

EventFinal(t, c) ==
  \E event \in DOMAIN FinalVerdict :
    CardReports(t, c, {"dialing", "echoed"}, "ended", "hangup", FinalVerdict[event])

EventSilent(t, c) ==
  /\ pc[t] = "idle"
  /\ card[c] \in {"dialing", "echoed"}
  /\ card' = [card EXCEPT ![c] = "ended"]
  /\ UNCHANGED <<trunkVars, queueVars, lock, callVars, threadVars, responses, crashed>>

\* DIAL_ECHOTONE: too early an answer goes to the delay strategy.
EchoTooEarly(c) == UseStrategy /\ callTime[c] <= WarningElapse

EchoDecide(t) ==
  /\ pc[t] = "echo"
  /\ Goto(t, IF EchoTooEarly(ch[t]) THEN "echoLock" ELSE "hangup")
  /\ UNCHANGED <<trunkVars, queueVars, lock, callVars, ch, verdict, card, responses, crashed>>

EchoSleep(t) ==
  /\ pc[t] = "echoLock"
  /\ TryLock(t, ch[t])
  /\ step' = [step EXCEPT ![ch[t]] = "TRK_SLEEP"]
  /\ Goto(t, "put")
  /\ UNCHANGED <<client, echoFlag, callTime, queueVars, callVars, ch, verdict, card,
                 responses, crashed>>

EchoBusy(t) ==
  /\ pc[t] = "echoLock"
  /\ LockBusy(ch[t])
  /\ Goto(t, "putBare")
  /\ UNCHANGED <<trunkVars, queueVars, callVars, ch, verdict, card, responses, crashed>>

\* Mutant: the channel is not queued for the delay strategy.
EchoPutForgotten(t) ==
  /\ pc[t] \in {"put", "putBare"}
  /\ IF pc[t] = "put" THEN Unlock(ch[t]) ELSE UNCHANGED lock
  /\ Return(t)
  /\ UNCHANGED <<trunkVars, queueVars, callVars, card, responses, crashed>>

\* m_sleep_channel_queue.put, with or without the mutex, and return.
EchoPut(t) ==
  /\ pc[t] \in {"put", "putBare"}
  /\ sleepQueue' = Append(sleepQueue, ch[t])
  /\ IF pc[t] = "put" THEN Unlock(ch[t]) ELSE UNCHANGED lock
  /\ Return(t)
  /\ UNCHANGED <<trunkVars, channelQueue, callVars, card, responses, crashed>>

Callback(t) == EchoDecide(t) \/ EchoSleep(t) \/ EchoBusy(t) \/ EchoPut(t)

------------------------------------------------------------------------------
(* timeout_check                                                            *)

\* The unlocked read of m_step.
TimeoutScan(t) ==
  /\ pc[t] = "scan"
  /\ IF step[ch[t]] # "TRK_IDLE"
     THEN Goto(t, "elapsed") /\ UNCHANGED ch
     ELSE Return(t)
  /\ UNCHANGED <<trunkVars, queueVars, lock, callVars, verdict, card, responses, crashed>>

\* The unlocked read of m_callTime.
TimeoutElapsed(t) ==
  /\ pc[t] = "elapsed"
  /\ IF callTime[ch[t]] >= TimeoutElapse
     THEN Goto(t, "flag") /\ UNCHANGED ch
     ELSE Return(t)
  /\ UNCHANGED <<trunkVars, queueVars, lock, callVars, verdict, card, responses, crashed>>

\* The unlocked read of m_hungup_by_echo_tone.
TimeoutHangup(t) ==
  /\ pc[t] = "flag"
  /\ echoFlag[ch[t]]
  /\ Goto(t, "hangup")
  /\ UNCHANGED <<trunkVars, queueVars, lock, callVars, ch, verdict, card, responses, crashed>>

\* Mutant: the flag of an overdue debug call stays.
TimeoutKeepsFlag(t) ==
  /\ pc[t] = "flag"
  /\ ~echoFlag[ch[t]]
  /\ TryLock(t, ch[t])
  /\ Goto(t, "flagUnlock")
  /\ UNCHANGED <<trunkVars, queueVars, callVars, ch, verdict, card, responses, crashed>>

\* An overdue debug call becomes one that cti_hangUp ends.
TimeoutSetFlag(t) ==
  /\ pc[t] = "flag"
  /\ ~echoFlag[ch[t]]
  /\ TryLock(t, ch[t])
  /\ echoFlag' = [echoFlag EXCEPT ![ch[t]] = TRUE]
  /\ Goto(t, "flagUnlock")
  /\ UNCHANGED <<step, client, callTime, queueVars, callVars, ch, verdict, card, responses,
                 crashed>>

TimeoutSkip(t) ==
  /\ pc[t] = "flag"
  /\ ~echoFlag[ch[t]]
  /\ LockBusy(ch[t])
  /\ Return(t)
  /\ UNCHANGED <<trunkVars, queueVars, callVars, verdict, card, responses, crashed>>

TimeoutFlagUnlock(t) ==
  /\ pc[t] = "flagUnlock"
  /\ Unlock(ch[t])
  /\ Goto(t, "hangup")
  /\ UNCHANGED <<trunkVars, queueVars, callVars, ch, verdict, card, responses, crashed>>

TimeoutCheck(t) ==
  \/ TimeoutScan(t) \/ TimeoutElapsed(t) \/ TimeoutHangup(t)
  \/ TimeoutSetFlag(t) \/ TimeoutSkip(t) \/ TimeoutFlagUnlock(t)

------------------------------------------------------------------------------
(* deal_hungup_strategy                                                     *)

\* m_sleep_channel_queue.take() returns a channel.
StrategyTake(t) ==
  /\ pc[t] = "idle"
  /\ sleepQueue # <<>>
  /\ ch' = [ch EXCEPT ![t] = Head(sleepQueue)]
  /\ sleepQueue' = Tail(sleepQueue)
  /\ Goto(t, "lock")
  /\ UNCHANGED <<trunkVars, channelQueue, lock, callVars, verdict, card, responses, crashed>>

\* m_trunk_mutex.lock() blocks until the mutex is free.
StrategyLock(t) ==
  /\ pc[t] = "lock"
  /\ TryLock(t, ch[t])
  /\ Goto(t, "sleep")
  /\ UNCHANGED <<trunkVars, queueVars, callVars, ch, verdict, card, responses, crashed>>

\* The sleep is over, with the mutex held all along: TRK_HUNGUP, unlock, and
\* on to cti_hangUp.
StrategyWake(t) ==
  LET c == ch[t] IN
  /\ pc[t] = "sleep"
  /\ callTime[c] >= SleepingElapse
  /\ step' = [step EXCEPT ![c] = "TRK_HUNGUP"]
  /\ Unlock(c)
  /\ Goto(t, "hangup")
  /\ UNCHANGED <<client, echoFlag, callTime, queueVars, callVars, ch, verdict, card, responses,
                 crashed>>

Strategy(t) == StrategyTake(t) \/ StrategyLock(t) \/ StrategyWake(t)

------------------------------------------------------------------------------
(* Time, and the whole controller                                           *)

\* Timers count up to the named bounds; an age counts while cti_callout or
\* cti_callout_again may still read it.
Tick ==
  /\ callTime' = [c \in Channels |-> IF callTime[c] < MaxTime THEN callTime[c] + 1 ELSE MaxTime]
  /\ age' = [k \in Calls |->
               IF callPc[k] \in {"take", "dial", "again", "wait"} /\ age[k] <= RetryLimit
               THEN age[k] + 1 ELSE age[k]]
  /\ timer' = [k \in Calls |->
               IF timer[k] = NoTimer \/ timer[k] = 0 THEN timer[k] ELSE timer[k] - 1]
  /\ UNCHANGED <<step, client, echoFlag, queueVars, lock, callPc, callCh, repeat, threadVars,
                 card, responses, crashed>>

CardEvent(t) ==
  \E c \in Channels : EventEchoTone(t, c) \/ EventFinal(t, c) \/ EventSilent(t, c)

\* The steps of a handler thread that the environment does not decide.
HandlerStep(t) ==
  \/ HangUp(t)
  \/ t \in CallbackThreads /\ Callback(t)
  \/ t = TimeoutThread /\ TimeoutCheck(t)
  \/ t \in StrategyThreads /\ Strategy(t)

Next ==
  /\ ~crashed
  /\ \/ \E k \in Calls : Request(k) \/ CallOut(k)
     \/ \E t \in Handlers : HandlerStep(t)
     \/ \E t \in CallbackThreads : CardEvent(t)
     \/ Tick

Spec == Init /\ [][Next]_vars

(***************************************************************************)
(* Fairness: the operating system runs every thread, so a step a thread    *)
(* can take is eventually taken; the io_service runs an expired timer's    *)
(* handler; time passes. Requests and card events are up to the            *)
(* environment and are not fair. The wait for a mutex in lock() may lose   *)
(* against other threads, but each of them keeps the mutex briefly and a   *)
(* waiting thread is assumed to get it in the end (strong fairness).       *)
(***************************************************************************)
Fairness ==
  /\ \A k \in Calls : WF_vars(~crashed /\ CallOut(k))
  /\ \A t \in Handlers : WF_vars(~crashed /\ HandlerStep(t))
  /\ \A t \in StrategyThreads : SF_vars(~crashed /\ StrategyLock(t))
  /\ WF_vars(~crashed /\ Tick)

FairSpec == Spec /\ Fairness

------------------------------------------------------------------------------
(* Safety                                                                   *)

InQueue(q, c) == \E i \in 1 .. Len(q) : q[i] = c
NoRepeats(q) == \A i, j \in 1 .. Len(q) : q[i] = q[j] => i = j

\* A cti_callout activation has taken c from the pool and no trunk records it.
Holds(k, c) == callPc[k] \in {"dial", "record", "lost"} /\ callCh[k] = c

(***************************************************************************)
(* Every channel is always in exactly one place: once in m_channel_queue,  *)
(* or taken by one cti_callout, or serving the one call recorded in its    *)
(* trunk. It covers the put of cti_hangUp, that of a failed SsmAutoDial    *)
(* and the hang-ups racing on one trunk: none frees a channel twice or     *)
(* while it is in use, and none drops one.                                 *)
(***************************************************************************)
ChannelHasOnePlace ==
  /\ NoRepeats(channelQueue)
  /\ \A c \in Channels :
       /\ InQueue(channelQueue, c) \/ client[c] # Nobody \/ \E k \in Calls : Holds(k, c)
       /\ InQueue(channelQueue, c) => client[c] = Nobody /\ \A k \in Calls : ~Holds(k, c)
       /\ client[c] # Nobody => \A k \in Calls : ~Holds(k, c)
       /\ \A j, k \in Calls : Holds(j, c) /\ Holds(k, c) => j = k

(***************************************************************************)
(* A call is answered at most once, and once cti_callout has handed it to  *)
(* its trunk it is either still recorded there or answered: concurrent     *)
(* hang-ups by the card, the timeout thread and the delay strategy neither *)
(* repeat the CIA_CALL_RESPONSE of cti_hangUp nor wipe a call unanswered.  *)
(***************************************************************************)
CallHasOneAnswer ==
  \A k \in Calls :
    /\ Len(responses[k]) <= 1
    /\ callPc[k] = "answered" => Len(responses[k]) = 1
    /\ callPc[k] = "handed" => (client[callCh[k]] = k <=> Len(responses[k]) = 0)

(***************************************************************************)
(* A trunk that serves a call is never TRK_IDLE, so timeout_check, which   *)
(* skips idle trunks without the mutex, never overlooks a call.            *)
(***************************************************************************)
ServingTrunkIsWatched ==
  \A c \in Channels : client[c] # Nobody => step[c] # "TRK_IDLE"

(***************************************************************************)
(* TRK_SLEEP makes every cti_hangUp give up, that of the timeout thread    *)
(* included; it is therefore always matched by an entry of                 *)
(* m_sleep_channel_queue or by a thread that is about to put the channel   *)
(* there or to wake it, or the channel would hang in TRK_SLEEP for good.   *)
(***************************************************************************)
SleepIsPending ==
  \A c \in Channels : step[c] = "TRK_SLEEP" =>
    \/ InQueue(sleepQueue, c)
    \/ \E t \in Handlers : pc[t] \in {"put", "lock", "sleep"} /\ ch[t] = c

(***************************************************************************)
(* A delayed hang-up is not cut short: a trunk leaves TRK_SLEEP when the   *)
(* strategy thread wakes it or a new call is recorded, never because a     *)
(* cti_hangUp that passed its guards earlier releases it.                  *)
(***************************************************************************)
DelayIsNotCutShort ==
  [][\A c \in Channels : step[c] = "TRK_SLEEP" => step'[c] # "TRK_IDLE"]_vars

(***************************************************************************)
(* cti_hangUp answers through the trunk's m_client_socket, so it must not  *)
(* get past its guards on a trunk that serves no call.                     *)
(***************************************************************************)
HangupServesACall ==
  \A t \in Handlers : pc[t] = "write" => client[ch[t]] # Nobody

(***************************************************************************)
(* What the comment of cti_hangUp says: a repeated hang-up releases        *)
(* nothing again. The channel of a call that was hung up is back in the    *)
(* pool, and no hang-up of it gets past the guards before the next dial.   *)
(***************************************************************************)
HangupIsNotRepeated ==
  \A t \in Handlers : pc[t] = "write" => ~InQueue(channelQueue, ch[t])

(***************************************************************************)
(* What the Critical line of cti_callout takes for granted: a channel that *)
(* was just allocated has a free trunk mutex.                              *)
(***************************************************************************)
AllocatedTrunkIsFree == \A k \in Calls : callPc[k] # "lost"

(***************************************************************************)
(* What the log line for DIAL_BUSYTONE says of CIA_CALL_SUCCESS: the user  *)
(* can already see the code, so the call has reached the user's phone.     *)
(***************************************************************************)
SuccessMeansReached ==
  \A t \in CallbackThreads :
    pc[t] = "check" /\ MayHangup(ch[t]) /\ verdict[t] = CIA_CALL_SUCCESS
      => card[ch[t]] # "dialing"

------------------------------------------------------------------------------
(* The inductive invariant                                                  *)

\* p holds the trunk mutex of c: an activation between RecordCall and
\* RestartTimer, or a handler thread at one of these steps.
LockedPcs == {"flagUnlock", "put", "sleep", "check", "write", "unlock"}
HoldsMutex(p, c) ==
  \/ p \in Calls /\ callPc[p] = "restart" /\ callCh[p] = c
  \/ p \in Handlers /\ pc[p] \in LockedPcs /\ ch[p] = c

MutexDiscipline ==
  \A c \in Channels, p \in Calls \cup Handlers : lock[c] = p <=> HoldsMutex(p, c)

\* A trunk records a call exactly from RecordCall until its answer.
TrunkRecordsCall ==
  \A k \in Calls :
    /\ \A c \in Channels :
         client[c] = k <=> /\ callPc[k] \in {"restart", "handed"}
                          /\ callCh[k] = c
                          /\ responses[k] = <<>>
    /\ callPc[k] \notin {"handed", "answered"} => responses[k] = <<>>

\* A cti_hangUp past its guards still finds the step they tested.
GuardsStillHold ==
  \A t \in Handlers : pc[t] = "write" => step[ch[t]] \notin {"TRK_IDLE", "TRK_SLEEP"}

(***************************************************************************)
(* The invariant the proofs are by induction on: the trunk mutex is held   *)
(* by exactly the activation or thread whose step says so; a trunk names a *)
(* call exactly while cti_callout has handed it over and cti_hangUp has    *)
(* not answered it; and what the guards of cti_hangUp tested still holds   *)
(* when it writes, because everybody else who changes a trunk takes the    *)
(* mutex first.                                                            *)
(***************************************************************************)
IndInv ==
  /\ TypeOK
  /\ MutexDiscipline
  /\ TrunkRecordsCall
  /\ GuardsStillHold
  /\ ChannelHasOnePlace
  /\ CallHasOneAnswer

------------------------------------------------------------------------------
(* Liveness                                                                 *)

(***************************************************************************)
(* Every call request is answered, however many retries, events and        *)
(* hang-ups race, unless its trunk mutex was busy when the call was to be  *)
(* recorded or the process died.                                           *)
(***************************************************************************)
EveryCallIsAnswered ==
  \A k \in Calls :
    callPc[k] = "take" ~> (responses[k] # <<>> \/ callPc[k] = "lost" \/ crashed)

------------------------------------------------------------------------------
(* The abstract service                                                     *)

\* The call that has channel c: recorded in its trunk, or about to be.
Holder(c) ==
  IF client[c] # Nobody THEN client[c]
  ELSE IF \E k \in Calls : Holds(k, c) THEN CHOOSE k \in Calls : Holds(k, c)
  ELSE Nobody

Service == INSTANCE CallService WITH
  NoCall    <- Nobody,
  Success   <- CIA_CALL_SUCCESS,
  Fail      <- CIA_CALL_FAIL,
  Timeout   <- CIA_CALL_TIMEOUT,
  submitted <- {k \in Calls : callPc[k] # "new"},
  dialled   <- {k \in Calls : callPc[k] \in {"record", "restart", "handed", "lost"}},
  holder    <- [c \in Channels |-> Holder(c)],
  answers   <- responses

(***************************************************************************)
(* The controller implements the service: each of its steps is a step of   *)
(* CallService or leaves the service's state alone.                        *)
(***************************************************************************)
ImplementsService == Service!Spec

(***************************************************************************)
(* What the service promises, read in the controller's own state: a call   *)
(* never has two channels, nor one after its answer, and the answer fits   *)
(* what became of it: 99 only for a call the card accepted, 01 only for    *)
(* one that never got to the card.                                         *)
(***************************************************************************)
ServicePromises == Service!HoldsAtMostOne /\ Service!AnswersAreSound
==============================================================================
