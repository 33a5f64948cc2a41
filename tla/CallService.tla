----------------------------- MODULE CallService -----------------------------
(***************************************************************************)
(* What the voice-card controller promises to the network side, without    *)
(* its threads, mutexes, timers and queues: a call request seizes one      *)
(* channel at a time, no channel is shared, and a request gets at most one *)
(* answer, which is CIA_CALL_SUCCESS only if the card accepted its dial.   *)
(* VoiceCard implements this specification.                                *)
(*                                                                         *)
(* Nothing obliges the service to answer: that is left to the liveness     *)
(* property of the implementation.                                         *)
(***************************************************************************)
EXTENDS Integers, Sequences

CONSTANTS
  Calls,      \* call requests
  Channels,   \* channels of the card
  NoCall,     \* the holder of a free channel, not a request
  Success, Fail, Timeout

Answers == {Success, Fail, Timeout}

VARIABLES
  submitted,  \* the requests made so far
  dialled,    \* the requests whose dial the card has accepted
  holder,     \* the request that holds each channel
  answers     \* the answers given to each request

serviceVars == <<submitted, dialled, holder, answers>>

ServiceTypeOK ==
  /\ submitted \in SUBSET Calls
  /\ dialled \in SUBSET Calls
  /\ holder \in [Channels -> Calls \cup {NoCall}]
  /\ answers \in [Calls -> Seq(Answers)]

Unanswered(k) == k \in submitted /\ answers[k] = <<>>
HasNoChannel(k) == \A c \in Channels : holder[c] # k

Answer(k, a) == answers' = [answers EXCEPT ![k] = Append(@, a)]
Free(c) == holder' = [holder EXCEPT ![c] = NoCall]

Init ==
  /\ submitted = {}
  /\ dialled = {}
  /\ holder = [c \in Channels |-> NoCall]
  /\ answers = [k \in Calls |-> <<>>]

Submit(k) ==
  /\ k \notin submitted
  /\ submitted' = submitted \cup {k}
  /\ UNCHANGED <<dialled, holder, answers>>

\* A free channel is taken from the pool.
Seize(k, c) ==
  /\ Unanswered(k) /\ HasNoChannel(k)
  /\ holder[c] = NoCall
  /\ holder' = [holder EXCEPT ![c] = k]
  /\ UNCHANGED <<submitted, dialled, answers>>

\* The retries have taken too long, or the card has refused the dial twice.
GiveUp(k) ==
  /\ Unanswered(k) /\ HasNoChannel(k)
  /\ \E a \in {Timeout, Fail} : Answer(k, a)
  /\ UNCHANGED <<submitted, dialled, holder>>

Dial(k, c) ==
  /\ Unanswered(k) /\ holder[c] = k
  /\ dialled' = dialled \cup {k}
  /\ UNCHANGED <<submitted, holder, answers>>

\* The card refuses the dial: the channel is given back.
DialRefused(k, c) ==
  /\ Unanswered(k) /\ holder[c] = k /\ k \notin dialled
  /\ Free(c)
  /\ UNCHANGED <<submitted, dialled, answers>>

\* The call is over: the channel is given back with the final answer.
HangUp(k, c) ==
  /\ Unanswered(k) /\ holder[c] = k /\ k \in dialled
  /\ Free(c)
  /\ \E a \in {Success, Fail} : Answer(k, a)
  /\ UNCHANGED <<submitted, dialled>>

Next ==
  \E k \in Calls :
    \/ Submit(k) \/ GiveUp(k)
    \/ \E c \in Channels : Seize(k, c) \/ Dial(k, c) \/ DialRefused(k, c) \/ HangUp(k, c)

Spec == Init /\ [][Next]_serviceVars

------------------------------------------------------------------------------
(***************************************************************************)
(* No request holds two channels, and an answered request holds none: the  *)
(* channel that cti_hangUp or a refused dial frees is the only one the     *)
(* request had.                                                            *)
(***************************************************************************)
HoldsAtMostOne ==
  \A k \in Calls :
    /\ \A c, d \in Channels : holder[c] = k /\ holder[d] = k => c = d
    /\ answers[k] # <<>> => HasNoChannel(k)

(***************************************************************************)
(* The final answers: one per request; CIA_CALL_SUCCESS only for a dialled *)
(* one, CIA_CALL_TIMEOUT only for one that never was.                      *)
(***************************************************************************)
AnswersAreSound ==
  \A k \in Calls :
    /\ Len(answers[k]) <= 1
    /\ answers[k] = <<Success>> => k \in dialled
    /\ answers[k] = <<Timeout>> => k \notin dialled
==============================================================================
