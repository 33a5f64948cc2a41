-------------------------- MODULE CallServiceProofs --------------------------
(***************************************************************************)
(* Proofs about CallService, for any requests and channels.                *)
(***************************************************************************)
EXTENDS CallService, TLAPS

\* A free channel is told apart from a held one, and the statuses from each other.
ConstantsDiffer ==
  /\ NoCall \notin Calls
  /\ Success # Fail /\ Success # Timeout /\ Fail # Timeout

\* Only a dialled request can be answered with a hang-up's status.
AnswersInv ==
  \A k \in Calls :
    /\ k \in dialled => k \in submitted
    /\ \/ answers[k] = <<>>
       \/ \E a \in {Fail, Timeout} : answers[k] = <<a>> /\ k \notin dialled
       \/ \E a \in {Success, Fail} : answers[k] = <<a>> /\ k \in dialled

ServiceInv == ServiceTypeOK /\ HoldsAtMostOne /\ AnswersInv

\* A request that holds no channel is not dialled unless it has been answered.
DialledHolds ==
  \A k \in Calls : k \in dialled /\ answers[k] = <<>> => ~HasNoChannel(k)

\* Initially nothing is held and nothing answered.
LEMMA ServiceInit == ConstantsDiffer /\ Init => ServiceInv /\ DialledHolds
  <1> SUFFICES ASSUME ConstantsDiffer, Init PROVE ServiceInv /\ DialledHolds
    OBVIOUS
  <1>1. ServiceTypeOK
    <2>1. \A k \in Calls : <<>> \in Seq(Answers)
      OBVIOUS
    <2> QED
      BY <2>1 DEF Init, ServiceTypeOK
  <1>2. HoldsAtMostOne
    BY DEF ConstantsDiffer, Init, HoldsAtMostOne
  <1>3. AnswersInv /\ DialledHolds
    BY DEF Init, AnswersInv, DialledHolds
  <1> QED
    BY <1>1, <1>2, <1>3 DEF ServiceInv

\* An unanswered request is answered once.
LEMMA AnswerOnce ==
  ASSUME ServiceTypeOK, NEW k \in Calls, NEW a \in Answers, answers[k] = <<>>, Answer(k, a)
  PROVE  /\ answers' \in [Calls -> Seq(Answers)]
         /\ answers'[k] = <<a>>
         /\ \A j \in Calls \ {k} : answers'[j] = answers[j]
  <1>1. Append(<<>>, a) = <<a>> /\ <<a>> \in Seq(Answers)
    OBVIOUS
  <1> QED
    BY <1>1 DEF ServiceTypeOK, Answer

\* Every step of the service keeps the invariant: one case per action.
LEMMA ServiceStep ==
  ConstantsDiffer /\ ServiceInv /\ DialledHolds /\ [Next]_serviceVars
    => ServiceInv' /\ DialledHolds'
  <1> SUFFICES ASSUME ConstantsDiffer, ServiceInv, DialledHolds, [Next]_serviceVars
               PROVE  ServiceInv' /\ DialledHolds'
    OBVIOUS
  <1>0. ServiceTypeOK /\ HoldsAtMostOne /\ AnswersInv
    BY DEF ServiceInv
  <1>1. CASE UNCHANGED serviceVars
    BY <1>0, <1>1
    DEF ServiceInv, DialledHolds, ServiceTypeOK, HoldsAtMostOne, AnswersInv, HasNoChannel,
        serviceVars
  <1>2. ASSUME NEW k \in Calls, Submit(k) PROVE ServiceInv' /\ DialledHolds'
    BY <1>0, <1>2
    DEF ServiceInv, DialledHolds, ServiceTypeOK, HoldsAtMostOne, AnswersInv, HasNoChannel, Submit
  <1>3. ASSUME NEW k \in Calls, GiveUp(k) PROVE ServiceInv' /\ DialledHolds'
    <2>1. PICK a \in {Timeout, Fail} :
            /\ answers[k] = <<>> /\ k \in submitted /\ HasNoChannel(k) /\ Answer(k, a)
            /\ a \in Answers /\ UNCHANGED <<submitted, dialled, holder>>
      BY <1>3 DEF GiveUp, Unanswered, Answers
    <2>2. k \notin dialled
      BY <1>0, <2>1 DEF DialledHolds
    <2>3. /\ answers' \in [Calls -> Seq(Answers)] /\ answers'[k] = <<a>>
          /\ \A j \in Calls \ {k} : answers'[j] = answers[j]
      BY <1>0, <2>1, AnswerOnce
    <2>4. ServiceTypeOK' /\ HoldsAtMostOne'
      BY <1>0, <2>1, <2>3 DEF ServiceTypeOK, HoldsAtMostOne, HasNoChannel
    <2>5. AnswersInv'
      BY <1>0, <2>1, <2>2, <2>3 DEF AnswersInv
    <2>6. DialledHolds'
      BY <2>1, <2>2, <2>3 DEF DialledHolds, HasNoChannel
    <2> QED
      BY <2>4, <2>5, <2>6 DEF ServiceInv
  <1>4. ASSUME NEW k \in Calls, NEW c \in Channels, Seize(k, c) PROVE ServiceInv' /\ DialledHolds'
    <2>1. /\ answers[k] = <<>> /\ holder[c] = NoCall /\ \A d \in Channels : holder[d] # k
          /\ \A d \in Channels : holder'[d] = IF d = c THEN k ELSE holder[d]
          /\ holder' \in [Channels -> Calls \cup {NoCall}]
          /\ UNCHANGED <<submitted, dialled, answers>>
      BY <1>0, <1>4 DEF Seize, Unanswered, HasNoChannel, ServiceTypeOK
    <2>2. ServiceTypeOK' /\ AnswersInv'
      BY <1>0, <2>1 DEF ServiceTypeOK, AnswersInv
    <2>3. HoldsAtMostOne'
      BY <1>0, <2>1 DEF HoldsAtMostOne, HasNoChannel
    <2>4. DialledHolds'
      <3> SUFFICES ASSUME NEW j \in Calls, j \in dialled, answers[j] = <<>>
                   PROVE  \E d \in Channels : holder'[d] = j
        BY <2>1 DEF DialledHolds, HasNoChannel
      <3>1. PICK d \in Channels : holder[d] = j
        BY DEF DialledHolds, HasNoChannel
      <3>2. d # c
        BY <2>1, <3>1 DEF ConstantsDiffer
      <3> QED
        BY <2>1, <3>1, <3>2
    <2> QED
      BY <2>2, <2>3, <2>4 DEF ServiceInv
  <1>5. ASSUME NEW k \in Calls, NEW c \in Channels, Dial(k, c) PROVE ServiceInv' /\ DialledHolds'
    <2>1. /\ answers[k] = <<>> /\ k \in submitted /\ holder[c] = k
          /\ dialled' = dialled \cup {k} /\ UNCHANGED <<submitted, holder, answers>>
      BY <1>5 DEF Dial, Unanswered
    <2>2. ServiceTypeOK' /\ HoldsAtMostOne'
      BY <1>0, <2>1 DEF ServiceTypeOK, HoldsAtMostOne, HasNoChannel
    <2>3. AnswersInv'
      BY <1>0, <2>1 DEF AnswersInv
    <2>4. DialledHolds'
      BY <2>1 DEF DialledHolds, HasNoChannel
    <2> QED
      BY <2>2, <2>3, <2>4 DEF ServiceInv
  <1>6. ASSUME NEW k \in Calls, NEW c \in Channels, DialRefused(k, c) \/ HangUp(k, c)
        PROVE  ServiceInv' /\ DialledHolds'
    <2>1. /\ answers[k] = <<>> /\ k \in submitted /\ holder[c] = k
          /\ \A d \in Channels : holder'[d] = IF d = c THEN NoCall ELSE holder[d]
          /\ holder' \in [Channels -> Calls \cup {NoCall}]
          /\ UNCHANGED <<submitted, dialled>>
      BY <1>0, <1>6 DEF DialRefused, HangUp, Unanswered, Free, ServiceTypeOK
    <2>2. \A d \in Channels : holder'[d] # k
      BY <1>0, <2>1 DEF ConstantsDiffer, HoldsAtMostOne
    <2>3. \/ UNCHANGED answers /\ k \notin dialled
          \/ \E a \in {Success, Fail} : Answer(k, a) /\ k \in dialled
      BY <1>6 DEF DialRefused, HangUp
    <2>4. \A j \in Calls \ {k} : answers'[j] = answers[j]
      BY <1>0, <2>3 DEF Answer, ServiceTypeOK
    <2>5. /\ answers' \in [Calls -> Seq(Answers)]
          /\ \/ answers'[k] = <<>> /\ k \notin dialled
             \/ \E a \in {Success, Fail} : answers'[k] = <<a>> /\ k \in dialled
      <3>1. CASE UNCHANGED answers /\ k \notin dialled
        BY <1>0, <2>1, <3>1 DEF ServiceTypeOK
      <3>2. ASSUME NEW a \in {Success, Fail}, Answer(k, a), k \in dialled
            PROVE  answers' \in [Calls -> Seq(Answers)] /\ answers'[k] = <<a>>
        BY <1>0, <2>1, <3>2, AnswerOnce DEF Answers
      <3> QED
        BY <2>3, <3>1, <3>2
    <2>6. ServiceTypeOK'
      BY <1>0, <2>1, <2>5 DEF ServiceTypeOK
    <2>7. \A j \in Calls \ {k}, d \in Channels : holder'[d] = j <=> holder[d] = j
      BY <2>1 DEF ConstantsDiffer
    <2>8. HoldsAtMostOne'
      BY <1>0, <2>2, <2>4, <2>7 DEF HoldsAtMostOne, HasNoChannel
    <2>9. AnswersInv'
      <3> SUFFICES ASSUME NEW j \in Calls
                   PROVE  /\ j \in dialled => j \in submitted
                          /\ \/ answers'[j] = <<>>
                             \/ \E a \in {Fail, Timeout} : answers'[j] = <<a>> /\ j \notin dialled
                             \/ \E a \in {Success, Fail} : answers'[j] = <<a>> /\ j \in dialled
        BY <2>1 DEF AnswersInv
      <3>1. CASE j = k
        BY <2>1, <2>5, <3>1
      <3>2. CASE j # k
        BY <1>0, <2>4, <3>2 DEF AnswersInv
      <3> QED
        BY <3>1, <3>2
    <2>10. DialledHolds'
      <3> SUFFICES ASSUME NEW j \in Calls, j \in dialled, answers'[j] = <<>>
                   PROVE  \E d \in Channels : holder'[d] = j
        BY <2>1 DEF DialledHolds, HasNoChannel
      <3>1. j # k
        <4>1. \A a : <<a>> # <<>>
          OBVIOUS
        <4> QED
          BY <2>5, <4>1
      <3>2. PICK d \in Channels : holder[d] = j
        BY <2>4, <3>1 DEF DialledHolds, HasNoChannel
      <3> QED
        BY <2>7, <3>1, <3>2
    <2> QED
      BY <2>6, <2>8, <2>9, <2>10 DEF ServiceInv
  <1> QED
    BY <1>1, <1>2, <1>3, <1>4, <1>5, <1>6 DEF Next

\* The invariant holds throughout every behaviour.
LEMMA ServiceInvariant == ConstantsDiffer => (Spec => []ServiceInv)
  <1> SUFFICES ASSUME ConstantsDiffer PROVE Spec => []ServiceInv
    OBVIOUS
  <1>1. Init => ServiceInv /\ DialledHolds
    BY ServiceInit
  <1>2. ServiceInv /\ DialledHolds /\ [Next]_serviceVars => ServiceInv' /\ DialledHolds'
    BY ServiceStep
  <1> QED
    BY <1>1, <1>2, PTL DEF Spec

(***************************************************************************)
(* A request never holds two channels, and none once it is answered.       *)
(***************************************************************************)
THEOREM OneChannelEach == ConstantsDiffer => (Spec => []HoldsAtMostOne)
  <1> SUFFICES ASSUME ConstantsDiffer PROVE Spec => []HoldsAtMostOne
    OBVIOUS
  <1>1. ServiceInv => HoldsAtMostOne
    BY DEF ServiceInv
  <1> QED
    BY <1>1, ServiceInvariant, PTL

(***************************************************************************)
(* One answer per request; CIA_CALL_SUCCESS only after the card has        *)
(* accepted the dial, CIA_CALL_TIMEOUT only if it never did, provided the  *)
(* three statuses are different strings, as in cia_def.h.                  *)
(***************************************************************************)
THEOREM SoundAnswers == ConstantsDiffer => (Spec => []AnswersAreSound)
  <1> SUFFICES ASSUME ConstantsDiffer PROVE Spec => []AnswersAreSound
    OBVIOUS
  <1>1. ServiceInv => AnswersAreSound
    <2> SUFFICES ASSUME ServiceInv, NEW k \in Calls
                 PROVE  /\ Len(answers[k]) <= 1
                        /\ answers[k] = <<Success>> => k \in dialled
                        /\ answers[k] = <<Timeout>> => k \notin dialled
      BY DEF AnswersAreSound
    <2>1. Len(<<>>) = 0 /\ \A a \in Answers : Len(<<a>>) = 1 /\ <<a>> # <<>>
      OBVIOUS
    <2>2. \A a, b \in Answers : <<a>> = <<b>> => a = b
      OBVIOUS
    <2>3. {Success, Fail, Timeout} \subseteq Answers
      BY DEF Answers
    <2>4. CASE answers[k] = <<>>
      BY <2>1, <2>3, <2>4
    <2>5. ASSUME NEW a \in {Fail, Timeout}, answers[k] = <<a>>, k \notin dialled
          PROVE  /\ Len(answers[k]) = 1
                 /\ answers[k] # <<Success>>
      <3>1. a \in Answers /\ a # Success
        BY <2>3, <2>5 DEF ConstantsDiffer
      <3> QED
        BY <2>1, <2>2, <2>3, <2>5, <3>1
    <2>6. ASSUME NEW a \in {Success, Fail}, answers[k] = <<a>>, k \in dialled
          PROVE  /\ Len(answers[k]) = 1
                 /\ answers[k] # <<Timeout>>
      <3>1. a \in Answers /\ a # Timeout
        BY <2>3, <2>6 DEF ConstantsDiffer
      <3> QED
        BY <2>1, <2>2, <2>3, <2>6, <3>1
    <2>7. \/ answers[k] = <<>>
          \/ \E a \in {Fail, Timeout} : answers[k] = <<a>> /\ k \notin dialled
          \/ \E a \in {Success, Fail} : answers[k] = <<a>> /\ k \in dialled
      BY DEF ServiceInv, AnswersInv
    <2>8. CASE \E a \in {Fail, Timeout} : answers[k] = <<a>> /\ k \notin dialled
      BY <2>5, <2>8
    <2>9. CASE \E a \in {Success, Fail} : answers[k] = <<a>> /\ k \in dialled
      BY <2>6, <2>9
    <2> QED
      BY <2>4, <2>7, <2>8, <2>9
  <1> QED
    BY <1>1, ServiceInvariant, PTL
==============================================================================
