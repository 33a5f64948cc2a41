--------------------------- MODULE CiaClientProofs ---------------------------
(***************************************************************************)
(* Proofs about CiaClient, for any number of clients, io threads, callers  *)
(* and buffers and any timeout.                                            *)
(***************************************************************************)
EXTENDS CiaClient, SequenceTheorems, FiniteSetTheorems, WellFoundedInduction, TLAPS

------------------------------------------------------------------------------
(* The vector of clients                                                    *)

\* A set of natural numbers has a least element.
LEMMA LeastNat ==
  ASSUME NEW T \in SUBSET Nat, T # {}
  PROVE  \E x \in T : \A y \in T : x <= y
  <1>1. PICK x \in T : \A y \in T : ~(<<y, x>> \in OpToRel(<, Nat))
    BY NatLessThanWellFounded, WFMin
  <1>2. \A y \in T : ~(y < x)
    BY <1>1 DEF OpToRel
  <1> QED
    BY <1>2

\* std::find returns the place of c if c is there, and otherwise the end.
LEMMA FindPlace ==
  ASSUME NEW s \in Seq(Clients), NEW c
  PROVE  /\ Find(s, c) \in 1 .. Len(s) + 1
         /\ (\E i \in DOMAIN s : s[i] = c) => Find(s, c) \in DOMAIN s /\ s[Find(s, c)] = c
  <1>1. Len(s) \in Nat /\ DOMAIN s = 1 .. Len(s)
    BY LenProperties
  <1>2. CASE \E i \in DOMAIN s : s[i] = c
    <2>1. PICK i \in {j \in DOMAIN s : s[j] = c} : \A j \in {k \in DOMAIN s : s[k] = c} : i <= j
      <3>1. {j \in DOMAIN s : s[j] = c} \in SUBSET Nat /\ {j \in DOMAIN s : s[j] = c} # {}
        BY <1>1, <1>2
      <3> QED
        BY <3>1, LeastNat
    <2>2. i \in DOMAIN s /\ s[i] = c /\ \A j \in 1 .. i - 1 : s[j] # c
      BY <1>1, <2>1
    <2>3. Find(s, c) \in DOMAIN s /\ s[Find(s, c)] = c
      BY <1>2, <2>2 DEF Find
    <2> QED
      BY <1>1, <2>3
  <1>3. CASE ~\E i \in DOMAIN s : s[i] = c
    BY <1>1, <1>3 DEF Find
  <1> QED
    BY <1>2, <1>3

\* Erasing an entry closes the gap.
LEMMA ErasePlace ==
  ASSUME NEW s \in Seq(Clients), NEW p \in DOMAIN s
  PROVE  /\ RemoveAt(s, p) \in Seq(Clients)
         /\ Len(RemoveAt(s, p)) = Len(s) - 1
         /\ \A i \in 1 .. Len(s) - 1 :
              RemoveAt(s, p)[i] = IF i < p THEN s[i] ELSE s[i + 1]
  <1>1. Len(s) \in Nat /\ DOMAIN s = 1 .. Len(s) /\ \A i \in 1 .. Len(s) : s[i] \in Clients
    BY LenProperties, ElementOfSeq
  <1> DEFINE a == SubSeq(s, 1, p - 1)
             b == SubSeq(s, p + 1, Len(s))
  <1>2. /\ a \in Seq(Clients) /\ Len(a) = p - 1
        /\ \A i \in 1 .. p - 1 : a[i] = s[i]
    <2>1. 1 \in Int /\ p - 1 \in Int /\ \A i \in 1 .. p - 1 : s[i] \in Clients
      BY <1>1
    <2>2. /\ a \in Seq(Clients) /\ Len(a) = IF 1 <= p - 1 THEN (p - 1) - 1 + 1 ELSE 0
          /\ \A i \in 1 .. (p - 1) - 1 + 1 : a[i] = s[1 + i - 1]
      BY <2>1, SubSeqProperties
    <2>3. (p - 1) - 1 + 1 = p - 1 /\ \A i \in 1 .. p - 1 : 1 + i - 1 = i
      BY <1>1
    <2>4. Len(a) = p - 1
      BY <1>1, <2>2
    <2> HIDE DEF a
    <2> QED
      BY <2>2, <2>3, <2>4
  <1>3. /\ b \in Seq(Clients) /\ Len(b) = Len(s) - p
        /\ \A i \in 1 .. Len(s) - p : b[i] = s[p + i]
    <2>1. p + 1 \in Int /\ Len(s) \in Int /\ \A i \in p + 1 .. Len(s) : s[i] \in Clients
      BY <1>1
    <2>2. /\ b \in Seq(Clients) /\ Len(b) = IF p + 1 <= Len(s) THEN Len(s) - (p + 1) + 1 ELSE 0
          /\ \A i \in 1 .. Len(s) - (p + 1) + 1 : b[i] = s[p + 1 + i - 1]
      BY <2>1, SubSeqProperties
    <2>3. Len(s) - (p + 1) + 1 = Len(s) - p /\ \A i \in 1 .. Len(s) - p : p + 1 + i - 1 = p + i
      BY <1>1
    <2>4. Len(b) = Len(s) - p
      BY <1>1, <2>2
    <2> HIDE DEF b
    <2> QED
      BY <2>2, <2>3, <2>4
  <1>4. /\ a \o b \in Seq(Clients) /\ Len(a \o b) = Len(a) + Len(b)
        /\ \A i \in 1 .. Len(a) + Len(b) :
             (a \o b)[i] = IF i <= Len(a) THEN a[i] ELSE b[i - Len(a)]
    BY <1>2, <1>3, ConcatProperties
  <1>5. RemoveAt(s, p) = a \o b
    BY DEF RemoveAt
  <1>6. Len(a) + Len(b) = Len(s) - 1
    BY <1>1, <1>2, <1>3
  <1> HIDE DEF a, b
  <1>7. ASSUME NEW i \in 1 .. Len(s) - 1
        PROVE  (a \o b)[i] = IF i < p THEN s[i] ELSE s[i + 1]
    <2>1. CASE i < p
      BY <1>1, <1>2, <1>4, <1>6, <2>1
    <2>2. CASE ~(i < p)
      <3>1. i - (p - 1) \in 1 .. Len(s) - p /\ p + (i - (p - 1)) = i + 1
        BY <1>1, <2>2
      <3>2. (a \o b)[i] = b[i - (p - 1)]
        BY <1>1, <1>2, <1>4, <1>6, <2>2
      <3> QED
        BY <1>3, <2>2, <3>1, <3>2
    <2> QED
      BY <2>1, <2>2
  <1> QED
    BY <1>1, <1>4, <1>5, <1>6, <1>7

------------------------------------------------------------------------------
(* Types                                                                    *)

\* The constants are what they are meant to be.
LEMMA ConstantTypes ==
  /\ Buffers \in Nat /\ TimeoutElapsed \in Nat /\ CheckPeriod \in Nat /\ MaxMessages \in Nat
  /\ \A t \in IoThreads : t # "waiting" /\ t # "closed" /\ t \notin Callers
  /\ NoClient \notin Clients
  BY FS_CardinalityType, BufferAssumption, SessionAssumption

\* A thread that turns to a step, and stays with its client or takes one up, has
\* well-typed locals.
LEMMA TurnType ==
  ASSUME TypeOK, NEW t \in Threads, NEW c \in Clients \cup {NoClient}, NEW step \in Pcs,
         NEW after \in {"idle", "rearm"}, Turn(t, c, step, after)
  PROVE  /\ pc' \in [Threads -> Pcs]
         /\ cl' \in [Threads -> Clients \cup {NoClient}]
         /\ rest' \in [Threads -> {"idle", "rearm"}]
  BY DEF TypeOK, Turn

\* Likewise for its next step.
LEMMA GotoType ==
  ASSUME TypeOK, NEW t \in Threads, NEW step \in Pcs, Goto(t, step)
  PROVE  /\ pc' \in [Threads -> Pcs]
         /\ cl' \in [Threads -> Clients \cup {NoClient}]
         /\ rest' \in [Threads -> {"idle", "rearm"}]
  <1>1. cl[t] \in Clients \cup {NoClient} /\ rest[t] \in {"idle", "rearm"}
    BY DEF TypeOK
  <1> QED
    BY <1>1, TurnType DEF Goto

\* Initially every variable has its type.
LEMMA InitType == Init => TypeOK
  <1> SUFFICES ASSUME Init PROVE TypeOK
    OBVIOUS
  <1>1. registered \in Seq(Clients) /\ acceptor = "waiting" /\ broken = FALSE
    BY DEF Init
  <1>2. /\ started \in [Clients -> BOOLEAN] /\ open \in [Clients -> BOOLEAN]
        /\ idle \in [Clients -> 0 .. TimeoutElapsed + 1]
        /\ timer \in [Clients -> (0 .. CheckPeriod) \cup {NoTimer}]
        /\ read \in [Clients -> Reads]
        /\ free \in [Clients -> 0 .. Buffers] /\ flying \in [Clients -> 0 .. Buffers]
        /\ calls \in [Clients -> Nat]
        /\ peer \in [Clients -> Peers] /\ sent \in [Clients -> 0 .. MaxMessages]
    BY ConstantTypes DEF Init, Reads, Peers
  <1>3. /\ pc \in [Threads -> Pcs] /\ cl \in [Threads -> Clients \cup {NoClient}]
        /\ rest \in [Threads -> {"idle", "rearm"}] /\ pos \in [Threads -> Nat]
    BY DEF Init, Pcs
  <1> QED
    BY <1>1, <1>2, <1>3 DEF TypeOK

\* The steps of an io thread that takes a completion.
LEMMA CompletionType ==
  ASSUME TypeOK, BuffersConserved, NEW t \in IoThreads, NEW c \in Clients,
         Accept(t, c) \/ ReadDone(t, c) \/ SendDone(t, c) \/ TimerDone(t, c)
  PROVE  TypeOK'
  <1>1. t \in Threads
    BY DEF Threads
  <1>2. 0 \in 0 .. TimeoutElapsed + 1
    BY ConstantTypes
  <1>3. ASSUME NEW step \in Pcs, NEW after \in {"idle", "rearm"}, Turn(t, c, step, after)
        PROVE  /\ pc' \in [Threads -> Pcs] /\ cl' \in [Threads -> Clients \cup {NoClient}]
               /\ rest' \in [Threads -> {"idle", "rearm"}]
    BY <1>1, <1>3, TurnType
  <1> USE DEF TypeOK
  <1>4. CASE Accept(t, c)
    BY <1>2, <1>3, <1>4, AppendProperties DEF Accept, Refresh, Reads, Peers, Pcs, stopVars
  <1>5. CASE HeaderDone(t, c)
    BY <1>3, <1>5 DEF HeaderDone, Reads, Pcs, sessionVars, peerVars, threadVars, stopVars
  <1>6. CASE BodyDone(t, c)
    BY <1>2, <1>3, <1>6 DEF BodyDone, Refresh, Reads, Pcs, peerVars, stopVars
  <1>7. CASE ReadFails(t, c)
    BY <1>3, <1>7 DEF ReadFails, Reads, Pcs, sessionVars, peerVars, stopVars
  <1>8. CASE SendDone(t, c)
    <2>1. flying[c] - 1 \in 0 .. Buffers /\ free[c] + 1 \in 0 .. Buffers
      <3>1. flying[c] \in 0 .. Buffers /\ free[c] \in 0 .. Buffers
        OBVIOUS
      <3>2. flying[c] > 0 /\ free[c] + flying[c] = Buffers
        BY <1>8 DEF SendDone, BuffersConserved
      <3> HIDE DEF TypeOK
      <3> QED
        BY <3>1, <3>2, ConstantTypes
    <2>2. free' \in [Clients -> 0 .. Buffers] /\ flying' \in [Clients -> 0 .. Buffers]
      BY <1>8, <2>1 DEF SendDone
    <2>3. idle' \in [Clients -> 0 .. TimeoutElapsed + 1]
      BY <1>2, <1>8 DEF SendDone, Refresh
    <2>4. /\ pc' \in [Threads -> Pcs] /\ cl' \in [Threads -> Clients \cup {NoClient}]
          /\ rest' \in [Threads -> {"idle", "rearm"}]
      BY <1>3, <1>8 DEF SendDone, Pcs, threadVars
    <2> QED
      BY <1>8, <2>2, <2>3, <2>4 DEF SendDone, peerVars, stopVars
  <1>9. CASE TimerDone(t, c)
    BY <1>3, <1>9 DEF TimerDone, Pcs, ioVars, peerVars, stopVars
  <1> QED
    BY <1>4, <1>5, <1>6, <1>7, <1>8, <1>9 DEF ReadDone

\* The steps of a thread within a handler.
LEMMA WorkType ==
  ASSUME TypeOK, BuffersConserved, HandlersHaveClients, NEW t \in Threads, Work(t)
  PROVE  TypeOK'
  <1>1. 0 \in 0 .. TimeoutElapsed + 1 /\ CheckPeriod \in 0 .. CheckPeriod
    BY ConstantTypes
  <1>2. ASSUME NEW step \in Pcs, Goto(t, step)
        PROVE  /\ pc' \in [Threads -> Pcs] /\ cl' \in [Threads -> Clients \cup {NoClient}]
               /\ rest' \in [Threads -> {"idle", "rearm"}]
    BY <1>2, GotoType
  <1> USE DEF TypeOK
  <1>3. pc[t] # "idle" => cl[t] \in Clients
    BY DEF HandlersHaveClients
  <1>4. rest[t] \in Pcs
    BY DEF Pcs
  <1>5. CASE Heart(t)
    BY <1>1, <1>2, <1>5 DEF Heart, Refresh, Pcs, ioVars, peerVars, stopVars
  <1>6. CASE CallOut(t)
    BY <1>2, <1>3, <1>6, SMTT(60) DEF CallOut, Pcs, sessionVars, peerVars, stopVars
  <1>7. CASE Write(t)
    <2>1. free[cl[t]] - 1 \in 0 .. Buffers /\ flying[cl[t]] + 1 \in 0 .. Buffers
      BY <1>3, <1>7, ConstantTypes DEF Write, BuffersConserved
    <2> QED
      BY <1>2, <1>4, <1>7, <2>1 DEF Write, sessionVars, peerVars, stopVars
  <1>8. CASE Rearm(t)
    BY <1>1, <1>2, <1>8 DEF Rearm, Pcs, ioVars, peerVars, stopVars
  <1>9. CASE Reaccept(t)
    BY <1>2, <1>9 DEF Reaccept, Pcs, ioVars, peerVars, stopVars
  <1>10. CASE StopTest(t)
    BY <1>2, <1>4, <1>10 DEF StopTest, Pcs, sessionVars, ioVars, peerVars, stopVars
  <1>11. CASE StopClose(t)
    BY <1>2, <1>11 DEF StopClose, Pcs, ioVars, peerVars, stopVars
  <1>12. CASE StopFind(t)
    <2>1. Find(registered, cl[t]) \in Nat
      BY LenProperties, FindPlace
    <2> QED
      BY <1>2, <1>12, <2>1 DEF StopFind, Pcs, sessionVars, ioVars, peerVars
  <1>13. CASE StopErase(t)
    <2>1. RemoveAt(registered, pos[t]) \in Seq(Clients)
      <3>1. pos[t] \in DOMAIN registered
        BY <1>13, LenProperties DEF StopErase, HandlersHaveClients
      <3> QED
        BY <3>1, ErasePlace
    <2> QED
      BY <1>2, <1>4, <1>13, <2>1 DEF StopErase, ioVars, peerVars
  <1>14. CASE StopBreaks(t)
    BY <1>14 DEF StopBreaks, sessionVars, ioVars, peerVars, threadVars
  <1> QED
    BY <1>5, <1>6, <1>7, <1>8, <1>9, <1>10, <1>11, <1>12, <1>13, <1>14 DEF Work, Stop

\* The steps of the peers, of the voice card and of time.
LEMMA EnvironmentType ==
  ASSUME TypeOK, Tick \/ (\E c \in Clients : Arrive(c) \/ PeerLeaves(c))
                      \/ (\E w \in Callers, c \in Clients : CallerAnswers(w, c))
                      \/ (\E t \in IoThreads : AcceptFails(t))
  PROVE  TypeOK'
  <1>1. CASE Tick
    <2>1. ASSUME NEW c \in Clients
          PROVE  /\ idle'[c] \in 0 .. TimeoutElapsed + 1
                 /\ timer'[c] \in (0 .. CheckPeriod) \cup {NoTimer}
      BY <1>1, ConstantTypes, SMTT(60) DEF TypeOK, Tick, NoTimer
    <2>2. /\ idle' = [c \in Clients |-> idle'[c]]
          /\ timer' = [c \in Clients |-> timer'[c]]
      BY <1>1 DEF Tick
    <2>3. /\ idle' \in [Clients -> 0 .. TimeoutElapsed + 1]
          /\ timer' \in [Clients -> (0 .. CheckPeriod) \cup {NoTimer}]
      BY <2>1, <2>2
    <2> QED
      BY <1>1, <2>3 DEF TypeOK, Tick, ioVars, peerVars, threadVars, stopVars
  <1>2. ASSUME NEW c \in Clients, Arrive(c) PROVE TypeOK'
    <2>1. sent[c] < MaxMessages => sent[c] + 1 \in 0 .. MaxMessages
      BY ConstantTypes, SMTT(60) DEF TypeOK
    <2>2. read' \in [Clients -> Reads]
      BY <1>2, SMTT(60) DEF TypeOK, Arrive, Reads
    <2>3. sent' \in [Clients -> 0 .. MaxMessages]
      <3>1. sent \in [Clients -> 0 .. MaxMessages]
        BY DEF TypeOK
      <3>2. \/ UNCHANGED sent
            \/ sent[c] < MaxMessages /\ sent' = [sent EXCEPT ![c] = sent[c] + 1]
        BY <1>2 DEF Arrive
      <3> QED
        BY <2>1, <3>1, <3>2
    <2> QED
      BY <1>2, <2>2, <2>3 DEF TypeOK, Arrive, sessionVars, threadVars, stopVars
  <1>3. ASSUME NEW c \in Clients, PeerLeaves(c) PROVE TypeOK'
    BY <1>3 DEF TypeOK, PeerLeaves, Peers, sessionVars, ioVars, threadVars, stopVars
  <1>4. ASSUME NEW w \in Callers, NEW c \in Clients, CallerAnswers(w, c) PROVE TypeOK'
    <2>1. /\ pc' \in [Threads -> Pcs] /\ cl' \in [Threads -> Clients \cup {NoClient}]
          /\ rest' \in [Threads -> {"idle", "rearm"}]
      <3>1. w \in Threads /\ "take" \in Pcs
        BY DEF Threads, Pcs
      <3> QED
        BY <1>4, <3>1, TurnType DEF CallerAnswers
    <2> QED
      BY <1>4, <2>1, SMTT(60) DEF TypeOK, CallerAnswers, sessionVars, peerVars, stopVars
  <1>5. ASSUME NEW t \in IoThreads, AcceptFails(t) PROVE TypeOK'
    BY <1>5 DEF TypeOK, AcceptFails, ioVars, peerVars, threadVars, stopVars
  <1> QED
    BY <1>1, <1>2, <1>3, <1>4, <1>5

\* Every step keeps the types.
LEMMA TypeStep ==
  ASSUME TypeOK, SessionInv, [Next]_vars
  PROVE  TypeOK'
  <1>1. CASE UNCHANGED vars
    BY <1>1 DEF TypeOK, vars, sessionVars, ioVars, peerVars, threadVars, stopVars
  <1>2. CASE Next
    BY <1>2, CompletionType, WorkType, EnvironmentType DEF Next, SessionInv
  <1> QED
    BY <1>1, <1>2

------------------------------------------------------------------------------
(* The inductive invariant                                                  *)

\* It holds at first: nothing has been accepted.
LEMMA InitSession == Init => SessionInv
  BY ConstantTypes
  DEF Init, SessionInv, BuffersConserved, AbsentIsUntouched, HandlersHaveClients,
      CallersOnlyWrite, SessionIsRead, SessionIsWatched, Threads

\* The steps, one by one.
LEMMA Steps ==
  ASSUME [Next]_vars
  PROVE  \/ UNCHANGED vars
         \/ \E t \in IoThreads, c \in Clients :
              \/ Accept(t, c) \/ HeaderDone(t, c) \/ BodyDone(t, c) \/ ReadFails(t, c)
              \/ SendDone(t, c) \/ TimerDone(t, c)
         \/ \E t \in IoThreads : AcceptFails(t)
         \/ \E t \in Threads :
              \/ Heart(t) \/ CallOut(t) \/ Write(t) \/ Rearm(t) \/ Reaccept(t)
              \/ StopTest(t) \/ StopClose(t) \/ StopFind(t) \/ StopErase(t) \/ StopBreaks(t)
         \/ \E w \in Callers, c \in Clients : CallerAnswers(w, c)
         \/ \E c \in Clients : Arrive(c) \/ PeerLeaves(c)
         \/ Tick
  BY DEF Next, ReadDone, Work, Stop

\* A buffer is taken for a send and comes back with it.
LEMMA BuffersStep ==
  ASSUME TypeOK, SessionInv, [Next]_vars
  PROVE  BuffersConserved'
  <1>1. CASE UNCHANGED <<free, flying>>
    BY <1>1 DEF SessionInv, BuffersConserved
  <1>2. ASSUME NEW t \in Threads, Write(t) PROVE BuffersConserved'
    <2>1. cl[t] \in Clients
      BY <1>2 DEF SessionInv, HandlersHaveClients, Write
    <2> QED
      BY <1>2, <2>1, ConstantTypes DEF TypeOK, SessionInv, BuffersConserved, Write
  <1>3. ASSUME NEW t \in IoThreads, NEW c \in Clients, SendDone(t, c) PROVE BuffersConserved'
    BY <1>3, ConstantTypes DEF TypeOK, SessionInv, BuffersConserved, SendDone
  <1>4. ASSUME NEW t \in IoThreads, NEW c \in Clients,
               \/ Accept(t, c) \/ HeaderDone(t, c) \/ BodyDone(t, c) \/ ReadFails(t, c)
               \/ TimerDone(t, c)
        PROVE  BuffersConserved'
    BY <1>1, <1>4 DEF Accept, HeaderDone, BodyDone, ReadFails, TimerDone, ioVars
  <1>5. ASSUME NEW t \in Threads,
               \/ Heart(t) \/ CallOut(t) \/ Rearm(t) \/ Reaccept(t) \/ StopTest(t)
               \/ StopClose(t) \/ StopFind(t) \/ StopErase(t) \/ StopBreaks(t)
        PROVE  BuffersConserved'
    BY <1>1, <1>5 DEF Heart, CallOut, Rearm, Reaccept, StopTest, StopClose, StopFind, StopErase,
        StopBreaks, ioVars
  <1>6. ASSUME NEW c \in Clients,
               Arrive(c) \/ PeerLeaves(c) \/ \E w \in Callers : CallerAnswers(w, c)
        PROVE  BuffersConserved'
    BY <1>1, <1>6 DEF Arrive, PeerLeaves, CallerAnswers, ioVars
  <1>7. ASSUME NEW t \in IoThreads, AcceptFails(t) PROVE BuffersConserved'
    BY <1>1, <1>7 DEF AcceptFails, ioVars
  <1>8. CASE Tick \/ UNCHANGED vars
    BY <1>1, <1>8 DEF Tick, vars, ioVars
  <1> QED
    BY <1>2, <1>3, <1>4, <1>5, <1>6, <1>7, <1>8, Steps

\* A handler has the client whose completion it handles. A session is started once, and
\* StopClose alone lets a thread look for it.
LEMMA HandlersStep ==
  ASSUME TypeOK, SessionInv, [Next]_vars
  PROVE  HandlersHaveClients'
  <1> USE DEF TypeOK, SessionInv, HandlersHaveClients
  <1>1. CASE UNCHANGED <<started, pc, cl, pos>>
    BY <1>1
  <1>2. ASSUME NEW t \in IoThreads, NEW c \in Clients, Accept(t, c) PROVE HandlersHaveClients'
    BY <1>2, ConstantTypes DEF Accept, Turn, Threads, AbsentIsUntouched, stopVars
  <1>3. ASSUME NEW t \in IoThreads, NEW c \in Clients, HeaderDone(t, c) PROVE HandlersHaveClients'
    BY <1>3, ConstantTypes DEF HeaderDone, Turn, Threads, sessionVars, threadVars, stopVars
  <1>4. ASSUME NEW t \in IoThreads, NEW c \in Clients, BodyDone(t, c) PROVE HandlersHaveClients'
    BY <1>4, ConstantTypes DEF BodyDone, Turn, Threads, stopVars
  <1>5. ASSUME NEW t \in IoThreads, NEW c \in Clients, ReadFails(t, c) PROVE HandlersHaveClients'
    BY <1>5, ConstantTypes DEF ReadFails, Turn, Threads, sessionVars, stopVars
  <1>6. ASSUME NEW t \in IoThreads, NEW c \in Clients, SendDone(t, c) PROVE HandlersHaveClients'
    BY <1>6, ConstantTypes DEF SendDone, Turn, Threads, threadVars, stopVars
  <1>7. ASSUME NEW t \in IoThreads, NEW c \in Clients, TimerDone(t, c) PROVE HandlersHaveClients'
    BY <1>7, ConstantTypes DEF TimerDone, Turn, Threads, stopVars
  <1>8. ASSUME NEW t \in Threads, Heart(t) PROVE HandlersHaveClients'
    BY <1>8, ConstantTypes DEF Heart, Goto, Turn, stopVars
  <1>9. ASSUME NEW t \in Threads, CallOut(t) PROVE HandlersHaveClients'
    BY <1>9, ConstantTypes, SMTT(60) DEF CallOut, Goto, Turn, sessionVars, stopVars
  <1>10. ASSUME NEW t \in Threads, Write(t) PROVE HandlersHaveClients'
    BY <1>10, ConstantTypes DEF Write, Goto, Turn, sessionVars, stopVars
  <1>11. ASSUME NEW t \in Threads, Rearm(t) PROVE HandlersHaveClients'
    BY <1>11, ConstantTypes DEF Rearm, Goto, Turn, stopVars
  <1>12. ASSUME NEW t \in Threads, Reaccept(t) PROVE HandlersHaveClients'
    BY <1>12, ConstantTypes DEF Reaccept, Goto, Turn, stopVars
  <1>13. ASSUME NEW t \in Threads, StopTest(t) PROVE HandlersHaveClients'
    BY <1>13, ConstantTypes DEF StopTest, Goto, Turn, sessionVars, stopVars
  <1>14. ASSUME NEW t \in Threads, StopClose(t) PROVE HandlersHaveClients'
    BY <1>14, ConstantTypes DEF StopClose, Goto, Turn, stopVars
  <1>15. ASSUME NEW t \in Threads, StopErase(t) PROVE HandlersHaveClients'
    BY <1>15, ConstantTypes DEF StopErase, Goto, Turn
  <1>16. ASSUME NEW t \in Threads, StopFind(t) PROVE HandlersHaveClients'
    BY <1>16, ConstantTypes, FindPlace, LenProperties DEF StopFind, Goto, Turn, sessionVars
  <1>17. ASSUME NEW w \in Callers, NEW c \in Clients, CallerAnswers(w, c) PROVE HandlersHaveClients'
    BY <1>17, ConstantTypes DEF CallerAnswers, Turn, Threads, sessionVars, stopVars
  <1> QED
    BY <1>1, <1>2, <1>3, <1>4, <1>5, <1>6, <1>7, <1>8, <1>9, <1>10, <1>11, <1>12, <1>13, <1>14,
       <1>15, <1>16, <1>17, Steps
    DEF AcceptFails, StopBreaks, Arrive, PeerLeaves, Tick, vars, sessionVars, threadVars,
        stopVars

\* Whatever happens for a client happens after Accept.
LEMMA AbsentStep ==
  ASSUME TypeOK, SessionInv, [Next]_vars
  PROVE  AbsentIsUntouched'
  <1> USE DEF TypeOK, SessionInv, AbsentIsUntouched
  <1>1. CASE UNCHANGED <<peer, started, read, flying, timer, calls, cl>>
    BY <1>1
  <1>2. ASSUME NEW t \in IoThreads, NEW c \in Clients, Accept(t, c) PROVE AbsentIsUntouched'
    BY <1>2, ConstantTypes DEF Accept, Turn, Threads
  <1>3. ASSUME NEW t \in IoThreads, NEW c \in Clients, HeaderDone(t, c) PROVE AbsentIsUntouched'
    BY <1>3, ConstantTypes DEF HeaderDone, Turn, Threads, sessionVars, peerVars, threadVars
  <1>4. ASSUME NEW t \in IoThreads, NEW c \in Clients, BodyDone(t, c) PROVE AbsentIsUntouched'
    BY <1>4, ConstantTypes DEF BodyDone, Turn, Threads, peerVars
  <1>5. ASSUME NEW t \in IoThreads, NEW c \in Clients, ReadFails(t, c) PROVE AbsentIsUntouched'
    BY <1>5, ConstantTypes DEF ReadFails, Turn, Threads, sessionVars, peerVars
  <1>6. ASSUME NEW t \in IoThreads, NEW c \in Clients, SendDone(t, c) PROVE AbsentIsUntouched'
    BY <1>6, ConstantTypes, SMTT(60) DEF SendDone, Turn, Threads, peerVars, threadVars
  <1>7. ASSUME NEW t \in IoThreads, NEW c \in Clients, TimerDone(t, c) PROVE AbsentIsUntouched'
    BY <1>7, ConstantTypes, SMTT(60) DEF TimerDone, Turn, Threads, ioVars, peerVars, NoTimer
  <1>8. ASSUME NEW t \in Threads, Heart(t) PROVE AbsentIsUntouched'
    BY <1>8, ConstantTypes DEF Heart, Goto, Turn, ioVars, peerVars, HandlersHaveClients
  <1>9. ASSUME NEW t \in Threads, CallOut(t) PROVE AbsentIsUntouched'
    BY <1>9, ConstantTypes DEF CallOut, Goto, Turn, sessionVars, peerVars, HandlersHaveClients
  <1>10. ASSUME NEW t \in Threads, Write(t) PROVE AbsentIsUntouched'
    BY <1>10, ConstantTypes DEF Write, Goto, Turn, sessionVars, peerVars, HandlersHaveClients
  <1>11. ASSUME NEW t \in Threads, Rearm(t) PROVE AbsentIsUntouched'
    BY <1>11, ConstantTypes DEF Rearm, Goto, Turn, ioVars, peerVars, HandlersHaveClients
  <1>12. ASSUME NEW t \in Threads, Reaccept(t) PROVE AbsentIsUntouched'
    BY <1>12, ConstantTypes DEF Reaccept, Goto, Turn, ioVars, peerVars, HandlersHaveClients
  <1>13. ASSUME NEW t \in Threads, StopTest(t) PROVE AbsentIsUntouched'
    BY <1>13, ConstantTypes
    DEF StopTest, Goto, Turn, sessionVars, ioVars, peerVars, HandlersHaveClients
  <1>14. ASSUME NEW t \in Threads, StopClose(t) PROVE AbsentIsUntouched'
    BY <1>14, ConstantTypes DEF StopClose, Goto, Turn, ioVars, peerVars, HandlersHaveClients
  <1>15. ASSUME NEW t \in Threads, StopFind(t) PROVE AbsentIsUntouched'
    BY <1>15, ConstantTypes
    DEF StopFind, Goto, Turn, sessionVars, ioVars, peerVars, HandlersHaveClients
  <1>16. ASSUME NEW t \in Threads, StopErase(t) PROVE AbsentIsUntouched'
    BY <1>16, ConstantTypes DEF StopErase, Goto, Turn, ioVars, peerVars, HandlersHaveClients
  <1>17. ASSUME NEW w \in Callers, NEW c \in Clients, CallerAnswers(w, c) PROVE AbsentIsUntouched'
    BY <1>17, ConstantTypes, SMTT(60) DEF CallerAnswers, Turn, Threads, sessionVars, peerVars
  <1>18. ASSUME NEW c \in Clients, Arrive(c) PROVE AbsentIsUntouched'
    BY <1>18 DEF Arrive, sessionVars, threadVars
  <1>19. ASSUME NEW c \in Clients, PeerLeaves(c) PROVE AbsentIsUntouched'
    BY <1>19 DEF PeerLeaves, sessionVars, ioVars, threadVars
  <1>20. ASSUME Tick PROVE AbsentIsUntouched'
    BY <1>20 DEF Tick, ioVars, peerVars, threadVars, NoTimer
  <1> QED
    BY <1>1, <1>2, <1>3, <1>4, <1>5, <1>6, <1>7, <1>8, <1>9, <1>10, <1>11, <1>12, <1>13, <1>14,
       <1>15, <1>16, <1>17, <1>18, <1>19, <1>20, Steps
    DEF AcceptFails, StopBreaks, vars, sessionVars, ioVars, peerVars, threadVars

\* A caller runs Write only.
LEMMA CallersStep ==
  ASSUME TypeOK, SessionInv, [Next]_vars
  PROVE  CallersOnlyWrite'
  <1> USE DEF TypeOK, SessionInv, CallersOnlyWrite
  <1>1. CASE UNCHANGED <<pc, rest>>
    BY <1>1
  <1>2. ASSUME NEW t \in IoThreads, NEW c \in Clients, Accept(t, c) PROVE CallersOnlyWrite'
    BY <1>2, ConstantTypes DEF SessionInv, Accept, Turn, Threads
  <1>3. ASSUME NEW t \in IoThreads, NEW c \in Clients, HeaderDone(t, c) PROVE CallersOnlyWrite'
    BY <1>3, ConstantTypes DEF SessionInv, HeaderDone, Turn, Threads, threadVars
  <1>4. ASSUME NEW t \in IoThreads, NEW c \in Clients, BodyDone(t, c) PROVE CallersOnlyWrite'
    BY <1>4, ConstantTypes DEF SessionInv, BodyDone, Turn, Threads
  <1>5. ASSUME NEW t \in IoThreads, NEW c \in Clients, ReadFails(t, c) PROVE CallersOnlyWrite'
    BY <1>5, ConstantTypes DEF SessionInv, ReadFails, Turn, Threads
  <1>6. ASSUME NEW t \in IoThreads, NEW c \in Clients, SendDone(t, c) PROVE CallersOnlyWrite'
    BY <1>6, ConstantTypes DEF SessionInv, SendDone, Turn, Threads, threadVars
  <1>7. ASSUME NEW t \in IoThreads, NEW c \in Clients, TimerDone(t, c) PROVE CallersOnlyWrite'
    BY <1>7, ConstantTypes DEF SessionInv, TimerDone, Turn, Threads
  <1>8. ASSUME NEW t \in Threads, Heart(t) PROVE CallersOnlyWrite'
    BY <1>8, ConstantTypes DEF SessionInv, Heart, Goto, Turn, Threads
  <1>9. ASSUME NEW t \in Threads, CallOut(t) PROVE CallersOnlyWrite'
    BY <1>9, ConstantTypes DEF SessionInv, CallOut, Goto, Turn, Threads
  <1>10. ASSUME NEW t \in Threads, Write(t) PROVE CallersOnlyWrite'
    BY <1>10, ConstantTypes DEF SessionInv, Write, Goto, Turn, Threads
  <1>11. ASSUME NEW t \in Threads, Rearm(t) PROVE CallersOnlyWrite'
    BY <1>11, ConstantTypes DEF SessionInv, Rearm, Goto, Turn, Threads
  <1>12. ASSUME NEW t \in Threads, Reaccept(t) PROVE CallersOnlyWrite'
    BY <1>12, ConstantTypes DEF SessionInv, Reaccept, Goto, Turn, Threads
  <1>13. ASSUME NEW t \in Threads, StopTest(t) PROVE CallersOnlyWrite'
    BY <1>13, ConstantTypes DEF SessionInv, StopTest, Goto, Turn, Threads
  <1>14. ASSUME NEW t \in Threads, StopClose(t) PROVE CallersOnlyWrite'
    BY <1>14, ConstantTypes DEF SessionInv, StopClose, Goto, Turn, Threads
  <1>15. ASSUME NEW t \in Threads, StopFind(t) PROVE CallersOnlyWrite'
    BY <1>15, ConstantTypes DEF SessionInv, StopFind, Goto, Turn, Threads
  <1>16. ASSUME NEW t \in Threads, StopErase(t) PROVE CallersOnlyWrite'
    BY <1>16, ConstantTypes DEF SessionInv, StopErase, Goto, Turn, Threads
  <1>17. ASSUME NEW w \in Callers, NEW c \in Clients, CallerAnswers(w, c) PROVE CallersOnlyWrite'
    BY <1>17, ConstantTypes DEF SessionInv, CallerAnswers, Turn, Threads
  <1> QED
    BY <1>1, <1>2, <1>3, <1>4, <1>5, <1>6, <1>7, <1>8, <1>9, <1>10, <1>11, <1>12, <1>13, <1>14,
       <1>15, <1>16, <1>17, Steps
    DEF AcceptFails, StopBreaks, Arrive, PeerLeaves, Tick, vars, threadVars

\* What a step may do to a session that is started after it: a read that is gone is
\* taken over by a thread that stops the session, and such a thread goes on.
ReadKept ==
  /\ \A c \in Clients : started'[c] =>
       \/ read'[c] # "none"
       \/ started[c] /\ read[c] = "none"
       \/ \E t \in Threads : Stopping(t, c)'
  /\ \A t \in Threads, c \in Clients : Stopping(t, c) /\ started'[c] => Stopping(t, c)'

\* That is enough.
LEMMA ReadFrame == SessionIsRead /\ ReadKept => SessionIsRead'
  BY DEF SessionIsRead, ReadKept

\* Likewise for the timer of a session and the threads on their way to set it.
WatchKept ==
  TimeoutElapsed # 0 =>
    /\ \A c \in Clients : started'[c] =>
         \/ timer'[c] # NoTimer
         \/ started[c] /\ timer[c] = NoTimer
         \/ \E t \in IoThreads : Watches(t, c)'
    /\ \A t \in IoThreads, c \in Clients :
         Watches(t, c) /\ started'[c] => Watches(t, c)' \/ timer'[c] # NoTimer

\* That is enough.
LEMMA WatchFrame == SessionIsWatched /\ WatchKept => SessionIsWatched'
  BY DEF SessionIsWatched, WatchKept

\* The read chain goes on or its thread is on its way to stop the session.
LEMMA ReadStep ==
  ASSUME TypeOK, SessionInv, [Next]_vars
  PROVE  SessionIsRead'
  <1> SUFFICES ReadKept
    BY ReadFrame DEF SessionInv
  <1> USE DEF TypeOK, ReadKept, Stopping
  <1>1. CASE UNCHANGED <<started, read, pc, cl>>
    BY <1>1
  <1>2. ASSUME NEW t \in IoThreads, NEW c \in Clients, Accept(t, c) PROVE ReadKept
    BY <1>2, ConstantTypes DEF Accept, Turn, Threads
  <1>3. ASSUME NEW t \in IoThreads, NEW c \in Clients, HeaderDone(t, c) PROVE ReadKept
    <2>1. CASE UNCHANGED threadVars /\ read' = [read EXCEPT ![c] = "body"]
      BY <1>3, <2>1 DEF HeaderDone, sessionVars, threadVars
    <2>2. CASE UNCHANGED threadVars /\ read' = [read EXCEPT ![c] = "gotBody"]
      BY <1>3, <2>2 DEF HeaderDone, sessionVars, threadVars
    <2>3. CASE read' = [read EXCEPT ![c] = "none"] /\ Turn(t, c, "stop", "idle")
      BY <1>3, <2>3, ConstantTypes DEF HeaderDone, Turn, Threads, sessionVars
    <2> QED
      BY <1>3, <2>1, <2>2, <2>3 DEF HeaderDone
  <1>4. ASSUME NEW t \in IoThreads, NEW c \in Clients, BodyDone(t, c) PROVE ReadKept
    BY <1>4, ConstantTypes DEF BodyDone, Turn, Threads
  <1>5. ASSUME NEW t \in IoThreads, NEW c \in Clients, ReadFails(t, c) PROVE ReadKept
    BY <1>5, ConstantTypes DEF ReadFails, Turn, Threads, sessionVars
  <1>6. ASSUME NEW t \in IoThreads, NEW c \in Clients, SendDone(t, c) PROVE ReadKept
    BY <1>6, ConstantTypes DEF SendDone, Turn, Threads, threadVars
  <1>7. ASSUME NEW t \in IoThreads, NEW c \in Clients, TimerDone(t, c) PROVE ReadKept
    BY <1>7, ConstantTypes DEF TimerDone, Turn, Threads, ioVars
  <1>8. ASSUME NEW t \in Threads, Heart(t) PROVE ReadKept
    BY <1>8, ConstantTypes DEF Heart, Goto, Turn, SessionInv, HandlersHaveClients, ioVars
  <1>9. ASSUME NEW t \in Threads, CallOut(t) PROVE ReadKept
    BY <1>9, ConstantTypes, SMTT(60) DEF CallOut, Goto, Turn, SessionInv, HandlersHaveClients,
        sessionVars
  <1>10. ASSUME NEW t \in Threads, Write(t) PROVE ReadKept
    BY <1>10, ConstantTypes DEF Write, Goto, Turn, SessionInv, HandlersHaveClients, sessionVars
  <1>11. ASSUME NEW t \in Threads, Rearm(t) PROVE ReadKept
    BY <1>11, ConstantTypes DEF Rearm, Goto, Turn, SessionInv, HandlersHaveClients, ioVars
  <1>12. ASSUME NEW t \in Threads, Reaccept(t) PROVE ReadKept
    BY <1>12, ConstantTypes DEF Reaccept, Goto, Turn, SessionInv, HandlersHaveClients, ioVars
  <1>13. ASSUME NEW t \in Threads, StopTest(t) PROVE ReadKept
    BY <1>13, ConstantTypes DEF StopTest, Goto, Turn, SessionInv, HandlersHaveClients,
        sessionVars, ioVars
  <1>14. ASSUME NEW t \in Threads, StopClose(t) PROVE ReadKept
    BY <1>14, ConstantTypes DEF StopClose, Goto, Turn, SessionInv, HandlersHaveClients, ioVars
  <1>15. ASSUME NEW t \in Threads, StopFind(t) PROVE ReadKept
    BY <1>15, ConstantTypes DEF StopFind, Goto, Turn, SessionInv, HandlersHaveClients,
        sessionVars, ioVars
  <1>16. ASSUME NEW t \in Threads, StopErase(t) PROVE ReadKept
    BY <1>16, ConstantTypes DEF StopErase, Goto, Turn, SessionInv, HandlersHaveClients, ioVars
  <1>17. ASSUME NEW w \in Callers, NEW c \in Clients, CallerAnswers(w, c) PROVE ReadKept
    BY <1>17, ConstantTypes DEF CallerAnswers, Turn, Threads, sessionVars
  <1>18. ASSUME NEW c \in Clients, Arrive(c) PROVE ReadKept
    BY <1>18, ConstantTypes DEF Arrive, sessionVars, threadVars
  <1> QED
    BY <1>1, <1>2, <1>3, <1>4, <1>5, <1>6, <1>7, <1>8, <1>9, <1>10, <1>11, <1>12, <1>13, <1>14,
       <1>15, <1>16, <1>17, <1>18, Steps
    DEF AcceptFails, StopBreaks, PeerLeaves, Tick, vars, sessionVars, ioVars, threadVars

\* The timer's handler sets the timer again, or its thread is on its way to.
LEMMA WatchedStep ==
  ASSUME TypeOK, SessionInv, [Next]_vars
  PROVE  SessionIsWatched'
  <1> SUFFICES WatchKept
    BY WatchFrame DEF SessionInv
  <1> USE DEF TypeOK, WatchKept, Watches, Stopping
  <1>1. CASE UNCHANGED <<started, timer, pc, cl, rest>>
    BY <1>1
  <1>2. ASSUME NEW t \in IoThreads, NEW c \in Clients, Accept(t, c) PROVE WatchKept
    BY <1>2, ConstantTypes DEF Accept, Turn, Threads, NoTimer
  <1>3. ASSUME NEW t \in IoThreads, NEW c \in Clients, HeaderDone(t, c) PROVE WatchKept
    BY <1>3, ConstantTypes DEF HeaderDone, Turn, Threads, sessionVars, threadVars
  <1>4. ASSUME NEW t \in IoThreads, NEW c \in Clients, BodyDone(t, c) PROVE WatchKept
    BY <1>4, ConstantTypes DEF BodyDone, Turn, Threads
  <1>5. ASSUME NEW t \in IoThreads, NEW c \in Clients, ReadFails(t, c) PROVE WatchKept
    BY <1>5, ConstantTypes DEF ReadFails, Turn, Threads, sessionVars
  <1>6. ASSUME NEW t \in IoThreads, NEW c \in Clients, SendDone(t, c) PROVE WatchKept
    BY <1>6, ConstantTypes DEF SendDone, Turn, Threads, threadVars
  <1>7. ASSUME NEW t \in IoThreads, NEW c \in Clients, TimerDone(t, c) PROVE WatchKept
    BY <1>7, ConstantTypes DEF TimerDone, Turn, Threads
  <1>8. ASSUME NEW t \in Threads, Heart(t) PROVE WatchKept
    BY <1>8, ConstantTypes DEF Heart, Goto, Turn, Threads, SessionInv, HandlersHaveClients
  <1>9. ASSUME NEW t \in Threads, CallOut(t) PROVE WatchKept
    BY <1>9, ConstantTypes DEF CallOut, Goto, Turn, Threads, SessionInv, HandlersHaveClients,
        sessionVars
  <1>10. ASSUME NEW t \in Threads, Write(t) PROVE WatchKept
    BY <1>10, ConstantTypes DEF Write, Goto, Turn, Threads, SessionInv, HandlersHaveClients,
        sessionVars
  <1>11. ASSUME NEW t \in Threads, Rearm(t) PROVE WatchKept
    BY <1>11, ConstantTypes, SMTT(60) DEF Rearm, Goto, Turn, Threads, SessionInv, HandlersHaveClients,
        NoTimer
  <1>12. ASSUME NEW t \in Threads, Reaccept(t) PROVE WatchKept
    BY <1>12, ConstantTypes DEF Reaccept, Goto, Turn, Threads, SessionInv, HandlersHaveClients
  <1>13. ASSUME NEW t \in Threads, StopTest(t) PROVE WatchKept
    BY <1>13, ConstantTypes DEF StopTest, Goto, Turn, Threads, SessionInv, HandlersHaveClients,
        sessionVars
  <1>14. ASSUME NEW t \in Threads, StopClose(t) PROVE WatchKept
    BY <1>14, ConstantTypes DEF StopClose, Goto, Turn, Threads, SessionInv, HandlersHaveClients
  <1>15. ASSUME NEW t \in Threads, StopFind(t) PROVE WatchKept
    BY <1>15, ConstantTypes DEF StopFind, Goto, Turn, Threads, SessionInv, HandlersHaveClients,
        sessionVars
  <1>16. ASSUME NEW t \in Threads, StopErase(t) PROVE WatchKept
    BY <1>16, ConstantTypes DEF StopErase, Goto, Turn, Threads, SessionInv, HandlersHaveClients
  <1>17. ASSUME NEW w \in Callers, NEW c \in Clients, CallerAnswers(w, c) PROVE WatchKept
    BY <1>17, ConstantTypes DEF CallerAnswers, Turn, Threads, sessionVars
  <1>18. ASSUME Tick PROVE WatchKept
    BY <1>18, ConstantTypes DEF Tick, threadVars, NoTimer
  <1> QED
    BY <1>1, <1>2, <1>3, <1>4, <1>5, <1>6, <1>7, <1>8, <1>9, <1>10, <1>11, <1>12, <1>13, <1>14,
       <1>15, <1>16, <1>17, <1>18, Steps
    DEF AcceptFails, StopBreaks, Arrive, PeerLeaves, vars, sessionVars, threadVars

\* Every step keeps the inductive invariant.
LEMMA SessionStep ==
  ASSUME TypeOK, SessionInv, [Next]_vars
  PROVE  SessionInv'
  BY BuffersStep, AbsentStep, HandlersStep, CallersStep, ReadStep, WatchedStep DEF SessionInv

------------------------------------------------------------------------------
(* The vector of clients, when stop() excludes stop()                       *)

\* Thread t has closed the socket of c and not erased c yet.
Leaving(t, c) == cl[t] = c /\ pc[t] \in {"find", "erase"}

\* A thread about to close a socket has found its client started; one with an
\* iterator has the right one.
HasItsPlace(t) ==
  /\ pc[t] = "close" => started[cl[t]]
  /\ pc[t] = "erase" => pos[t] \in DOMAIN registered /\ registered[pos[t]] = cl[t]

\* The entries are the started clients and those that a thread, and only one, is
\* about to erase.
VectorInv ==
  /\ ~broken
  /\ \A m, n \in DOMAIN registered : registered[m] = registered[n] => m = n
  /\ \A c \in Clients :
       (\E n \in DOMAIN registered : registered[n] = c)
         <=> started[c] \/ \E t \in Threads : Leaving(t, c)
  /\ \A t, u \in Threads, c \in Clients : Leaving(t, c) /\ Leaving(u, c) => t = u
  /\ \A t \in Threads : HasItsPlace(t)

\* Thread t does not move within stop().
Stays(t) ==
  /\ pos'[t] = pos[t]
  /\ \/ pc'[t] = pc[t] /\ cl'[t] = cl[t]
     \/ {pc[t], pc'[t]} \cap {"close", "find", "erase"} = {}

VectorKept == UNCHANGED <<registered, started, broken>> /\ \A t \in Threads : Stays(t)

\* Who stays is where it was.
LEMMA StaysThere ==
  ASSUME NEW t \in Threads, Stays(t)
  PROVE  /\ \A c \in Clients : Leaving(t, c)' <=> Leaving(t, c)
         /\ pc'[t] = "close" => pc[t] = "close" /\ cl'[t] = cl[t]
         /\ pc'[t] = "erase" => pc[t] = "erase" /\ cl'[t] = cl[t] /\ pos'[t] = pos[t]
  BY DEF Stays, Leaving

\* If all do, the invariant holds on.
LEMMA VectorFrame ==
  ASSUME VectorInv, VectorKept
  PROVE  VectorInv'
  <1>1. \A t \in Threads, c \in Clients : Leaving(t, c)' <=> Leaving(t, c)
    BY StaysThere DEF VectorKept
  <1>2. ASSUME NEW t \in Threads PROVE HasItsPlace(t)'
    BY <1>2, StaysThere DEF VectorKept, VectorInv, HasItsPlace
  <1> QED
    BY <1>1, <1>2 DEF VectorInv, VectorKept

\* A thread that turns leaves the others where they are.
LEMMA OthersStay ==
  ASSUME TypeOK, NEW t \in Threads, NEW c, NEW step, NEW after, Turn(t, c, step, after)
  PROVE  /\ pc'[t] = step /\ cl'[t] = IF step = "idle" THEN NoClient ELSE c
         /\ \A u \in Threads : u # t => pc'[u] = pc[u] /\ cl'[u] = cl[u]
  BY DEF Turn, TypeOK

\* The same for a thread that goes on with its client.
LEMMA OthersStayOn ==
  ASSUME TypeOK, NEW t \in Threads, NEW step, Goto(t, step)
  PROVE  /\ pc'[t] = step /\ (step # "idle" => cl'[t] = cl[t])
         /\ \A u \in Threads : u # t => pc'[u] = pc[u] /\ cl'[u] = cl[u]
  BY DEF Goto, Turn, TypeOK

\* It is what the properties say.
LEMMA VectorImplies ==
  ASSUME CallersOnlyWrite, VectorInv
  PROVE  EraseIsSafe /\ StartedIsRegistered
  <1>1. EraseIsSafe
    BY DEF VectorInv, HasItsPlace, EraseIsSafe
  <1>2. ASSUME NEW t \in Threads, NEW c \in Clients, Leaving(t, c)
        PROVE  t \in IoThreads
    BY <1>2 DEF Leaving, CallersOnlyWrite, Threads
  <1>3. StartedIsRegistered
    BY <1>2 DEF VectorInv, StartedIsRegistered, Leaving, Threads
  <1> QED
    BY <1>1, <1>3

\* A new client is not in the vector yet, and its entry moves no other.
LEMMA VectorAccept ==
  ASSUME TypeOK, SessionInv, VectorInv, NEW t \in IoThreads, NEW c \in Clients, Accept(t, c)
  PROVE  VectorInv'
  <1>1. t \in Threads /\ pc[t] = "idle" /\ pc'[t] \in {"rearm", "reaccept"}
    BY DEF Accept, Turn, TypeOK, Threads
  <1>2. ~started[c] /\ \A u \in Threads : cl[u] # c
    BY DEF Accept, SessionInv, AbsentIsUntouched
  <1>3. ~\E n \in DOMAIN registered : registered[n] = c
    BY <1>2 DEF VectorInv, Leaving
  <1>4. /\ Len(registered) \in Nat /\ DOMAIN registered = 1 .. Len(registered)
        /\ registered' \in Seq(Clients) /\ Len(registered') = Len(registered) + 1
        /\ \A n \in 1 .. Len(registered) : registered'[n] = registered[n]
        /\ registered'[Len(registered) + 1] = c
    BY AppendProperties, LenProperties DEF Accept, TypeOK
  <1>5. DOMAIN registered' = 1 .. Len(registered) + 1
    BY <1>4, LenProperties
  <1>6. \A m, n \in DOMAIN registered' : registered'[m] = registered'[n] => m = n
    BY <1>3, <1>4, <1>5 DEF VectorInv
  <1>7. ASSUME NEW d \in Clients
        PROVE  (\E n \in DOMAIN registered' : registered'[n] = d)
                 <=> d = c \/ \E n \in DOMAIN registered : registered[n] = d
    <2>1. ASSUME NEW n \in DOMAIN registered', registered'[n] = d
          PROVE  d = c \/ \E m \in DOMAIN registered : registered[m] = d
      <3>1. CASE n = Len(registered) + 1
        BY <1>4, <2>1, <3>1
      <3>2. CASE n \in DOMAIN registered
        BY <1>4, <2>1, <3>2
      <3> QED
        BY <1>4, <1>5, <3>1, <3>2
    <2>2. ASSUME NEW n \in DOMAIN registered
          PROVE  n \in DOMAIN registered' /\ registered'[n] = registered[n]
      BY <1>4, <1>5
    <2>3. Len(registered) + 1 \in DOMAIN registered' /\ registered'[Len(registered) + 1] = c
      BY <1>4, <1>5
    <2> QED
      BY <2>1, <2>2, <2>3
  <1>8. ~broken' /\ \A d \in Clients : started'[d] <=> d = c \/ started[d]
    BY DEF Accept, TypeOK, stopVars, VectorInv
  <1>9. \A u \in Threads : Stays(u)
    <2>1. \A u \in Threads : u # t => pc'[u] = pc[u] /\ cl'[u] = cl[u]
      BY <1>1, OthersStay DEF Accept
    <2>2. UNCHANGED pos
      BY DEF Accept, stopVars
    <2> QED
      BY <1>1, <2>1, <2>2 DEF Stays
  <1>10. \A u \in Threads, d \in Clients : Leaving(u, d)' <=> Leaving(u, d)
    BY <1>9, StaysThere
  <1>11. ASSUME NEW u \in Threads PROVE HasItsPlace(u)'
    <2>1. CASE pc'[u] = "close"
      <3>1. pc[u] = "close" /\ cl'[u] = cl[u] /\ cl[u] \in Clients
        BY <1>9, <2>1, StaysThere DEF SessionInv, HandlersHaveClients
      <3> QED
        BY <1>8, <2>1, <3>1 DEF VectorInv, HasItsPlace
    <2>2. CASE pc'[u] = "erase"
      <3>1. pc[u] = "erase" /\ cl'[u] = cl[u] /\ pos'[u] = pos[u]
        BY <1>9, <2>2, StaysThere
      <3>2. pos[u] \in DOMAIN registered /\ registered[pos[u]] = cl[u]
        BY <3>1 DEF VectorInv, HasItsPlace
      <3>3. pos[u] \in DOMAIN registered' /\ registered'[pos[u]] = registered[pos[u]]
        BY <1>4, <1>5, <3>2
      <3> QED
        BY <2>2, <3>1, <3>2, <3>3 DEF HasItsPlace
    <2> QED
      BY <2>1, <2>2 DEF HasItsPlace
  <1>12. \A d \in Clients :
           (\E n \in DOMAIN registered' : registered'[n] = d)
             <=> started'[d] \/ \E u \in Threads : Leaving(u, d)'
    BY <1>7, <1>8, <1>10 DEF VectorInv
  <1>13. \A u, v \in Threads, d \in Clients : Leaving(u, d)' /\ Leaving(v, d)' => u = v
    BY <1>10 DEF VectorInv
  <1> QED
    BY <1>6, <1>8, <1>11, <1>12, <1>13 DEF VectorInv

\* What a thread in stop() is, and the vector.
LEMMA InStop ==
  ASSUME TypeOK, SessionInv, NEW t \in Threads, Stop(t)
  PROVE  /\ rest[t] \in {"idle", "rearm"} /\ cl[t] \in Clients /\ cl[t] # NoClient
         /\ Len(registered) \in Nat /\ DOMAIN registered = 1 .. Len(registered)
         /\ registered \in Seq(Clients)
  BY SessionAssumption, LenProperties
  DEF TypeOK, SessionInv, HandlersHaveClients, Stop, StopTest, StopClose, StopFind, StopErase,
      StopBreaks

\* Whoever passes the test of m_started_ has a started client.
LEMMA VectorTest ==
  ASSUME TypeOK, SessionInv, VectorInv, NEW t \in Threads, StopTest(t)
  PROVE  VectorInv'
  <1>1. rest[t] \in {"idle", "rearm"} /\ cl[t] \in Clients
    BY InStop DEF Stop
  <1>2. /\ pc[t] = "stop" /\ pc'[t] \in {"close", "idle", "rearm"}
        /\ pc'[t] = "close" => started[cl[t]] /\ cl'[t] = cl[t]
        /\ \A u \in Threads : u # t => pc'[u] = pc[u] /\ cl'[u] = cl[u]
    BY <1>1, OthersStayOn DEF StopTest
  <1>3. UNCHANGED <<registered, started, broken, pos>>
    BY DEF StopTest, sessionVars, stopVars
  <1>4. \A u \in Threads, c \in Clients : Leaving(u, c)' <=> Leaving(u, c)
    BY <1>2 DEF Leaving
  <1>5. ASSUME NEW u \in Threads PROVE HasItsPlace(u)'
    BY <1>2, <1>3 DEF VectorInv, HasItsPlace
  <1> QED
    BY <1>3, <1>4, <1>5 DEF VectorInv

\* The client whose socket is closed is no longer started; it is left to its thread,
\* and no other thread is about to close the same.
LEMMA VectorClose ==
  ASSUME TypeOK, SessionInv, StopsExclude, VectorInv, NEW t \in Threads, StopClose(t)
  PROVE  VectorInv'
  <1> DEFINE c == cl[t]
  <1>1. c \in Clients /\ pc[t] = "close"
    BY InStop DEF Stop, StopClose
  <1>2. /\ pc'[t] = "find" /\ cl'[t] = c
        /\ \A u \in Threads : u # t => pc'[u] = pc[u] /\ cl'[u] = cl[u]
    BY OthersStayOn DEF StopClose
  <1>3. UNCHANGED <<registered, broken, pos>>
    BY DEF StopClose, stopVars
  <1>4. started[c] /\ \A d \in Clients : started'[d] <=> started[d] /\ d # c
    <2>1. started[c]
      BY <1>1 DEF VectorInv, HasItsPlace
    <2>2. started' = [started EXCEPT ![c] = FALSE] /\ started \in [Clients -> BOOLEAN]
      BY DEF StopClose, TypeOK
    <2>3. \A d \in Clients : started'[d] = IF d = c THEN FALSE ELSE started[d]
      BY <2>2
    <2> QED
      BY <2>1, <2>3
  <1>5. \A u \in Threads : ~Leaving(u, c)
    BY <1>1, <1>4 DEF Leaving, SessionInv, HandlersHaveClients
  <1> HIDE DEF c
  <1>6. \A u \in Threads, d \in Clients : Leaving(u, d)' <=> Leaving(u, d) \/ (u = t /\ d = c)
    BY <1>1, <1>2 DEF Leaving
  <1>7. ASSUME NEW d \in Clients
        PROVE  (\E n \in DOMAIN registered' : registered'[n] = d)
                 <=> started'[d] \/ \E u \in Threads : Leaving(u, d)'
    <2>1. (\E n \in DOMAIN registered : registered[n] = d)
            <=> started[d] \/ \E u \in Threads : Leaving(u, d)
      BY DEF VectorInv
    <2>2. CASE d = c
      BY <1>3, <1>4, <1>6, <2>1, <2>2
    <2>3. CASE d # c
      BY <1>3, <1>4, <1>6, <2>1, <2>3
    <2> QED
      BY <2>2, <2>3
  <1>8. \A u, v \in Threads, d \in Clients : Leaving(u, d)' /\ Leaving(v, d)' => u = v
    BY <1>5, <1>6 DEF VectorInv
  <1>9. ASSUME NEW u \in Threads PROVE HasItsPlace(u)'
    <2>1. CASE u = t
      BY <1>2, <2>1 DEF HasItsPlace
    <2>2. CASE u # t /\ pc[u] = "close"
      <3>1. cl[u] # c /\ cl[u] \in Clients
        BY <1>1, <2>2 DEF StopsExclude, SessionInv, HandlersHaveClients, c
      <3> QED
        BY <1>2, <1>4, <2>2, <3>1 DEF VectorInv, HasItsPlace
    <2>3. CASE u # t /\ pc[u] # "close"
      BY <1>2, <1>3, <2>3 DEF VectorInv, HasItsPlace
    <2> QED
      BY <2>1, <2>2, <2>3
  <1> QED
    BY <1>3, <1>7, <1>8, <1>9 DEF VectorInv

\* std::find finds the client.
LEMMA VectorFind ==
  ASSUME TypeOK, SessionInv, VectorInv, NEW t \in Threads, StopFind(t)
  PROVE  VectorInv'
  <1>1. cl[t] \in Clients /\ registered \in Seq(Clients)
    BY InStop DEF Stop
  <1>2. /\ pc[t] = "find" /\ pc'[t] = "erase" /\ cl'[t] = cl[t]
        /\ \A u \in Threads : u # t => pc'[u] = pc[u] /\ cl'[u] = cl[u]
    BY OthersStayOn DEF StopFind
  <1>3. UNCHANGED <<registered, started, broken>> /\ pos' = [pos EXCEPT ![t] = Find(registered, cl[t])]
    BY DEF StopFind, sessionVars
  <1>4. \A u \in Threads, c \in Clients : Leaving(u, c)' <=> Leaving(u, c)
    BY <1>2 DEF Leaving
  <1>5. pos'[t] \in DOMAIN registered /\ registered[pos'[t]] = cl[t]
    <2>1. \E n \in DOMAIN registered : registered[n] = cl[t]
      BY <1>1, <1>2 DEF VectorInv, Leaving
    <2>2. pos'[t] = Find(registered, cl[t])
      BY <1>3 DEF TypeOK
    <2> QED
      BY <1>1, <2>1, <2>2, FindPlace
  <1>6. ASSUME NEW u \in Threads PROVE HasItsPlace(u)'
    <2>1. CASE u = t
      BY <1>2, <1>3, <1>5, <2>1 DEF HasItsPlace
    <2>2. CASE u # t
      <3>1. pos'[u] = pos[u]
        BY <1>3, <2>2 DEF TypeOK
      <3> QED
        BY <1>2, <1>3, <2>2, <3>1 DEF VectorInv, HasItsPlace
    <2> QED
      BY <2>1, <2>2
  <1> QED
    BY <1>3, <1>4, <1>6 DEF VectorInv

\* Erasing the client takes out its entry and no other; no other thread has an
\* iterator that it would move.
LEMMA VectorErase ==
  ASSUME TypeOK, SessionInv, StopsExclude, VectorInv, NEW t \in Threads, StopErase(t)
  PROVE  VectorInv'
  <1> DEFINE c == cl[t]
             p == pos[t]
  <1>1. /\ c \in Clients /\ rest[t] \in {"idle", "rearm"} /\ pc[t] = "erase"
        /\ Len(registered) \in Nat /\ DOMAIN registered = 1 .. Len(registered)
        /\ registered \in Seq(Clients)
    BY InStop DEF Stop, StopErase
  <1>2. p \in DOMAIN registered /\ registered[p] = c /\ ~started[c]
    BY <1>1 DEF VectorInv, HasItsPlace, SessionInv, HandlersHaveClients
  <1>3. /\ pc'[t] \in {"idle", "rearm"}
        /\ \A u \in Threads : u # t => pc'[u] = pc[u] /\ cl'[u] = cl[u]
    BY <1>1, OthersStayOn DEF StopErase
  <1>4. UNCHANGED <<started, broken>> /\ pos' = [pos EXCEPT ![t] = 0]
    BY DEF StopErase
  <1>5. /\ Len(registered') = Len(registered) - 1
        /\ DOMAIN registered' = 1 .. Len(registered) - 1
        /\ \A n \in 1 .. Len(registered) - 1 :
             registered'[n] = IF n < p THEN registered[n] ELSE registered[n + 1]
    <2>1. registered' = RemoveAt(registered, p)
      BY DEF StopErase
    <2>2. registered' \in Seq(Clients) /\ Len(registered') = Len(registered) - 1
      BY <1>1, <1>2, <2>1, ErasePlace
    <2> QED
      BY <1>1, <1>2, <2>1, <2>2, ErasePlace, LenProperties
  <1>6. \A u \in Threads, d \in Clients : Leaving(u, d)' <=> Leaving(u, d) /\ u # t
    BY <1>3 DEF Leaving
  <1>7. Leaving(t, c) /\ \A u \in Threads : Leaving(u, c) => u = t
    BY <1>1 DEF VectorInv, Leaving
  <1>8. \A d \in Clients : Leaving(t, d) => d = c
    BY DEF Leaving
  <1> HIDE DEF c, p
  <1>9. \A m, n \in DOMAIN registered' : registered'[m] = registered'[n] => m = n
    <2> DEFINE old(n) == IF n < p THEN n ELSE n + 1
    <2>1. \A n \in DOMAIN registered' :
            old(n) \in DOMAIN registered /\ registered'[n] = registered[old(n)]
      BY <1>1, <1>2, <1>5
    <2>2. \A m, n \in DOMAIN registered' : old(m) = old(n) => m = n
      BY <1>1, <1>2, <1>5
    <2> HIDE DEF old
    <2> QED
      BY <2>1, <2>2 DEF VectorInv
  <1>10. ASSUME NEW d \in Clients
         PROVE  (\E n \in DOMAIN registered' : registered'[n] = d)
                  <=> d # c /\ \E n \in DOMAIN registered : registered[n] = d
    <2>1. ASSUME NEW n \in DOMAIN registered', registered'[n] = d
          PROVE  d # c /\ \E m \in DOMAIN registered : registered[m] = d
      <3>1. PICK m \in DOMAIN registered : registered[m] = d /\ m # p
        <4>1. CASE n < p
          BY <1>1, <1>5, <2>1, <4>1
        <4>2. CASE ~(n < p)
          BY <1>1, <1>2, <1>5, <2>1, <4>2, SMTT(60)
        <4> QED
          BY <4>1, <4>2
      <3> QED
        BY <1>2, <3>1 DEF VectorInv
    <2>2. ASSUME NEW n \in DOMAIN registered, registered[n] = d, d # c
          PROVE  \E m \in DOMAIN registered' : registered'[m] = d
      <3>1. n # p
        BY <1>2, <2>2
      <3>2. CASE n < p
        BY <1>1, <1>2, <1>5, <2>2, <3>2
      <3>3. CASE p < n
        <4>1. n - 1 \in DOMAIN registered' /\ ~(n - 1 < p) /\ (n - 1) + 1 = n
          BY <1>1, <1>2, <1>5, <3>3
        <4> QED
          BY <1>5, <2>2, <4>1
      <3> QED
        BY <1>1, <1>2, <3>1, <3>2, <3>3
    <2> QED
      BY <2>1, <2>2
  <1>11. ASSUME NEW d \in Clients
         PROVE  (\E n \in DOMAIN registered' : registered'[n] = d)
                  <=> started'[d] \/ \E u \in Threads : Leaving(u, d)'
    <2>1. (\E n \in DOMAIN registered : registered[n] = d)
            <=> started[d] \/ \E u \in Threads : Leaving(u, d)
      BY DEF VectorInv
    <2>2. CASE d = c
      BY <1>2, <1>4, <1>6, <1>7, <1>10, <2>2
    <2>3. CASE d # c
      BY <1>4, <1>6, <1>8, <1>10, <2>1, <2>3
    <2> QED
      BY <2>2, <2>3
  <1>12. \A u, v \in Threads, d \in Clients : Leaving(u, d)' /\ Leaving(v, d)' => u = v
    BY <1>6 DEF VectorInv
  <1>13. ASSUME NEW u \in Threads PROVE HasItsPlace(u)'
    <2>1. CASE u = t
      BY <1>3, <2>1 DEF HasItsPlace
    <2>2. CASE u # t
      <3>1. pc[u] # "erase"
        BY <1>1, <2>2 DEF StopsExclude
      <3> QED
        BY <1>3, <1>4, <2>2, <3>1 DEF VectorInv, HasItsPlace
    <2> QED
      BY <2>1, <2>2
  <1> QED
    BY <1>4, <1>9, <1>11, <1>12, <1>13 DEF VectorInv

\* erase(end()) does not happen.
LEMMA VectorStop ==
  ASSUME TypeOK, SessionInv, StopsExclude, VectorInv, NEW t \in Threads, Stop(t)
  PROVE  VectorInv'
  <1>1. ~StopBreaks(t)
    BY InStop DEF StopBreaks, VectorInv, HasItsPlace
  <1> QED
    BY <1>1, VectorTest, VectorClose, VectorFind, VectorErase DEF Stop

\* Every step keeps it.
LEMMA VectorStep ==
  ASSUME TypeOK, SessionInv, StopsExclude, VectorInv, [Next]_vars
  PROVE  VectorInv'
  <1>1. CASE UNCHANGED <<registered, started, broken, pos, pc, cl>>
    BY <1>1, VectorFrame DEF VectorKept, Stays
  <1>2. ASSUME NEW t \in IoThreads, NEW c \in Clients, Accept(t, c) PROVE VectorInv'
    BY <1>2, VectorAccept
  <1>3. ASSUME NEW t \in IoThreads, NEW c \in Clients,
               \/ HeaderDone(t, c) \/ BodyDone(t, c) \/ ReadFails(t, c)
               \/ SendDone(t, c) \/ TimerDone(t, c)
        PROVE  VectorInv'
    <2>1. t \in Threads /\ UNCHANGED <<registered, started, broken, pos>> /\ pc[t] = "idle"
      BY <1>3
      DEF HeaderDone, BodyDone, ReadFails, SendDone, TimerDone, Threads, sessionVars, stopVars
    <2>2. /\ pc'[t] \notin {"close", "find", "erase"}
          /\ \A u \in Threads : u # t => pc'[u] = pc[u] /\ cl'[u] = cl[u]
      BY <1>3, <2>1
      DEF HeaderDone, BodyDone, ReadFails, SendDone, TimerDone, Turn, TypeOK, threadVars
    <2> QED
      BY <2>1, <2>2, VectorFrame DEF VectorKept, Stays
  <1>4. ASSUME NEW t \in Threads,
               Heart(t) \/ CallOut(t) \/ Write(t) \/ Rearm(t) \/ Reaccept(t)
        PROVE  VectorInv'
    <2>1. /\ UNCHANGED <<registered, started, broken, pos>>
          /\ pc[t] \in {"heart", "callout", "take", "rearm", "reaccept"}
      BY <1>4 DEF Heart, CallOut, Write, Rearm, Reaccept, sessionVars, stopVars
    <2>2. /\ pc'[t] \notin {"close", "find", "erase"}
          /\ \A u \in Threads : u # t => pc'[u] = pc[u] /\ cl'[u] = cl[u]
      BY <1>4 DEF Heart, CallOut, Write, Rearm, Reaccept, Goto, Turn, TypeOK
    <2> QED
      BY <2>1, <2>2, VectorFrame DEF VectorKept, Stays
  <1>5. ASSUME NEW t \in Threads, Stop(t) PROVE VectorInv'
    BY <1>5, VectorStop
  <1>6. ASSUME NEW w \in Callers, NEW c \in Clients, CallerAnswers(w, c) PROVE VectorInv'
    <2>1. w \in Threads /\ UNCHANGED <<registered, started, broken, pos>> /\ pc[w] = "idle"
      BY <1>6 DEF CallerAnswers, Threads, sessionVars, stopVars
    <2>2. /\ pc'[w] = "take"
          /\ \A u \in Threads : u # w => pc'[u] = pc[u] /\ cl'[u] = cl[u]
      BY <1>6, <2>1, OthersStay DEF CallerAnswers
    <2> QED
      BY <2>1, <2>2, VectorFrame DEF VectorKept, Stays
  <1>7. CASE \/ \E t \in IoThreads : AcceptFails(t)
             \/ \E c \in Clients : Arrive(c) \/ PeerLeaves(c)
             \/ Tick
    BY <1>1, <1>7
    DEF AcceptFails, Arrive, PeerLeaves, Tick, sessionVars, threadVars, stopVars
  <1> QED
    BY <1>1, <1>2, <1>3, <1>4, <1>5, <1>6, <1>7
    DEF Next, ReadDone, Work, vars, sessionVars, threadVars, stopVars

------------------------------------------------------------------------------
(* One timeout check per session                                            *)

\* What the timer's handler does after do_write or stop() it never does after a
\* call request.
CalloutIsLast == \A t \in Threads : pc[t] = "callout" => rest[t] = "idle"

\* No thread takes the timer of a client up that it did not have.
NoNewWatch == \A t \in IoThreads, c \in Clients : Watches(t, c)' => Watches(t, c)

\* Nor is a timer set.
AloneKept == NoNewWatch /\ \A c \in Clients : timer'[c] # NoTimer => timer[c] # NoTimer

\* That is enough.
LEMMA AloneFrame == TimerIsAlone /\ AloneKept => TimerIsAlone'
  BY DEF TimerIsAlone, AloneKept, NoNewWatch

\* A thread that turns to a step on the way to the timer was on that way before.
LEMMA WatchTurn ==
  ASSUME TypeOK, NEW t \in Threads, NEW c, NEW step, NEW after, Turn(t, c, step, after),
         step = "rearm" \/ (after = "rearm" /\ step # "idle") => Watches(t, c)
  PROVE  NoNewWatch
  BY DEF TypeOK, Turn, Watches, Stopping, NoNewWatch, Threads

\* A request is dealt with by a thread that has nothing else to do.
LEMMA CalloutStep ==
  ASSUME TypeOK, SessionInv, CalloutIsLast, [Next]_vars
  PROVE  CalloutIsLast'
  <1>1. CASE UNCHANGED <<pc, rest>>
    BY <1>1 DEF CalloutIsLast
  <1>2. ASSUME NEW t \in Threads, NEW c, NEW step, NEW after, Turn(t, c, step, after),
               step = "callout" => after = "idle"
        PROVE  CalloutIsLast'
    BY <1>2 DEF TypeOK, Turn, CalloutIsLast
  <1>3. ASSUME NEW t \in Threads, NEW step, Goto(t, step), step # "callout" PROVE CalloutIsLast'
    BY <1>2, <1>3 DEF Goto
  <1>4. ASSUME NEW t \in IoThreads, NEW c \in Clients,
               \/ Accept(t, c) \/ HeaderDone(t, c) \/ BodyDone(t, c) \/ ReadFails(t, c)
               \/ SendDone(t, c) \/ TimerDone(t, c)
        PROVE  CalloutIsLast'
    BY <1>1, <1>2, <1>4
    DEF Accept, HeaderDone, BodyDone, ReadFails, SendDone, TimerDone, Threads, threadVars
  <1>5. ASSUME NEW t \in Threads,
               \/ Heart(t) \/ CallOut(t) \/ Write(t) \/ Rearm(t) \/ Reaccept(t)
               \/ StopTest(t) \/ StopClose(t) \/ StopFind(t) \/ StopErase(t)
        PROVE  CalloutIsLast'
    <2>1. rest[t] # "callout"
      BY DEF TypeOK
    <2> QED
      BY <1>3, <1>5, <2>1
      DEF Heart, CallOut, Write, Rearm, Reaccept, StopTest, StopClose, StopFind, StopErase
  <1>6. ASSUME NEW w \in Callers, NEW c \in Clients, CallerAnswers(w, c) PROVE CalloutIsLast'
    BY <1>2, <1>6 DEF CallerAnswers, Threads
  <1> QED
    BY <1>1, <1>4, <1>5, <1>6, Steps
    DEF AcceptFails, StopBreaks, Arrive, PeerLeaves, Tick, vars, threadVars

\* A new client has no timer yet, and nobody knows of it.
LEMMA AloneAccept ==
  ASSUME TypeOK, SessionInv, TimerIsAlone, NEW t \in IoThreads, NEW c \in Clients, Accept(t, c)
  PROVE  TimerIsAlone'
  <1>1. t \in Threads /\ timer' = timer /\ timer[c] = NoTimer /\ \A u \in Threads : cl[u] # c
    BY DEF Accept, SessionInv, AbsentIsUntouched, Threads
  <1>2. \A u \in Threads : u # t => pc'[u] = pc[u] /\ cl'[u] = cl[u] /\ rest'[u] = rest[u]
    BY DEF Accept, Turn, TypeOK
  <1>3. cl'[t] = c
    BY <1>1 DEF Accept, Turn, TypeOK
  <1>4. ASSUME NEW u \in IoThreads, NEW d \in Clients, Watches(u, d)'
        PROVE  IF d = c THEN u = t ELSE Watches(u, d)
    BY <1>1, <1>2, <1>3, <1>4 DEF Watches, Stopping, Threads
  <1> QED
    BY <1>1, <1>4 DEF TimerIsAlone

\* The timer that expires has been the only one.
LEMMA AloneTimer ==
  ASSUME TypeOK, SessionInv, TimerIsAlone,
         NEW t \in IoThreads, NEW c \in Clients, TimerDone(t, c)
  PROVE  TimerIsAlone'
  <1>1. t \in Threads /\ timer[c] # NoTimer
    BY DEF TimerDone, Threads, NoTimer
  <1>2. \A d \in Clients : timer'[d] = IF d = c THEN NoTimer ELSE timer[d]
    BY DEF TimerDone, TypeOK
  <1>3. \A u \in Threads : u # t => pc'[u] = pc[u] /\ cl'[u] = cl[u] /\ rest'[u] = rest[u]
    BY DEF TimerDone, Turn, TypeOK
  <1>4. cl'[t] = c
    BY <1>1 DEF TimerDone, Turn, TypeOK
  <1>5. \A u \in IoThreads : ~Watches(u, c)
    BY <1>1 DEF TimerIsAlone
  <1>6. ASSUME NEW u \in IoThreads, NEW d \in Clients, Watches(u, d)'
        PROVE  IF d = c THEN u = t ELSE Watches(u, d)
    BY <1>3, <1>4, <1>5, <1>6 DEF Watches, Stopping, Threads
  <1> QED
    BY <1>2, <1>6 DEF TimerIsAlone

\* The thread that sets a timer has been the only one on its way to it.
LEMMA AloneRearm ==
  ASSUME TypeOK, SessionInv, TimerIsAlone, NEW t \in Threads, Rearm(t)
  PROVE  TimerIsAlone'
  <1>1. t \in IoThreads /\ \E d \in Clients : cl[t] = d
    BY DEF Rearm, SessionInv, CallersOnlyWrite, HandlersHaveClients, Threads
  <1>2. PICK c \in Clients : cl[t] = c
    BY <1>1
  <1>3. Watches(t, c)
    BY <1>2 DEF Rearm, Watches
  <1>4. \A d \in Clients : d # c => timer'[d] = timer[d]
    BY <1>2 DEF Rearm, TypeOK
  <1>5. \A u \in Threads : u # t => pc'[u] = pc[u] /\ cl'[u] = cl[u] /\ rest'[u] = rest[u]
    BY DEF Rearm, Goto, Turn, TypeOK
  <1>6. pc'[t] \in {"reaccept", "idle"}
    BY DEF Rearm, Goto, Turn, TypeOK
  <1>7. ASSUME NEW u \in IoThreads, NEW d \in Clients, Watches(u, d)'
        PROVE  Watches(u, d) /\ u # t
    BY <1>5, <1>6, <1>7 DEF Watches, Stopping, Threads
  <1>8. ~\E u \in IoThreads : Watches(u, c)'
    BY <1>1, <1>3, <1>7 DEF TimerIsAlone
  <1> QED
    BY <1>4, <1>7, <1>8 DEF TimerIsAlone

\* Every step keeps the timeout check of a session the only one.
LEMMA AloneStep ==
  ASSUME TypeOK, SessionInv, CalloutIsLast, TimerIsAlone, [Next]_vars
  PROVE  TimerIsAlone'
  <1>1. CASE AloneKept
    BY <1>1, AloneFrame
  <1>2. CASE UNCHANGED timer /\ NoNewWatch
    BY <1>1, <1>2 DEF AloneKept
  <1>3. CASE UNCHANGED <<timer, pc, cl, rest>>
    BY <1>2, <1>3 DEF NoNewWatch, Watches, Stopping
  <1>4. ASSUME NEW t \in Threads, NEW c, NEW step, step # "rearm", Turn(t, c, step, "idle")
        PROVE  NoNewWatch
    BY <1>4, WatchTurn
  <1>5. ASSUME NEW t \in Threads, NEW step, Goto(t, step),
               pc[t] \in {"take", "stop", "close", "find", "erase"},
               step = "rearm" => rest[t] = "rearm"
        PROVE  NoNewWatch
    BY <1>5, WatchTurn DEF Goto, Watches, Stopping
  <1>6. ASSUME NEW t \in IoThreads, NEW c \in Clients,
               HeaderDone(t, c) \/ BodyDone(t, c) \/ ReadFails(t, c) \/ SendDone(t, c)
        PROVE  TimerIsAlone'
    BY <1>2, <1>3, <1>4, <1>6
    DEF HeaderDone, BodyDone, ReadFails, SendDone, Threads, sessionVars, threadVars
  <1>7. ASSUME NEW t \in Threads, Heart(t) \/ CallOut(t) \/ Reaccept(t)
        PROVE  TimerIsAlone'
    <2>1. UNCHANGED timer /\ \E step : Goto(t, step) /\ step \in {"idle", "take"}
                                       /\ (step = "take" => rest[t] = "idle")
      BY <1>7 DEF Heart, CallOut, Reaccept, CalloutIsLast, sessionVars
    <2>2. NoNewWatch
      BY <2>1, WatchTurn DEF Goto
    <2> QED
      BY <1>2, <2>1, <2>2
  <1>8. ASSUME NEW t \in Threads,
               Write(t) \/ StopTest(t) \/ StopClose(t) \/ StopFind(t) \/ StopErase(t)
        PROVE  TimerIsAlone'
    BY <1>2, <1>5, <1>8 DEF Write, StopTest, StopClose, StopFind, StopErase, sessionVars
  <1>9. ASSUME NEW w \in Callers, NEW c \in Clients, CallerAnswers(w, c) PROVE TimerIsAlone'
    BY <1>2, <1>4, <1>9 DEF CallerAnswers, Threads, sessionVars
  <1>10. ASSUME Tick PROVE TimerIsAlone'
    <2>1. NoNewWatch
      BY <1>10 DEF Tick, threadVars, NoNewWatch, Watches, Stopping
    <2>2. \A c \in Clients : timer'[c] # NoTimer => timer[c] # NoTimer
      BY <1>10 DEF Tick, TypeOK, NoTimer
    <2> QED
      BY <1>1, <2>1, <2>2 DEF AloneKept
  <1> QED
    BY <1>3, <1>6, <1>7, <1>8, <1>9, <1>10, AloneAccept, AloneTimer, AloneRearm, Steps
    DEF AcceptFails, StopBreaks, Arrive, PeerLeaves, vars, sessionVars, threadVars

------------------------------------------------------------------------------
(* The io threads wait for each other                                       *)

\* No io thread takes a step, so no buffer comes back, and nothing else fills a
\* pool.
LEMMA BlockedStep ==
  ASSUME TypeOK, SessionInv, IoBlocked, [Next]_vars
  PROVE  IoBlocked'
  <1>1. CASE UNCHANGED <<pc, cl, free>>
    BY <1>1 DEF IoBlocked
  <1>2. \A t \in IoThreads : pc[t] = "take" /\ free[cl[t]] = 0 /\ cl[t] \in Clients /\ t \in Threads
    BY DEF IoBlocked, SessionInv, HandlersHaveClients, Threads
  <1>3. ASSUME NEW t \in IoThreads, NEW c \in Clients,
               \/ Accept(t, c) \/ HeaderDone(t, c) \/ BodyDone(t, c) \/ ReadFails(t, c)
               \/ SendDone(t, c) \/ TimerDone(t, c)
        PROVE  FALSE
    BY <1>2, <1>3 DEF Accept, HeaderDone, BodyDone, ReadFails, SendDone, TimerDone
  <1>4. ASSUME NEW t \in Threads,
               \/ Heart(t) \/ CallOut(t) \/ Write(t) \/ Rearm(t) \/ Reaccept(t)
               \/ StopTest(t) \/ StopClose(t) \/ StopFind(t) \/ StopErase(t) \/ StopBreaks(t)
        PROVE  IoBlocked'
    <2>1. t \in Callers /\ Write(t)
      BY <1>2, <1>4
      DEF Heart, CallOut, Write, Rearm, Reaccept, StopTest, StopClose, StopFind, StopErase,
          StopBreaks, SessionInv, CallersOnlyWrite, Threads
    <2>2. \A u \in IoThreads : pc'[u] = pc[u] /\ cl'[u] = cl[u]
      BY <2>1, ConstantTypes DEF Write, Goto, Turn, TypeOK, Threads
    <2>3. free[cl[t]] > 0 /\ free' = [free EXCEPT ![cl[t]] = free[cl[t]] - 1]
      BY <2>1 DEF Write
    <2>4. ASSUME NEW u \in IoThreads PROVE free'[cl[u]] = free[cl[u]]
      <3>1. cl[u] # cl[t]
        BY <1>2, <2>3
      <3> QED
        BY <1>2, <2>3, <3>1 DEF TypeOK
    <2> QED
      BY <1>2, <2>2, <2>4 DEF IoBlocked
  <1>5. ASSUME NEW w \in Callers, NEW c \in Clients, CallerAnswers(w, c) PROVE IoBlocked'
    <2>1. \A u \in IoThreads : pc'[u] = pc[u] /\ cl'[u] = cl[u]
      BY <1>5, ConstantTypes DEF CallerAnswers, Turn, TypeOK, Threads
    <2> QED
      BY <1>5, <2>1 DEF CallerAnswers, IoBlocked
  <1> QED
    BY <1>1, <1>3, <1>4, <1>5, Steps
    DEF AcceptFails, Arrive, PeerLeaves, Tick, vars, ioVars, threadVars

------------------------------------------------------------------------------
(* The write buffers                                                        *)

\* A step of the session that WriteBuffers does not see.
PoolUntouched == UNCHANGED <<free, Waiting>>

\* What a thread turns to decides whether it waits.
LEMMA TurnWaits ==
  ASSUME TypeOK, NEW t \in Threads, NEW c, NEW step, NEW after, Turn(t, c, step, after)
  PROVE  /\ t \notin IoThreads => Waiting' = Waiting
         /\ t \in IoThreads => Waiting' = [Waiting EXCEPT ![t] = IF step = "take" THEN c ELSE NoClient]
  <1>1. \A u \in IoThreads : u # t => pc'[u] = pc[u] /\ cl'[u] = cl[u]
    BY DEF Turn, TypeOK, Threads
  <1>2. pc'[t] = step /\ (step = "take" => cl'[t] = c)
    BY DEF Turn, TypeOK
  <1> QED
    BY <1>1, <1>2 DEF Waiting

\* A thread that does not wait turns to something, perhaps to Take().
LEMMA TurnAsks ==
  ASSUME TypeOK, NEW t \in IoThreads, NEW c \in Clients, NEW step, NEW after,
         Turn(t, c, step, after), pc[t] # "take", UNCHANGED free
  PROVE  PoolUntouched \/ Pool!Ask(t, c)
  <1>1. t \in Threads /\ Waiting[t] = NoClient
    BY DEF Threads, Waiting
  <1>2. Waiting' = [Waiting EXCEPT ![t] = IF step = "take" THEN c ELSE NoClient]
    BY <1>1, TurnWaits
  <1>3. CASE step = "take"
    BY <1>1, <1>2, <1>3 DEF Pool!Ask
  <1>4. CASE step # "take"
    BY <1>1, <1>2, <1>4 DEF PoolUntouched, Waiting
  <1> QED
    BY <1>3, <1>4

\* Each step of the sessions is a step of the buffers or leaves them alone.
LEMMA PoolStep ==
  ASSUME TypeOK, SessionInv, [Next]_vars
  PROVE  Pool!Next \/ PoolUntouched
  <1>1. CASE UNCHANGED <<pc, cl, free>>
    BY <1>1 DEF PoolUntouched, Waiting
  <1>2. ASSUME NEW t \in IoThreads, NEW c \in Clients, NEW step, NEW after,
               Turn(t, c, step, after), pc[t] # "take", UNCHANGED free
        PROVE  Pool!Next \/ PoolUntouched
    BY <1>2, TurnAsks DEF Pool!Next
  <1>3. ASSUME NEW t \in IoThreads, NEW c \in Clients,
               Accept(t, c) \/ HeaderDone(t, c) \/ BodyDone(t, c) \/ ReadFails(t, c) \/ TimerDone(t, c)
        PROVE  Pool!Next \/ PoolUntouched
    BY <1>1, <1>2, <1>3
    DEF Accept, HeaderDone, BodyDone, ReadFails, TimerDone, ioVars, threadVars
  <1>4. ASSUME NEW t \in IoThreads, NEW c \in Clients, SendDone(t, c)
        PROVE  Pool!Next \/ PoolUntouched
    <2>1. t \in Threads /\ pc[t] = "idle" /\ Waiting[t] = NoClient
      BY <1>4 DEF SendDone, Threads, Waiting
    <2>2. free[c] < Buffers /\ free' = [free EXCEPT ![c] = free[c] + 1]
      <3>1. flying[c] > 0 /\ free[c] + flying[c] = Buffers /\ free[c] \in Int /\ flying[c] \in Int
        BY <1>4 DEF SendDone, SessionInv, BuffersConserved, TypeOK
      <3>2. Buffers \in Nat
        BY ConstantTypes
      <3> QED
        BY <1>4, <3>1, <3>2 DEF SendDone
    <2>3. Waiting' = Waiting
      <3>1. CASE UNCHANGED threadVars
        BY <3>1 DEF threadVars, Waiting
      <3>2. CASE Turn(t, c, "stop", "idle")
        <4>1. Waiting' = [Waiting EXCEPT ![t] = NoClient]
          BY <2>1, <3>2, TurnWaits
        <4> QED
          BY <2>1, <4>1 DEF Waiting
      <3> QED
        BY <1>4, <3>1, <3>2 DEF SendDone
    <2> QED
      BY <2>1, <2>2, <2>3 DEF Pool!Next, Pool!Put
  <1>5. ASSUME NEW t \in Threads, Write(t) PROVE Pool!Next \/ PoolUntouched
    <2>1. PICK c \in Clients : cl[t] = c
      BY <1>5 DEF Write, SessionInv, HandlersHaveClients
    <2>2. pc[t] = "take" /\ Pool!Take(c) /\ Turn(t, c, rest[t], rest[t]) /\ rest[t] # "take"
      BY <1>5, <2>1 DEF Write, Pool!Take, Goto, TypeOK
    <2>3. CASE t \in IoThreads
      <3>1. Waiting[t] = c /\ c # NoClient
        BY <2>1, <2>2, <2>3, ConstantTypes DEF Waiting
      <3>2. Waiting' = [Waiting EXCEPT ![t] = NoClient]
        BY <2>2, <2>3, TurnWaits
      <3> QED
        BY <2>2, <2>3, <3>1, <3>2 DEF Pool!Next, Pool!Write
    <2>4. CASE t \notin IoThreads
      <3>1. Waiting' = Waiting
        BY <2>2, <2>4, TurnWaits
      <3> QED
        BY <2>2, <3>1 DEF Pool!Next, Pool!Answer
    <2> QED
      BY <2>3, <2>4
  <1>6. ASSUME NEW t \in Threads,
               \/ Heart(t) \/ CallOut(t) \/ Rearm(t) \/ Reaccept(t)
               \/ StopTest(t) \/ StopClose(t) \/ StopFind(t) \/ StopErase(t)
        PROVE  Pool!Next \/ PoolUntouched
    <2>1. t \in IoThreads
      BY <1>6
      DEF Heart, CallOut, Rearm, Reaccept, StopTest, StopClose, StopFind, StopErase,
          SessionInv, CallersOnlyWrite, Threads
    <2>2. cl[t] \in Clients
      BY <1>6
      DEF Heart, CallOut, Rearm, Reaccept, StopTest, StopClose, StopFind, StopErase,
          SessionInv, HandlersHaveClients
    <2>3. pc[t] # "take" /\ UNCHANGED free /\ \E step : Goto(t, step)
      BY <1>6
      DEF Heart, CallOut, Rearm, Reaccept, StopTest, StopClose, StopFind, StopErase, ioVars
    <2> QED
      BY <1>2, <2>1, <2>2, <2>3 DEF Goto
  <1>7. ASSUME NEW w \in Callers, NEW c \in Clients, CallerAnswers(w, c)
        PROVE  Pool!Next \/ PoolUntouched
    <2>1. w \in Threads /\ w \notin IoThreads
      BY ConstantTypes DEF Threads
    <2> QED
      BY <1>7, <2>1, TurnWaits DEF CallerAnswers, PoolUntouched
  <1> QED
    BY <1>1, <1>3, <1>4, <1>5, <1>6, <1>7, Steps
    DEF AcceptFails, StopBreaks, Arrive, PeerLeaves, Tick, vars, ioVars, threadVars

------------------------------------------------------------------------------
(* Theorems                                                                 *)

(***************************************************************************)
(* Every variable has its type, and the inductive invariant holds: no      *)
(* buffer of do_write is lost, whatever fails.                             *)
(***************************************************************************)
THEOREM SessionsConsistent == Spec => [](TypeOK /\ SessionInv)
  <1>1. Init => TypeOK /\ SessionInv
    BY InitType, InitSession
  <1>2. TypeOK /\ SessionInv /\ [Next]_vars => (TypeOK /\ SessionInv)'
    BY TypeStep, SessionStep
  <1> QED
    BY <1>1, <1>2, PTL DEF Spec

(***************************************************************************)
(* A started session is being read or about to be stopped, for any number  *)
(* of io threads that run its handlers at once.                            *)
(***************************************************************************)
THEOREM StartedSessionsRead == Spec => []SessionIsRead
  <1>1. SessionInv => SessionIsRead
    BY DEF SessionInv
  <1> QED
    BY <1>1, SessionsConsistent, PTL

(***************************************************************************)
(* The timeout check of a started session never dies, for any number of io *)
(* threads that run its handlers at once.                                  *)
(***************************************************************************)
THEOREM StartedSessionsWatched == Spec => []SessionIsWatched
  <1>1. SessionInv => SessionIsWatched
    BY DEF SessionInv
  <1> QED
    BY <1>1, SessionsConsistent, PTL

\* With StopsExclude at every step, the vector is as it should be.
LEMMA ExclusiveStopKeepsVector ==
  Spec /\ []StopsExclude => [](EraseIsSafe /\ StartedIsRegistered)
  <1>1. Init => VectorInv
    BY ConstantTypes DEF Init, VectorInv, HasItsPlace, Leaving, Threads
  <1>2. TypeOK /\ SessionInv /\ StopsExclude /\ VectorInv /\ [Next]_vars => VectorInv'
    BY VectorStep
  <1>3. SessionInv /\ VectorInv => EraseIsSafe /\ StartedIsRegistered
    BY VectorImplies DEF SessionInv
  <1> QED
    BY <1>1, <1>2, <1>3, SessionsConsistent, PTL DEF Spec

\* With one io thread there is no other to exclude.
LEMMA OneThreadExcludes ==
  ASSUME NEW i, IoThreads = {i}
  PROVE  Spec => []StopsExclude
  <1>1. SessionInv => StopsExclude
    BY DEF SessionInv, CallersOnlyWrite, StopsExclude, Threads
  <1> QED
    BY <1>1, SessionsConsistent, PTL

(***************************************************************************)
(* stop() never erases clients.end() or another client's entry, for any    *)
(* number of io threads, unless one of two things happens: two threads     *)
(* have found the same client started before either resets it, or one      *)
(* erases while another has an iterator. Neither the handlers that outlive *)
(* a socket and call stop() again, nor the accepts in between, nor the     *)
(* ends of other sessions do harm by themselves.                           *)
(***************************************************************************)
THEOREM ExclusiveStopErases == Spec /\ []StopsExclude => []EraseIsSafe
  BY ExclusiveStopKeepsVector, PTL

(***************************************************************************)
(* Under the same condition the vector holds every started session, and no *)
(* other but those that a stop() is about to erase, for any number of io   *)
(* threads.                                                                *)
(***************************************************************************)
THEOREM ExclusiveStopRegisters == Spec /\ []StopsExclude => []StartedIsRegistered
  BY ExclusiveStopKeepsVector, PTL

(***************************************************************************)
(* Types: no pool of buffers overflows and no thread is at a place that    *)
(* the code does not have, for any number of clients, threads and buffers. *)
(***************************************************************************)
THEOREM SessionTypes == Spec => []TypeOK
  BY SessionsConsistent, PTL

(***************************************************************************)
(* A session has one timeout check: do_timeout_check is never called while *)
(* the timer runs or another thread is about to set it, for any number of  *)
(* io threads.                                                             *)
(***************************************************************************)
THEOREM TimeoutCheckIsAlone == Spec => []TimerIsAlone
  <1>1. Init => TimerIsAlone /\ CalloutIsLast
    BY DEF Init, TimerIsAlone, CalloutIsLast, Watches, Stopping, Threads
  <1>2. TypeOK /\ SessionInv /\ TimerIsAlone /\ CalloutIsLast /\ [Next]_vars
          => (TimerIsAlone /\ CalloutIsLast)'
    BY AloneStep, CalloutStep
  <1> QED
    BY <1>1, <1>2, SessionsConsistent, PTL DEF Spec

(***************************************************************************)
(* Once every io thread waits in do_write for a buffer of a client that    *)
(* has none left, no step of a peer, of the voice card, of another session *)
(* or of time lets one of them go on.                                      *)
(***************************************************************************)
THEOREM BlockedStays == Spec => BlockedForGood
  <1>1. TypeOK /\ SessionInv /\ [Next]_vars => [IoBlocked => IoBlocked']_vars
    BY BlockedStep
  <1> QED
    BY <1>1, SessionsConsistent, PTL DEF Spec, BlockedForGood

(***************************************************************************)
(* The sessions implement WriteBuffers, for any number of clients, io      *)
(* threads and threads of the voice card.                                  *)
(***************************************************************************)
THEOREM SessionsImplementWriteBuffers == Spec => ImplementsWriteBuffers
  <1>1. Init => Pool!Init
    BY DEF Init, Pool!Init, Waiting, Threads
  <1>2. TypeOK /\ SessionInv /\ [Next]_vars => [Pool!Next]_<<free, Waiting>>
    BY PoolStep DEF PoolUntouched
  <1> QED
    BY <1>1, <1>2, SessionsConsistent, PTL
    DEF Spec, ImplementsWriteBuffers, Pool!Spec, Pool!bufferVars
==============================================================================
