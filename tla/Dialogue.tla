------------------------------ MODULE Dialogue -------------------------------
(***************************************************************************)
(* What a session promises its peer, without sockets, threads and buffers: *)
(* each request is dealt with at most once, out of order only as far as    *)
(* there are io threads to do it, and none behind one that ends the        *)
(* session; each answer comes once, after its request was dealt with, and  *)
(* is not mixed with others. MessageStream is the session that keeps it.   *)
(***************************************************************************)
EXTENDS Integers, SequencesExt

CONSTANTS
  Kinds,        \* what a request may be
  MaxRequests,  \* bound: requests the peer means to send
  Threads,      \* how many io threads deal with requests
  FrameLength   \* units of an answer

VARIABLES
  requests,  \* the kinds of the requests the peer sends, in order
  dealt,     \* the requests do_deal_request was called with, in order
  out        \* units of answers on the socket

dialogueVars == <<requests, dealt, out>>

Init ==
  /\ requests \in [1 .. MaxRequests -> Kinds]
  /\ dealt = <<>>
  /\ out = <<>>

\* The requests that request i has overtaken if it is dealt with now.
Overtaken(i) == {j \in 1 .. i - 1 : j \notin ToSet(dealt)}

\* Request i is dealt with. Each one it overtakes is with another thread.
Deal(i) ==
  /\ i \notin ToSet(dealt)
  /\ \A j \in 1 .. i : requests[j] # "long"
  /\ Cardinality(Overtaken(i)) < Threads
  /\ dealt' = Append(dealt, i)
  /\ UNCHANGED <<requests, out>>

\* The first n units of the answer to request i are sent, which are all that
\* will be.
Reply(i, n) ==
  LET answer == <<requests[i], i>> IN
  /\ i \in ToSet(dealt) /\ requests[i] \in {"login", "call"}
  /\ \A k \in DOMAIN out : out[k] # <<answer, 1>>
  /\ out' = out \o [j \in 1 .. n |-> <<answer, j>>]
  /\ UNCHANGED <<requests, dealt>>

Next == \E i \in 1 .. MaxRequests : Deal(i) \/ \E n \in 1 .. FrameLength : Reply(i, n)

Spec == Init /\ [][Next]_dialogueVars

(***************************************************************************)
(* A request is dealt with before its turn only by as many places as there *)
(* are other io threads; with one thread, in the order in which it came.   *)
(***************************************************************************)
OvertakesFew == \A k \in DOMAIN dealt : dealt[k] < k + Threads
==============================================================================
