------------------------------- MODULE MCServer -------------------------------
(* Model values for checking Server.                                        *)
EXTENDS Server

CONSTANTS k1, k2, s1, d1, i1, tt, nobody, c1

TwoCalls == {k1, k2}
OneDriver == {d1}
OneStrategy == {s1}
Production == {TRUE}
OneClient == {c1}
OneThread == {i1}
SameClient == [k \in TwoCalls |-> c1]
==============================================================================
