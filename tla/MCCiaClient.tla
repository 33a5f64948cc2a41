----------------------------- MODULE MCCiaClient -----------------------------
(* Model values for checking CiaClient.                                     *)
EXTENDS CiaClient, TLC

CONSTANTS c1, c2, i1, i2, w1, none

OneClient == {c1}
TwoClients == {c1, c2}
OneThread == {i1}
TwoThreads == {i1, i2}
OneCaller == {w1}

ClientSymmetry == Permutations(Clients)
==============================================================================
