----------------------------- MODULE MCVoiceCard -----------------------------
(* Model values and symmetry for checking VoiceCard.                        *)
EXTENDS VoiceCard, TLC

CONSTANTS k1, k2, k3, s1, s2, d1, tt, nobody

TwoCalls == {k1, k2}
ThreeCalls == {k1, k2, k3}
OneDriver == {d1}
OneStrategy == {s1}
TwoStrategies == {s1, s2}
Production == {TRUE}
Debugging == {TRUE, FALSE}

CallSymmetry == Permutations(Calls) \cup Permutations(StrategyThreads)
==============================================================================
