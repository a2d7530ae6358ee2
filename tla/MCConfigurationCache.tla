------------------------ MODULE MCConfigurationCache ------------------------
(* Instances of ConfigurationCache: the SIP daemon and web workers.        *)
EXTENDS ConfigurationCache, TLC

CONSTANTS daemon, web, d1, d2, w1, k1, k2, old, new

\* Two threads of the daemon and a web worker.
ThreeThreads == {d1, d2, w1}
HomeOfThree == [t \in ThreeThreads |-> IF t = w1 THEN web ELSE daemon]

\* k2 is created by a save.
FirstOnly == [k \in {k1, k2} |-> IF k = k1 THEN old ELSE NoValue]
Symmetric == Permutations({d1, d2})
=============================================================================
