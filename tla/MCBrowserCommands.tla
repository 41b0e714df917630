-------------------------- MODULE MCBrowserCommands --------------------------
(* Instances of BrowserCommands for TLC.                                   *)
EXTENDS BrowserCommands, TLC
CONSTANTS s1, s2, q1, q2, v1, v2
TwoSockets == {s1, s2}
OneSocket == {s1}
TwoRequests == {q1, q2}
OneRequest == {q1}
TwoVariants == {v1, v2}
OneVariant == {v1}
Symmetric == Permutations(Sockets) \cup Permutations(Requests)
=============================================================================
