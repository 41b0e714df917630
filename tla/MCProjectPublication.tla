------------------------ MODULE MCProjectPublication ------------------------
(***************************************************************************)
(* Model checking the publication coordinator: one or two tabs, two or     *)
(* three revisions of one content each, a few commit tokens and activation *)
(* attempts, and the fault classes a configuration selects.                *)
(***************************************************************************)
EXTENDS ProjectPublication, TLC

Symmetric == Permutations(Clients) \cup Permutations(RevisionIds) \cup Permutations(Tokens)

(* Every fault but a transition that outlives the client's timeout.        *)
FastFaults == FaultClasses \ {"gatewaySlow"}
=============================================================================
