------------------------- MODULE DurablePublication -------------------------
(***************************************************************************)
(* What the durable Project V5 store promises to its readers: one register *)
(* holding the last finalized publication, and at most one candidate that  *)
(* has been announced but not decided.  A candidate is decided exactly     *)
(* once: it either becomes the register's value or disappears and leaves   *)
(* the register's value, content included, as it was.  A commit token      *)
(* names at most one publication for ever.                                 *)
(*                                                                         *)
(* ProjectRepository implements this specification (see Register there).   *)
(***************************************************************************)
CONSTANTS RevisionIds,  \* revision identities
          Contents,     \* canonical Project JSON documents
          Tokens,       \* commit tokens
          Null          \* "nothing": outside of all the sets above

VARIABLES stable,       \* the finalized publication, or Null
          candidate,    \* the announced publication, or Null
          usedTokens    \* every token that ever announced a publication

registerVars == <<stable, candidate, usedTokens>>

Publication == [revisionId : RevisionIds, content : Contents, token : Tokens]

RegisterInit == stable = Null /\ candidate = Null /\ usedTokens = {}

(* A publication with a token never used before is announced.              *)
Announce(p) == /\ candidate = Null
               /\ p.token \notin usedTokens
               /\ candidate' = p
               /\ usedTokens' = usedTokens \cup {p.token}
               /\ UNCHANGED stable

Decide == /\ candidate # Null
          /\ stable' = candidate
          /\ candidate' = Null
          /\ UNCHANGED usedTokens

Withdraw == /\ candidate # Null
            /\ candidate' = Null
            /\ UNCHANGED <<stable, usedTokens>>

RegisterNext == (\E p \in Publication : Announce(p)) \/ Decide \/ Withdraw

RegisterSpec == RegisterInit /\ [][RegisterNext]_registerVars
=============================================================================
