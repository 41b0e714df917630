-------------------------- MODULE GatewayAuthority --------------------------
(***************************************************************************)
(* What the Runtime Gateway promises to the tabs that publish through it:  *)
(* one authority and its phase.  An authority is accepted by a Gateway     *)
(* that is inactive or active, never by one in recovery; a Gateway that    *)
(* cannot clean up keeps an authority to name in the DELETE that retries,  *)
(* and a Gateway in recovery is active again only after it has been        *)
(* withdrawn.                                                              *)
(*                                                                         *)
(* GatewayActivation implements this specification, and ProjectPublication *)
(* assumes no more of the Gateway than it allows.                          *)
(***************************************************************************)
CONSTANTS Authorities,  \* the authorities that may be activated
          Null          \* no authority

VARIABLES authority,    \* the authority the Gateway answers for
          phase

authorityVars == <<authority, phase>>

AuthorityInit == authority = Null /\ phase = "inactive"

Accept(a) == /\ phase \in {"inactive", "active"}
             /\ authority' = a
             /\ phase' = "active"

(* An activation fails so badly that the Gateway must be cleaned up.       *)
Break(a) == /\ phase \in {"inactive", "active"}
            /\ authority' = IF authority = Null THEN a ELSE authority
            /\ phase' = "recovery-required"

StartWithdraw == /\ authority # Null
                 /\ phase' = "deactivating"
                 /\ UNCHANGED authority

Withdraw == /\ authority # Null
            /\ authority' = Null
            /\ phase' = "inactive"

KeepForRetry == /\ authority # Null
                /\ phase' = "recovery-required"
                /\ UNCHANGED authority

AuthorityNext == \/ \E a \in Authorities : Accept(a) \/ Break(a)
                 \/ StartWithdraw \/ Withdraw \/ KeepForRetry

AuthoritySpec == AuthorityInit /\ [][AuthorityNext]_authorityVars
=============================================================================
