---------------------- MODULE ProjectPublication_proofs ----------------------
(***************************************************************************)
(* Proofs about ProjectRepository for any sets of tabs, revisions,         *)
(* documents and tokens, and about ProjectPublication for any number of    *)
(* tabs, any faults, any bounds and any timing of the Gateway.             *)
(*                                                                         *)
(* First the repository alone: it implements the register of               *)
(* DurablePublication.  Then the database of the publication: the steps    *)
(* refine those of ProjectRepository, and what was acknowledged is         *)
(* durable.  Then the locals of the coordinators:                          *)
(* every value the code between two awaits relies on is there              *)
(* (PublicationTypeOK), a replace that rejects cleanly is not durable      *)
(* (RejectedNotDurable), and the Gateway the coordinators see keeps the    *)
(* promise of GatewayAuthority.  Then the attempts: with a Gateway that is *)
(* not slower than its clients, none that was given up is left running     *)
(* (AbandonedNotInGateway).  Last a single tab: at rest the pointer, its   *)
(* runtime and the Gateway have the same publication (SettledAgreement).   *)
(***************************************************************************)
EXTENDS ProjectPublication, FiniteSetTheorems, TLAPS

-----------------------------------------------------------------------------
(* The repository alone: any tabs, revisions, documents and tokens.        *)

(* The empty database satisfies the inductive invariant.                   *)
LEMMA RepositoryInitInv == RepositoryInit => RepositoryInv
  BY RepositoryAssumption
  DEF RepositoryInit, RepositoryInv, RepositoryTypeOK, PointerShape, HandleShape,
      RetainedStored, TokensDecided, FinalizedNeverCompensated, Retained,
      NoPointer, NoPrepared, StoredProjectPointer, PreparedState, PreparedStatus

(* The effect shared by an acknowledged and a lost commit keeps every part *)
(* of the invariant that does not speak of the handle's status.            *)
LEMMA CommitKeepsInv ==
  ASSUME RepositoryInv, NEW c \in Clients, NEW e \in RevisionIds \cup {Null},
         NEW k \in Tokens, NEW s \in PreparedStatus \ {"prepared"},
         prepared[c].status = "prepared", CommitAllowed(c, e, k),
         CommitEffect(c, k), SetStatus(c, s)
  PROVE  RepositoryInv'
<1> DEFINE r == prepared[c].revisionId
<1> USE RepositoryAssumption DEF RepositoryInv, Retained
<1>1. r \in RevisionIds /\ prepared[c].content \in Contents
  BY DEF HandleShape
<1>2. pointer' = PublishingPointer(r, k, pointer)
  BY DEF CommitEffect
<1>3. pointer'.revisionId = r /\ pointer'.commitToken = k
      /\ pointer'.state = "publishing"
      /\ pointer'.previousRevisionId = pointer.revisionId
      /\ pointer'.previousCommitToken = pointer.commitToken
  BY <1>2 DEF PublishingPointer
<1>4. pointer.state \in {"none", "stable"}
  BY DEF CommitAllowed, RepositoryTypeOK, StoredProjectPointer
<1>5. RepositoryTypeOK'
  <2>1. pointer' \in StoredProjectPointer
    BY <1>1, <1>2 DEF PublishingPointer, StoredProjectPointer, RepositoryTypeOK
  <2>2. prepared' \in [Clients -> PreparedState]
    BY DEF SetStatus, RepositoryTypeOK, PreparedState
  <2>3. QED
    BY <1>1, <2>1, <2>2 DEF CommitEffect, RepositoryTypeOK
<1>6. PointerShape'
  BY <1>1, <1>3, <1>4 DEF PointerShape, NoPointer
<1>7. HandleShape'
  BY DEF HandleShape, SetStatus, RepositoryTypeOK, PreparedState
<1>8. RetainedStored'
  BY <1>1, <1>3 DEF RetainedStored, CommitEffect, RepositoryTypeOK
<1>9. TokensDecided'
  BY <1>3, <1>4 DEF TokensDecided, FinalizedNeverCompensated, CommitEffect,
                    CommitAllowed, PointerShape, NoPointer
<1>10. QED
  BY <1>5, <1>6, <1>7, <1>8, <1>9

(* Every transaction of every tab keeps the invariant.                     *)
LEMMA RepositoryNextInv ==
  RepositoryInv /\ [RepositoryNext]_repositoryVars => RepositoryInv'
<1> SUFFICES ASSUME RepositoryInv, [RepositoryNext]_repositoryVars
             PROVE  RepositoryInv'
  OBVIOUS
<1> USE RepositoryAssumption DEF RepositoryInv
<1>1. ASSUME NEW c \in Clients, NEW r \in RevisionIds, NEW x \in Contents,
             PrepareRevision(c, r, x)
      PROVE  RepositoryInv'
  <2>1. RepositoryTypeOK' /\ HandleShape'
    BY <1>1 DEF PrepareRevision, RepositoryTypeOK, HandleShape, PreparedState,
                PreparedStatus
  <2>2. QED
    BY <1>1, <2>1 DEF PrepareRevision, PointerShape, RetainedStored, Retained,
                      TokensDecided, FinalizedNeverCompensated
<1>2. ASSUME NEW c \in Clients,
             \/ DiscardPreparedRevision(c)
             \/ CommitRejected(c)
      PROVE  RepositoryInv'
  <2>1. RepositoryTypeOK' /\ HandleShape'
    BY <1>2 DEF DiscardPreparedRevision, CommitRejected, SetStatus, RepositoryTypeOK,
                HandleShape, PreparedState, PreparedStatus
  <2>2. QED
    BY <1>2, <2>1 DEF DiscardPreparedRevision, CommitRejected, PointerShape,
                      RetainedStored, Retained, TokensDecided,
                      FinalizedNeverCompensated
<1>3. ASSUME NEW c \in Clients, NEW e \in RevisionIds \cup {Null}, NEW k \in Tokens,
             CommitPreparedRevision(c, e, k) \/ CommitResponseLost(c, e, k)
      PROVE  RepositoryInv'
  BY <1>3, CommitKeepsInv
  DEF CommitPreparedRevision, CommitResponseLost, PreparedStatus
<1>4. ASSUME NEW k \in Tokens, FinalizePublication(k)
      PROVE  RepositoryInv'
  <2>1. pointer' = StablePointer(pointer.revisionId, k) /\ pointer.state # "none"
        /\ k = pointer.commitToken
    BY <1>4 DEF FinalizePublication, FinalizeAllowed
  <2>2. pointer.revisionId \in RevisionIds
    BY <2>1 DEF PointerShape
  <2>3. RepositoryTypeOK'
    BY <1>4, <2>1, <2>2 DEF FinalizePublication, StablePointer, NoPointer,
                            RepositoryTypeOK, StoredProjectPointer
  <2>4. PointerShape' /\ RetainedStored'
    BY <1>4, <2>1, <2>2 DEF FinalizePublication, PointerShape, StablePointer,
                            NoPointer, RetainedStored, Retained
  <2>5. HandleShape'
    BY <1>4 DEF FinalizePublication, HandleShape
  <2>6. pointer.state = "stable" \/ pointer.state = "publishing"
    BY <2>1 DEF RepositoryTypeOK, StoredProjectPointer
  <2>7. k \in projectCommitTokens \ compensated
    BY <2>1, <2>6 DEF TokensDecided, FinalizedNeverCompensated
  <2>8. TokensDecided'
    BY <1>4, <2>1, <2>7 DEF FinalizePublication, TokensDecided, StablePointer,
                            NoPointer, FinalizedNeverCompensated
  <2>9. QED
    BY <2>3, <2>4, <2>5, <2>8
<1>5. ASSUME NEW k \in Tokens, CompensatePublication(k)
      PROVE  RepositoryInv'
  <2>1. pointer.state = "publishing" /\ pointer.commitToken = k
    BY <1>5 DEF CompensatePublication, CompensateAllowed
  <2>2. HandleShape'
    BY <1>5 DEF CompensatePublication, HandleShape
  <2>3. CASE pointer.previousRevisionId = Null
    BY <1>5, <2>1, <2>2, <2>3
    DEF CompensatePublication, NoPointer, RepositoryTypeOK, StoredProjectPointer,
        PointerShape, RetainedStored, Retained, TokensDecided,
        FinalizedNeverCompensated
  <2>4. CASE pointer.previousRevisionId # Null
    <3>1. pointer' = StablePointer(pointer.previousRevisionId,
                                   pointer.previousCommitToken)
      BY <1>5, <2>4 DEF CompensatePublication
    <3>2. pointer.previousRevisionId \in RevisionIds
          /\ pointer.previousCommitToken \in Tokens
      BY <2>4 DEF PointerShape, RepositoryTypeOK, StoredProjectPointer
    <3>3. RepositoryTypeOK'
      BY <1>5, <3>1, <3>2 DEF CompensatePublication, StablePointer, NoPointer,
                              RepositoryTypeOK, StoredProjectPointer
    <3>4. PointerShape' /\ RetainedStored'
      BY <1>5, <2>4, <3>1, <3>2
      DEF CompensatePublication, PointerShape, StablePointer, NoPointer,
          RetainedStored, Retained
    <3>5. TokensDecided'
      BY <1>5, <2>1, <3>1, <3>2
      DEF CompensatePublication, TokensDecided, StablePointer, NoPointer,
          FinalizedNeverCompensated
    <3>6. QED
      BY <2>2, <3>3, <3>4, <3>5
  <2>5. QED
    BY <2>3, <2>4
<1>6. ASSUME GarbageCollect
      PROVE  RepositoryInv'
  <2>1. Retained(pointer) \subseteq RevisionIds
    BY DEF Retained, RepositoryTypeOK, StoredProjectPointer
  <2>2. RepositoryTypeOK'
    BY <1>6 DEF GarbageCollect, RepositoryTypeOK
  <2>3. RetainedStored'
    BY <1>6, <2>1 DEF GarbageCollect, RetainedStored, RepositoryTypeOK
  <2>4. QED
    BY <1>6, <2>2, <2>3 DEF GarbageCollect, PointerShape, HandleShape, TokensDecided,
                            FinalizedNeverCompensated
<1>7. CASE UNCHANGED repositoryVars
  BY <1>7 DEF repositoryVars, RepositoryTypeOK, PointerShape, HandleShape,
              RetainedStored, Retained, TokensDecided, FinalizedNeverCompensated
<1>8. QED
  BY <1>1, <1>2, <1>3, <1>4, <1>5, <1>6, <1>7 DEF RepositoryNext
-----------------------------------------------------------------------------
(* Every reachable database satisfies the inductive invariant.             *)
THEOREM RepositoryInvariant == RepositorySpec => []RepositoryInv
  BY RepositoryInitInv, RepositoryNextInv, PTL DEF RepositorySpec

(* Type correctness of the rows, handles and histories.                    *)
THEOREM RepositoryTypeCorrect == RepositorySpec => []RepositoryTypeOK
<1>1. RepositoryInv => RepositoryTypeOK
  BY DEF RepositoryInv
<1>2. QED
  BY <1>1, RepositoryInvariant, PTL

(* Garbage collection, commits and compensations by any number of tabs     *)
(* never leave the pointer, or the pointer a compensation would restore,   *)
(* on a revision that is not stored.                                       *)
THEOREM RetainedAlwaysStored == RepositorySpec => []RetainedStored
<1>1. RepositoryInv => RetainedStored
  BY DEF RepositoryInv
<1>2. QED
  BY <1>1, RepositoryInvariant, PTL

(* A publication that was ever stable is never compensated.                *)
THEOREM PublicationDecidedOnce == RepositorySpec => []FinalizedNeverCompensated
<1>1. RepositoryInv => FinalizedNeverCompensated
  BY DEF RepositoryInv, TokensDecided
<1>2. QED
  BY <1>1, RepositoryInvariant, PTL

-----------------------------------------------------------------------------
(* The refinement of DurablePublication, one lemma per method.             *)

(* A commit, acknowledged or lost, announces a candidate: the register's   *)
(* value, now the row to return to, keeps its content.                     *)
LEMMA CommitAnnounces ==
  ASSUME RepositoryInv, NEW c \in Clients, NEW e \in RevisionIds \cup {Null},
         NEW k \in Tokens, prepared[c].status = "prepared",
         CommitAllowed(c, e, k), CommitEffect(c, k)
  PROVE  Register!RegisterNext
<1> DEFINE r == prepared[c].revisionId
           p == [revisionId |-> r, content |-> prepared[c].content, token |-> k]
<1> USE RepositoryAssumption DEF RepositoryInv
<1>1. r \in RevisionIds /\ prepared[c].content \in Contents
  BY DEF HandleShape
<1>2. p \in Register!Publication
  BY <1>1 DEF Register!Publication
<1>3. /\ pointer'.state = "publishing"
      /\ pointer'.revisionId = r
      /\ pointer'.commitToken = k
      /\ pointer'.previousRevisionId = pointer.revisionId
      /\ pointer'.previousCommitToken = pointer.commitToken
  BY DEF CommitEffect, PublishingPointer
<1>4. projectRevisions'[r] = prepared[c].content
  BY <1>1 DEF CommitEffect, RepositoryTypeOK
<1>5. CandidatePublication' = p
  BY <1>3, <1>4 DEF CandidatePublication, PublicationOf
<1>6. CandidatePublication = Null
  BY DEF CommitAllowed, CandidatePublication
<1>7. UNCHANGED StablePublication
  <2>1. CASE pointer.state = "none"
    BY <1>3, <2>1 DEF PointerShape, NoPointer, StablePublication
  <2>2. CASE pointer.state = "stable"
    <3>1. pointer.revisionId \in RevisionIds /\ projectRevisions[pointer.revisionId] # Null
      BY <2>2 DEF PointerShape, RetainedStored, Retained
    <3>2. projectRevisions'[pointer.revisionId] = projectRevisions[pointer.revisionId]
      BY <1>1, <3>1 DEF CommitEffect, CommitAllowed, RepositoryTypeOK
    <3>3. QED
      BY <1>3, <2>2, <3>1, <3>2 DEF StablePublication, PublicationOf
  <2>3. QED
    BY <2>1, <2>2 DEF CommitAllowed, RepositoryTypeOK, StoredProjectPointer
<1>8. Register!Announce(p)
  BY <1>5, <1>6, <1>7 DEF Register!Announce, CommitAllowed, CommitEffect
<1>9. QED
  BY <1>2, <1>8 DEF Register!RegisterNext

(* A finalization decides the candidate, and repeating it changes nothing. *)
LEMMA FinalizeDecides ==
  ASSUME RepositoryInv, NEW k \in Tokens, FinalizePublication(k)
  PROVE  [Register!RegisterNext]_(Register!registerVars)
<1> USE RepositoryAssumption DEF RepositoryInv
<1>1. pointer' = StablePointer(pointer.revisionId, k) /\ pointer.state # "none"
      /\ k = pointer.commitToken /\ UNCHANGED <<projectRevisions, projectCommitTokens>>
  BY DEF FinalizePublication, FinalizeAllowed
<1>2. StablePublication' = PublicationOf(pointer.revisionId, k)
      /\ CandidatePublication' = Null
  BY <1>1 DEF StablePublication, CandidatePublication, StablePointer, NoPointer,
              PublicationOf
<1>3. CASE pointer.state = "stable"
  BY <1>1, <1>2, <1>3 DEF StablePublication, CandidatePublication, Register!registerVars
<1>4. CASE pointer.state = "publishing"
  <2>1. CandidatePublication = PublicationOf(pointer.revisionId, k)
    BY <1>1, <1>4 DEF CandidatePublication
  <2>2. CandidatePublication # Null
    <3>1. pointer.revisionId \in RevisionIds
          /\ projectRevisions[pointer.revisionId] # Null
      BY <1>4 DEF PointerShape, RetainedStored, Retained
    <3>2. PublicationOf(pointer.revisionId, k)
              \in [revisionId : RevisionIds, content : Contents, token : Tokens]
      BY <3>1 DEF PublicationOf, RepositoryTypeOK
    <3>3. QED
      BY <2>1, <3>2
  <2>3. QED
    BY <1>1, <1>2, <2>1, <2>2 DEF Register!RegisterNext, Register!Decide
<1>5. QED
  BY <1>1, <1>3, <1>4 DEF RepositoryTypeOK, StoredProjectPointer

(* A compensation withdraws the candidate and nothing else.                *)
LEMMA CompensateWithdraws ==
  ASSUME RepositoryInv, NEW k \in Tokens, CompensatePublication(k)
  PROVE  Register!RegisterNext
<1> USE RepositoryAssumption DEF RepositoryInv
<1>1. pointer.state = "publishing" /\ UNCHANGED <<projectRevisions, projectCommitTokens>>
  BY DEF CompensatePublication, CompensateAllowed
<1>2. CandidatePublication # Null
  <2>1. /\ pointer.revisionId \in RevisionIds
        /\ pointer.commitToken \in Tokens
        /\ projectRevisions[pointer.revisionId] # Null
    BY <1>1 DEF PointerShape, RetainedStored, Retained
  <2>2. CandidatePublication
            \in [revisionId : RevisionIds, content : Contents, token : Tokens]
    BY <1>1, <2>1 DEF CandidatePublication, PublicationOf, RepositoryTypeOK
  <2>3. QED
    BY <2>2
<1>3. CandidatePublication' = Null
  BY DEF CompensatePublication, CandidatePublication, NoPointer, StablePointer
<1>4. UNCHANGED StablePublication
  BY <1>1 DEF CompensatePublication, StablePublication, NoPointer, StablePointer,
              PublicationOf
<1>5. QED
  BY <1>1, <1>2, <1>3, <1>4 DEF Register!RegisterNext, Register!Withdraw

(* Garbage collection is invisible to readers of the register.             *)
LEMMA GarbageCollectInvisible ==
  ASSUME RepositoryInv, GarbageCollect
  PROVE  UNCHANGED Register!registerVars
<1> USE RepositoryAssumption DEF RepositoryInv
<1>1. Retained(pointer) \subseteq RevisionIds
  BY DEF Retained, RepositoryTypeOK, StoredProjectPointer
<1>2. \A r \in Retained(pointer) : projectRevisions'[r] = projectRevisions[r]
  BY <1>1 DEF GarbageCollect
<1>3. UNCHANGED <<pointer, projectCommitTokens>>
  BY DEF GarbageCollect
<1>4. UNCHANGED CandidatePublication
  BY <1>2, <1>3 DEF CandidatePublication, PublicationOf, Retained, PointerShape
<1>5. UNCHANGED StablePublication
  BY <1>2, <1>3 DEF StablePublication, PublicationOf, Retained, PointerShape
<1>6. QED
  BY <1>3, <1>4, <1>5 DEF Register!registerVars

(* The repository implements the durable register: every transaction of    *)
(* every tab announces, decides or withdraws one publication, or is        *)
(* invisible.                                                              *)
THEOREM RepositoryImplementsRegister == RepositorySpec => ImplementsRegister
<1>1. RepositoryInit => Register!RegisterInit
  BY RepositoryAssumption
  DEF RepositoryInit, Register!RegisterInit, StablePublication,
      CandidatePublication, NoPointer
<1>2. RepositoryInv /\ [RepositoryNext]_repositoryVars
          => [Register!RegisterNext]_(Register!registerVars)
  <2> SUFFICES ASSUME RepositoryInv, [RepositoryNext]_repositoryVars
               PROVE  [Register!RegisterNext]_(Register!registerVars)
    OBVIOUS
  <2>1. ASSUME UNCHANGED <<pointer, projectRevisions, projectCommitTokens>>
        PROVE  UNCHANGED Register!registerVars
    BY <2>1 DEF Register!registerVars, StablePublication, CandidatePublication,
                PublicationOf
  <2>2. ASSUME NEW c \in Clients, NEW r \in RevisionIds, NEW x \in Contents,
               PrepareRevision(c, r, x)
        PROVE  UNCHANGED Register!registerVars
    BY <2>1, <2>2 DEF PrepareRevision
  <2>3. ASSUME NEW c \in Clients, DiscardPreparedRevision(c) \/ CommitRejected(c)
        PROVE  UNCHANGED Register!registerVars
    BY <2>1, <2>3 DEF DiscardPreparedRevision, CommitRejected
  <2>4. ASSUME NEW c \in Clients, NEW e \in RevisionIds \cup {Null}, NEW k \in Tokens,
               CommitPreparedRevision(c, e, k) \/ CommitResponseLost(c, e, k)
        PROVE  Register!RegisterNext
    BY <2>4, CommitAnnounces DEF CommitPreparedRevision, CommitResponseLost
  <2>5. CASE UNCHANGED repositoryVars
    BY <2>1, <2>5 DEF repositoryVars
  <2>6. QED
    BY <2>2, <2>3, <2>4, <2>5, FinalizeDecides, CompensateWithdraws,
       GarbageCollectInvisible DEF RepositoryNext
<1>3. QED
  BY <1>1, <1>2, RepositoryInvariant, PTL
  DEF RepositorySpec, ImplementsRegister, Register!RegisterSpec

-----------------------------------------------------------------------------
(* The publication: what its steps do to the database.                     *)

(* What a step of a coordinator or of the Gateway may do to the database,  *)
(* and whom it may acknowledge: only tokens that are finalized by then.    *)
StepOK ==
    /\ RepositoryNext \/ UNCHANGED repositoryVars
    /\ acked' \subseteq acked \cup finalized'

(* A step that leaves database and histories alone is one of those.        *)
LEMMA LocalStepOK ==
  ASSUME UNCHANGED <<repositoryVars, historyVars>>
  PROVE  StepOK
  BY DEF StepOK, historyVars

(* Awaits that change only the tab.                                        *)
LEMMA StepsOK ==
  ASSUME NEW t \in Tabs, NEW to, NEW class, Step(t, to) \/ FaultStep(t, class, to)
  PROVE  StepOK
  BY LocalStepOK DEF Step, FaultStep, LocalOnly

(* A tab that sends a request to the Gateway.                              *)
LEMMA SendOK ==
  ASSUME NEW t \in Tabs, NEW kind, NEW authority, NEW expected, NEW stage, NEW o,
         Send(t, kind, authority, expected, stage, o)
  PROVE  StepOK
  BY LocalStepOK DEF Send

(* The transactions are the repository's own steps.                        *)
LEMMA CommitStep ==
  ASSUME RepositoryInv, NEW t \in Tabs, NEW e, NEW k \in Tokens,
         CommitPreparedRevision(t, e, k) \/ CommitResponseLost(t, e, k)
  PROVE  RepositoryNext
<1>1. e \in RevisionIds \cup {Null}
  BY DEF CommitPreparedRevision, CommitResponseLost, CommitAllowed, RepositoryInv,
         RepositoryTypeOK, StoredProjectPointer
<1>2. QED
  BY <1>1 DEF RepositoryNext, Tabs

LEMMA FinalizeStep ==
  ASSUME RepositoryInv, NEW k, FinalizePublication(k)
  PROVE  RepositoryNext /\ k \in finalized'
<1>1. k \in Tokens
  BY DEF FinalizePublication, FinalizeAllowed, RepositoryInv, PointerShape
<1>2. QED
  BY <1>1 DEF RepositoryNext, FinalizePublication

LEMMA CompensateStep ==
  ASSUME RepositoryInv, NEW k, CompensatePublication(k)
  PROVE  RepositoryNext
<1>1. k \in Tokens
  BY DEF CompensatePublication, CompensateAllowed, RepositoryInv, PointerShape
<1>2. QED
  BY <1>1 DEF RepositoryNext

(* A publication found stable under the operation's own token was          *)
(* finalized, whoever finalized it.                                        *)
LEMMA ObservedFinalized ==
  ASSUME RepositoryInv, NEW o, FinalizedDespiteRejection(o)
  PROVE  Acknowledged(o) \subseteq finalized
  BY DEF FinalizedDespiteRejection, FinalToken, Acknowledged, RepositoryInv, TokensDecided

(* The calls before and up to the success of an operation.                 *)
LEMMA ForwardOK ==
  ASSUME RepositoryInv, NEW t \in Tabs, Forward(t)
  PROVE  StepOK
<1>1. CASE EmptyStatus(t) \/ EmptyVerify(t) \/ EmptyPointer(t)
           \/ LoadPrevious(t) \/ LoadTarget(t) \/ PrepareGateway(t)
  BY <1>1, LocalStepOK
  DEF EmptyStatus, EmptyVerify, EmptyPointer, LoadPrevious, LoadTarget,
      PrepareGateway, LocalOnly
<1>2. CASE Activate(t)
  BY <1>2, SendOK, StepsOK DEF Activate
<1>3. CASE Winner(t)
  BY <1>3, StepsOK DEF Winner
<1>4. CASE Commit(t)
  <2>1. UNCHANGED historyVars
    BY <1>4 DEF Commit
  <2>2. PICK k \in FreshTokens :
          \E e : \/ CommitPreparedRevision(t, e, k)
                \/ CommitResponseLost(t, e, k)
                \/ CommitRejected(t)
    BY <1>4 DEF Commit
  <2>3. k \in Tokens
    BY DEF FreshTokens
  <2>4. RepositoryNext
    BY <2>2, <2>3, CommitStep DEF RepositoryNext, Tabs
  <2>5. QED
    BY <2>1, <2>4 DEF StepOK, historyVars
<1>5. CASE CommitRuntime(t)
  BY <1>5, StepsOK, LocalStepOK DEF CommitRuntime, LocalOnly
<1>6. CASE PointerCheck(t)
  <2>1. CASE Succeed(t, {}) /\ UNCHANGED repositoryVars
    BY <2>1 DEF Succeed, StepOK
  <2>2. QED
    BY <1>6, <2>1, StepsOK DEF PointerCheck
<1>7. CASE Verify(t)
  <2>1. CASE Succeed(t, {}) /\ UNCHANGED repositoryVars
    BY <2>1 DEF Succeed, StepOK
  <2>2. QED
    BY <1>7, <2>1, StepsOK DEF Verify
<1>8. CASE Finalize(t)
  <2> DEFINE k == FinalToken(op[t])
  <2>1. CASE FinalizePublication(k) /\ Succeed(t, Acknowledged(op[t]))
    <3>1. RepositoryNext /\ k \in finalized'
      BY <2>1, FinalizeStep
    <3>2. Acknowledged(op[t]) \subseteq {k}
      BY DEF Acknowledged, FinalToken
    <3>3. QED
      BY <2>1, <3>1, <3>2 DEF Succeed, StepOK
  <2>2. CASE FinalizePublication(k) /\ UNCHANGED historyVars
    BY <2>2, FinalizeStep DEF StepOK, historyVars
  <2>3. QED
    BY <1>8, <2>1, <2>2, StepsOK DEF Finalize
<1>9. CASE FinalizeRead(t)
  <2>1. CASE /\ FinalizedDespiteRejection(op[t])
             /\ Succeed(t, Acknowledged(op[t])) /\ UNCHANGED repositoryVars
    <3>1. finalized' = finalized
      BY <2>1 DEF repositoryVars
    <3>2. QED
      BY <2>1, <3>1, ObservedFinalized DEF Succeed, StepOK
  <2>2. CASE LocalOnly
    BY <2>2, LocalStepOK DEF LocalOnly
  <2>3. QED
    BY <1>9, <2>1, <2>2, StepsOK DEF FinalizeRead
<1>10. QED
  BY <1>1, <1>2, <1>3, <1>4, <1>5, <1>6, <1>7, <1>8, <1>9 DEF Forward

(* The catch block and the rollbacks of a hydration.                       *)
LEMMA BackwardOK ==
  ASSUME RepositoryInv, NEW t \in Tabs, Backward(t)
  PROVE  StepOK
<1>1. CASE \/ Reconcile(t) \/ RollbackStatus(t) \/ RollbackTerminal(t)
           \/ CheckInactive(t) \/ Reactivate(t) \/ ReactivateVerify(t)
  BY <1>1, StepsOK
  DEF Reconcile, RollbackStatus, RollbackTerminal, CheckInactive, Reactivate,
      ReactivateVerify
<1>2. CASE Rollback(t) \/ RollbackRetry(t) \/ ReactivateSend(t)
  BY <1>2, SendOK DEF Rollback, RollbackRetry, ReactivateSend
<1>3. CASE RollbackRuntime(t) \/ EndCatch(t)
  BY <1>3 DEF RollbackRuntime, EndCatch, StepOK
<1>4. CASE Discard(t)
  <2>1. CASE DiscardPreparedRevision(t) /\ UNCHANGED historyVars
    BY <2>1 DEF RepositoryNext, Tabs, StepOK, historyVars
  <2>2. QED
    BY <1>4, <2>1, StepsOK DEF Discard
<1>5. CASE Compensate(t)
  <2>1. CASE CompensatePublication(op[t].token) /\ UNCHANGED historyVars
    BY <2>1, CompensateStep DEF StepOK, historyVars
  <2>2. QED
    BY <1>5, <2>1, StepsOK DEF Compensate
<1>6. CASE RestorePointer(t) \/ RestoreStable(t)
  BY <1>6, LocalStepOK DEF RestorePointer, RestoreStable, LocalOnly
<1>7. CASE RestoreCompensate(t)
  <2>1. UNCHANGED historyVars
    BY <1>7 DEF RestoreCompensate
  <2>2. RepositoryNext \/ UNCHANGED repositoryVars
    BY <1>7, CompensateStep DEF RestoreCompensate
  <2>3. QED
    BY <2>1, <2>2 DEF StepOK, historyVars
<1>8. QED
  BY <1>1, <1>2, <1>3, <1>4, <1>5, <1>6, <1>7 DEF Backward

(* The Gateway never touches the database.                                 *)
LEMMA GatewayOK ==
  ASSUME GatewayStep \/ GatewayTimeout
  PROVE  StepOK
  BY LocalStepOK
  DEF GatewayStep, GatewayActivate, GatewayRefuseDeactivate, GatewayStartDeactivate,
      GatewayFinishDeactivate, GatewayTimeout, Respond, RespondFailed

(* Every step of the system is a repository step or invisible to it.       *)
LEMMA NextOK ==
  ASSUME RepositoryInv, [Next]_vars
  PROVE  StepOK
<1>1. CASE UNCHANGED vars
  BY <1>1, LocalStepOK DEF vars
<1>2. ASSUME NEW t \in Tabs, Begin(t) PROVE StepOK
  BY <1>2 DEF Begin, RepositoryNext, Tabs, StepOK, historyVars
<1>3. ASSUME NEW t \in Tabs, Hydrate(t) PROVE StepOK
  BY <1>3, StepsOK DEF Hydrate
<1>4. ASSUME NEW t \in Tabs, DrainStep(t) PROVE StepOK
  BY <1>4 DEF DrainStep, RepositoryNext, StepOK, historyVars
<1>5. ASSUME NEW t \in Tabs, Reload(t) \/ RecoveryReload(t) PROVE StepOK
  BY <1>5, LocalStepOK DEF Reload, RecoveryReload, ReloadEffect
<1>6. QED
  BY <1>1, <1>2, <1>3, <1>4, <1>5, ForwardOK, BackwardOK, GatewayOK DEF Next

-----------------------------------------------------------------------------
(* The database is always consistent under the coordinators that use it.   *)
THEOREM PublicationKeepsRepository == Spec => []RepositoryInv
<1>1. Init => RepositoryInv
  BY RepositoryInitInv DEF Init
<1>2. RepositoryInv /\ [Next]_vars => RepositoryInv'
  BY NextOK, RepositoryNextInv DEF StepOK
<1>3. QED
  BY <1>1, <1>2, PTL DEF Spec

(* Whatever the coordinators and the Gateway do, their effect on the       *)
(* database is a behaviour of the repository specification: what is proved *)
(* of every client of the repository holds for the coordinators.           *)
THEOREM PublicationRefinesRepository == Spec => RepositorySpec
<1>1. Init => RepositoryInit
  BY DEF Init
<1>2. RepositoryInv /\ [Next]_vars => [RepositoryNext]_repositoryVars
  BY NextOK DEF StepOK
<1>3. QED
  BY <1>1, <1>2, PublicationKeepsRepository, PTL DEF Spec, RepositorySpec

(* So the coordinators implement the durable register too.                 *)
THEOREM PublicationImplementsRegister == Spec => ImplementsRegister
  BY PublicationRefinesRepository, RepositoryImplementsRegister, PTL

(* Tokens stay finalized.                                                  *)
LEMMA FinalizedGrows ==
  ASSUME RepositoryNext \/ UNCHANGED repositoryVars
  PROVE  finalized \subseteq finalized'
<1>1. CASE UNCHANGED repositoryVars
  BY <1>1 DEF repositoryVars
<1>2. CASE RepositoryNext
  BY <1>2
  DEF RepositoryNext, PrepareRevision, DiscardPreparedRevision, CommitPreparedRevision,
      CommitResponseLost, CommitEffect, CommitRejected, FinalizePublication,
      CompensatePublication, GarbageCollect
<1>3. QED
  BY <1>1, <1>2

(* A replace that resolved is finalized and is never compensated, with any *)
(* number of tabs hydrating, rolling forward and rolling back at once.     *)
THEOREM AcknowledgedAlwaysDurable == Spec => []AcknowledgedDurable
<1> DEFINE AckInv == acked \subseteq finalized
<1>1. Init => AckInv
  BY DEF Init
<1>2. RepositoryInv /\ AckInv /\ [Next]_vars => AckInv'
  BY NextOK, FinalizedGrows DEF StepOK
<1>3. RepositoryInv /\ AckInv => AcknowledgedDurable
  BY DEF RepositoryInv, TokensDecided, FinalizedNeverCompensated, AcknowledgedDurable
<1> HIDE DEF AckInv
<1>4. QED
  BY <1>1, <1>2, <1>3, PublicationKeepsRepository, PTL DEF Spec

-----------------------------------------------------------------------------
(* What holds of the locals o of an operation at an await, when h is the   *)
(* status of the tab's revision handle and C are the compensated tokens.   *)

(* Wherever the operation stands: a token is minted with the commit, which *)
(* uses the handle up; an unknown outcome is a failure; only a hydration   *)
(* restores or meets a winner.                                             *)
LocalsOK(o, h) ==
    /\ o \in Op
    /\ o.token = Null <=> o.commit = "none"
    /\ o.commit # "none" => o.kind = "replace" /\ h # "prepared"
    /\ o.commit = "unknown" => o.failed
    /\ o.attempted => o.attempt # Null /\ o.next # Null
    /\ o.winner # "no" => o.kind = "hydrate" /\ o.attempted
    /\ o.restoring => o.kind = "hydrate"

Early == {"emptyStatus", "emptyVerify", "emptyPointer", "loadPrevious", "loadTarget",
          "prepareGateway"}
Restore == {"restorePointer", "restoreCompensate", "restoreStable"}
Attempting == {"activating", "winner", "rollback", "rollingBack", "rollbackStatus",
               "rollbackRetry", "rollbackRetrying", "rollbackTerminal"}
Reactivation == {"reactivate", "reactivateSend", "reactivating", "reactivateVerify"}
After == Reactivation \cup {"endCatch"}
Publishing == {"commitRuntime", "verify", "finalize", "finalizeRead"}
ReplaceOnly == {"commit", "reconcile", "discard", "compensate"} \cup After

(* At the await stage.  A replace past its compensation, and not failed,   *)
(* has seen its token compensated.                                         *)
StageOK(stage, o, C) ==
    /\ stage = "reconcile" <=> o.commit = "started"
    /\ stage \in Early => o.attempt = Null /\ o.commit = "none"
    /\ stage \in (Early \ {"prepareGateway"}) \cup Restore => ~o.restoring
    /\ stage \in {"loadPrevious", "loadTarget", "prepareGateway", "activate"} => o.next # Null
    /\ stage = "loadPrevious" => o.saw.previousRevisionId # Null
    /\ stage = "activate" => o.attempt # Null
    /\ stage \in Attempting \cup Reactivation => o.attempted
    /\ stage \in Restore \cup Reactivation => o.previous # Null
    /\ stage = "winner" => o.kind = "hydrate"
    /\ stage = "pointerCheck" => o.kind # "replace"
    /\ stage \in ReplaceOnly => o.kind = "replace"
    /\ stage \in Publishing /\ o.kind = "replace" => o.commit = "yes"
    /\ stage = "compensate" => o.commit = "yes"
    /\ stage \in After /\ o.token # Null /\ ~o.failed => o.token \in C

Sound(stage, o, h, C) == stage \in Stage /\ LocalsOK(o, h) /\ StageOK(stage, o, C)

(* Whether the operation may still mint an activation attempt, or two.     *)
MintsOne(stage, o) ==
    /\ stage \notin {"idle", "reactivating", "reactivateVerify", "endCatch"}
    /\ ~(o.restoring /\ o.attempt # Null)

MintsTwo(stage, o) ==
    /\ stage \notin {"idle", "restorePointer", "restoreCompensate", "restoreStable"}
    /\ o.attempt = Null /\ ~o.restoring

(* The operation goes on at to.                                            *)
GoesOn(to, stage, o, h, C) ==
    /\ Sound(to.stage, to.op, h, C)
    /\ MintsOne(to.stage, to.op) => MintsOne(stage, o)
    /\ MintsTwo(to.stage, to.op) => MintsTwo(stage, o)

-----------------------------------------------------------------------------
(* Where the code continues.                                               *)

LEMMA FailedOK ==
  ASSUME NEW o, NEW h, LocalsOK(o, h)
  PROVE  /\ LocalsOK(Failed(o), h)
         /\ Failed(o).failed
         /\ Failed(o).attempt = o.attempt /\ Failed(o).restoring = o.restoring
         /\ Failed(o).attempted = o.attempted /\ Failed(o).previous = o.previous
         /\ Failed(o).commit = o.commit /\ Failed(o).kind = o.kind
         /\ Failed(o).token = o.token /\ Failed(o).winner = o.winner
BY DEF LocalsOK, Failed, Op

(* What the awaits outside an activation and its end have in common.       *)
Same(to, o) == to.op.attempt = o.attempt /\ to.op.restoring = o.restoring

Free(to, o, h) ==
    /\ \A C : Sound(to.stage, to.op, h, C)
    /\ Same(to, o)

LEMMA CatchRollbackOK ==
  ASSUME NEW o, NEW h, LocalsOK(o, h), o.commit # "started"
  PROVE  Free(CatchRollback(o), o, h)
<1> DEFINE f == [o EXCEPT !.failed = TRUE]
<1>1. f = Failed(o)
  BY DEF Failed
<1> HIDE DEF f
<1>2. \/ CatchRollback(o) = At("rollbackRuntime", o)
      \/ CatchRollback(o) = At("checkInactive", f)
      \/ CatchRollback(o) = At("rollback", o) /\ o.attempted
  <2>1. CatchRollback(o) = IF ~o.attempted THEN At("rollbackRuntime", o)
                           ELSE IF o.winner # "yes" THEN At("rollback", o)
                           ELSE IF o.activated THEN At("rollbackRuntime", o)
                           ELSE At("checkInactive", f)
    BY <1>1 DEF CatchRollback, Failed
  <2>2. QED
    BY <2>1
<1>3. \A C : /\ Sound("rollbackRuntime", o, h, C)
             /\ o.attempted => Sound("rollback", o, h, C)
  BY DEF Sound, StageOK, Stage, Early, Restore, Attempting, Reactivation, After, Publishing,
         ReplaceOnly
<1>4. \A C : Sound("checkInactive", f, h, C)
  BY <1>1, FailedOK DEF Sound, StageOK, Stage, Early, Restore, Attempting, Reactivation,
         After, Publishing, ReplaceOnly
<1>5. f.attempt = o.attempt /\ f.restoring = o.restoring
  BY <1>1, FailedOK
<1>6. QED
  BY <1>2, <1>3, <1>4, <1>5 DEF Free, At, Same

LEMMA CatchOK ==
  ASSUME NEW o, NEW h, LocalsOK(o, h)
  PROVE  Free(Catch(o), o, h)
<1>1. CASE o.kind = "replace" /\ o.commit = "started"
  <2>1. \A C : Sound("reconcile", o, h, C)
    BY <1>1 DEF Sound, StageOK, Stage, Early, Restore, Attempting, Reactivation, After,
                Publishing, ReplaceOnly
  <2>2. QED
    BY <1>1, <2>1 DEF Catch, Free, At, Same
<1>2. CASE ~(o.kind = "replace" /\ o.commit = "started")
  BY <1>2, CatchRollbackOK DEF Catch, LocalsOK
<1>3. QED
  BY <1>1, <1>2

LEMMA PlainOK ==
  ASSUME NEW o, NEW h, NEW C, LocalsOK(o, h), o.commit # "started",
         NEW s \in {"rollbackRuntime", "checkInactive"}
  PROVE  Sound(s, o, h, C)
BY DEF Sound, StageOK, Stage, Early, Restore, Attempting,
         Reactivation, After, Publishing, ReplaceOnly

LEMMA AfterRollbackOK ==
  ASSUME NEW o, NEW h, LocalsOK(o, h), o.commit # "started"
  PROVE  Free(AfterRollback(o), o, h)
<1>1. PICK s \in {"rollbackRuntime", "checkInactive"} : AfterRollback(o) = At(s, o)
  BY DEF AfterRollback
<1>2. QED
  BY <1>1, PlainOK DEF Free, At, Same

Dispositions == {"none", "candidate-deactivated", "candidate-absent", "other-authority"}

LEMMA RolledBackOK ==
  ASSUME NEW o, NEW h, LocalsOK(o, h), o.commit # "started", NEW d \in Dispositions
  PROVE  Free(RolledBack(o, d), o, h)
<1> DEFINE w == [o EXCEPT !.winner = "yes", !.disposition = "other-authority"]
           e == [o EXCEPT !.disposition = d]
<1>1. /\ o.winner = "converging" => LocalsOK(w, h)
      /\ w.commit = o.commit /\ w.attempt = o.attempt /\ w.restoring = o.restoring
      /\ w.kind = o.kind
  BY DEF LocalsOK, Op
<1>2. /\ LocalsOK(e, h) /\ e.commit = o.commit
      /\ e.attempt = o.attempt /\ e.restoring = o.restoring
  BY DEF LocalsOK, Op, Dispositions
<1>3. RolledBack(o, d) = IF o.winner = "converging" THEN At("commitRuntime", w)
                         ELSE AfterRollback(e)
  BY DEF RolledBack
<1> HIDE DEF w, e
<1>4. CASE o.winner = "converging"
  <2>1. w.kind # "replace"
    BY <1>1, <1>4 DEF LocalsOK
  <2>2. \A C : Sound("commitRuntime", w, h, C)
    BY <1>1, <1>4, <2>1 DEF Sound, StageOK, Stage, Early, Restore, Attempting,
         Reactivation, After, Publishing, ReplaceOnly
  <2>3. QED
    BY <1>1, <1>3, <1>4, <2>2 DEF Free, At, Same
<1>5. CASE o.winner # "converging"
  <2>1. Free(AfterRollback(e), e, h)
    BY <1>2, AfterRollbackOK
  <2>2. QED
    BY <1>2, <1>3, <1>5, <2>1 DEF Free, Same
<1>6. QED
  BY <1>4, <1>5

LEMMA RollbackThrewOK ==
  ASSUME NEW o, NEW h, LocalsOK(o, h), o.commit # "started"
  PROVE  Free(RollbackThrew(o), o, h)
<1> DEFINE w == [o EXCEPT !.winner = "no"]
<1>1. /\ LocalsOK(w, h) /\ w.commit = o.commit /\ w.attempt = o.attempt
      /\ w.restoring = o.restoring /\ w.attempted = o.attempted
  BY DEF LocalsOK, Op
<1>2. RollbackThrew(o) = IF o.winner = "converging" THEN At("rollback", w)
                         ELSE AfterRollback(Failed(o))
  BY DEF RollbackThrew, Failed
<1> HIDE DEF w
<1>3. CASE o.winner = "converging"
  <2>1. w.attempted
    BY <1>1, <1>3 DEF LocalsOK
  <2>2. \A C : Sound("rollback", w, h, C)
    BY <1>1, <2>1 DEF Sound, StageOK, Stage, Early, Restore, Attempting,
         Reactivation, After, Publishing, ReplaceOnly
  <2>3. QED
    BY <1>1, <1>2, <1>3, <2>2 DEF Free, At, Same
<1>4. CASE o.winner # "converging"
  <2>1. Free(AfterRollback(Failed(o)), Failed(o), h)
    BY FailedOK, AfterRollbackOK
  <2>2. QED
    BY <1>2, <1>4, <2>1, FailedOK DEF Free, Same
<1>5. QED
  BY <1>3, <1>4

LEMMA EndCatchOK ==
  ASSUME NEW o, NEW h, NEW C, LocalsOK(o, h), o.commit # "started", o.kind = "replace",
         o.token # Null /\ ~o.failed => o.token \in C
  PROVE  Sound("endCatch", o, h, C)
BY DEF Sound, StageOK, Stage, Early, Restore, Attempting,
         Reactivation, After, Publishing, ReplaceOnly

LEMMA AfterRepositoryOK ==
  ASSUME NEW o, NEW h, NEW C, LocalsOK(o, h), o.commit # "started", o.kind = "replace",
         o.token # Null /\ ~o.failed => o.token \in C
  PROVE  /\ Sound(AfterRepository(o).stage, AfterRepository(o).op, h, C)
         /\ AfterRepository(o).op = o
<1>1. o.attempted /\ o.previous # Null => Sound("reactivate", o, h, C)
  BY DEF Sound, StageOK, Stage, Early, Restore, Attempting,
         Reactivation, After, Publishing, ReplaceOnly
<1>2. Sound("endCatch", o, h, C)
  BY EndCatchOK
<1>3. QED
  BY <1>1, <1>2 DEF AfterRepository, At

LEMMA AfterRuntimeOK ==
  ASSUME NEW o, NEW h, LocalsOK(o, h), o.commit # "started", o.kind = "replace"
  PROVE  Free(AfterRuntime(o), o, h)
<1>1. CASE o.commit = "yes"
  <2>1. \A C : Sound("compensate", o, h, C)
    BY <1>1 DEF Sound, StageOK, Stage, Early, Restore, Attempting,
         Reactivation, After, Publishing, ReplaceOnly
  <2>2. QED
    BY <1>1, <2>1 DEF AfterRuntime, Free, At, Same
<1>2. CASE o.commit \in {"none", "noEffect"}
  <2>1. \A C : Sound("discard", o, h, C)
    BY <1>2 DEF Sound, StageOK, Stage, Early, Restore, Attempting,
         Reactivation, After, Publishing, ReplaceOnly
  <2>2. QED
    BY <1>2, <2>1 DEF AfterRuntime, Free, At, Same
<1>3. CASE o.commit = "unknown"
  <2>1. AfterRuntime(o) = AfterRepository(o) /\ o.failed
    BY <1>3 DEF AfterRuntime, LocalsOK
  <2>2. QED
    BY <2>1, AfterRepositoryOK DEF Free, Same
<1>4. QED
  BY <1>1, <1>2, <1>3 DEF LocalsOK, Op

Spent == {"idle", "reactivating", "reactivateVerify", "endCatch",
          "restorePointer", "restoreCompensate", "restoreStable"}

LEMMA FreeGoesOn ==
  ASSUME NEW to, NEW stage, NEW o, NEW h, NEW C, Free(to, o, h), stage \notin Spent
  PROVE  GoesOn(to, stage, o, h, C)
BY DEF Free, Same, GoesOn, MintsOne, MintsTwo, Spent

Answers == {"ok", "conflict", "failed", "lost"}

LEMMA ActivatingOK ==
  ASSUME NEW o, NEW h, NEW C, Sound("activating", o, h, C), NEW answer \in Answers
  PROVE  Free(Answered(o, "activating", answer), o, h)
<1>1. LocalsOK(o, h) /\ o.commit # "started" /\ o.attempted
  BY DEF Sound, StageOK, Attempting
<1>2. \A D : Sound(IF o.kind = "replace" THEN "commit" ELSE "commitRuntime", o, h, D)
  BY <1>1 DEF Sound, StageOK, Stage, Early, Restore, Attempting,
         Reactivation, After, Publishing, ReplaceOnly
<1>3. o.kind = "hydrate" => \A D : Sound("winner", o, h, D)
  BY <1>1 DEF Sound, StageOK, Stage, Early, Restore, Attempting,
         Reactivation, After, Publishing, ReplaceOnly
<1>4. CASE answer = "ok"
  <2>1. Answered(o, "activating", "ok") \in
           {At(IF o.kind = "replace" THEN "commit" ELSE "commitRuntime", o), Catch(o)}
    BY DEF Answered
  <2>2. QED
    BY <1>1, <1>2, <1>4, <2>1, CatchOK DEF Free, At, Same
<1>5. CASE answer = "conflict" /\ o.kind = "hydrate"
  <2>1. Answered(o, "activating", "conflict") \in {At("winner", o), Catch(o)}
    BY <1>5 DEF Answered
  <2>2. QED
    BY <1>1, <1>3, <1>5, <2>1, CatchOK DEF Free, At, Same
<1>6. CASE answer # "ok" /\ ~(answer = "conflict" /\ o.kind = "hydrate")
  <2>1. Answered(o, "activating", answer) = Catch(o)
    BY <1>6 DEF Answered
  <2>2. QED
    BY <1>1, <2>1, CatchOK
<1>7. QED
  BY <1>4, <1>5, <1>6

LEMMA RollingBackOK ==
  ASSUME NEW stage \in {"rollingBack", "rollbackRetrying"}, NEW o, NEW h, NEW C,
         Sound(stage, o, h, C), NEW answer \in Answers
  PROVE  Free(Answered(o, stage, answer), o, h)
<1> DEFINE e == [o EXCEPT !.conflict = (answer = "conflict")]
<1>1. LocalsOK(o, h) /\ o.commit # "started" /\ o.attempted
  BY DEF Sound, StageOK, Attempting
<1>2. /\ LocalsOK(e, h) /\ e.commit = o.commit /\ e.attempt = o.attempt
      /\ e.restoring = o.restoring /\ e.attempted = o.attempted
  BY <1>1 DEF LocalsOK, Op
<1> HIDE DEF e
<1>3. \A D : Sound("rollbackStatus", e, h, D) /\ Sound("rollbackTerminal", o, h, D)
  BY <1>1, <1>2 DEF Sound, StageOK, Stage, Early, Restore, Attempting,
         Reactivation, After, Publishing, ReplaceOnly
<1>4. Answered(o, stage, answer) \in
         {RolledBack(o, "candidate-deactivated"), RollbackThrew(o), At("rollbackStatus", e),
          At("rollbackTerminal", o)}
  BY DEF Answered, Answers, e
<1>5. "candidate-deactivated" \in Dispositions
  BY DEF Dispositions
<1>6. QED
  BY <1>1, <1>2, <1>3, <1>4, <1>5, RolledBackOK, RollbackThrewOK DEF Free, At, Same

LEMMA ReactivatingOK ==
  ASSUME NEW o, NEW h, NEW C, Sound("reactivating", o, h, C), NEW answer \in Answers
  PROVE  GoesOn(Answered(o, "reactivating", answer), "reactivating", o, h, C)
<1>1. /\ LocalsOK(o, h) /\ o.commit # "started" /\ o.kind = "replace"
      /\ o.token # Null /\ ~o.failed => o.token \in C
      /\ o.attempted
  BY DEF Sound, StageOK, ReplaceOnly, After, Reactivation
<1>2. Sound("reactivateVerify", o, h, C)
  BY <1>1 DEF Sound, StageOK, Stage, Early, Restore, Attempting,
         Reactivation, After, Publishing, ReplaceOnly
<1>3. Sound("endCatch", Failed(o), h, C)
  BY <1>1, FailedOK, EndCatchOK
<1>4. /\ Failed(o).attempt = o.attempt /\ Failed(o).restoring = o.restoring
      /\ o.attempt # Null
  BY <1>1, FailedOK DEF LocalsOK
<1>5. Answered(o, "reactivating", answer) \in
         {At("reactivateVerify", o), At("endCatch", Failed(o))}
  BY DEF Answered, Answers
<1>6. QED
  BY <1>2, <1>3, <1>4, <1>5 DEF GoesOn, At, MintsOne, MintsTwo

LEMMA AnsweredOK ==
  ASSUME NEW stage \in Waiting, NEW o, NEW h, NEW C, Sound(stage, o, h, C),
         NEW answer \in Answers
  PROVE  GoesOn(Answered(o, stage, answer), stage, o, h, C)
<1>1. CASE stage = "activating"
  BY <1>1, ActivatingOK, FreeGoesOn DEF Spent
<1>2. CASE stage \in {"rollingBack", "rollbackRetrying"}
  BY <1>2, RollingBackOK, FreeGoesOn DEF Spent
<1>3. CASE stage = "reactivating"
  BY <1>3, ReactivatingOK
<1>4. QED
  BY <1>1, <1>2, <1>3 DEF Waiting

-----------------------------------------------------------------------------
(* The invariant of the whole system.                                      *)

TabsInv ==
    /\ pc \in [Tabs -> Stage] /\ op \in [Tabs -> Op]
    /\ \A t \in Tabs : Sound(pc[t], op[t], prepared[t].status, compensated)

(* A token that was rejected cleanly has been compensated.                 *)
RestInv ==
    /\ published \in [Tabs -> Revision]
    /\ settled \in [Tabs -> {"no", "tried", "yes"}]
    /\ recovery \in [Tabs -> BOOLEAN]
    /\ runtime \in [Tabs -> [active : Revision, previous : Revision, open : BOOLEAN]]
    /\ cleanup \in [Tabs -> Seq(CleanupTask)]
    /\ faults \in Nat
    /\ acked \subseteq Tokens
    /\ rejected \subseteq compensated
    /\ abandoned \subseteq Attempts

(* Each attempt that may still be minted has its number.                   *)
MintersOne == {t \in Tabs : MintsOne(pc[t], op[t])}
MintersTwo == {t \in Tabs : MintsTwo(pc[t], op[t])}

BudgetInv ==
    /\ lastAttempt \in Nat
    /\ IsFiniteSet(Busy)
    /\ lastAttempt + Cardinality(MintersOne) + Cardinality(MintersTwo) <= MaxAttempts

(* A tab waits for at most one request, and at an await for it.            *)
QueueInv ==
    /\ transitions \in Seq(Request)
    /\ \A i \in 1..Len(transitions) :
           transitions[i].waiting => pc[transitions[i].tab] \in Waiting
    /\ \A i, j \in 1..Len(transitions) :
           /\ transitions[i].waiting /\ transitions[j].waiting
           /\ transitions[i].tab = transitions[j].tab
           => i = j

(* A withdrawal that has started is the one at the head of the queue.      *)
GatewayInv ==
    /\ gateway \in [authority : Authority \cup {Null},
                    phase : {"inactive", "active", "deactivating", "recovery-required"}]
    /\ gateway.phase = "deactivating" =>
           /\ transitions # <<>>
           /\ Head(transitions).kind = "deactivate"
           /\ Head(transitions).authority = gateway.authority

PublicationInv == TabsInv /\ RestInv /\ BudgetInv /\ QueueInv /\ GatewayInv

-----------------------------------------------------------------------------
(* One tab moves.                                                          *)

(* The handle is the tab's own, and no compensation is undone.             *)
OthersKept(t) ==
    /\ \A u \in Tabs \ {t} : prepared'[u] = prepared[u]
    /\ compensated \subseteq compensated'

MovesTo(t, to) ==
    /\ pc' = [pc EXCEPT ![t] = to.stage]
    /\ op' = [op EXCEPT ![t] = to.op]

LEMMA TabsMove ==
  ASSUME TabsInv, NEW t \in Tabs, NEW to, MovesTo(t, to), OthersKept(t),
         Sound(to.stage, to.op, prepared'[t].status, compensated')
  PROVE  /\ TabsInv'
         /\ pc'[t] = to.stage /\ op'[t] = to.op
         /\ \A u \in Tabs \ {t} : pc'[u] = pc[u] /\ op'[u] = op[u]
<1>1. to.stage \in Stage /\ to.op \in Op
  BY DEF Sound, LocalsOK
<1>2. /\ pc' \in [Tabs -> Stage] /\ op' \in [Tabs -> Op]
      /\ pc'[t] = to.stage /\ op'[t] = to.op
      /\ \A u \in Tabs \ {t} : pc'[u] = pc[u] /\ op'[u] = op[u]
  BY <1>1 DEF TabsInv, MovesTo
<1>3. ASSUME NEW u \in Tabs \ {t}
      PROVE  Sound(pc'[u], op'[u], prepared'[u].status, compensated')
  <2>1. Sound(pc[u], op[u], prepared[u].status, compensated)
    BY DEF TabsInv
  <2>2. \A a, o, h, C, D : Sound(a, o, h, C) /\ C \subseteq D => Sound(a, o, h, D)
    BY DEF Sound, StageOK
  <2>3. QED
    BY <2>1, <2>2, <1>2 DEF OthersKept
<1>4. QED
  BY <1>2, <1>3 DEF TabsInv

(* The tab mints nothing.                                                  *)
LEMMA BudgetKept ==
  ASSUME TabsInv, BudgetInv, NEW t \in Tabs, lastAttempt' = lastAttempt,
         \A u \in Tabs \ {t} : pc'[u] = pc[u] /\ op'[u] = op[u],
         MintsOne(pc'[t], op'[t]) => MintsOne(pc[t], op[t]),
         MintsTwo(pc'[t], op'[t]) => MintsTwo(pc[t], op[t])
  PROVE  BudgetInv'
<1>1. MintersOne \subseteq Busy /\ MintersTwo \subseteq Busy
  BY DEF MintersOne, MintersTwo, MintsOne, MintsTwo, Busy
<1>2. MintersOne' \subseteq MintersOne /\ MintersTwo' \subseteq MintersTwo
  BY DEF MintersOne, MintersTwo
<1>3. /\ Cardinality(MintersOne') <= Cardinality(MintersOne)
      /\ Cardinality(MintersTwo') <= Cardinality(MintersTwo)
      /\ Cardinality(MintersOne) \in Nat /\ Cardinality(MintersTwo) \in Nat
      /\ Cardinality(MintersOne') \in Nat /\ Cardinality(MintersTwo') \in Nat
  BY <1>1, <1>2, FS_Subset, FS_CardinalityType DEF BudgetInv
<1>4. IsFiniteSet(Busy')
  <2>1. Busy' \subseteq Busy \cup {t}
    BY DEF Busy
  <2>2. IsFiniteSet(Busy \cup {t})
    BY FS_AddElement DEF BudgetInv
  <2>3. QED
    BY <2>1, <2>2, FS_Subset
<1>5. QED
  BY <1>3, <1>4, PublicationAssumption DEF BudgetInv

(* The tab mints one attempt it was allowed.                               *)
LEMMA BudgetSpent ==
  ASSUME TabsInv, BudgetInv, NEW t \in Tabs, lastAttempt' = lastAttempt + 1,
         \A u \in Tabs \ {t} : pc'[u] = pc[u] /\ op'[u] = op[u],
         MintsOne(pc'[t], op'[t]) => MintsOne(pc[t], op[t]),
         MintsTwo(pc'[t], op'[t]) => MintsTwo(pc[t], op[t]),
         \/ MintsOne(pc[t], op[t]) /\ ~MintsOne(pc'[t], op'[t])
         \/ MintsTwo(pc[t], op[t]) /\ ~MintsTwo(pc'[t], op'[t])
  PROVE  BudgetInv' /\ lastAttempt' \in Attempts
<1>1. MintersOne \subseteq Busy /\ MintersTwo \subseteq Busy
  BY DEF MintersOne, MintersTwo, MintsOne, MintsTwo, Busy
<1>2. MintersOne' \subseteq MintersOne /\ MintersTwo' \subseteq MintersTwo
  BY DEF MintersOne, MintersTwo
<1>3. MintersOne' # MintersOne \/ MintersTwo' # MintersTwo
  BY DEF MintersOne, MintersTwo
<1>4. /\ Cardinality(MintersOne') <= Cardinality(MintersOne)
      /\ Cardinality(MintersTwo') <= Cardinality(MintersTwo)
      /\ Cardinality(MintersOne) \in Nat /\ Cardinality(MintersTwo) \in Nat
      /\ Cardinality(MintersOne') \in Nat /\ Cardinality(MintersTwo') \in Nat
      /\ \/ Cardinality(MintersOne') < Cardinality(MintersOne)
         \/ Cardinality(MintersTwo') < Cardinality(MintersTwo)
  BY <1>1, <1>2, <1>3, FS_Subset, FS_CardinalityType DEF BudgetInv
<1>5. IsFiniteSet(Busy')
  <2>1. Busy' \subseteq Busy \cup {t}
    BY DEF Busy
  <2>2. IsFiniteSet(Busy \cup {t})
    BY FS_AddElement DEF BudgetInv
  <2>3. QED
    BY <2>1, <2>2, FS_Subset
<1>6. lastAttempt' \in Attempts
  BY <1>4, PublicationAssumption DEF BudgetInv, Attempts
<1>7. QED
  BY <1>4, <1>5, <1>6, PublicationAssumption DEF BudgetInv

LEMMA Requested ==
  ASSUME NEW q \in Request
  PROVE  /\ q.tab \in Tabs /\ q.waiting \in BOOLEAN /\ q.kind \in {"activate", "deactivate"}
         /\ q.authority \in Authority /\ q.expected \in Authority \cup {Null}
BY DEF Request

LEMMA Queued ==
  ASSUME QueueInv, NEW i \in 1..Len(transitions)
  PROVE  transitions[i] \in Request /\ transitions[i].tab \in Tabs
<1>1. transitions[i] \in Request
  BY DEF QueueInv
<1>2. QED
  BY <1>1, Requested

LEMMA QueueKept ==
  ASSUME QueueInv, NEW t \in Tabs, UNCHANGED transitions, pc[t] \notin Waiting,
         \A u \in Tabs \ {t} : pc'[u] = pc[u]
  PROVE  QueueInv'
<1>1. \A i \in 1..Len(transitions) : transitions[i].tab \in Tabs
  BY Queued
<1>2. QED
  BY <1>1 DEF QueueInv

LEMMA QueueSent ==
  ASSUME QueueInv, NEW t \in Tabs, NEW q \in Request, q.tab = t,
         transitions' = Append(transitions, q), pc[t] \notin Waiting, pc'[t] \in Waiting,
         \A u \in Tabs \ {t} : pc'[u] = pc[u]
  PROVE  QueueInv'
<1>1. /\ transitions \in Seq(Request) /\ transitions' \in Seq(Request)
      /\ Len(transitions') = Len(transitions) + 1
      /\ \A i \in 1..Len(transitions) : transitions'[i] = transitions[i]
      /\ transitions'[Len(transitions) + 1] = q
  BY DEF QueueInv
<1>2. \A i \in 1..Len(transitions) :
         /\ transitions[i].tab \in Tabs
         /\ transitions[i].waiting => transitions[i].tab # t
  BY Queued DEF QueueInv
<1>3. \A i \in 1..Len(transitions') :
         \/ i \in 1..Len(transitions) /\ transitions'[i] = transitions[i]
         \/ i = Len(transitions') /\ transitions'[i] = q
  BY <1>1
<1>4. \A i \in 1..Len(transitions') :
         transitions'[i].waiting => pc'[transitions'[i].tab] \in Waiting
  BY <1>2, <1>3 DEF QueueInv
<1>5. \A i, j \in 1..Len(transitions') :
         /\ transitions'[i].waiting /\ transitions'[j].waiting
         /\ transitions'[i].tab = transitions'[j].tab
         => i = j
  BY <1>2, <1>3 DEF QueueInv
<1>6. QED
  BY <1>1, <1>4, <1>5 DEF QueueInv

LEMMA FaultType ==
  ASSUME RestInv, NEW class, NoFault \/ Fault(class)
  PROVE  faults' \in Nat
BY DEF RestInv, NoFault, Fault

(* A tab goes on without a word to the Gateway.                            *)
LEMMA TabStep ==
  ASSUME PublicationInv, NEW t \in Tabs, pc[t] \notin Waiting, NEW to,
         MovesTo(t, to), OthersKept(t), NoGatewayChange, RestInv',
         GoesOn(to, pc[t], op[t], prepared'[t].status, compensated')
  PROVE  PublicationInv'
<1>1. /\ TabsInv'
      /\ pc'[t] = to.stage /\ op'[t] = to.op
      /\ \A u \in Tabs \ {t} : pc'[u] = pc[u] /\ op'[u] = op[u]
  BY TabsMove DEF PublicationInv, GoesOn
<1>2. BudgetInv'
  BY <1>1, BudgetKept DEF PublicationInv, NoGatewayChange, GoesOn
<1>3. QueueInv'
  BY <1>1, QueueKept DEF PublicationInv, NoGatewayChange
<1>4. GatewayInv'
  BY DEF PublicationInv, NoGatewayChange, GatewayInv
<1>5. QED
  BY <1>1, <1>2, <1>3, <1>4 DEF PublicationInv

(* Awaits that change only the tab.                                        *)
LEMMA GotoRest ==
  ASSUME RestInv, NEW t, NEW to, Goto(t, to), UNCHANGED historyVars, faults' \in Nat,
         compensated \subseteq compensated'
  PROVE  RestInv'
BY DEF RestInv, Goto, historyVars

LEMMA LocalStep ==
  ASSUME PublicationInv, NEW t \in Tabs, pc[t] \notin Waiting, NEW to, NEW class,
         Step(t, to) \/ FaultStep(t, class, to),
         GoesOn(to, pc[t], op[t], prepared[t].status, compensated)
  PROVE  PublicationInv'
<1>1. /\ Goto(t, to) /\ LocalOnly /\ faults' \in Nat
  BY FaultType DEF Step, FaultStep, PublicationInv
<1>2. UNCHANGED <<prepared, compensated, historyVars>> /\ NoGatewayChange
  BY <1>1 DEF LocalOnly, repositoryVars
<1>3. RestInv'
  BY <1>1, <1>2, GotoRest DEF PublicationInv
<1>4. MovesTo(t, to) /\ OthersKept(t)
  BY <1>1, <1>2 DEF MovesTo, Goto, OthersKept
<1>5. QED
  BY <1>2, <1>3, <1>4, TabStep

LEMMA IdleOK ==
  ASSUME NEW stage, NEW o, NEW h, NEW C
  PROVE  GoesOn(At("idle", NoOp), stage, o, h, C)
<1>1. NoOp \in Op
  BY RepositoryAssumption DEF NoOp, Op, NoPointer, StoredProjectPointer, Revision
<1>2. QED
  BY <1>1 DEF GoesOn, At, Sound, LocalsOK, StageOK, NoOp, Stage, Early, Restore, Attempting,
              Reactivation, After, Publishing, ReplaceOnly, MintsOne, MintsTwo

(* An operation that ends.                                                 *)
LEMMA EndStep ==
  ASSUME PublicationInv, NEW t \in Tabs, pc[t] \notin Waiting,
         pc' = [pc EXCEPT ![t] = "idle"], op' = [op EXCEPT ![t] = NoOp],
         OthersKept(t), NoGatewayChange, RestInv'
  PROVE  PublicationInv'
<1>1. MovesTo(t, At("idle", NoOp))
  BY DEF MovesTo, At
<1>2. QED
  BY <1>1, IdleOK, TabStep

LEMMA LeaveStep ==
  ASSUME PublicationInv, NEW t \in Tabs, pc[t] \notin Waiting, NEW r \in BOOLEAN, Leave(t, r),
         OthersKept(t), NoGatewayChange, UNCHANGED historyVars, faults' \in Nat
  PROVE  PublicationInv'
<1>1. settled' \in [Tabs -> {"no", "tried", "yes"}]
  BY DEF Leave, Tried, PublicationInv, RestInv
<1>2. recovery' \in [Tabs -> BOOLEAN]
  BY DEF Leave, PublicationInv, RestInv
<1>3. RestInv'
  BY <1>1, <1>2 DEF Leave, PublicationInv, RestInv, historyVars, OthersKept
<1>4. QED
  BY <1>3, EndStep DEF Leave

LEMMA LeaveLocal ==
  ASSUME PublicationInv, NEW t \in Tabs, pc[t] \notin Waiting, NEW r \in BOOLEAN, NEW class,
         Leave(t, r), LocalOnly, NoFault \/ Fault(class)
  PROVE  PublicationInv'
<1>1. faults' \in Nat
  BY FaultType DEF PublicationInv
<1>2. OthersKept(t) /\ NoGatewayChange /\ UNCHANGED historyVars
  BY DEF LocalOnly, repositoryVars, OthersKept
<1>3. QED
  BY <1>1, <1>2, LeaveStep

LEMMA GoesOnFurther ==
  ASSUME NEW to, NEW mid, NEW stage, NEW o, NEW h, NEW C,
         GoesOn(mid, stage, o, h, C), GoesOn(to, mid.stage, mid.op, h, C)
  PROVE  GoesOn(to, stage, o, h, C)
BY DEF GoesOn

(* A tab sends a request and waits, or its request is lost; what it may    *)
(* mint afterwards is up to the caller.                                    *)
LEMMA SendMoves ==
  ASSUME PublicationInv, NEW t \in Tabs, pc[t] \notin Waiting,
         NEW kind \in {"activate", "deactivate"}, NEW authority \in Authority,
         NEW expected \in Authority \cup {Null}, NEW stage \in Waiting, NEW o,
         Send(t, kind, authority, expected, stage, o),
         Sound(stage, o, prepared[t].status, compensated)
  PROVE  /\ TabsInv' /\ RestInv' /\ QueueInv' /\ GatewayInv'
         /\ GoesOn(At(pc'[t], op'[t]), stage, o, prepared[t].status, compensated)
         /\ \A u \in Tabs \ {t} : pc'[u] = pc[u] /\ op'[u] = op[u]
<1> DEFINE h == prepared[t].status
           C == compensated
<1>1. PICK to : /\ GoesOn(to, stage, o, h, C) /\ Goto(t, to)
                /\ UNCHANGED <<repositoryVars, historyVars, gateway>> /\ faults' \in Nat
                /\ \/ to = At(stage, o) /\ Enqueue(kind, t, authority, expected)
                   \/ UNCHANGED transitions
  <2>1. GoesOn(At(stage, o), stage, o, h, C)
    BY DEF GoesOn, At
  <2>2. GoesOn(Answered(o, stage, "lost"), stage, o, h, C)
    BY AnsweredOK DEF Answers
  <2>3. CASE /\ Enqueue(kind, t, authority, expected)
             /\ Goto(t, At(stage, o)) /\ NoFault
             /\ UNCHANGED <<repositoryVars, historyVars, gateway>>
    BY <2>1, <2>3, FaultType DEF PublicationInv
  <2>4. CASE /\ Goto(t, Answered(o, stage, "lost")) /\ Fault("gatewayLost")
             /\ UNCHANGED <<repositoryVars, historyVars, gateway, transitions>>
    BY <2>2, <2>4, FaultType DEF PublicationInv
  <2>5. QED
    BY <2>3, <2>4 DEF Send
<1>2. /\ MovesTo(t, to) /\ OthersKept(t)
      /\ UNCHANGED <<prepared, compensated, historyVars, gateway>>
  BY <1>1 DEF MovesTo, Goto, OthersKept, repositoryVars
<1>3. /\ TabsInv'
      /\ pc'[t] = to.stage /\ op'[t] = to.op
      /\ \A u \in Tabs \ {t} : pc'[u] = pc[u] /\ op'[u] = op[u]
  BY <1>1, <1>2, TabsMove DEF PublicationInv, GoesOn
<1>4. RestInv'
  BY <1>1, <1>2, GotoRest DEF PublicationInv
<1>5. QueueInv' /\ GatewayInv'
  <2>1. CASE to = At(stage, o) /\ Enqueue(kind, t, authority, expected)
    <3> DEFINE q == [kind |-> kind, tab |-> t, waiting |-> TRUE, authority |-> authority,
                     expected |-> expected]
    <3>1. q \in Request /\ q.tab = t
      BY DEF Request
    <3>2. transitions' = Append(transitions, q)
      BY <2>1 DEF Enqueue
    <3> HIDE DEF q
    <3>3. pc'[t] \in Waiting
      BY <1>3, <2>1 DEF At
    <3>4. QueueInv'
      BY <1>3, <3>1, <3>2, <3>3, QueueSent DEF PublicationInv
    <3>5. transitions # <<>> => transitions' # <<>> /\ Head(transitions') = Head(transitions)
      BY <3>1, <3>2 DEF PublicationInv, QueueInv
    <3>6. QED
      BY <1>2, <3>4, <3>5 DEF PublicationInv, GatewayInv
  <2>2. CASE UNCHANGED transitions
    BY <1>2, <1>3, <2>2, QueueKept DEF PublicationInv, GatewayInv
  <2>3. QED
    BY <1>1, <2>1, <2>2
<1>6. QED
  BY <1>1, <1>3, <1>4, <1>5 DEF GoesOn, At

LEMMA SendStep ==
  ASSUME PublicationInv, NEW t \in Tabs, pc[t] \notin Waiting,
         NEW kind \in {"activate", "deactivate"}, NEW authority \in Authority,
         NEW expected \in Authority \cup {Null}, NEW stage \in Waiting, NEW o,
         Send(t, kind, authority, expected, stage, o), UNCHANGED lastAttempt,
         GoesOn(At(stage, o), pc[t], op[t], prepared[t].status, compensated)
  PROVE  PublicationInv'
<1>1. Sound(stage, o, prepared[t].status, compensated)
  BY DEF GoesOn, At
<1>2. /\ TabsInv' /\ RestInv' /\ QueueInv' /\ GatewayInv'
      /\ GoesOn(At(pc'[t], op'[t]), stage, o, prepared[t].status, compensated)
      /\ \A u \in Tabs \ {t} : pc'[u] = pc[u] /\ op'[u] = op[u]
  BY <1>1, SendMoves
<1>3. GoesOn(At(pc'[t], op'[t]), pc[t], op[t], prepared[t].status, compensated)
  BY <1>2, GoesOnFurther DEF At
<1>4. BudgetInv'
  BY <1>2, <1>3, BudgetKept DEF GoesOn, At, PublicationInv
<1>5. QED
  BY <1>2, <1>4 DEF PublicationInv

-----------------------------------------------------------------------------
(* replace() and hydrate() start.                                          *)

LEMMA NoOpType == NoOp \in Op
BY RepositoryAssumption DEF NoOp, Op, NoPointer, StoredProjectPointer, Revision

(* A bound in the guard leaves two attempts for the new operation.         *)
LEMMA BudgetBegun ==
  ASSUME TabsInv, BudgetInv, NEW t \in Tabs, UNCHANGED lastAttempt, pc[t] = "idle", AttemptsLeft,
         \A u \in Tabs \ {t} : pc'[u] = pc[u] /\ op'[u] = op[u]
  PROVE  BudgetInv'
<1>1. Busy' \subseteq Busy \cup {t} /\ t \notin Busy
  BY DEF Busy
<1>2. /\ IsFiniteSet(Busy \cup {t}) /\ Cardinality(Busy) \in Nat
      /\ Cardinality(Busy \cup {t}) = Cardinality(Busy) + 1
  BY <1>1, FS_AddElement, FS_CardinalityType DEF BudgetInv
<1>3. /\ IsFiniteSet(Busy')
      /\ MintersOne' \subseteq Busy \cup {t} /\ MintersTwo' \subseteq Busy \cup {t}
  BY <1>1, <1>2, FS_Subset DEF MintersOne, MintersTwo, MintsOne, MintsTwo, Busy
<1>4. /\ Cardinality(MintersOne') <= Cardinality(Busy) + 1
      /\ Cardinality(MintersTwo') <= Cardinality(Busy) + 1
      /\ Cardinality(MintersOne') \in Nat /\ Cardinality(MintersTwo') \in Nat
  BY <1>2, <1>3, FS_Subset, FS_CardinalityType
<1>5. QED
  BY <1>2, <1>3, <1>4, PublicationAssumption DEF BudgetInv, AttemptsLeft

LEMMA StartStep ==
  ASSUME PublicationInv, NEW t \in Tabs, pc[t] = "idle", AttemptsLeft, NEW to,
         MovesTo(t, to), OthersKept(t), NoGatewayChange, RestInv',
         Sound(to.stage, to.op, prepared'[t].status, compensated')
  PROVE  PublicationInv'
<1>1. /\ TabsInv'
      /\ \A u \in Tabs \ {t} : pc'[u] = pc[u] /\ op'[u] = op[u]
  BY TabsMove DEF PublicationInv
<1>2. BudgetInv'
  BY <1>1, BudgetBegun DEF PublicationInv, NoGatewayChange
<1>3. QueueInv'
  BY <1>1, QueueKept DEF PublicationInv, NoGatewayChange, Waiting
<1>4. GatewayInv'
  BY DEF PublicationInv, NoGatewayChange, GatewayInv
<1>5. QED
  BY <1>1, <1>2, <1>3, <1>4 DEF PublicationInv

LEMMA BeginInv ==
  ASSUME RepositoryInv, PublicationInv, NEW t \in Tabs, Begin(t)
  PROVE  PublicationInv'
<1>1. PICK r \in RevisionIds, x \in Contents :
         /\ PrepareRevision(t, r, x)
         /\ Goto(t, At("prepareGateway",
                [NoOp EXCEPT !.kind = "replace", !.next = r, !.previous = published[t]]))
  BY DEF Begin
<1> DEFINE o == [NoOp EXCEPT !.kind = "replace", !.next = r, !.previous = published[t]]
<1>2. /\ NoFault /\ NoGatewayChange /\ UNCHANGED historyVars /\ AttemptsLeft
      /\ pc[t] = "idle"
  BY DEF Begin, Editable
<1>3. published[t] \in Revision
  BY DEF PublicationInv, RestInv
<1>4. /\ o \in Op /\ o.token = Null /\ o.commit = "none" /\ ~o.attempted /\ o.winner = "no"
      /\ ~o.restoring /\ o.attempt = Null /\ o.next = r
  BY <1>3, NoOpType DEF Op, Revision, NoOp
<1> HIDE DEF o
<1>5. /\ prepared'[t].status = "prepared" /\ UNCHANGED compensated
      /\ \A u \in Tabs \ {t} : prepared'[u] = prepared[u]
  BY <1>1 DEF PrepareRevision, RepositoryInv, RepositoryTypeOK, Tabs
<1>6. Sound("prepareGateway", o, "prepared", compensated)
  BY <1>4, RepositoryAssumption DEF Sound, StageOK, LocalsOK, Op, Stage, Early, Restore,
      Attempting, Reactivation, After, Publishing, ReplaceOnly
<1>7. RestInv'
  BY <1>1, <1>2, <1>5, FaultType, GotoRest DEF PublicationInv
<1>8. MovesTo(t, At("prepareGateway", o)) /\ OthersKept(t)
  BY <1>1, <1>5 DEF MovesTo, Goto, OthersKept, o
<1>9. QED
  BY <1>2, <1>5, <1>6, <1>7, <1>8, StartStep DEF At

LEMMA HydrateInv ==
  ASSUME RepositoryInv, PublicationInv, NEW t \in Tabs, Hydrate(t)
  PROVE  PublicationInv'
<1> DEFINE o == [NoOp EXCEPT !.kind = "hydrate", !.saw = pointer, !.next = pointer.revisionId]
<1>1. PICK s : /\ Step(t, At(s, o))
              /\ s = CASE pointer.state = "none" -> "emptyStatus"
                        [] pointer.previousRevisionId # Null -> "loadPrevious"
                        [] OTHER -> "loadTarget"
  BY DEF Hydrate
<1>2. AttemptsLeft /\ pc[t] = "idle"
  BY DEF Hydrate, Editable
<1>3. /\ pointer \in StoredProjectPointer
      /\ pointer.state = "none" => pointer.previousRevisionId = Null
      /\ pointer.state # "none" => pointer.revisionId # Null
  BY RepositoryAssumption DEF RepositoryInv, RepositoryTypeOK, PointerShape, NoPointer
<1>4. \/ s = "emptyStatus"
      \/ s \in {"loadPrevious", "loadTarget"} /\ pointer.state # "none"
         /\ (s = "loadPrevious" => pointer.previousRevisionId # Null)
  BY <1>1, <1>3
<1>5. /\ o \in Op /\ o.token = Null /\ o.commit = "none" /\ ~o.attempted /\ o.winner = "no"
      /\ ~o.restoring /\ o.attempt = Null /\ o.next = pointer.revisionId /\ o.saw = pointer
      /\ o.kind = "hydrate"
  <2>1. pointer.revisionId \in Revision
    BY <1>3 DEF StoredProjectPointer, Revision
  <2>2. o \in Op
    BY <1>3, <2>1, NoOpType DEF Op
  <2>3. QED
    BY <2>2, NoOpType DEF Op, NoOp
<1> HIDE DEF o
<1>6. Sound(s, o, prepared[t].status, compensated)
  BY <1>3, <1>4, <1>5 DEF Sound, StageOK, LocalsOK, Op, Stage, Early, Restore,
      Attempting, Reactivation, After, Publishing, ReplaceOnly
<1>7. /\ MovesTo(t, At(s, o)) /\ OthersKept(t) /\ NoGatewayChange
      /\ UNCHANGED <<prepared, compensated, historyVars>> /\ Goto(t, At(s, o)) /\ NoFault
  BY <1>1 DEF Step, LocalOnly, repositoryVars, MovesTo, Goto, OthersKept
<1>8. RestInv'
  BY <1>7, FaultType, GotoRest DEF PublicationInv
<1>9. QED
  BY <1>2, <1>6, <1>7, <1>8, StartStep DEF At

-----------------------------------------------------------------------------
(* hydrate() of an empty database, and up to the Gateway candidate.        *)

LEMMA TabFacts ==
  ASSUME PublicationInv, NEW t \in Tabs
  PROVE  /\ Sound(pc[t], op[t], prepared[t].status, compensated)
         /\ LocalsOK(op[t], prepared[t].status)
         /\ op[t] \in Op
         /\ pc[t] # "reconcile" => op[t].commit # "started"
BY DEF PublicationInv, TabsInv, Sound, LocalsOK, StageOK

LEMMA EmptyStatusInv ==
  ASSUME PublicationInv, NEW t \in Tabs, EmptyStatus(t)
  PROVE  PublicationInv'
<1>1. pc[t] = "emptyStatus" /\ UNCHANGED <<repositoryVars, historyVars>> /\ NoGatewayChange
  BY DEF EmptyStatus
<1>2. OthersKept(t) /\ UNCHANGED <<prepared, compensated>> /\ LocalOnly
  BY <1>1 DEF OthersKept, repositoryVars, LocalOnly
<1>3. CASE /\ runtime' = [runtime EXCEPT ![t] = [active |-> Null, previous |-> @.active, open |-> TRUE]]
           /\ pc' = [pc EXCEPT ![t] = "emptyVerify"]
           /\ NoFault
           /\ UNCHANGED <<op, published, settled, recovery, cleanup>>
  <2>1. MovesTo(t, At("emptyVerify", op[t]))
    BY <1>3 DEF MovesTo, At, PublicationInv, TabsInv
  <2>2. GoesOn(At("emptyVerify", op[t]), pc[t], op[t], prepared[t].status, compensated)
    BY <1>1, TabFacts DEF GoesOn, At, MintsOne, MintsTwo, Sound, StageOK, Stage, Early, Restore,
      Attempting, Reactivation, After, Publishing, ReplaceOnly
  <2>3. RestInv'
    BY <1>1, <1>3, FaultType DEF PublicationInv, RestInv, Revision, historyVars, repositoryVars
  <2>4. QED
    BY <1>1, <1>2, <2>1, <2>2, <2>3, TabStep DEF Waiting
<1>4. CASE Leave(t, TRUE) /\ NoFault
  BY <1>1, <1>2, <1>4, LeaveLocal DEF Waiting
<1>5. CASE Leave(t, TRUE) /\ (Fault("gatewayLost") \/ Fault("runtimeFailed"))
  BY <1>1, <1>2, <1>5, LeaveLocal DEF Waiting
<1>6. QED
  BY <1>3, <1>4, <1>5 DEF EmptyStatus

LEMMA EmptyFailedStep ==
  ASSUME PublicationInv, NEW t \in Tabs, pc[t] \notin Waiting, EmptyFailed(t), LocalOnly,
         NEW class, NoFault \/ Fault(class)
  PROVE  PublicationInv'
<1>1. OthersKept(t) /\ NoGatewayChange /\ UNCHANGED <<historyVars, compensated>>
  BY DEF LocalOnly, repositoryVars, OthersKept
<1>2. faults' \in Nat
  BY FaultType DEF PublicationInv
<1>3. settled' \in [Tabs -> {"no", "tried", "yes"}] /\ recovery' \in [Tabs -> BOOLEAN]
  BY DEF EmptyFailed, Tried, PublicationInv, RestInv
<1>4. runtime' \in [Tabs -> [active : Revision, previous : Revision, open : BOOLEAN]]
  BY DEF EmptyFailed, NoRuntime, PublicationInv, RestInv, Revision
<1>5. RestInv'
  BY <1>1, <1>2, <1>3, <1>4 DEF EmptyFailed, PublicationInv, RestInv, historyVars
<1>6. QED
  BY <1>1, <1>5, EndStep DEF EmptyFailed

(* A tab goes on at an await that needs no more than it has.               *)
LEMMA FreeStep ==
  ASSUME PublicationInv, NEW t \in Tabs, pc[t] \notin Waiting \cup Spent, NEW to, NEW class,
         Step(t, to) \/ FaultStep(t, class, to), Free(to, op[t], prepared[t].status)
  PROVE  PublicationInv'
<1>1. GoesOn(to, pc[t], op[t], prepared[t].status, compensated)
  BY FreeGoesOn
<1>2. QED
  BY <1>1, LocalStep

LEMMA EmptyVerifyInv ==
  ASSUME PublicationInv, NEW t \in Tabs, EmptyVerify(t)
  PROVE  PublicationInv'
<1>1. pc[t] = "emptyVerify" /\ LocalOnly
  BY DEF EmptyVerify
<1>2. CASE Goto(t, At("emptyPointer", op[t])) /\ NoFault
  <2>1. GoesOn(At("emptyPointer", op[t]), pc[t], op[t], prepared[t].status, compensated)
    BY <1>1, TabFacts DEF GoesOn, At, MintsOne, MintsTwo, Sound, StageOK, Stage, Early, Restore,
      Attempting, Reactivation, After, Publishing, ReplaceOnly
  <2>2. QED
    BY <1>1, <1>2, <2>1, LocalStep DEF Step, Waiting
<1>3. CASE EmptyFailed(t) /\ (NoFault \/ Fault("gatewayLost"))
  BY <1>1, <1>3, EmptyFailedStep DEF Waiting
<1>4. QED
  BY <1>2, <1>3 DEF EmptyVerify

LEMMA EmptyPointerInv ==
  ASSUME PublicationInv, NEW t \in Tabs, EmptyPointer(t)
  PROVE  PublicationInv'
<1>1. pc[t] = "emptyPointer" /\ LocalOnly
  BY DEF EmptyPointer
<1>2. OthersKept(t) /\ NoGatewayChange /\ UNCHANGED <<historyVars, compensated>>
  BY <1>1 DEF LocalOnly, repositoryVars, OthersKept
<1>3. CASE /\ NoFault
           /\ pc' = [pc EXCEPT ![t] = "idle"]
           /\ op' = [op EXCEPT ![t] = NoOp]
           /\ settled' = [settled EXCEPT ![t] = "yes"]
           /\ cleanup' = [cleanup EXCEPT ![t] =
                  <<[kind |-> "runtime-transition-finalize", revisionId |-> Null]>>]
           /\ UNCHANGED <<published, recovery, runtime>>
  <2>1. [kind |-> "runtime-transition-finalize", revisionId |-> Null] \in CleanupTask
    BY DEF CleanupTask, Revision
  <2>2. cleanup' \in [Tabs -> Seq(CleanupTask)]
    BY <1>3, <2>1 DEF PublicationInv, RestInv
  <2>3. RestInv'
    BY <1>2, <1>3, <2>2 DEF PublicationInv, RestInv, historyVars, NoFault
  <2>4. QED
    BY <1>1, <1>2, <1>3, <2>3, EndStep DEF Waiting
<1>4. CASE EmptyFailed(t) /\ (NoFault \/ Fault("storageLost"))
  BY <1>1, <1>4, EmptyFailedStep DEF Waiting
<1>5. QED
  BY <1>3, <1>4 DEF EmptyPointer

LEMMA LoadPreviousInv ==
  ASSUME PublicationInv, NEW t \in Tabs, LoadPrevious(t)
  PROVE  PublicationInv'
<1> DEFINE o == [op[t] EXCEPT !.previous = op[t].saw.previousRevisionId]
<1>1. pc[t] = "loadPrevious" /\ LocalOnly
  BY DEF LoadPrevious
<1>2. CASE Goto(t, At("loadTarget", o)) /\ NoFault
  <2>1. op[t].saw.previousRevisionId \in Revision
    BY TabFacts DEF Op, StoredProjectPointer, Revision
  <2>2. /\ LocalsOK(o, prepared[t].status)
        /\ o.attempt = op[t].attempt /\ o.restoring = op[t].restoring
        /\ o.commit = op[t].commit /\ o.next = op[t].next /\ o.kind = op[t].kind
    BY <2>1, TabFacts DEF LocalsOK, Op
  <2> HIDE DEF o
  <2>3. Sound("loadTarget", o, prepared[t].status, compensated)
    BY <1>1, <2>2, TabFacts DEF Sound, StageOK, Stage, Early, Restore,
      Attempting, Reactivation, After, Publishing, ReplaceOnly
  <2>4. GoesOn(At("loadTarget", o), pc[t], op[t], prepared[t].status, compensated)
    BY <1>1, <2>2, <2>3 DEF GoesOn, At, MintsOne, MintsTwo
  <2>5. QED
    BY <1>1, <1>2, <2>4, LocalStep DEF Step, Waiting
<1>3. CASE Leave(t, TRUE) /\ (NoFault \/ Fault("storageLost"))
  BY <1>1, <1>3, LeaveLocal DEF Waiting
<1>4. QED
  BY <1>2, <1>3 DEF LoadPrevious

LEMMA LoadTargetInv ==
  ASSUME PublicationInv, NEW t \in Tabs, LoadTarget(t)
  PROVE  PublicationInv'
<1>1. pc[t] = "loadTarget" /\ LocalOnly
  BY DEF LoadTarget
<1>2. CASE Goto(t, At("prepareGateway", op[t])) /\ NoFault
  <2>1. GoesOn(At("prepareGateway", op[t]), pc[t], op[t], prepared[t].status, compensated)
    BY <1>1, TabFacts DEF GoesOn, At, MintsOne, MintsTwo, Sound, StageOK, Stage, Early, Restore,
      Attempting, Reactivation, After, Publishing, ReplaceOnly
  <2>2. QED
    BY <1>1, <1>2, <2>1, LocalStep DEF Step, Waiting
<1>3. CASE LoadFailed(t) /\ (NoFault \/ Fault("storageLost"))
  <2>1. CASE op[t].previous # Null
    <3>1. GoesOn(At("restorePointer", op[t]), pc[t], op[t], prepared[t].status, compensated)
      BY <1>1, <2>1, TabFacts DEF GoesOn, At, MintsOne, MintsTwo, Sound, StageOK, Stage, Early,
        Restore, Attempting, Reactivation, After, Publishing, ReplaceOnly
    <3>2. Step(t, At("restorePointer", op[t]))
          \/ FaultStep(t, "storageLost", At("restorePointer", op[t]))
      BY <1>1, <1>3, <2>1 DEF LoadFailed, Step, FaultStep
    <3>3. QED
      BY <1>1, <3>1, <3>2, LocalStep DEF Waiting
  <2>2. CASE op[t].previous = Null
    BY <1>1, <1>3, <2>2, LeaveLocal DEF LoadFailed, Waiting
  <2>3. QED
    BY <2>1, <2>2
<1>4. QED
  BY <1>2, <1>3 DEF LoadTarget

LEMMA GotoMoves ==
  ASSUME TabsInv, NEW t \in Tabs, NEW to, Goto(t, to)
  PROVE  /\ MovesTo(t, to)
         /\ pc'[t] = to.stage /\ op'[t] = to.op
         /\ \A u \in Tabs \ {t} : pc'[u] = pc[u] /\ op'[u] = op[u]
BY DEF TabsInv, Goto, MovesTo

LEMMA PrepareGatewayInv ==
  ASSUME PublicationInv, NEW t \in Tabs, PrepareGateway(t)
  PROVE  PublicationInv'
<1> DEFINE o == [op[t] EXCEPT !.attempt = lastAttempt', !.expected = gateway.authority]
<1>1. /\ pc[t] = "prepareGateway"
      /\ UNCHANGED <<repositoryVars, historyVars, gateway, transitions>>
  BY DEF PrepareGateway
<1>2. CASE lastAttempt' = lastAttempt + 1 /\ Goto(t, At("activate", o)) /\ NoFault
  <2>1. lastAttempt' \in Nat /\ lastAttempt' # Null
    BY <1>2, PublicationAssumption DEF PublicationInv, BudgetInv
  <2>2. op[t].attempt = Null /\ op[t].commit = "none"
    BY <1>1, TabFacts DEF Sound, StageOK, Early
  <2>3. /\ o.attempt = lastAttempt' /\ o.restoring = op[t].restoring
        /\ o.commit = "none" /\ o.next = op[t].next /\ o.kind = op[t].kind
    BY <2>2, TabFacts DEF Op
  <2>4. /\ pc'[t] = "activate" /\ op'[t] = o
        /\ \A u \in Tabs \ {t} : pc'[u] = pc[u] /\ op'[u] = op[u]
        /\ MovesTo(t, At("activate", o))
    BY <1>2, GotoMoves DEF At, PublicationInv
  <2>5. ~MintsTwo(pc'[t], op'[t]) /\ (MintsOne(pc'[t], op'[t]) => MintsOne(pc[t], op[t]))
    BY <1>1, <2>1, <2>2, <2>3, <2>4 DEF MintsOne, MintsTwo
  <2>6. \/ MintsOne(pc[t], op[t]) /\ ~MintsOne(pc'[t], op'[t])
        \/ MintsTwo(pc[t], op[t])
    BY <1>1, <2>1, <2>2, <2>3, <2>4 DEF MintsOne, MintsTwo
  <2>7. BudgetInv' /\ lastAttempt' \in Attempts
    BY <1>2, <2>4, <2>5, <2>6, BudgetSpent DEF PublicationInv
  <2>8. gateway.authority \in Authority \cup {Null}
    BY DEF PublicationInv, GatewayInv
  <2>9. LocalsOK(o, prepared[t].status)
    <3>1. op[t] \in Op /\ LocalsOK(op[t], prepared[t].status)
      BY TabFacts DEF Sound, LocalsOK
    <3>2. PICK a \in Attempts : a = lastAttempt'
      BY <2>7
    <3>3. PICK w \in Authority \cup {Null} : w = gateway.authority
      BY <2>8
    <3>4. PICK l \in Op : l = op[t]
      BY <3>1
    <3>5. PICK e : e = [l EXCEPT !.attempt = a, !.expected = w]
      OBVIOUS
    <3>6. e \in Op
      BY <3>5 DEF Op
    <3>7. /\ e.token = l.token /\ e.commit = l.commit /\ e.kind = l.kind /\ e.failed = l.failed
          /\ e.attempted = l.attempted /\ e.winner = l.winner /\ e.restoring = l.restoring
          /\ e.attempt = a /\ e.next = l.next
      BY <3>5 DEF Op
    <3>8. a # Null
      BY <2>1, <3>2
    <3>9. LocalsOK(e, prepared[t].status)
      BY <3>1, <3>4, <3>6, <3>7, <3>8 DEF LocalsOK
    <3>10. QED
      BY <3>2, <3>3, <3>4, <3>5, <3>9
  <2> HIDE DEF o
  <2>10. Sound("activate", o, prepared[t].status, compensated)
    BY <1>1, <2>1, <2>3, <2>9, TabFacts DEF Sound, StageOK, Stage, Early, Restore,
      Attempting, Reactivation, After, Publishing, ReplaceOnly
  <2>11. OthersKept(t) /\ UNCHANGED <<prepared, compensated, historyVars>>
    BY <1>1 DEF OthersKept, repositoryVars
  <2>12. TabsInv'
    BY <2>4, <2>10, <2>11, TabsMove DEF PublicationInv, At
  <2>13. RestInv'
    BY <1>2, <2>11, FaultType, GotoRest DEF PublicationInv, o
  <2>14. QueueInv' /\ GatewayInv'
    BY <1>1, <2>4, QueueKept DEF PublicationInv, GatewayInv, Waiting
  <2>15. QED
    BY <2>7, <2>12, <2>13, <2>14 DEF PublicationInv
<1>3. CASE /\ Goto(t, Catch(op[t])) /\ UNCHANGED lastAttempt
           /\ NoFault \/ Fault("gatewayLost") \/ Fault("runtimeFailed")
  <2>1. LocalOnly
    BY <1>1, <1>3 DEF LocalOnly, NoGatewayChange
  <2>2. \E class : Step(t, Catch(op[t])) \/ FaultStep(t, class, Catch(op[t]))
    BY <1>3, <2>1 DEF Step, FaultStep
  <2>3. Free(Catch(op[t]), op[t], prepared[t].status)
    BY TabFacts, CatchOK
  <2>4. QED
    BY <1>1, <2>2, <2>3, FreeStep DEF Waiting, Spent
<1>4. QED
  BY <1>1, <1>2, <1>3 DEF PrepareGateway

LEMMA CandidateType ==
  ASSUME PublicationInv, NEW t \in Tabs, op[t].attempt # Null, op[t].next # Null
  PROVE  Candidate(op[t]) \in Authority /\ op[t].expected \in Authority \cup {Null}
BY TabFacts DEF Candidate, Authority, Op, Revision

(* The publication is tried, overtaken, or reaches its commit.             *)
LEMMA ActivateInv ==
  ASSUME PublicationInv, NEW t \in Tabs, Activate(t)
  PROVE  PublicationInv'
<1> DEFINE o == [op[t] EXCEPT !.attempted = TRUE]
<1>1. pc[t] = "activate" /\ UNCHANGED lastAttempt
  BY DEF Activate
<1>2. op[t].attempt # Null /\ op[t].next # Null
  BY <1>1, TabFacts DEF Sound, StageOK
<1>3. CASE Send(t, "activate", Candidate(op[t]), op[t].expected, "activating", o)
  <2>1. /\ LocalsOK(o, prepared[t].status) /\ o.attempted
        /\ o.attempt = op[t].attempt /\ o.restoring = op[t].restoring
        /\ o.commit = op[t].commit /\ o.kind = op[t].kind
    BY ZenonT(30), <1>2, TabFacts DEF LocalsOK, Op
  <2> HIDE DEF o
  <2>2. Sound("activating", o, prepared[t].status, compensated)
    BY <1>1, <2>1, TabFacts DEF Sound, StageOK, Stage, Waiting, Early, Restore,
      Attempting, Reactivation, After, Publishing, ReplaceOnly
  <2>3. GoesOn(At("activating", o), pc[t], op[t], prepared[t].status, compensated)
    BY <1>1, <2>1, <2>2 DEF GoesOn, At, MintsOne, MintsTwo
  <2>4. "activating" \in Waiting /\ pc[t] \notin Waiting
    BY <1>1 DEF Waiting
  <2>5. Candidate(op[t]) \in Authority /\ op[t].expected \in Authority \cup {Null}
    BY <1>2, CandidateType
  <2>6. QED
    BY <1>1, <1>3, <2>3, <2>4, <2>5, SendStep
<1>4. CASE FaultStep(t, "runtimeFailed", Catch(op[t]))
  BY <1>1, <1>4, TabFacts, CatchOK, FreeStep DEF Waiting, Spent
<1>5. QED
  BY <1>3, <1>4 DEF Activate

LEMMA WinnerInv ==
  ASSUME PublicationInv, NEW t \in Tabs, Winner(t)
  PROVE  PublicationInv'
<1> DEFINE o == [op[t] EXCEPT !.winner = "converging"]
<1>1. pc[t] = "winner"
  BY DEF Winner
<1>2. CASE Step(t, At("rollback", o))
  <2>1. op[t].attempted /\ op[t].kind = "hydrate"
    BY <1>1, TabFacts DEF Sound, StageOK, Attempting
  <2>2. /\ LocalsOK(o, prepared[t].status) /\ o.attempted
        /\ o.attempt = op[t].attempt /\ o.restoring = op[t].restoring
        /\ o.commit = op[t].commit /\ o.kind = op[t].kind
    BY <2>1, TabFacts DEF LocalsOK, Op
  <2> HIDE DEF o
  <2>3. Free(At("rollback", o), op[t], prepared[t].status)
    BY <1>1, <2>2, TabFacts DEF Free, At, Same, Sound, StageOK, Stage, Early, Restore,
      Attempting, Reactivation, After, Publishing, ReplaceOnly
  <2>4. QED
    BY <1>1, <1>2, <2>3, FreeStep DEF Waiting, Spent
<1>3. CASE Step(t, Catch(op[t])) \/ FaultStep(t, "gatewayLost", Catch(op[t]))
  BY <1>1, <1>3, TabFacts, CatchOK, FreeStep DEF Waiting, Spent
<1>4. QED
  BY <1>2, <1>3 DEF Winner

(* The commit uses up the handle and a token nobody else has.              *)
LEMMA CommitLocals ==
  ASSUME PublicationInv, NEW t \in Tabs, pc[t] = "commit", NEW k \in Tokens,
         NEW h \in PreparedStatus \ {"prepared"}, NEW c \in {"started", "yes"}
  PROVE  LET o == [op[t] EXCEPT !.token = k, !.commit = c]
         IN  LocalsOK(o, h) /\ o.commit = c /\ o.kind = "replace"
             /\ o.attempt = op[t].attempt /\ o.restoring = op[t].restoring
<1>1. op[t].kind = "replace" /\ LocalsOK(op[t], prepared[t].status)
  BY TabFacts DEF Sound, StageOK, ReplaceOnly
<1>2. k # Null
  BY RepositoryAssumption
<1>3. QED
  BY <1>1, <1>2 DEF LocalsOK, Op

LEMMA CommitInv ==
  ASSUME RepositoryInv, PublicationInv, NEW t \in Tabs, Commit(t)
  PROVE  PublicationInv'
<1>1. /\ pc[t] = "commit" /\ NoGatewayChange /\ UNCHANGED historyVars
      /\ pc[t] \notin Waiting \cup Spent
  BY DEF Commit, Waiting, Spent
<1>2. prepared \in [Clients -> PreparedState] /\ t \in Clients
  BY DEF RepositoryInv, RepositoryTypeOK, Tabs
<1>3. PICK k \in Tokens :
         LET o == [op[t] EXCEPT !.token = k, !.commit = "started"]
         IN \/ /\ CommitPreparedRevision(t, o.previous, k)
               /\ Goto(t, At("commitRuntime", [o EXCEPT !.commit = "yes"]))
               /\ NoFault
            \/ CommitResponseLost(t, o.previous, k) /\ Goto(t, Catch(o)) /\ Fault("commitLost")
            \/ CommitRejected(t) /\ Goto(t, Catch(o)) /\ NoFault
            \/ CommitRejected(t) /\ Goto(t, Catch(o)) /\ Fault("commitAborted")
  BY DEF Commit, FreshTokens
<1> DEFINE o == [op[t] EXCEPT !.token = k, !.commit = "started"]
           y == [op[t] EXCEPT !.token = k, !.commit = "yes"]
<1>4. [o EXCEPT !.commit = "yes"] = y
  BY TabFacts DEF Op
<1>5. PICK s \in {"committed", "failed"} :
         /\ SetStatus(t, s) /\ UNCHANGED compensated
         /\ \/ s = "committed" /\ Goto(t, At("commitRuntime", y)) /\ NoFault
            \/ s = "failed" /\ Goto(t, Catch(o)) /\ (\E class : NoFault \/ Fault(class))
  BY <1>3, <1>4 DEF CommitPreparedRevision, CommitResponseLost, CommitRejected, CommitEffect
<1>6. /\ prepared'[t].status = s /\ OthersKept(t)
      /\ s \in PreparedStatus \ {"prepared"}
  BY <1>2, <1>5 DEF SetStatus, OthersKept, PreparedState, PreparedStatus
<1>7. faults' \in Nat
  BY <1>5, FaultType DEF PublicationInv
<1>8. /\ LocalsOK(o, s) /\ o.commit = "started" /\ o.kind = "replace"
      /\ o.attempt = op[t].attempt /\ o.restoring = op[t].restoring
  BY <1>1, <1>6, CommitLocals
<1>9. /\ LocalsOK(y, s) /\ y.commit = "yes" /\ y.kind = "replace"
      /\ y.attempt = op[t].attempt /\ y.restoring = op[t].restoring
  BY <1>1, <1>6, CommitLocals
<1> HIDE DEF o, y
<1>10. CASE Goto(t, At("commitRuntime", y))
  <2>1. Free(At("commitRuntime", y), op[t], s)
    BY <1>9 DEF Free, At, Same, Sound, StageOK, Stage, Early, Restore,
      Attempting, Reactivation, After, Publishing, ReplaceOnly
  <2>2. GoesOn(At("commitRuntime", y), pc[t], op[t], prepared'[t].status, compensated')
    BY <1>1, <1>6, <2>1, FreeGoesOn
  <2>3. RestInv'
    BY <1>1, <1>5, <1>7, <1>10, GotoRest DEF PublicationInv
  <2>4. QED
    BY <1>1, <1>6, <1>10, <2>2, <2>3, GotoMoves, TabStep DEF PublicationInv
<1>11. CASE Goto(t, Catch(o))
  <2>1. Free(Catch(o), op[t], s)
    BY <1>8, CatchOK DEF Free, Same
  <2>2. GoesOn(Catch(o), pc[t], op[t], prepared'[t].status, compensated')
    BY <1>1, <1>6, <2>1, FreeGoesOn
  <2>3. RestInv'
    BY <1>1, <1>5, <1>7, <1>11, GotoRest DEF PublicationInv
  <2>4. QED
    BY <1>1, <1>6, <1>11, <2>2, <2>3, GotoMoves, TabStep DEF PublicationInv
<1>12. QED
  BY <1>5, <1>10, <1>11

LEMMA CommitRuntimeInv ==
  ASSUME PublicationInv, NEW t \in Tabs, CommitRuntime(t)
  PROVE  PublicationInv'
<1> DEFINE o == [op[t] EXCEPT !.transition = TRUE, !.activated = op[t].kind = "hydrate"]
           s == IF op[t].kind = "replace" THEN "verify" ELSE "pointerCheck"
<1>1. pc[t] = "commitRuntime" /\ pc[t] \notin Waiting \cup Spent
  BY DEF CommitRuntime, Waiting, Spent
<1>2. CASE /\ runtime' = [runtime EXCEPT ![t] =
                  [active |-> op[t].next, previous |-> @.active, open |-> TRUE]]
           /\ pc' = [pc EXCEPT ![t] = s]
           /\ op' = [op EXCEPT ![t].transition = TRUE, ![t].activated = op[t].kind = "hydrate"]
           /\ UNCHANGED <<published, settled, recovery, cleanup>>
           /\ LocalOnly /\ NoFault
  <2>1. op' = [op EXCEPT ![t] = o]
    BY <1>2 DEF PublicationInv, TabsInv
  <2>2. /\ LocalsOK(o, prepared[t].status)
        /\ o.attempt = op[t].attempt /\ o.restoring = op[t].restoring
        /\ o.commit = op[t].commit /\ o.kind = op[t].kind
    BY ZenonT(30), TabFacts DEF LocalsOK, Op
  <2>3. op[t].next \in Revision
    BY TabFacts DEF Op
  <2> HIDE DEF o
  <2>4. Free(At(s, o), op[t], prepared[t].status)
    BY <1>1, <2>2, TabFacts DEF Free, At, Same, Sound, StageOK, Stage, Early, Restore,
      Attempting, Reactivation, After, Publishing, ReplaceOnly
  <2>5. /\ MovesTo(t, At(s, o)) /\ OthersKept(t) /\ NoGatewayChange
        /\ UNCHANGED <<prepared, compensated, historyVars>>
    BY <1>2, <2>1 DEF MovesTo, At, OthersKept, LocalOnly, repositoryVars
  <2>6. RestInv'
    <3>1. runtime' \in [Tabs -> [active : Revision, previous : Revision, open : BOOLEAN]]
      BY <1>2, <2>3 DEF PublicationInv, RestInv
    <3>2. QED
      BY <1>2, <2>5, <3>1 DEF PublicationInv, RestInv, historyVars, NoFault
  <2>7. GoesOn(At(s, o), pc[t], op[t], prepared'[t].status, compensated')
    BY <1>1, <2>4, <2>5, FreeGoesOn
  <2>8. QED
    BY <1>1, <2>5, <2>6, <2>7, TabStep
<1>3. CASE FaultStep(t, "runtimeFailed", Catch(op[t]))
  BY <1>1, <1>3, TabFacts, CatchOK, FreeStep
<1>4. QED
  BY <1>2, <1>3 DEF CommitRuntime

-----------------------------------------------------------------------------
(* An operation succeeds.                                                  *)

LEMMA CleanupType ==
  ASSUME NEW o \in Op
  PROVE  CleanupFor(o) \in Seq(CleanupTask)
<1>1. o.next \in Revision /\ o.previous \in Revision
  BY DEF Op
<1>2. /\ Task("runtime-transition-finalize", o.next) \in CleanupTask
      /\ Task("gateway-previous", o.previous) \in CleanupTask
      /\ Task("repository-garbage-collection", o.next) \in CleanupTask
  BY <1>1 DEF Task, CleanupTask
<1> DEFINE first == <<Task("runtime-transition-finalize", o.next)>>
           second == IF o.previous \notin {Null, o.next}
                     THEN <<Task("gateway-previous", o.previous)>> ELSE <<>>
           third == <<Task("repository-garbage-collection", o.next)>>
<1>3. first \in Seq(CleanupTask) /\ second \in Seq(CleanupTask) /\ third \in Seq(CleanupTask)
  BY <1>2
<1>4. CleanupFor(o) = first \o second \o third
  BY DEF CleanupFor
<1> HIDE DEF first, second, third
<1>5. QED
  BY <1>3, <1>4

LEMMA SucceedStep ==
  ASSUME PublicationInv, NEW t \in Tabs, pc[t] \notin Waiting, NEW tokens \in SUBSET Tokens,
         Succeed(t, tokens), OthersKept(t), faults' \in Nat
  PROVE  PublicationInv'
<1>1. op[t].next \in Revision /\ CleanupFor(op[t]) \in Seq(CleanupTask)
  BY TabFacts, CleanupType DEF Op
<1>2. /\ published' \in [Tabs -> Revision]
      /\ settled' \in [Tabs -> {"no", "tried", "yes"}]
      /\ cleanup' \in [Tabs -> Seq(CleanupTask)]
      /\ acked' \subseteq Tokens
  BY <1>1 DEF Succeed, PublicationInv, RestInv
<1>3. RestInv'
  BY <1>2 DEF Succeed, OthersKept, PublicationInv, RestInv
<1>4. QED
  BY <1>3, EndStep DEF Succeed

LEMMA PointerCheckInv ==
  ASSUME PublicationInv, NEW t \in Tabs, PointerCheck(t)
  PROVE  PublicationInv'
<1>1. pc[t] = "pointerCheck" /\ pc[t] \notin Waiting \cup Spent /\ op[t].commit # "started"
  BY TabFacts DEF PointerCheck, Waiting, Spent
<1>2. CASE Succeed(t, {}) /\ UNCHANGED repositoryVars /\ NoFault
  BY <1>1, <1>2, SucceedStep, FaultType DEF repositoryVars, OthersKept, PublicationInv
<1>3. CASE Step(t, At("verify", op[t]))
  <2>1. Free(At("verify", op[t]), op[t], prepared[t].status)
    BY <1>1, TabFacts DEF Free, At, Same, Sound, StageOK, Stage, Early, Restore,
      Attempting, Reactivation, After, Publishing, ReplaceOnly
  <2>2. QED
    BY <1>1, <1>3, <2>1, FreeStep
<1>4. CASE \/ Step(t, CatchRollback(op[t]))
           \/ FaultStep(t, "storageLost", CatchRollback(op[t]))
  BY <1>1, <1>4, TabFacts, CatchRollbackOK, FreeStep
<1>5. QED
  BY <1>2, <1>3, <1>4 DEF PointerCheck

LEMMA VerifyInv ==
  ASSUME PublicationInv, NEW t \in Tabs, Verify(t)
  PROVE  PublicationInv'
<1>1. pc[t] = "verify" /\ pc[t] \notin Waiting \cup Spent /\ op[t].commit # "started"
  BY TabFacts DEF Verify, Waiting, Spent
<1>2. CASE Succeed(t, {}) /\ UNCHANGED repositoryVars /\ NoFault
  BY <1>1, <1>2, SucceedStep, FaultType DEF repositoryVars, OthersKept, PublicationInv
<1>3. CASE Step(t, At("finalize", op[t]))
  <2>1. Free(At("finalize", op[t]), op[t], prepared[t].status)
    BY <1>1, TabFacts DEF Free, At, Same, Sound, StageOK, Stage, Early, Restore,
      Attempting, Reactivation, After, Publishing, ReplaceOnly
  <2>2. QED
    BY <1>1, <1>3, <2>1, FreeStep
<1>4. CASE Step(t, Catch(op[t])) \/ FaultStep(t, "gatewayLost", Catch(op[t]))
  BY <1>1, <1>4, TabFacts, CatchOK, FreeStep
<1>5. QED
  BY <1>2, <1>3, <1>4 DEF Verify

LEMMA AcknowledgedType ==
  ASSUME PublicationInv, NEW t \in Tabs, pc[t] \in Publishing
  PROVE  Acknowledged(op[t]) \in SUBSET Tokens
<1>1. op[t].kind = "replace" => op[t].commit = "yes"
  BY TabFacts DEF Sound, StageOK
<1>2. op[t].kind = "replace" => op[t].token \in Tokens
  BY <1>1, TabFacts DEF LocalsOK, Op
<1>3. QED
  BY <1>2 DEF Acknowledged

LEMMA FinalizeInv ==
  ASSUME PublicationInv, NEW t \in Tabs, Finalize(t)
  PROVE  PublicationInv'
<1> DEFINE k == FinalToken(op[t])
           to == At("finalizeRead", op[t])
<1>1. /\ pc[t] = "finalize" /\ pc[t] \notin Waiting \cup Spent /\ op[t].commit # "started"
      /\ Acknowledged(op[t]) \in SUBSET Tokens
  BY TabFacts, AcknowledgedType DEF Finalize, Waiting, Spent, Publishing
<1>2. Free(to, op[t], prepared[t].status)
  BY <1>1, TabFacts DEF Free, At, Same, Sound, StageOK, Stage, Early, Restore,
      Attempting, Reactivation, After, Publishing, ReplaceOnly
<1> HIDE DEF to
<1>3. FinalizePublication(k) => OthersKept(t) /\ UNCHANGED <<prepared, compensated>>
  BY DEF FinalizePublication, OthersKept
<1>4. CASE FinalizePublication(k) /\ Succeed(t, Acknowledged(op[t])) /\ NoFault
  BY <1>1, <1>3, <1>4, SucceedStep, FaultType DEF PublicationInv
<1>5. CASE /\ FinalizePublication(k) /\ Goto(t, to)
           /\ Fault("storageLost") /\ NoGatewayChange /\ UNCHANGED historyVars
  <2>1. GoesOn(to, pc[t], op[t], prepared'[t].status, compensated')
    BY <1>1, <1>2, <1>3, <1>5, FreeGoesOn
  <2>2. RestInv'
    BY <1>3, <1>5, FaultType, GotoRest DEF PublicationInv
  <2>3. QED
    BY <1>1, <1>3, <1>5, <2>1, <2>2, GotoMoves, TabStep DEF PublicationInv
<1>6. CASE Step(t, to) \/ FaultStep(t, "storageLost", to)
  BY <1>1, <1>2, <1>6, FreeStep
<1>7. QED
  BY <1>4, <1>5, <1>6 DEF Finalize, to

LEMMA FinalizeReadInv ==
  ASSUME PublicationInv, NEW t \in Tabs, FinalizeRead(t)
  PROVE  PublicationInv'
<1>1. /\ pc[t] = "finalizeRead" /\ pc[t] \notin Waiting \cup Spent /\ op[t].commit # "started"
      /\ Acknowledged(op[t]) \in SUBSET Tokens
  BY TabFacts, AcknowledgedType DEF FinalizeRead, Waiting, Spent, Publishing
<1>2. CASE Succeed(t, Acknowledged(op[t])) /\ UNCHANGED repositoryVars /\ NoFault
  BY <1>1, <1>2, SucceedStep, FaultType DEF repositoryVars, OthersKept, PublicationInv
<1>3. CASE Step(t, IF op[t].kind = "replace" THEN Catch(op[t])
                   ELSE CatchRollback(Failed(op[t])))
  <2>1. /\ LocalsOK(Failed(op[t]), prepared[t].status)
        /\ Failed(op[t]).commit # "started"
        /\ Failed(op[t]).attempt = op[t].attempt /\ Failed(op[t]).restoring = op[t].restoring
    BY <1>1, TabFacts, FailedOK
  <2>2. Free(CatchRollback(Failed(op[t])), op[t], prepared[t].status)
    BY <2>1, CatchRollbackOK DEF Free, Same
  <2>3. Free(Catch(op[t]), op[t], prepared[t].status)
    BY TabFacts, CatchOK
  <2>4. QED
    BY <1>1, <1>3, <2>2, <2>3, FreeStep
<1>4. CASE FaultStep(t, "storageLost", Catch(op[t]))
  BY <1>1, <1>4, TabFacts, CatchOK, FreeStep
<1>5. CASE Leave(t, TRUE) /\ LocalOnly /\ Fault("storageLost")
  BY <1>1, <1>5, LeaveLocal
<1>6. QED
  BY <1>2, <1>3, <1>4, <1>5 DEF FinalizeRead

LEMMA ForwardInv ==
  ASSUME RepositoryInv, PublicationInv, NEW t \in Tabs, Forward(t)
  PROVE  PublicationInv'
BY EmptyStatusInv, EmptyVerifyInv, EmptyPointerInv, LoadPreviousInv, LoadTargetInv,
   PrepareGatewayInv, ActivateInv, WinnerInv, CommitInv, CommitRuntimeInv, PointerCheckInv,
   VerifyInv, FinalizeInv, FinalizeReadInv DEF Forward

-----------------------------------------------------------------------------
(* The catch block and the rollbacks.                                      *)

LEMMA ReconcileInv ==
  ASSUME PublicationInv, NEW t \in Tabs, Reconcile(t)
  PROVE  PublicationInv'
<1> DEFINE o == op[t]
           yes == [o EXCEPT !.commit = "yes"]
           noEffect == [o EXCEPT !.commit = "noEffect"]
           unknown == [o EXCEPT !.commit = "unknown", !.failed = TRUE]
<1>1. pc[t] = "reconcile" /\ pc[t] \notin Waiting \cup Spent /\ o.commit = "started"
  BY TabFacts DEF Reconcile, Waiting, Spent, Sound, StageOK
<1>2. /\ LocalsOK(yes, prepared[t].status)
      /\ LocalsOK(noEffect, prepared[t].status)
      /\ LocalsOK(unknown, prepared[t].status)
  <2>1. unknown \in Op
    BY ZenonT(30), TabFacts DEF Op
  <2>2. /\ unknown.commit = "unknown" /\ unknown.failed /\ unknown.token = o.token
        /\ unknown.kind = o.kind /\ unknown.attempted = o.attempted
        /\ unknown.attempt = o.attempt /\ unknown.next = o.next
        /\ unknown.winner = o.winner /\ unknown.restoring = o.restoring
    BY TabFacts DEF Op
  <2> HIDE DEF unknown
  <2>3. LocalsOK(unknown, prepared[t].status)
    BY <1>1, <2>1, <2>2, TabFacts DEF LocalsOK
  <2>4. LocalsOK(yes, prepared[t].status) /\ LocalsOK(noEffect, prepared[t].status)
    BY <1>1, TabFacts DEF LocalsOK, Op
  <2>5. QED
    BY <2>3, <2>4
<1>3. \A x \in {yes, noEffect, unknown} :
         x.commit # "started" /\ x.attempt = o.attempt /\ x.restoring = o.restoring
  BY TabFacts DEF Op
<1>4. unknown = Failed([o EXCEPT !.commit = "unknown"])
  BY TabFacts DEF Failed, Op
<1>5. \E x \in {yes, noEffect, unknown} :
         Step(t, CatchRollback(x)) \/ FaultStep(t, "storageLost", CatchRollback(x))
  <2>1. \/ Step(t, CatchRollback(yes)) \/ Step(t, CatchRollback(noEffect))
        \/ Step(t, CatchRollback(unknown))
        \/ FaultStep(t, "storageLost", CatchRollback(unknown))
    BY <1>4 DEF Reconcile
  <2> HIDE DEF yes, noEffect, unknown
  <2>2. QED
    BY <2>1
<1> HIDE DEF yes, noEffect, unknown
<1>6. \A x \in {yes, noEffect, unknown} : Free(CatchRollback(x), o, prepared[t].status)
  BY <1>2, <1>3, CatchRollbackOK DEF Free, Same
<1>7. QED
  BY <1>1, <1>5, <1>6, FreeStep

(* A DELETE of the attempted candidate.                                    *)
LEMMA WithdrawInv ==
  ASSUME PublicationInv, NEW t \in Tabs, Rollback(t) \/ RollbackRetry(t)
  PROVE  PublicationInv'
<1>1. PICK s \in {"rollingBack", "rollbackRetrying"} :
         /\ pc[t] \in {"rollback", "rollbackRetry"} /\ UNCHANGED lastAttempt
         /\ Send(t, "deactivate", Candidate(op[t]), Null, s, op[t])
  BY DEF Rollback, RollbackRetry
<1>2. op[t].attempted /\ op[t].attempt # Null /\ op[t].next # Null
  BY <1>1, TabFacts DEF Sound, StageOK, Attempting, LocalsOK
<1>3. Candidate(op[t]) \in Authority
  BY <1>2, CandidateType
<1>4. GoesOn(At(s, op[t]), pc[t], op[t], prepared[t].status, compensated)
  BY <1>1, <1>2, TabFacts DEF GoesOn, At, MintsOne, MintsTwo, Sound, StageOK, Stage, Waiting,
      Early, Restore, Attempting, Reactivation, After, Publishing, ReplaceOnly
<1>5. s \in Waiting /\ pc[t] \notin Waiting
  BY <1>1 DEF Waiting
<1>6. QED
  BY <1>1, <1>3, <1>4, <1>5, SendStep

LEMMA RollbackStatusInv ==
  ASSUME PublicationInv, NEW t \in Tabs, RollbackStatus(t) \/ RollbackTerminal(t)
  PROVE  PublicationInv'
<1> DEFINE o == op[t]
<1>1. /\ pc[t] \in {"rollbackStatus", "rollbackTerminal"}
      /\ pc[t] \notin Waiting \cup Spent /\ o.commit # "started"
      /\ o.attempted
  BY TabFacts DEF RollbackStatus, RollbackTerminal, Waiting, Spent, Sound, StageOK, Attempting
<1>2. Free(At("rollbackRetry", o), o, prepared[t].status)
  BY <1>1, TabFacts DEF Free, At, Same, Sound, StageOK, Stage, Early, Restore,
      Attempting, Reactivation, After, Publishing, ReplaceOnly
<1>3. /\ \A d \in Dispositions : Free(RolledBack(o, d), o, prepared[t].status)
      /\ Free(RollbackThrew(o), o, prepared[t].status)
  BY <1>1, TabFacts, RolledBackOK, RollbackThrewOK
<1>4. \/ Step(t, At("rollbackRetry", o))
      \/ Step(t, RollbackThrew(o)) \/ FaultStep(t, "gatewayLost", RollbackThrew(o))
      \/ \E d \in Dispositions : Step(t, RolledBack(o, d))
  BY DEF RollbackStatus, RollbackTerminal, Dispositions
<1>5. QED
  BY <1>1, <1>2, <1>3, <1>4, FreeStep

LEMMA CheckInactiveInv ==
  ASSUME PublicationInv, NEW t \in Tabs, CheckInactive(t)
  PROVE  PublicationInv'
<1>1. pc[t] = "checkInactive" /\ pc[t] \notin Waiting \cup Spent /\ op[t].commit # "started"
  BY TabFacts DEF CheckInactive, Waiting, Spent
<1>2. /\ LocalsOK(Failed(op[t]), prepared[t].status)
      /\ Failed(op[t]).commit # "started"
      /\ Failed(op[t]).attempt = op[t].attempt /\ Failed(op[t]).restoring = op[t].restoring
  BY <1>1, TabFacts, FailedOK
<1>3. /\ Free(At("rollbackRuntime", op[t]), op[t], prepared[t].status)
      /\ Free(At("rollbackRuntime", Failed(op[t])), op[t], prepared[t].status)
  BY <1>1, <1>2, TabFacts, PlainOK DEF Free, At, Same
<1>4. QED
  BY <1>1, <1>3, FreeStep DEF CheckInactive

LEMMA RollbackRuntimeInv ==
  ASSUME PublicationInv, NEW t \in Tabs, RollbackRuntime(t)
  PROVE  PublicationInv'
<1> DEFINE o == op[t]
           stuck == (Interrupted(o) /\ o.previous = Null) \/ (o.restoring /\ ~o.activated)
           goesOn == o.kind = "replace" \/ (Interrupted(o) /\ o.previous # Null)
           r == [NoOp EXCEPT !.kind = "hydrate", !.saw = o.saw, !.next = o.next,
                             !.previous = o.previous]
           to == IF o.kind = "replace" THEN AfterRuntime(o) ELSE At("restorePointer", r)
           next == IF goesOn THEN to ELSE At("idle", NoOp)
           asks == o.kind # "replace" /\ (o.failed \/ stuck)
<1>1. /\ pc[t] = "rollbackRuntime" /\ pc[t] \notin Waiting \cup Spent /\ o.commit # "started"
      /\ NoGatewayChange /\ UNCHANGED <<repositoryVars, acked, rejected>> /\ NoFault
      /\ RestoreRuntime(t)
      /\ pc' = [pc EXCEPT ![t] = IF goesOn THEN to.stage ELSE "idle"]
      /\ op' = [op EXCEPT ![t] = IF goesOn THEN to.op ELSE NoOp]
      /\ recovery' = [recovery EXCEPT ![t] = @ \/ asks]
      /\ \/ abandoned' = abandoned \/ abandoned' = abandoned \cup ({o.attempt} \ {Null})
      /\ settled' \in {settled, Tried(t)}
      /\ UNCHANGED <<published, cleanup>>
  BY TabFacts DEF RollbackRuntime, Waiting, Spent
<1>2. LocalsOK(o, prepared[t].status)
  BY TabFacts
<1>3. goesOn => GoesOn(to, pc[t], o, prepared[t].status, compensated)
  <2>1. CASE o.kind = "replace"
    <3>1. Free(AfterRuntime(o), o, prepared[t].status)
      BY <1>1, <1>2, <2>1, AfterRuntimeOK
    <3>2. QED
      BY <1>1, <2>1, <3>1, FreeGoesOn
  <2>2. CASE o.kind # "replace" /\ Interrupted(o) /\ o.previous # Null
    <3>1. o.commit = "none" /\ ~o.restoring
      BY <1>2, <2>2 DEF LocalsOK, Op, Interrupted
    <3>2. /\ r \in Op /\ r.attempt = Null /\ ~r.restoring /\ ~r.attempted
          /\ r.commit = "none" /\ r.token = Null /\ r.winner = "no"
          /\ r.kind = "hydrate" /\ r.previous = o.previous
      BY <1>2 DEF LocalsOK, Op, NoOp
    <3> HIDE DEF r
    <3>3. Sound("restorePointer", r, prepared[t].status, compensated)
      BY <2>2, <3>2 DEF LocalsOK, Sound, StageOK, Stage, Early, Restore, Attempting,
         Reactivation, After, Publishing, ReplaceOnly
    <3>4. to.stage = "restorePointer" /\ to.op = r
      BY <2>2 DEF At
    <3>5. QED
      BY <1>1, <3>1, <3>2, <3>3, <3>4 DEF GoesOn, MintsOne, MintsTwo, Spent
  <2>3. QED
    BY <2>1, <2>2
<1> HIDE DEF to
<1>4. GoesOn(next, pc[t], o, prepared[t].status, compensated)
  BY <1>3, IdleOK
<1>5. MovesTo(t, next) /\ OthersKept(t) /\ UNCHANGED <<prepared, compensated>>
  BY <1>1 DEF MovesTo, At, OthersKept, repositoryVars
<1>6. runtime' \in [Tabs -> [active : Revision, previous : Revision, open : BOOLEAN]]
  BY <1>1 DEF RestoreRuntime, NoRuntime, PublicationInv, RestInv, Revision
<1>7. recovery' \in [Tabs -> BOOLEAN]
  BY <1>1 DEF PublicationInv, RestInv
<1>8. settled' \in [Tabs -> {"no", "tried", "yes"}]
  BY <1>1 DEF Tried, PublicationInv, RestInv
<1>9. abandoned' \subseteq Attempts
  BY <1>1, <1>2 DEF LocalsOK, Op, PublicationInv, RestInv
<1>10. RestInv'
  BY <1>1, <1>5, <1>6, <1>7, <1>8, <1>9 DEF PublicationInv, RestInv, NoFault
<1> HIDE DEF next
<1>11. QED
  BY <1>1, <1>4, <1>5, <1>10, TabStep

(* The repository's part of the catch block.                               *)
LEMMA RepositoryDone ==
  ASSUME NEW stage, stage \notin Spent, NEW o, NEW h, NEW C, NEW x, LocalsOK(x, h),
         x.commit # "started", x.kind = "replace", x.token # Null /\ ~x.failed => x.token \in C,
         x.attempt = o.attempt, x.restoring = o.restoring
  PROVE  GoesOn(AfterRepository(x), stage, o, h, C)
<1>1. /\ Sound(AfterRepository(x).stage, AfterRepository(x).op, h, C)
      /\ AfterRepository(x).op = x
  BY AfterRepositoryOK
<1>2. QED
  BY <1>1 DEF GoesOn, MintsOne, MintsTwo, Spent

LEMMA FailedDone ==
  ASSUME PublicationInv, NEW t \in Tabs, pc[t] \in ReplaceOnly \ (Spent \cup {"reconcile"}),
         NEW C
  PROVE  /\ GoesOn(AfterRepository(Failed(op[t])), pc[t], op[t], prepared[t].status, C)
         /\ GoesOn(At("endCatch", Failed(op[t])), pc[t], op[t], prepared[t].status, C)
<1> DEFINE x == Failed(op[t])
<1>1. op[t].kind = "replace" /\ op[t].commit # "started"
  BY TabFacts DEF Sound, StageOK
<1>2. /\ LocalsOK(x, prepared[t].status) /\ x.failed /\ x.commit # "started"
      /\ x.kind = "replace" /\ x.attempt = op[t].attempt /\ x.restoring = op[t].restoring
  BY <1>1, TabFacts, FailedOK
<1> HIDE DEF x
<1>3. GoesOn(AfterRepository(x), pc[t], op[t], prepared[t].status, C)
  BY <1>2, RepositoryDone
<1>4. GoesOn(At("endCatch", x), pc[t], op[t], prepared[t].status, C)
  BY <1>2, EndCatchOK DEF GoesOn, At, MintsOne, MintsTwo, Spent
<1>5. QED
  BY <1>3, <1>4 DEF x

LEMMA DiscardInv ==
  ASSUME RepositoryInv, PublicationInv, NEW t \in Tabs, Discard(t)
  PROVE  PublicationInv'
<1>1. /\ pc[t] = "discard" /\ pc[t] \notin Waiting \cup Spent
      /\ pc[t] \in ReplaceOnly \ (Spent \cup {"reconcile"})
  BY DEF Discard, Waiting, Spent, ReplaceOnly
<1>2. prepared \in [Clients -> PreparedState] /\ t \in Clients
  BY DEF RepositoryInv, RepositoryTypeOK, Tabs
<1>3. CASE /\ DiscardPreparedRevision(t) /\ Goto(t, AfterRepository(op[t]))
           /\ NoGatewayChange /\ NoFault /\ UNCHANGED historyVars
  <2>1. /\ prepared[t].status = "prepared" /\ prepared'[t].status = "discarded"
        /\ OthersKept(t) /\ UNCHANGED compensated
    BY <1>2, <1>3 DEF DiscardPreparedRevision, CanDiscard, SetStatus, OthersKept, PreparedState
  <2>2. /\ op[t].commit = "none" /\ op[t].token = Null /\ op[t].kind = "replace"
        /\ LocalsOK(op[t], prepared'[t].status)
    BY <1>1, <2>1, TabFacts DEF LocalsOK, Sound, StageOK
  <2>3. GoesOn(AfterRepository(op[t]), pc[t], op[t], prepared'[t].status, compensated')
    BY <1>1, <2>2, RepositoryDone
  <2>4. RestInv'
    BY <1>3, <2>1, FaultType, GotoRest DEF PublicationInv
  <2>5. QED
    BY <1>1, <1>3, <2>1, <2>3, <2>4, GotoMoves, TabStep DEF PublicationInv
<1>4. CASE Step(t, AfterRepository(Failed(op[t])))
  BY <1>1, <1>4, FailedDone, LocalStep
<1>5. QED
  BY <1>3, <1>4 DEF Discard

LEMMA CompensateInv ==
  ASSUME PublicationInv, NEW t \in Tabs, Compensate(t)
  PROVE  PublicationInv'
<1> DEFINE k == op[t].token
<1>1. /\ pc[t] = "compensate" /\ pc[t] \notin Waiting \cup Spent
      /\ pc[t] \in ReplaceOnly \ (Spent \cup {"reconcile"})
      /\ op[t].kind = "replace" /\ op[t].commit # "started"
  BY TabFacts DEF Compensate, Waiting, Spent, ReplaceOnly, Sound, StageOK
<1>2. CASE /\ CompensatePublication(k)
           /\ NoGatewayChange /\ UNCHANGED historyVars
           /\ \/ Goto(t, AfterRepository(op[t])) /\ NoFault
              \/ Goto(t, AfterRepository(Failed(op[t]))) /\ Fault("storageLost")
  <2>1. UNCHANGED prepared /\ OthersKept(t) /\ k \in compensated'
    BY <1>2 DEF CompensatePublication, OthersKept
  <2>2. GoesOn(AfterRepository(op[t]), pc[t], op[t], prepared'[t].status, compensated')
    BY <1>1, <2>1, TabFacts, RepositoryDone
  <2>3. GoesOn(AfterRepository(Failed(op[t])), pc[t], op[t], prepared'[t].status, compensated')
    BY <1>1, <2>1, FailedDone
  <2>4. PICK to \in {AfterRepository(op[t]), AfterRepository(Failed(op[t]))} :
           Goto(t, to) /\ (NoFault \/ Fault("storageLost"))
    BY <1>2
  <2>5. RestInv'
    BY <1>2, <2>1, <2>4, FaultType, GotoRest DEF PublicationInv, OthersKept
  <2>6. QED
    BY <1>1, <1>2, <2>1, <2>2, <2>3, <2>4, <2>5, GotoMoves, TabStep DEF PublicationInv
<1>3. CASE \/ Step(t, AfterRepository(Failed(op[t])))
           \/ FaultStep(t, "storageLost", AfterRepository(Failed(op[t])))
  BY <1>1, <1>3, FailedDone, LocalStep
<1>4. QED
  BY <1>2, <1>3 DEF Compensate

(* The previous publication goes back to the Gateway under a new attempt.  *)
LEMMA ReactivateInv ==
  ASSUME PublicationInv, NEW t \in Tabs, Reactivate(t)
  PROVE  PublicationInv'
<1>1. pc[t] = "reactivate" /\ pc[t] \notin Waiting
  BY DEF Reactivate, Waiting
<1>2. GoesOn(At("reactivateSend", op[t]), pc[t], op[t], prepared[t].status, compensated)
  BY <1>1, TabFacts DEF GoesOn, At, MintsOne, MintsTwo, Sound, StageOK, Stage, Early, Restore,
      Attempting, Reactivation, After, Publishing, ReplaceOnly
<1>3. GoesOn(At("endCatch", Failed(op[t])), pc[t], op[t], prepared[t].status, compensated)
  BY <1>1, FailedDone DEF ReplaceOnly, Spent, After, Reactivation
<1>4. QED
  BY <1>1, <1>2, <1>3, LocalStep DEF Reactivate

LEMMA AttemptLeft ==
  ASSUME TabsInv, BudgetInv, NEW t \in Tabs, MintsOne(pc[t], op[t])
  PROVE  lastAttempt + 1 \in Attempts
<1>1. MintersOne \subseteq Busy /\ MintersTwo \subseteq Busy /\ t \in MintersOne
  BY DEF MintersOne, MintersTwo, MintsOne, MintsTwo, Busy
<1>2. IsFiniteSet(MintersOne) /\ IsFiniteSet(MintersTwo)
  BY <1>1, FS_Subset DEF BudgetInv
<1>3. /\ Cardinality(MintersOne) \in Nat /\ Cardinality(MintersTwo) \in Nat
      /\ Cardinality(MintersOne) # 0
  BY <1>1, <1>2, FS_CardinalityType, FS_EmptySet
<1>4. QED
  BY <1>3, PublicationAssumption DEF BudgetInv, Attempts

LEMMA ReactivateSendInv ==
  ASSUME PublicationInv, NEW t \in Tabs, ReactivateSend(t)
  PROVE  PublicationInv'
<1> DEFINE o == op[t]
           authority == [revisionId |-> o.previous, attempt |-> lastAttempt']
<1>1. /\ pc[t] = "reactivateSend" /\ pc[t] \notin Waiting
      /\ lastAttempt' = lastAttempt + 1
      /\ Send(t, "activate", authority, Null, "reactivating", o)
  BY DEF ReactivateSend, Waiting
<1>2. /\ o.previous # Null /\ o.attempted /\ o.attempt # Null /\ o.kind = "replace"
      /\ ~o.restoring
  BY <1>1, TabFacts DEF Sound, StageOK, ReplaceOnly, Reactivation, After, LocalsOK
<1>3. lastAttempt' \in Attempts
  BY <1>1, <1>2, AttemptLeft DEF MintsOne, PublicationInv
<1>4. authority \in Authority
  BY <1>2, <1>3, TabFacts DEF Authority, Op, Revision
<1> HIDE DEF authority
<1>5. Sound("reactivating", o, prepared[t].status, compensated)
  BY <1>1, <1>2, TabFacts DEF Sound, StageOK, Stage, Waiting, Early, Restore,
      Attempting, Reactivation, After, Publishing, ReplaceOnly
<1>6. "reactivating" \in Waiting
  BY DEF Waiting
<1>7. /\ TabsInv' /\ RestInv' /\ QueueInv' /\ GatewayInv'
      /\ GoesOn(At(pc'[t], op'[t]), "reactivating", o, prepared[t].status, compensated)
      /\ \A u \in Tabs \ {t} : pc'[u] = pc[u] /\ op'[u] = op[u]
  BY <1>1, <1>4, <1>5, <1>6, SendMoves
<1>8. ~MintsOne(pc'[t], op'[t]) /\ ~MintsTwo(pc'[t], op'[t]) /\ MintsOne(pc[t], op[t])
  BY <1>1, <1>2, <1>7 DEF GoesOn, At, MintsOne, MintsTwo
<1>9. BudgetInv'
  BY <1>1, <1>7, <1>8, BudgetSpent DEF PublicationInv
<1>10. QED
  BY <1>7, <1>9 DEF PublicationInv

LEMMA ReactivateVerifyInv ==
  ASSUME PublicationInv, NEW t \in Tabs, ReactivateVerify(t)
  PROVE  PublicationInv'
<1>1. pc[t] = "reactivateVerify" /\ pc[t] \notin Waiting
  BY DEF ReactivateVerify, Waiting
<1>2. /\ op[t].kind = "replace" /\ op[t].commit # "started"
      /\ op[t].token # Null /\ ~op[t].failed => op[t].token \in compensated
      /\ op[t].attempt # Null
  BY <1>1, TabFacts DEF Sound, StageOK, ReplaceOnly, Reactivation, After, LocalsOK
<1>3. Failed(op[t]).failed /\ Failed(op[t]).attempt = op[t].attempt
      /\ Failed(op[t]).kind = op[t].kind /\ Failed(op[t]).commit = op[t].commit
      /\ LocalsOK(Failed(op[t]), prepared[t].status)
  BY TabFacts, FailedOK
<1>4. /\ Sound("endCatch", op[t], prepared[t].status, compensated)
      /\ Sound("endCatch", Failed(op[t]), prepared[t].status, compensated)
  BY <1>2, <1>3, TabFacts, EndCatchOK
<1>5. /\ GoesOn(At("endCatch", op[t]), pc[t], op[t], prepared[t].status, compensated)
      /\ GoesOn(At("endCatch", Failed(op[t])), pc[t], op[t], prepared[t].status, compensated)
  BY <1>2, <1>3, <1>4 DEF GoesOn, At, MintsOne, MintsTwo
<1>6. QED
  BY <1>1, <1>5, LocalStep DEF ReactivateVerify

LEMMA EndCatchInv ==
  ASSUME PublicationInv, NEW t \in Tabs, EndCatch(t)
  PROVE  PublicationInv'
<1>1. /\ pc[t] = "endCatch" /\ pc[t] \notin Waiting
      /\ Leave(t, op[t].failed) /\ NoGatewayChange /\ NoFault
      /\ UNCHANGED <<repositoryVars, acked>>
      /\ IF op[t].failed THEN UNCHANGED <<rejected, abandoned>>
         ELSE /\ rejected' = rejected \cup ({op[t].token} \ {Null})
              /\ abandoned' = abandoned \cup ({op[t].attempt} \ {Null})
  BY DEF EndCatch, Waiting
<1>2. /\ op[t].failed \in BOOLEAN /\ op[t].attempt \in Attempts \cup {Null}
      /\ op[t].token # Null /\ ~op[t].failed => op[t].token \in compensated
  BY <1>1, TabFacts DEF Sound, StageOK, After, Op
<1>3. /\ settled' \in [Tabs -> {"no", "tried", "yes"}]
      /\ recovery' \in [Tabs -> BOOLEAN]
  BY <1>1, <1>2 DEF Leave, Tried, PublicationInv, RestInv
<1>4. rejected' \subseteq compensated /\ abandoned' \subseteq Attempts
  BY <1>1, <1>2 DEF PublicationInv, RestInv
<1>5. OthersKept(t) /\ UNCHANGED compensated
  BY <1>1 DEF OthersKept, repositoryVars
<1>6. RestInv'
  BY <1>1, <1>3, <1>4, <1>5 DEF Leave, NoFault, PublicationInv, RestInv
<1>7. QED
  BY <1>1, <1>5, <1>6, EndStep DEF Leave

(* A hydrate that restores the previous revision goes on restoring it.      *)
LEMMA RestoreGoesOn ==
  ASSUME NEW to, NEW stage, NEW o, NEW h, NEW C, Free(to, o, h),
         stage \in Restore, to.stage \in Restore
  PROVE  GoesOn(to, stage, o, h, C)
BY DEF Free, Same, GoesOn, MintsOne, MintsTwo, Restore

LEMMA RestorePointerInv ==
  ASSUME PublicationInv, NEW t \in Tabs, RestorePointer(t)
  PROVE  PublicationInv'
<1>1. pc[t] = "restorePointer" /\ pc[t] \in Restore /\ pc[t] \notin Waiting /\ LocalOnly
  BY DEF RestorePointer, Waiting, Restore
<1>2. CASE Goto(t, At("restoreCompensate", op[t])) /\ NoFault
  <2>1. Free(At("restoreCompensate", op[t]), op[t], prepared[t].status)
    BY <1>1, TabFacts DEF Free, At, Same, Sound, StageOK, Stage, Early, Restore,
      Attempting, Reactivation, After, Publishing, ReplaceOnly
  <2>2. GoesOn(At("restoreCompensate", op[t]), pc[t], op[t], prepared[t].status, compensated)
    BY <1>1, <2>1, RestoreGoesOn DEF At, Restore
  <2>3. QED
    BY <1>1, <1>2, <2>2, LocalStep DEF Step
<1>3. CASE Leave(t, TRUE) /\ (NoFault \/ Fault("storageLost"))
  BY <1>1, <1>3, LeaveLocal
<1>4. QED
  BY <1>2, <1>3 DEF RestorePointer

LEMMA RestoreCompensateInv ==
  ASSUME PublicationInv, NEW t \in Tabs, RestoreCompensate(t)
  PROVE  PublicationInv'
<1> DEFINE k == op[t].saw.commitToken
           to == At("restoreStable", op[t])
<1>1. /\ pc[t] = "restoreCompensate" /\ pc[t] \in Restore /\ pc[t] \notin Waiting
      /\ NoGatewayChange /\ UNCHANGED historyVars
  BY DEF RestoreCompensate, Waiting, Restore
<1>2. Free(to, op[t], prepared[t].status)
  BY <1>1, TabFacts DEF Free, At, Same, Sound, StageOK, Stage, Early, Restore,
      Attempting, Reactivation, After, Publishing, ReplaceOnly
<1>3. /\ OthersKept(t) /\ UNCHANGED prepared /\ faults' \in Nat
      /\ Goto(t, to) \/ Leave(t, TRUE)
  BY FaultType DEF RestoreCompensate, CompensatePublication, OthersKept, repositoryVars,
                   PublicationInv
<1>4. CASE Goto(t, to)
  <2>1. GoesOn(to, pc[t], op[t], prepared'[t].status, compensated')
    BY <1>1, <1>2, <1>3, RestoreGoesOn DEF At, Restore
  <2>2. RestInv'
    BY <1>1, <1>3, <1>4, GotoRest DEF PublicationInv, OthersKept
  <2>3. QED
    BY <1>1, <1>3, <1>4, <2>1, <2>2, GotoMoves, TabStep DEF PublicationInv
<1>5. CASE Leave(t, TRUE)
  BY <1>1, <1>3, <1>5, LeaveStep
<1>6. QED
  BY <1>3, <1>4, <1>5

LEMMA RestoreStableInv ==
  ASSUME PublicationInv, NEW t \in Tabs, RestoreStable(t)
  PROVE  PublicationInv'
<1> DEFINE saw == op[t].saw
           stable == StablePointer(saw.previousRevisionId, saw.previousCommitToken)
           o == [NoOp EXCEPT !.kind = "hydrate", !.next = op[t].previous, !.saw = stable,
                             !.restoring = TRUE]
<1>1. pc[t] = "restoreStable" /\ pc[t] \notin Waiting /\ LocalOnly
  BY DEF RestoreStable, Waiting
<1>2. CASE Goto(t, At("prepareGateway", o)) /\ NoFault
  <2>1. op[t].previous # Null /\ op[t].previous \in Revision /\ ~op[t].restoring
        /\ saw \in StoredProjectPointer
    BY <1>1, TabFacts DEF Sound, StageOK, Restore, Op
  <2>2. stable \in StoredProjectPointer
    BY <2>1 DEF StablePointer, NoPointer, StoredProjectPointer
  <2> HIDE DEF stable
  <2>3. o \in Op
    BY <2>1, <2>2, NoOpType DEF Op
  <2>4. /\ o.kind = "hydrate" /\ o.token = Null /\ o.commit = "none" /\ ~o.attempted
        /\ o.winner = "no" /\ o.restoring /\ o.attempt = Null /\ o.next = op[t].previous
    BY <2>3, NoOpType DEF Op, NoOp
  <2> HIDE DEF o
  <2>5. Sound("prepareGateway", o, prepared[t].status, compensated)
    BY <2>1, <2>3, <2>4 DEF Sound, LocalsOK, StageOK, Stage, Early, Restore,
      Attempting, Reactivation, After, Publishing, ReplaceOnly
  <2>6. GoesOn(At("prepareGateway", o), pc[t], op[t], prepared[t].status, compensated)
    BY <1>1, <2>1, <2>4, <2>5 DEF GoesOn, At, MintsOne, MintsTwo
  <2>7. QED
    BY <1>1, <1>2, <2>6, LocalStep DEF Step
<1>3. CASE Leave(t, TRUE) /\ (NoFault \/ Fault("storageLost"))
  BY <1>1, <1>3, LeaveLocal
<1>4. QED
  BY <1>2, <1>3 DEF RestoreStable

LEMMA BackwardInv ==
  ASSUME RepositoryInv, PublicationInv, NEW t \in Tabs, Backward(t)
  PROVE  PublicationInv'
BY ReconcileInv, WithdrawInv, RollbackStatusInv, CheckInactiveInv, RollbackRuntimeInv,
   DiscardInv, CompensateInv, ReactivateInv, ReactivateSendInv, ReactivateVerifyInv,
   EndCatchInv, RestorePointerInv, RestoreCompensateInv, RestoreStableInv DEF Backward

-----------------------------------------------------------------------------
(* The drain, reloads, and the Gateway.                                    *)

LEMMA DrainInv ==
  ASSUME PublicationInv, NEW t \in Tabs, DrainStep(t)
  PROVE  PublicationInv'
<1>1. /\ cleanup' = [cleanup EXCEPT ![t] = Tail(@)] /\ cleanup[t] # <<>>
      /\ UNCHANGED <<pc, op, published, settled, recovery, historyVars>>
      /\ NoGatewayChange /\ NoFault
      /\ UNCHANGED <<prepared, compensated>>
      /\ \/ runtime' = [runtime EXCEPT ![t].previous = Null, ![t].open = FALSE]
         \/ UNCHANGED runtime
  BY DEF DrainStep, GarbageCollect, repositoryVars
<1>2. cleanup' \in [Tabs -> Seq(CleanupTask)]
  BY <1>1 DEF PublicationInv, RestInv
<1>3. runtime' \in [Tabs -> [active : Revision, previous : Revision, open : BOOLEAN]]
  <2> DEFINE R == [active : Revision, previous : Revision, open : BOOLEAN]
             done == [runtime[t] EXCEPT !.previous = Null, !.open = FALSE]
  <2>1. runtime \in [Tabs -> R] /\ runtime[t] \in R
    BY DEF PublicationInv, RestInv
  <2>2. done \in R
    BY <2>1 DEF Revision
  <2>3. UNCHANGED runtime \/ runtime' = [runtime EXCEPT ![t] = done]
    BY <1>1, <2>1
  <2> HIDE DEF done, R
  <2>4. runtime' \in [Tabs -> R]
    BY <2>1, <2>2, <2>3
  <2>5. QED
    BY <2>4 DEF R
<1>4. RestInv'
  BY <1>1, <1>2, <1>3 DEF PublicationInv, RestInv, historyVars, NoFault
<1>5. TabsInv' /\ QueueInv' /\ GatewayInv'
  BY <1>1 DEF PublicationInv, TabsInv, QueueInv, GatewayInv, NoGatewayChange
<1>6. BudgetInv'
  BY <1>1, BudgetKept DEF PublicationInv, NoGatewayChange
<1>7. QED
  BY <1>4, <1>5, <1>6 DEF PublicationInv

(* Requests that are no longer waited for stay in the queue as they are.   *)
LEMMA Abandoned ==
  ASSUME QueueInv, GatewayInv, UNCHANGED gateway,
         transitions' \in Seq(Request), Len(transitions') = Len(transitions),
         \A i \in 1..Len(transitions) :
             /\ transitions'[i].tab = transitions[i].tab
             /\ transitions'[i].kind = transitions[i].kind
             /\ transitions'[i].authority = transitions[i].authority
             /\ transitions'[i].waiting =>
                    transitions[i].waiting /\ pc'[transitions[i].tab] = pc[transitions[i].tab]
  PROVE  QueueInv' /\ GatewayInv'
<1>1. QueueInv'
  BY DEF QueueInv
<1>2. transitions # <<>> =>
         /\ transitions' # <<>>
         /\ Head(transitions').kind = Head(transitions).kind
         /\ Head(transitions').authority = Head(transitions).authority
  BY DEF QueueInv
<1>3. GatewayInv'
  BY <1>2 DEF GatewayInv
<1>4. QED
  BY <1>1, <1>3

LEMMA ReloadInv ==
  ASSUME PublicationInv, NEW t \in Tabs, Reload(t) \/ RecoveryReload(t)
  PROVE  PublicationInv'
<1>1. ReloadEffect(t) /\ faults' \in Nat
  BY FaultType DEF Reload, RecoveryReload, PublicationInv
<1>2. MovesTo(t, At("idle", NoOp)) /\ OthersKept(t)
      /\ UNCHANGED <<prepared, compensated, historyVars, gateway, lastAttempt>>
  BY <1>1 DEF ReloadEffect, MovesTo, At, OthersKept, repositoryVars
<1>3. GoesOn(At("idle", NoOp), pc[t], op[t], prepared'[t].status, compensated')
  BY IdleOK
<1>4. /\ TabsInv'
      /\ pc'[t] = "idle" /\ op'[t] = NoOp
      /\ \A u \in Tabs \ {t} : pc'[u] = pc[u] /\ op'[u] = op[u]
  BY <1>2, <1>3, TabsMove DEF GoesOn, At, PublicationInv
<1>5. RestInv'
  <2>1. NoRuntime \in [active : Revision, previous : Revision, open : BOOLEAN] /\ Null \in Revision
    BY DEF NoRuntime, Revision
  <2>2. /\ published' \in [Tabs -> Revision]
        /\ settled' \in [Tabs -> {"no", "tried", "yes"}]
        /\ recovery' \in [Tabs -> BOOLEAN]
        /\ runtime' \in [Tabs -> [active : Revision, previous : Revision, open : BOOLEAN]]
        /\ cleanup' \in [Tabs -> Seq(CleanupTask)]
    BY <1>1, <2>1 DEF ReloadEffect, PublicationInv, RestInv
  <2>3. QED
    BY <1>1, <1>2, <2>2 DEF PublicationInv, RestInv, historyVars
<1>6. BudgetInv'
  BY <1>2, <1>4, BudgetKept DEF PublicationInv, MintsOne, MintsTwo
<1>7. QueueInv' /\ GatewayInv'
  <2> DEFINE n == Len(transitions)
             f == [i \in 1..n |->
                      [transitions[i] EXCEPT !.waiting = @ /\ transitions[i].tab # t]]
  <2>1. n \in Nat /\ DOMAIN transitions = 1..n
    BY DEF PublicationInv, QueueInv
  <2>2. transitions' = f
    BY <1>1, <2>1 DEF ReloadEffect
  <2>3. \A i \in 1..n :
           /\ f[i] \in Request /\ f[i].tab = transitions[i].tab
           /\ f[i].kind = transitions[i].kind
           /\ f[i].authority = transitions[i].authority
           /\ f[i].waiting => transitions[i].waiting /\ transitions[i].tab # t
    <3>1. TAKE i \in 1..n
    <3>2. transitions[i] \in Request
      BY Queued DEF PublicationInv
    <3>3. QED
      BY <3>2 DEF Request
  <2>4. f \in [1..n -> Request]
    BY <2>3
  <2>5. f \in Seq(Request) /\ Len(f) = n
    BY <2>1, <2>4
  <2> HIDE DEF f
  <2>6. \A i \in 1..n : transitions[i].tab \in Tabs
    BY Queued DEF PublicationInv
  <2>7. QED
    BY <1>2, <1>4, <2>2, <2>3, <2>5, <2>6, Abandoned DEF PublicationInv
<1>8. QED
  BY <1>4, <1>5, <1>6, <1>7 DEF PublicationInv

(* The tab that waits for a request in the queue continues.                *)
LEMMA AnswerStep ==
  ASSUME PublicationInv, NEW i \in 1..Len(transitions), NEW answer \in Answers,
         Answer(transitions[i], answer), faults' \in Nat,
         UNCHANGED <<repositoryVars, historyVars, lastAttempt>>
  PROVE  /\ TabsInv' /\ RestInv' /\ BudgetInv'
         /\ \A u \in Tabs : ~(transitions[i].waiting /\ transitions[i].tab = u) => pc'[u] = pc[u]
<1> DEFINE q == transitions[i]
           t == q.tab
<1>1. q \in Request /\ t \in Tabs /\ UNCHANGED <<prepared, compensated>>
  BY Queued DEF PublicationInv, repositoryVars
<1>2. CASE q.waiting
  <2> DEFINE to == Answered(op[t], pc[t], answer)
  <2>1. pc[t] \in Waiting
    BY <1>2 DEF PublicationInv, QueueInv
  <2>2. GoesOn(to, pc[t], op[t], prepared[t].status, compensated)
    BY <1>1, <2>1, AnsweredOK, TabFacts
  <2>3. Goto(t, to)
    BY <1>2 DEF Answer
  <2> HIDE DEF to, q
  <2>4. MovesTo(t, to) /\ OthersKept(t)
    BY <1>1, <2>3 DEF MovesTo, Goto, OthersKept
  <2>5. /\ TabsInv'
        /\ pc'[t] = to.stage /\ op'[t] = to.op
        /\ \A u \in Tabs \ {t} : pc'[u] = pc[u] /\ op'[u] = op[u]
    BY <1>1, <2>2, <2>4, TabsMove DEF GoesOn, PublicationInv
  <2>6. RestInv'
    BY <1>1, <2>3, GotoRest DEF PublicationInv
  <2>7. BudgetInv'
    BY <1>1, <2>2, <2>5, BudgetKept DEF GoesOn, PublicationInv
  <2>8. QED
    BY <1>2, <2>5, <2>6, <2>7 DEF q
<1>3. CASE ~q.waiting
  <2>1. UNCHANGED tabVars
    BY <1>3 DEF Answer
  <2>2. TabsInv' /\ RestInv'
    BY <1>1, <2>1 DEF PublicationInv, TabsInv, RestInv, tabVars, historyVars
  <2>3. BudgetInv'
    BY <1>1, <2>1, BudgetKept DEF PublicationInv, tabVars
  <2>4. QED
    BY <2>1, <2>2, <2>3 DEF tabVars
<1>4. QED
  BY <1>2, <1>3

LEMMA QueueServed ==
  ASSUME QueueInv, transitions # <<>>, transitions' = Tail(transitions),
         \A u \in Tabs : ~(transitions[1].waiting /\ transitions[1].tab = u) => pc'[u] = pc[u]
  PROVE  QueueInv'
<1>1. /\ transitions' \in Seq(Request)
      /\ Len(transitions') = Len(transitions) - 1
      /\ Len(transitions) \in Nat /\ Len(transitions) > 0
      /\ \A i \in 1..Len(transitions') : transitions'[i] = transitions[i + 1]
  BY DEF QueueInv
<1>2. \A i \in 1..Len(transitions') :
         /\ i + 1 \in 1..Len(transitions) /\ i + 1 # 1
         /\ transitions[i + 1].tab \in Tabs
  BY <1>1, Queued
<1>3. 1 \in 1..Len(transitions)
  BY <1>1
<1>4. \A i \in 1..Len(transitions') :
         transitions'[i].waiting => pc'[transitions'[i].tab] \in Waiting
  BY <1>1, <1>2, <1>3 DEF QueueInv
<1>5. \A i, j \in 1..Len(transitions') :
         /\ transitions'[i].waiting /\ transitions'[j].waiting
         /\ transitions'[i].tab = transitions'[j].tab
         => i = j
  <2>1. TAKE i, j \in 1..Len(transitions')
  <2>2. /\ i + 1 \in 1..Len(transitions) /\ j + 1 \in 1..Len(transitions)
        /\ transitions'[i] = transitions[i + 1] /\ transitions'[j] = transitions[j + 1]
        /\ i \in Nat /\ j \in Nat
    BY <1>1, <1>2
  <2>3. /\ transitions[i + 1].waiting /\ transitions[j + 1].waiting
        /\ transitions[i + 1].tab = transitions[j + 1].tab
        => i + 1 = j + 1
    BY <2>2 DEF QueueInv
  <2>4. QED
    BY <2>2, <2>3
<1>6. QED
  BY <1>1, <1>4, <1>5 DEF QueueInv

LEMMA AuthorityType ==
  ASSUME NEW a \in Authority
  PROVE  a # Null
BY PublicationAssumption DEF Authority, Attempts

(* What a running transition may do to the authority and its phase.        *)
Promised == GatewayPromise!AuthorityNext \/ UNCHANGED gateway

(* The transition that runs: its request is at the head of the queue.      *)
LEMMA Running ==
  ASSUME QueueInv, transitions # <<>>
  PROVE  /\ 1 \in 1..Len(transitions) /\ Head(transitions) = transitions[1]
         /\ transitions[1] \in Request
BY Queued DEF QueueInv

LEMMA RespondStep ==
  ASSUME PublicationInv, transitions # <<>>, NEW answer \in Answers,
         NEW a \in Authority \cup {Null}, NEW p \in {"inactive", "active", "recovery-required"},
         Respond(answer, a, p) \/ (RespondFailed(a, p) /\ answer = "failed")
  PROVE  PublicationInv' /\ gateway' = [authority |-> a, phase |-> p]
<1>1. PICK given \in Answers :
         /\ gateway' = [authority |-> a, phase |-> p]
         /\ transitions' = Tail(transitions)
         /\ UNCHANGED <<repositoryVars, historyVars, lastAttempt>>
         /\ Answer(transitions[1], given) /\ faults' \in Nat
  BY Running, FaultType DEF Respond, RespondFailed, Answers, PublicationInv
<1>2. /\ TabsInv' /\ RestInv' /\ BudgetInv'
      /\ \A u \in Tabs : ~(transitions[1].waiting /\ transitions[1].tab = u) => pc'[u] = pc[u]
  BY <1>1, Running, AnswerStep DEF PublicationInv
<1>3. QueueInv'
  BY <1>1, <1>2, QueueServed DEF PublicationInv
<1>4. GatewayInv'
  BY <1>1 DEF GatewayInv
<1>5. QED
  BY <1>1, <1>2, <1>3, <1>4 DEF PublicationInv

LEMMA GatewayStepInv ==
  ASSUME PublicationInv, GatewayStep
  PROVE  PublicationInv' /\ Promised
<1> DEFINE q == Head(transitions)
<1>1. transitions # <<>>
  BY DEF GatewayStep, GatewayActivate, GatewayRefuseDeactivate, GatewayStartDeactivate,
         GatewayFinishDeactivate
<1>2. /\ q.authority \in Authority /\ q.kind \in {"activate", "deactivate"}
      /\ gateway.authority \in Authority \cup {Null}
      /\ gateway.phase \in {"inactive", "active", "deactivating", "recovery-required"}
      /\ gateway = [authority |-> gateway.authority, phase |-> gateway.phase]
  BY <1>1, Running, Requested DEF PublicationInv, GatewayInv
<1>3. q.authority # Null
  BY <1>2, AuthorityType
<1>4. gateway.phase = "deactivating" => q.kind = "deactivate" /\ gateway.authority = q.authority
  BY DEF PublicationInv, GatewayInv
<1> HIDE DEF q
<1>5. CASE GatewayActivate
  <2>1. q.kind = "activate" /\ gateway.phase # "deactivating"
    BY <1>4, <1>5 DEF GatewayActivate, q
  <2>2. CASE \/ Respond("failed", gateway.authority, gateway.phase)
             \/ Respond("conflict", gateway.authority, gateway.phase)
             \/ RespondFailed(gateway.authority, gateway.phase)
    BY <1>1, <1>2, <2>1, <2>2, RespondStep DEF Answers, Promised
  <2>3. CASE Respond("ok", q.authority, "active") /\ gateway.phase # "recovery-required"
    <3>1. PublicationInv' /\ gateway' = [authority |-> q.authority, phase |-> "active"]
      BY <1>1, <1>2, <2>3, RespondStep DEF Answers
    <3>2. GatewayPromise!Accept(q.authority)
      BY <1>2, <2>1, <2>3, <3>1 DEF GatewayPromise!Accept
    <3>3. QED
      BY <1>2, <3>1, <3>2 DEF Promised, GatewayPromise!AuthorityNext
  <2>4. CASE /\ RespondFailed(IF gateway.authority = Null THEN q.authority
                              ELSE gateway.authority, "recovery-required")
             /\ gateway.phase # "recovery-required"
    <3> DEFINE a == IF gateway.authority = Null THEN q.authority ELSE gateway.authority
    <3>1. a \in Authority \cup {Null}
      BY <1>2
    <3>2. PublicationInv' /\ gateway' = [authority |-> a, phase |-> "recovery-required"]
      BY <1>1, <2>4, <3>1, RespondStep DEF Answers
    <3>3. GatewayPromise!Break(q.authority)
      BY <1>2, <2>1, <2>4, <3>2 DEF GatewayPromise!Break
    <3>4. QED
      BY <1>2, <3>2, <3>3 DEF Promised, GatewayPromise!AuthorityNext
  <2>5. QED
    BY <1>5, <2>2, <2>3, <2>4 DEF GatewayActivate, q
<1>6. CASE GatewayRefuseDeactivate
  <2>1. gateway.phase # "deactivating" /\ Respond("conflict", gateway.authority, gateway.phase)
    BY <1>4, <1>6 DEF GatewayRefuseDeactivate, q
  <2>2. QED
    BY <1>1, <1>2, <2>1, RespondStep DEF Answers, Promised
<1>7. CASE GatewayStartDeactivate
  <2>1. /\ gateway' = [authority |-> gateway.authority, phase |-> "deactivating"]
        /\ gateway.authority = q.authority /\ q.kind = "deactivate"
        /\ UNCHANGED <<repositoryVars, historyVars, tabVars, transitions, lastAttempt, faults>>
    BY <1>2, <1>7 DEF GatewayStartDeactivate, q
  <2>2. GatewayInv'
    BY <1>1, <1>2, <2>1 DEF GatewayInv, q
  <2>3. TabsInv' /\ RestInv' /\ QueueInv'
    BY <2>1 DEF PublicationInv, TabsInv, RestInv, QueueInv, tabVars, historyVars, repositoryVars
  <2>4. BudgetInv'
    BY <2>1 DEF PublicationInv, BudgetInv, Busy, MintersOne, MintersTwo, tabVars
  <2>5. GatewayPromise!StartWithdraw
    BY <1>3, <2>1 DEF GatewayPromise!StartWithdraw
  <2>6. QED
    BY <2>2, <2>3, <2>4, <2>5 DEF PublicationInv, Promised, GatewayPromise!AuthorityNext
<1>8. CASE GatewayFinishDeactivate
  <2>1. gateway.authority # Null
    BY <1>3, <1>4, <1>8 DEF GatewayFinishDeactivate
  <2>2. CASE Respond("ok", Null, "inactive")
    <3>1. PublicationInv' /\ gateway' = [authority |-> Null, phase |-> "inactive"]
      BY <1>1, <2>2, RespondStep DEF Answers
    <3>2. GatewayPromise!Withdraw
      BY <2>1, <3>1 DEF GatewayPromise!Withdraw
    <3>3. QED
      BY <3>1, <3>2 DEF Promised, GatewayPromise!AuthorityNext
  <2>3. CASE RespondFailed(gateway.authority, "recovery-required")
    <3>1. /\ PublicationInv'
          /\ gateway' = [authority |-> gateway.authority, phase |-> "recovery-required"]
      BY <1>1, <1>2, <2>3, RespondStep DEF Answers
    <3>2. GatewayPromise!KeepForRetry
      BY <2>1, <3>1 DEF GatewayPromise!KeepForRetry
    <3>3. QED
      BY <3>1, <3>2 DEF Promised, GatewayPromise!AuthorityNext
  <2>4. QED
    BY <1>8, <2>2, <2>3 DEF GatewayFinishDeactivate
<1>9. QED
  BY <1>5, <1>6, <1>7, <1>8 DEF GatewayStep

LEMMA GatewayTimeoutInv ==
  ASSUME PublicationInv, GatewayTimeout
  PROVE  PublicationInv'
<1>1. PICK i \in DOMAIN transitions :
         /\ transitions' = [transitions EXCEPT ![i].waiting = FALSE]
         /\ Answer(transitions[i], "lost") /\ faults' \in Nat
         /\ UNCHANGED <<repositoryVars, historyVars, gateway, lastAttempt>>
  BY FaultType DEF GatewayTimeout, PublicationInv
<1> DEFINE n == Len(transitions)
           q == [transitions[i] EXCEPT !.waiting = FALSE]
<1>2. n \in Nat /\ DOMAIN transitions = 1..n /\ i \in 1..n /\ transitions \in Seq(Request)
  BY <1>1 DEF PublicationInv, QueueInv
<1>3. /\ TabsInv' /\ RestInv' /\ BudgetInv'
      /\ \A u \in Tabs : ~(transitions[i].waiting /\ transitions[i].tab = u) => pc'[u] = pc[u]
  BY <1>1, <1>2, AnswerStep DEF Answers
<1>4. transitions[i] \in Request
  BY <1>2, Queued DEF PublicationInv
<1>5. /\ q \in Request /\ q.tab = transitions[i].tab /\ q.kind = transitions[i].kind
      /\ q.authority = transitions[i].authority /\ ~q.waiting
  BY <1>4 DEF Request
<1>6. transitions' = [transitions EXCEPT ![i] = q]
  BY <1>1, <1>2
<1> HIDE DEF q
<1>7. /\ transitions' \in Seq(Request) /\ Len(transitions') = n
      /\ transitions'[i] = q
      /\ \A j \in 1..n : j # i => transitions'[j] = transitions[j]
  BY <1>2, <1>5, <1>6
<1>8. \A j \in 1..n : transitions[j].tab \in Tabs
  BY Queued DEF PublicationInv
<1>9. \A j \in 1..n : transitions'[j].waiting =>
         transitions[j].waiting /\ pc'[transitions[j].tab] = pc[transitions[j].tab]
  BY <1>2, <1>3, <1>5, <1>7, <1>8 DEF PublicationInv, QueueInv
<1>10. \A j \in 1..n :
          /\ transitions'[j].tab = transitions[j].tab
          /\ transitions'[j].kind = transitions[j].kind
          /\ transitions'[j].authority = transitions[j].authority
  BY <1>5, <1>7
<1>11. QueueInv' /\ GatewayInv'
  BY <1>1, <1>7, <1>9, <1>10, Abandoned DEF PublicationInv
<1>12. QED
  BY <1>3, <1>11 DEF PublicationInv

-----------------------------------------------------------------------------
(* The invariant, and the theorems.                                        *)

LEMMA PublicationInitInv == Init => PublicationInv
<1> SUFFICES ASSUME Init PROVE PublicationInv
  OBVIOUS
<1>1. Sound("idle", NoOp, "none", {})
  BY IdleOK DEF GoesOn, At
<1>2. TabsInv
  <2>1. \A t \in Tabs : prepared[t].status = "none" /\ compensated = {}
    BY DEF Init, RepositoryInit, NoPrepared, Tabs
  <2>2. pc \in [Tabs -> Stage] /\ op \in [Tabs -> Op]
    BY NoOpType DEF Init, Stage
  <2>3. QED
    BY <1>1, <2>1, <2>2 DEF TabsInv, Init
<1>3. RestInv
  <2>1. NoRuntime \in [active : Revision, previous : Revision, open : BOOLEAN] /\ Null \in Revision
    BY DEF NoRuntime, Revision
  <2>2. QED
    BY <2>1 DEF RestInv, Init
<1>4. BudgetInv
  <2>1. Busy = {} /\ MintersOne = {} /\ MintersTwo = {}
    BY DEF Init, Busy, MintersOne, MintersTwo, MintsOne, MintsTwo
  <2>2. QED
    BY <2>1, FS_EmptySet, PublicationAssumption DEF BudgetInv, Init
<1>5. QueueInv /\ GatewayInv
  BY DEF QueueInv, GatewayInv, NoGateway, Init
<1>6. QED
  BY <1>2, <1>3, <1>4, <1>5 DEF PublicationInv

LEMMA TabsKeepGateway ==
  ASSUME NEW t \in Tabs,
         \/ Begin(t) \/ Hydrate(t) \/ Forward(t) \/ Backward(t)
         \/ DrainStep(t) \/ Reload(t) \/ RecoveryReload(t)
  PROVE  UNCHANGED gateway
<1>1. CASE Forward(t)
  BY <1>1 DEF Forward, EmptyStatus, EmptyVerify, EmptyPointer, LoadPrevious, LoadTarget,
      PrepareGateway, Activate, Winner, Commit, CommitRuntime, PointerCheck, Verify, Finalize,
      FinalizeRead, Step, FaultStep, LocalOnly, NoGatewayChange, Send, Succeed
<1>2. CASE Backward(t)
  BY <1>2 DEF Backward, Reconcile, Rollback, RollbackStatus, RollbackRetry, RollbackTerminal,
      CheckInactive, RollbackRuntime, Discard, Compensate, Reactivate, ReactivateSend,
      ReactivateVerify, EndCatch, RestorePointer, RestoreCompensate, RestoreStable,
      Step, FaultStep, LocalOnly, NoGatewayChange, Send
<1>3. CASE Begin(t) \/ Hydrate(t) \/ DrainStep(t) \/ Reload(t) \/ RecoveryReload(t)
  BY <1>3 DEF Begin, Hydrate, DrainStep, Reload, RecoveryReload, ReloadEffect, Step, LocalOnly,
      NoGatewayChange
<1>4. QED
  BY SMTT(30), <1>1, <1>2, <1>3

LEMMA PublicationNextInv ==
  ASSUME RepositoryInv, PublicationInv, [Next]_vars
  PROVE  PublicationInv' /\ Promised
<1>1. CASE UNCHANGED vars
  <2>1. UNCHANGED <<repositoryVars, tabVars, historyVars, gateway, transitions, lastAttempt, faults>>
    BY <1>1 DEF vars
  <2>2. TabsInv' /\ RestInv' /\ QueueInv' /\ GatewayInv'
    BY <2>1 DEF PublicationInv, TabsInv, RestInv, QueueInv, GatewayInv, tabVars, historyVars,
                repositoryVars
  <2>3. BudgetInv'
    BY <2>1 DEF PublicationInv, BudgetInv, Busy, MintersOne, MintersTwo, tabVars
  <2>4. QED
    BY <2>1, <2>2, <2>3 DEF PublicationInv, Promised
<1>2. ASSUME NEW t \in Tabs,
             \/ Begin(t) \/ Hydrate(t) \/ Forward(t) \/ Backward(t)
             \/ DrainStep(t) \/ Reload(t) \/ RecoveryReload(t)
      PROVE  PublicationInv' /\ Promised
  <2>1. Promised
    BY <1>2, TabsKeepGateway DEF Promised
  <2>2. PublicationInv'
    BY <1>2, BeginInv, HydrateInv, ForwardInv, BackwardInv, DrainInv, ReloadInv
  <2>3. QED
    BY <2>1, <2>2
<1>3. CASE GatewayStep
  BY <1>3, GatewayStepInv
<1>4. CASE GatewayTimeout
  BY <1>4, GatewayTimeoutInv DEF GatewayTimeout, Promised
<1>5. QED
  BY <1>1, <1>2, <1>3, <1>4 DEF Next

LEMMA PublicationInvariant == Spec => []PublicationInv
<1>1. Init => PublicationInv
  BY PublicationInitInv
<1>2. RepositoryInv /\ PublicationInv /\ [Next]_vars => PublicationInv'
  BY PublicationNextInv
<1>3. QED
  BY <1>1, <1>2, PublicationKeepsRepository, PTL DEF Spec

(* Every local the code between two awaits relies on is there, whatever    *)
(* fails at whichever await (project-v5-publication.ts:601-610), and no    *)
(* operation mints more attempts than it was given.                        *)
THEOREM PublicationTypeCorrect == Spec => []PublicationTypeOK
<1>1. RepositoryInv /\ PublicationInv => PublicationTypeOK
  <2> SUFFICES ASSUME RepositoryInv, PublicationInv PROVE PublicationTypeOK
    OBVIOUS
  <2>1. RepositoryTypeOK /\ rejected \subseteq Tokens
    BY DEF RepositoryInv, RepositoryTypeOK, PublicationInv, RestInv
  <2>2. lastAttempt \in Attempts \cup {0}
    <3>1. MintersOne \subseteq Busy /\ MintersTwo \subseteq Busy
      BY DEF MintersOne, MintersTwo, MintsOne, MintsTwo, Busy
    <3>2. Cardinality(MintersOne) \in Nat /\ Cardinality(MintersTwo) \in Nat
      BY <3>1, FS_Subset, FS_CardinalityType DEF PublicationInv, BudgetInv
    <3>3. QED
      BY <3>2, PublicationAssumption DEF PublicationInv, BudgetInv, Attempts
  <2>3. \A i \in DOMAIN transitions : transitions[i] \in Request
    BY DEF PublicationInv, QueueInv
  <2>4. ASSUME NEW t \in Tabs, NEW i \in DOMAIN cleanup[t] PROVE cleanup[t][i] \in CleanupTask
    <3>1. cleanup[t] \in Seq(CleanupTask)
      BY DEF PublicationInv, RestInv
    <3>2. QED
      BY <3>1
  <2>5. QED
    BY <2>1, <2>2, <2>3, <2>4
       DEF PublicationTypeOK, PublicationInv, TabsInv, RestInv, GatewayInv
<1>2. QED
  BY <1>1, PublicationInvariant, PublicationKeepsRepository, PTL

(* A replace that rejected without asking for recovery left nothing        *)
(* durable: the caller who is told that nothing happened can believe it,   *)
(* with any number of tabs that roll interrupted commits forward and back  *)
(* (project-v5-publication.ts:655-683, 699-703).                           *)
THEOREM RejectedNeverDurable == Spec => []RejectedNotDurable
<1>1. RepositoryInv /\ PublicationInv => RejectedNotDurable
  <2> SUFFICES ASSUME RepositoryInv, PublicationInv PROVE RejectedNotDurable
    OBVIOUS
  <2>1. rejected \subseteq compensated /\ compensated \subseteq Tokens
    BY DEF PublicationInv, RestInv, RepositoryInv, RepositoryTypeOK
  <2>2. compensated \cap finalized = {}
    BY DEF RepositoryInv, TokensDecided, FinalizedNeverCompensated
  <2>3. pointer.commitToken \notin compensated
    <3>1. CASE pointer.state = "none"
      BY <2>1, <3>1, RepositoryAssumption DEF RepositoryInv, PointerShape, NoPointer
    <3>2. CASE pointer.state = "stable"
      BY <2>2, <3>2 DEF RepositoryInv, TokensDecided
    <3>3. CASE pointer.state = "publishing"
      BY <3>3 DEF RepositoryInv, TokensDecided
    <3>4. QED
      BY <3>1, <3>2, <3>3 DEF RepositoryInv, RepositoryTypeOK, StoredProjectPointer
  <2>4. QED
    BY <2>1, <2>2, <2>3 DEF RejectedNotDurable
<1>2. QED
  BY <1>1, PublicationInvariant, PublicationKeepsRepository, PTL

(* With every fault allowed, the Gateway the coordinators see changes its  *)
(* authority and phase only as GatewayAuthority lets it: the same promise  *)
(* GatewayActivation is proved to keep (main.ts:998-1086).                 *)
THEOREM PublicationAssumesPromise == Spec => GatewayFollowsAuthority
<1>1. Init => GatewayPromise!AuthorityInit
  BY DEF Init, NoGateway, GatewayPromise!AuthorityInit
<1>2. RepositoryInv /\ PublicationInv /\ [Next]_vars
        => [GatewayPromise!AuthorityNext]_(GatewayPromise!authorityVars)
  BY PublicationNextInv DEF Promised, GatewayPromise!authorityVars
<1>3. QED
  BY <1>1, <1>2, PublicationInvariant, PublicationKeepsRepository, PTL
     DEF Spec, GatewayFollowsAuthority, GatewayPromise!AuthoritySpec

-----------------------------------------------------------------------------
(* What the Gateway may still run of an operation, when no transition      *)
(* outlives the request for it.                                            *)

Backed == {"checkInactive", "rollbackRuntime", "discard", "compensate"} \cup After

(* The attempt was never sent, lost to a winner, or was taken back.        *)
Forgone(o) == o.attempt # Null /\ (~o.attempted \/ o.winner = "yes")
Withdrawn(stage, o) ==
    \/ Forgone(o)
    \/ o.attempt # Null /\ stage \in Backed /\ ~o.failed

Absent(authority, a) == authority = Null \/ authority.attempt # a

(* An attempt a nobody will abandon: it is no operation's own.             *)
Unowned(a) == a \notin abandoned /\ (\A u \in Tabs : op[u].attempt # a)

(* Its tab still waits for request q, which has the operation's attempt,   *)
(* unless it gives the previous publication back.                          *)
Awaited(q) ==
    /\ q.waiting
    /\ pc[q.tab] \in Waiting
    /\ q.kind = "activate" <=> pc[q.tab] \in {"activating", "reactivating"}
    /\ pc[q.tab] # "reactivating" => q.authority = Candidate(op[q.tab])
    /\ pc[q.tab] = "reactivating" => Unowned(q.authority.attempt)

(* Attempts are minted once.                                               *)
MintedInv ==
    /\ \A t \in Tabs : op[t].attempt # Null =>
           op[t].attempt \in 1..lastAttempt /\ op[t].attempt \notin abandoned
    /\ \A t, u \in Tabs : op[t].attempt # Null /\ op[t].attempt = op[u].attempt => t = u
    /\ abandoned \subseteq 1..lastAttempt

AwaitedInv ==
    \A i \in 1..Len(transitions) :
        /\ Awaited(transitions[i])
        /\ transitions[i].authority.attempt \in 1..lastAttempt

RunningInv ==
    /\ gateway.authority # Null =>
           gateway.authority.attempt \in (1..lastAttempt) \ abandoned
    /\ \A t \in Tabs :
           \/ Absent(gateway.authority, op[t].attempt)
           \/ gateway.authority = Candidate(op[t]) /\ ~Withdrawn(pc[t], op[t])
    /\ \A t \in Tabs : /\ pc[t] = "activate" => ~op[t].attempted
                       /\ pc[t] = "activating" => op[t].winner = "no"

AttemptsInv == MintedInv /\ AwaitedInv /\ RunningInv

(* The operation goes on at to: with its attempt or without any, which is  *)
(* no better withdrawn than the Gateway, or the operation so far, says.    *)
Onward(to, stage, o) ==
    /\ \/ to.op.attempt = Null
       \/ to.op.attempt = o.attempt /\ to.op.next = o.next
    /\ Withdrawn(to.stage, to.op) =>
           Withdrawn(stage, o) \/ Absent(gateway.authority, o.attempt)
    /\ to.stage \notin {"activate", "activating"}

(* As far as the code itself goes.                                         *)
Plainly(to, o) ==
    /\ to.op.attempt = o.attempt /\ to.op.next = o.next
    /\ Withdrawn(to.stage, to.op) => Forgone(o)
    /\ to.stage \notin {"activate", "activating"}

LEMMA PlainlyOnward ==
  ASSUME NEW to, NEW o, NEW stage, Plainly(to, o)
  PROVE  Onward(to, stage, o)
BY DEF Plainly, Onward, Withdrawn

LEMMA NoOpOnward ==
  ASSUME NEW stage, NEW o
  PROVE  Onward(At("idle", NoOp), stage, o)
BY DEF Onward, At, NoOp, Withdrawn, Forgone

Unbacked == Stage \ (Backed \cup {"activate", "activating"})

LEMMA UnbackedPlain ==
  ASSUME NEW o, NEW x, NEW s \in Unbacked, x.attempt = o.attempt, x.next = o.next,
         x.attempted = o.attempted, x.winner = "yes" => o.winner = "yes"
  PROVE  Plainly(At(s, x), o)
BY DEF Plainly, At, Withdrawn, Forgone, Unbacked

LEMMA FailedPlain ==
  ASSUME NEW o \in Op, NEW s \in Backed
  PROVE  Plainly(At(s, Failed(o)), o)
<1>1. /\ Failed(o).attempt = o.attempt /\ Failed(o).attempted = o.attempted
      /\ Failed(o).next = o.next /\ Failed(o).winner = o.winner /\ Failed(o).failed
  BY DEF Failed, Op
<1>2. s \notin {"activate", "activating"}
  BY DEF Backed, After, Reactivation
<1>3. QED
  BY <1>1, <1>2 DEF Plainly, At, Withdrawn, Forgone

LEMMA CatchRollbackPlain ==
  ASSUME NEW o \in Op
  PROVE  Plainly(CatchRollback(o), o)
<1>1. \/ ~o.attempted /\ CatchRollback(o) = At("rollbackRuntime", o)
      \/ CatchRollback(o) = At("rollback", o)
      \/ o.winner = "yes" /\ CatchRollback(o) = At("rollbackRuntime", o)
      \/ CatchRollback(o) = At("checkInactive", Failed(o))
  BY DEF CatchRollback, Failed
<1>2. Plainly(At("rollback", o), o)
  BY UnbackedPlain DEF Unbacked, Stage, Backed, After, Reactivation
<1>3. Plainly(At("checkInactive", Failed(o)), o)
  BY FailedPlain DEF Backed
<1>4. ~o.attempted \/ o.winner = "yes" => Plainly(At("rollbackRuntime", o), o)
  BY DEF Plainly, At, Withdrawn, Forgone
<1>5. QED
  BY <1>1, <1>2, <1>3, <1>4

LEMMA CatchPlain ==
  ASSUME NEW o \in Op
  PROVE  Plainly(Catch(o), o)
<1>1. Plainly(At("reconcile", o), o)
  BY UnbackedPlain DEF Unbacked, Stage, Backed, After, Reactivation
<1>2. QED
  BY <1>1, CatchRollbackPlain DEF Catch

(* gateway.rollback resolves: the caller has seen the attempt is gone.     *)
LEMMA RolledBackOnward ==
  ASSUME NEW o \in Op, NEW d, NEW stage, Absent(gateway.authority, o.attempt)
  PROVE  Onward(RolledBack(o, d), stage, o)
<1> DEFINE w == [o EXCEPT !.winner = "yes", !.disposition = "other-authority"]
           e == [o EXCEPT !.disposition = d]
<1>1. w.attempt = o.attempt /\ e.attempt = o.attempt /\ w.next = o.next /\ e.next = o.next
  BY DEF Op
<1>2. \/ RolledBack(o, d) = At("commitRuntime", w)
      \/ RolledBack(o, d) = At("checkInactive", e)
      \/ RolledBack(o, d) = At("rollbackRuntime", e)
  BY DEF RolledBack, AfterRollback
<1> HIDE DEF w, e
<1>3. QED
  BY <1>1, <1>2 DEF Onward, At

LEMMA RollbackThrewPlain ==
  ASSUME NEW o \in Op
  PROVE  Plainly(RollbackThrew(o), o)
<1> DEFINE w == [o EXCEPT !.winner = "no"]
<1>1. w.attempt = o.attempt /\ w.next = o.next /\ w.attempted = o.attempted /\ w.winner = "no"
  BY DEF Op
<1>2. \/ RollbackThrew(o) = At("rollback", w)
      \/ \E s \in Backed : RollbackThrew(o) = At(s, Failed(o))
  BY DEF RollbackThrew, AfterRollback, Failed, Backed
<1> HIDE DEF w
<1>3. Plainly(At("rollback", w), o)
  BY <1>1, UnbackedPlain DEF Unbacked, Stage, Backed, After, Reactivation
<1>4. QED
  BY <1>2, <1>3, FailedPlain

-----------------------------------------------------------------------------
(* A tab goes on, and the Gateway is as it was.                            *)

Onwards(t) ==
    /\ UNCHANGED <<gateway, transitions, abandoned>>
    /\ lastAttempt' \in {lastAttempt, lastAttempt + 1}
    /\ \E to : /\ pc' = [pc EXCEPT ![t] = to.stage] /\ op' = [op EXCEPT ![t] = to.op]
               /\ Onward(to, pc[t], op[t])

(* The requests of the other tabs, when t waits for none.                  *)
Unasked(t) == \A i \in 1..Len(transitions) : transitions[i].tab # t

LEMMA OthersAwaited ==
  ASSUME QueueInv, AwaitedInv, NEW t \in Tabs, pc[t] \notin Waiting \/ Unasked(t),
         NEW i \in 1..Len(transitions)
  PROVE  /\ transitions[i] \in Request /\ transitions[i].tab \in Tabs \ {t}
         /\ transitions[i].authority.attempt # Null
<1>1. transitions[i] \in Request /\ transitions[i].tab \in Tabs
  BY Queued
<1>2. Awaited(transitions[i])
  BY DEF AwaitedInv
<1>3. transitions[i].authority \in Authority
  BY <1>1, Requested
<1>4. transitions[i].authority.attempt # Null
  BY <1>3, PublicationAssumption DEF Authority, Attempts
<1>5. QED
  BY <1>1, <1>2, <1>4 DEF Awaited, Unasked

(* What the attempt of the tab, and those abandoned, may become.           *)
AttemptMoves(t) ==
    \/ op'[t].attempt = Null
    \/ op'[t].attempt = op[t].attempt /\ op'[t].next = op[t].next
    \/ op'[t].attempt = lastAttempt + 1 /\ lastAttempt' = lastAttempt + 1

AbandonMoves(t) ==
    \A a \in abandoned' :
        \/ a \in abandoned
        \/ /\ a = op[t].attempt /\ a # Null /\ op'[t].attempt = Null
           /\ Absent(gateway.authority, a)

RequestMoves ==
    \/ UNCHANGED transitions
    \/ \E q \in Request : /\ transitions' = Append(transitions, q)
                          /\ Awaited(q)' /\ q.authority.attempt \in 1..lastAttempt'

LEMMA TabKeeps ==
  ASSUME PublicationInv, AttemptsInv, NEW t \in Tabs, pc[t] \notin Waiting \/ Unasked(t),
         lastAttempt' \in {lastAttempt, lastAttempt + 1}, UNCHANGED gateway,
         \A u \in Tabs \ {t} : pc'[u] = pc[u] /\ op'[u] = op[u],
         AttemptMoves(t), AbandonMoves(t), RequestMoves,
         Withdrawn(pc'[t], op'[t]) => Absent(gateway.authority, op'[t].attempt),
         pc'[t] = "activate" => ~op'[t].attempted,
         pc'[t] = "activating" => op'[t].winner = "no"
  PROVE  AttemptsInv'
<1>1. /\ lastAttempt \in Nat /\ lastAttempt' \in Nat /\ Null \notin Nat
      /\ 1..lastAttempt \subseteq 1..lastAttempt' /\ lastAttempt + 1 \notin 1..lastAttempt
  BY PublicationAssumption DEF PublicationInv, BudgetInv
<1>2. MintedInv
  BY DEF AttemptsInv
<1>3. ASSUME NEW u \in Tabs, op'[u].attempt # Null
      PROVE  /\ op'[u].attempt \in 1..lastAttempt' /\ op'[u].attempt \notin abandoned'
             /\ op'[u].attempt = op[u].attempt \/ (u = t /\ op'[u].attempt = lastAttempt + 1)
  <2>1. op'[u].attempt = op[u].attempt \/ (u = t /\ op'[u].attempt = lastAttempt + 1)
    BY <1>3 DEF AttemptMoves
  <2>2. op'[u].attempt \in 1..lastAttempt'
    BY <1>1, <1>2, <1>3, <2>1 DEF MintedInv, AttemptMoves
  <2>3. op'[u].attempt \notin abandoned
    BY <1>1, <1>2, <1>3, <2>1 DEF MintedInv
  <2>4. op'[u].attempt \notin abandoned' \ abandoned
    BY <1>2, <1>3, <2>1 DEF MintedInv, AbandonMoves
  <2>5. QED
    BY <2>1, <2>2, <2>3, <2>4
<1>4. ASSUME NEW u \in Tabs, NEW v \in Tabs, op'[u].attempt # Null,
             op'[u].attempt = op'[v].attempt
      PROVE  u = v
  BY <1>1, <1>2, <1>3, <1>4 DEF MintedInv
<1>5. abandoned' \subseteq 1..lastAttempt'
  BY <1>1, <1>2 DEF MintedInv, AbandonMoves
<1>6. MintedInv'
  BY <1>3, <1>4, <1>5 DEF MintedInv
<1>7. AwaitedInv'
  <2>1. ASSUME NEW q \in Request, Awaited(q), q.tab \in Tabs \ {t},
               q.authority.attempt # Null, q.authority.attempt \in 1..lastAttempt
        PROVE  Awaited(q)' /\ q.authority.attempt \in 1..lastAttempt'
    <3>1. ASSUME Unowned(q.authority.attempt) PROVE Unowned(q.authority.attempt)'
      <4>1. q.authority.attempt \notin abandoned'
        BY <3>1 DEF Unowned, AbandonMoves
      <4>2. \A u \in Tabs : op'[u].attempt # q.authority.attempt
        BY <1>1, <1>3, <2>1, <3>1 DEF Unowned
      <4>3. QED
        BY <4>1, <4>2 DEF Unowned
    <3>2. pc'[q.tab] = pc[q.tab] /\ op'[q.tab] = op[q.tab]
      BY <2>1
    <3>3. Awaited(q)'
      BY <2>1, <3>1, <3>2 DEF Awaited, Candidate
    <3>4. QED
      BY <1>1, <2>1, <3>3
  <2>2. ASSUME NEW i \in 1..Len(transitions), NEW q, q = transitions[i]
        PROVE  Awaited(q)' /\ q.authority.attempt \in 1..lastAttempt'
    <3>1. q \in Request /\ q.tab \in Tabs \ {t} /\ q.authority.attempt # Null
      BY <2>2, OthersAwaited DEF PublicationInv, AttemptsInv
    <3>2. Awaited(q) /\ q.authority.attempt \in 1..lastAttempt
      BY <2>2 DEF AttemptsInv, AwaitedInv
    <3>3. QED
      BY <2>1, <3>1, <3>2
  <2>3. ASSUME NEW i \in 1..Len(transitions'), NEW q, q = transitions'[i]
        PROVE  Awaited(q)' /\ q.authority.attempt \in 1..lastAttempt'
    <3>1. transitions \in Seq(Request)
      BY DEF PublicationInv, QueueInv
    <3>2. CASE UNCHANGED transitions
      BY <2>2, <2>3, <3>2
    <3>3. CASE ~UNCHANGED transitions
      <4>1. PICK x \in Request : /\ transitions' = Append(transitions, x)
                                 /\ Awaited(x)' /\ x.authority.attempt \in 1..lastAttempt'
        BY <3>3 DEF RequestMoves
      <4>2. q = x \/ (i \in 1..Len(transitions) /\ q = transitions[i])
        BY <2>3, <3>1, <4>1
      <4>3. QED
        BY <2>2, <4>1, <4>2
    <3>4. QED
      BY <3>2, <3>3
  <2>4. QED
    BY <2>3 DEF AwaitedInv
<1>8. ASSUME NEW u \in Tabs, ~Absent(gateway.authority, op'[u].attempt)
      PROVE  gateway.authority = Candidate(op'[u]) /\ ~Withdrawn(pc'[u], op'[u])
  <2>1. \/ Absent(gateway.authority, op[u].attempt)
        \/ gateway.authority = Candidate(op[u]) /\ ~Withdrawn(pc[u], op[u])
    BY DEF AttemptsInv, RunningInv
  <2>2. CASE u # t
    BY <1>8, <2>1, <2>2
  <2>3. CASE u = t
    <3>1. op'[t].attempt \in 1..lastAttempt
      BY <1>8, <2>3 DEF Absent, AttemptsInv, RunningInv
    <3>2. op'[t].attempt = op[t].attempt /\ op'[t].next = op[t].next
      BY <1>1, <3>1 DEF AttemptMoves
    <3>3. QED
      BY <1>8, <2>1, <2>3, <3>2 DEF Candidate
  <2>4. QED
    BY <2>2, <2>3
<1>9. gateway.authority # Null => gateway.authority.attempt \in (1..lastAttempt') \ abandoned'
  BY <1>1 DEF AttemptsInv, RunningInv, AbandonMoves, Absent
<1>10. RunningInv'
  BY <1>8, <1>9 DEF AttemptsInv, RunningInv
<1>11. QED
  BY <1>6, <1>7, <1>10 DEF AttemptsInv

LEMMA OnwardsKeeps ==
  ASSUME PublicationInv, AttemptsInv, NEW t \in Tabs, pc[t] \notin Waiting \/ Unasked(t), Onwards(t)
  PROVE  AttemptsInv'
<1>1. PICK to : /\ pc' = [pc EXCEPT ![t] = to.stage] /\ op' = [op EXCEPT ![t] = to.op]
                /\ Onward(to, pc[t], op[t])
  BY DEF Onwards
<1>2. UNCHANGED <<gateway, transitions, abandoned>> /\ lastAttempt' \in {lastAttempt, lastAttempt + 1}
  BY DEF Onwards
<1>3. /\ pc'[t] = to.stage /\ op'[t] = to.op
      /\ \A u \in Tabs \ {t} : pc'[u] = pc[u] /\ op'[u] = op[u]
  BY <1>1 DEF PublicationInv, TabsInv
<1>4. AttemptMoves(t) /\ AbandonMoves(t) /\ RequestMoves
  BY <1>1, <1>2, <1>3 DEF AttemptMoves, AbandonMoves, RequestMoves, Onward
<1>5. Withdrawn(pc'[t], op'[t]) => Absent(gateway.authority, op'[t].attempt)
  <2>1. Withdrawn(pc[t], op[t]) => Absent(gateway.authority, op[t].attempt)
    BY DEF AttemptsInv, RunningInv
  <2>2. QED
    BY <1>1, <1>3, <2>1 DEF Onward, Withdrawn, Forgone
<1>6. pc'[t] \notin {"activate", "activating"}
  BY <1>1, <1>3 DEF Onward
<1>7. QED
  BY <1>2, <1>3, <1>4, <1>5, <1>6, TabKeeps

(* The ways a tab goes on.                                                 *)
LEMMA LocalOnwards ==
  ASSUME NEW t \in Tabs, NEW to, NEW class,
         Step(t, to) \/ FaultStep(t, class, to), Onward(to, pc[t], op[t])
  PROVE  Onwards(t)
BY DEF Step, FaultStep, Goto, LocalOnly, NoGatewayChange, historyVars, Onwards

LEMMA PlainOnwards ==
  ASSUME NEW t \in Tabs, NEW to, NEW class,
         Step(t, to) \/ FaultStep(t, class, to), Plainly(to, op[t])
  PROVE  Onwards(t)
BY PlainlyOnward, LocalOnwards

LEMMA GotoOnwards ==
  ASSUME NEW t \in Tabs, NEW to, Goto(t, to), NoGatewayChange, UNCHANGED abandoned,
         Onward(to, pc[t], op[t])
  PROVE  Onwards(t)
BY DEF Goto, NoGatewayChange, Onwards

LEMMA EndOnwards ==
  ASSUME NEW t \in Tabs, pc' = [pc EXCEPT ![t] = "idle"], op' = [op EXCEPT ![t] = NoOp],
         NoGatewayChange, UNCHANGED abandoned
  PROVE  Onwards(t)
<1>1. /\ At("idle", NoOp).stage = "idle" /\ At("idle", NoOp).op = NoOp
      /\ Onward(At("idle", NoOp), pc[t], op[t])
  BY NoOpOnward DEF At
<1>2. QED
  BY <1>1 DEF NoGatewayChange, Onwards

(* The start of a tab's operation.                                         *)
LEMMA FreshOnward ==
  ASSUME NEW s \in Stage \ {"activate", "activating"}, NEW o, NEW x, NEW stage, x.attempt = Null
  PROVE  Onward(At(s, x), stage, o)
BY DEF Onward, At, Withdrawn, Forgone

LEMMA LeaveOnwards ==
  ASSUME NEW t \in Tabs, NEW r, Leave(t, r), LocalOnly
  PROVE  Onwards(t)
BY EndOnwards DEF Leave, LocalOnly, historyVars

LEMMA BackedOnward ==
  ASSUME NEW o, NEW s \in Backed, NEW stage \in Backed
  PROVE  Onward(At(s, o), stage, o)
BY DEF Onward, At, Withdrawn, Backed, After, Reactivation

LEMMA AfterRepositoryOnward ==
  ASSUME NEW o \in Op, NEW stage \in Backed
  PROVE  /\ Onward(AfterRepository(o), stage, o)
         /\ Onward(AfterRepository(Failed(o)), stage, o)
<1>1. \A x : \E s \in Backed : AfterRepository(x) = At(s, x)
  BY DEF AfterRepository, Backed, After, Reactivation
<1>2. QED
  BY <1>1, BackedOnward, FailedPlain, PlainlyOnward

LEMMA BeginOnwards ==
  ASSUME PublicationInv, NEW t \in Tabs, Begin(t) \/ Hydrate(t)
  PROVE  Onwards(t)
<1>1. CASE Begin(t)
  <2>1. PICK r \in RevisionIds :
           Goto(t, At("prepareGateway",
               [NoOp EXCEPT !.kind = "replace", !.next = r, !.previous = published[t]]))
    BY <1>1 DEF Begin
  <2> DEFINE o == [NoOp EXCEPT !.kind = "replace", !.next = r, !.previous = published[t]]
  <2>2. o.attempt = Null
    BY DEF NoOp
  <2> HIDE DEF o
  <2>3. Onward(At("prepareGateway", o), pc[t], op[t])
    BY <2>2, FreshOnward DEF Stage
  <2>4. QED
    BY <1>1, <2>1, <2>3, GotoOnwards DEF Begin, historyVars, o
<1>2. CASE Hydrate(t)
  <2> DEFINE o == [NoOp EXCEPT !.kind = "hydrate", !.saw = pointer, !.next = pointer.revisionId]
  <2>1. PICK s \in {"emptyStatus", "loadPrevious", "loadTarget"} : Step(t, At(s, o))
    BY <1>2 DEF Hydrate
  <2>2. o.attempt = Null
    BY DEF NoOp
  <2> HIDE DEF o
  <2>3. Onward(At(s, o), pc[t], op[t])
    BY <2>2, FreshOnward DEF Stage
  <2>4. QED
    BY <2>1, <2>3, LocalOnwards
<1>3. QED
  BY <1>1, <1>2

LEMMA EmptyOnwards ==
  ASSUME PublicationInv, NEW t \in Tabs, EmptyStatus(t) \/ EmptyVerify(t) \/ EmptyPointer(t)
  PROVE  Onwards(t)
<1>1. \A s \in {"emptyVerify", "emptyPointer"} : Plainly(At(s, op[t]), op[t])
  BY UnbackedPlain DEF Unbacked, Stage, Backed, After, Reactivation
<1>2. CASE /\ pc' = [pc EXCEPT ![t] = "emptyVerify"] /\ UNCHANGED op
           /\ NoGatewayChange /\ UNCHANGED historyVars
  <2>1. op' = [op EXCEPT ![t] = At("emptyVerify", op[t]).op]
    BY <1>2 DEF At, PublicationInv, TabsInv
  <2>2. QED
    BY <1>1, <1>2, <2>1, PlainlyOnward DEF Onwards, At, NoGatewayChange, historyVars
<1>3. CASE Goto(t, At("emptyPointer", op[t])) /\ LocalOnly
  BY <1>1, <1>3, PlainlyOnward, GotoOnwards DEF LocalOnly, historyVars
<1>4. CASE EmptyFailed(t) /\ LocalOnly
  BY <1>4, EndOnwards DEF EmptyFailed, LocalOnly, historyVars
<1>5. CASE /\ pc' = [pc EXCEPT ![t] = "idle"] /\ op' = [op EXCEPT ![t] = NoOp] /\ LocalOnly
  BY <1>5, EndOnwards DEF LocalOnly, historyVars
<1>6. CASE Leave(t, TRUE) /\ LocalOnly
  BY <1>6, LeaveOnwards
<1>7. QED
  BY <1>2, <1>3, <1>4, <1>5, <1>6 DEF EmptyStatus, EmptyVerify, EmptyPointer, LocalOnly

LEMMA LoadOnwards ==
  ASSUME PublicationInv, NEW t \in Tabs, LoadPrevious(t) \/ LoadTarget(t)
  PROVE  Onwards(t)
<1> DEFINE o == [op[t] EXCEPT !.previous = op[t].saw.previousRevisionId]
<1>1. /\ o.attempt = op[t].attempt /\ o.next = op[t].next
      /\ o.attempted = op[t].attempted /\ o.winner = op[t].winner
  BY TabFacts DEF Op
<1>2. LocalOnly
  BY DEF LoadPrevious, LoadTarget
<1>3. CASE Leave(t, TRUE)
  BY <1>2, <1>3, LeaveOnwards
<1>4. CASE Goto(t, At("loadTarget", o))
  <2> HIDE DEF o
  <2>1. Plainly(At("loadTarget", o), op[t])
    BY <1>1, UnbackedPlain DEF Unbacked, Stage, Backed, After, Reactivation
  <2>2. QED
    BY <1>2, <1>4, <2>1, PlainlyOnward, GotoOnwards DEF LocalOnly, historyVars
<1>5. CASE Goto(t, At("prepareGateway", op[t])) \/ Goto(t, At("restorePointer", op[t]))
  <2>1. \A s \in {"prepareGateway", "restorePointer"} : Plainly(At(s, op[t]), op[t])
    BY UnbackedPlain DEF Unbacked, Stage, Backed, After, Reactivation
  <2>2. QED
    BY <1>2, <1>5, <2>1, PlainlyOnward, GotoOnwards DEF LocalOnly, historyVars
<1>6. QED
  BY <1>3, <1>4, <1>5 DEF LoadPrevious, LoadTarget, LoadFailed

LEMMA AttemptOnwards ==
  ASSUME PublicationInv, NEW t \in Tabs,
         Winner(t) \/ Commit(t) \/ CommitRuntime(t)
  PROVE  Onwards(t)
<1>1. op[t] \in Op
  BY TabFacts
<1>2. CASE Winner(t)
  <2> DEFINE o == [op[t] EXCEPT !.winner = "converging"]
  <2>1. /\ o.attempt = op[t].attempt /\ o.next = op[t].next
        /\ o.attempted = op[t].attempted /\ o.winner = "converging"
    BY <1>1 DEF Op
  <2>2. \/ Step(t, At("rollback", o)) \/ Step(t, Catch(op[t]))
        \/ FaultStep(t, "gatewayLost", Catch(op[t]))
    BY <1>2 DEF Winner
  <2> HIDE DEF o
  <2>3. Plainly(At("rollback", o), op[t])
    BY SMTT(30), <2>1, UnbackedPlain DEF Unbacked, Stage, Backed, After, Reactivation
  <2>4. QED
    BY <1>1, <2>2, <2>3, CatchPlain, PlainOnwards
<1>3. CASE Commit(t)
  <2>1. PICK k \in FreshTokens :
          LET x == [op[t] EXCEPT !.token = k, !.commit = "started"]
          IN  Goto(t, At("commitRuntime", [x EXCEPT !.commit = "yes"])) \/ Goto(t, Catch(x))
    BY <1>3 DEF Commit
  <2> DEFINE x == [op[t] EXCEPT !.token = k, !.commit = "started"]
             y == [x EXCEPT !.commit = "yes"]
  <2>2. /\ x \in Op /\ x.attempt = op[t].attempt /\ x.attempted = op[t].attempted
        /\ x.winner = op[t].winner /\ x.next = op[t].next /\ y.next = op[t].next
        /\ y.attempt = op[t].attempt /\ y.attempted = op[t].attempted
        /\ y.winner = op[t].winner
    BY <1>1 DEF Op, FreshTokens
  <2>3. Goto(t, At("commitRuntime", y)) \/ Goto(t, Catch(x))
    BY <2>1
  <2> HIDE DEF x, y
  <2>4. Plainly(At("commitRuntime", y), op[t])
    BY <2>2, UnbackedPlain DEF Unbacked, Stage, Backed, After, Reactivation
  <2>5. Plainly(Catch(x), op[t])
    BY <2>2, CatchPlain DEF Plainly, Forgone
  <2>6. QED
    BY ZenonT(30), <1>3, <2>3, <2>4, <2>5, PlainlyOnward, GotoOnwards DEF Commit, historyVars
<1>4. CASE CommitRuntime(t)
  <2> DEFINE o == [op[t] EXCEPT !.transition = TRUE, !.activated = op[t].kind = "hydrate"]
             s == IF op[t].kind = "replace" THEN "verify" ELSE "pointerCheck"
  <2>1. /\ o.attempt = op[t].attempt /\ o.next = op[t].next
        /\ o.attempted = op[t].attempted /\ o.winner = op[t].winner
    BY <1>1 DEF Op
  <2>2. \/ FaultStep(t, "runtimeFailed", Catch(op[t]))
        \/ /\ pc' = [pc EXCEPT ![t] = s]
           /\ op' = [op EXCEPT ![t] = o]
           /\ LocalOnly
    BY <1>4 DEF CommitRuntime, PublicationInv, TabsInv
  <2>3. s \in {"verify", "pointerCheck"}
    OBVIOUS
  <2> HIDE DEF o, s
  <2>4. Plainly(At(s, o), op[t])
    BY <2>1, <2>3, UnbackedPlain DEF Unbacked, Stage, Backed, After, Reactivation
  <2>5. CASE pc' = [pc EXCEPT ![t] = s] /\ op' = [op EXCEPT ![t] = o] /\ LocalOnly
    BY <2>4, <2>5, PlainlyOnward DEF Onwards, At, LocalOnly, NoGatewayChange, historyVars
  <2>6. QED
    BY <1>1, <2>2, <2>5, CatchPlain, PlainOnwards
<1>5. QED
  BY <1>2, <1>3, <1>4

LEMMA SucceedOnwards ==
  ASSUME NEW t \in Tabs, NEW tokens, Succeed(t, tokens)
  PROVE  Onwards(t)
BY EndOnwards DEF Succeed

LEMMA CheckOnwards ==
  ASSUME PublicationInv, NEW t \in Tabs, PointerCheck(t) \/ Verify(t)
  PROVE  Onwards(t)
<1>1. /\ \A s \in {"verify", "finalize"} : Plainly(At(s, op[t]), op[t])
      /\ Plainly(Catch(op[t]), op[t]) /\ Plainly(CatchRollback(op[t]), op[t])
  BY TabFacts, CatchPlain, CatchRollbackPlain, UnbackedPlain
     DEF Unbacked, Stage, Backed, After, Reactivation
<1>2. \/ Succeed(t, {})
      \/ Step(t, At("verify", op[t])) \/ Step(t, At("finalize", op[t]))
      \/ Step(t, CatchRollback(op[t])) \/ FaultStep(t, "storageLost", CatchRollback(op[t]))
      \/ Step(t, Catch(op[t])) \/ FaultStep(t, "gatewayLost", Catch(op[t]))
  BY DEF PointerCheck, Verify
<1>3. QED
  BY <1>1, <1>2, SucceedOnwards, PlainOnwards

LEMMA FinalizeOnwards ==
  ASSUME PublicationInv, NEW t \in Tabs, Finalize(t) \/ FinalizeRead(t)
  PROVE  Onwards(t)
<1>1. op[t] \in Op
  BY TabFacts
<1>2. /\ Failed(op[t]) \in Op /\ Failed(op[t]).attempt = op[t].attempt
      /\ Failed(op[t]).attempted = op[t].attempted /\ Failed(op[t]).winner = op[t].winner
      /\ Failed(op[t]).next = op[t].next
  BY <1>1 DEF Op, Failed
<1>3. Plainly(CatchRollback(Failed(op[t])), Failed(op[t]))
  BY <1>2, CatchRollbackPlain
<1>4. /\ Plainly(At("finalizeRead", op[t]), op[t])
      /\ Plainly(Catch(op[t]), op[t])
      /\ Plainly(CatchRollback(Failed(op[t])), op[t])
  BY <1>1, <1>2, <1>3, CatchPlain, UnbackedPlain
     DEF Unbacked, Stage, Backed, After, Reactivation, Plainly, Forgone
<1>5. \/ Succeed(t, Acknowledged(op[t]))
      \/ Goto(t, At("finalizeRead", op[t])) /\ NoGatewayChange /\ UNCHANGED historyVars
      \/ Step(t, At("finalizeRead", op[t])) \/ FaultStep(t, "storageLost", At("finalizeRead", op[t]))
      \/ Step(t, Catch(op[t])) \/ Step(t, CatchRollback(Failed(op[t])))
      \/ FaultStep(t, "storageLost", Catch(op[t]))
      \/ Leave(t, TRUE) /\ LocalOnly
  BY DEF Finalize, FinalizeRead
<1>6. CASE Goto(t, At("finalizeRead", op[t])) /\ NoGatewayChange /\ UNCHANGED historyVars
  BY <1>4, <1>6, PlainlyOnward, GotoOnwards DEF historyVars
<1>7. QED
  BY <1>4, <1>5, <1>6, SucceedOnwards, PlainOnwards, LeaveOnwards

LEMMA ReconcileOnwards ==
  ASSUME PublicationInv, NEW t \in Tabs, Reconcile(t)
  PROVE  Onwards(t)
<1> DEFINE o == op[t]
           yes == [o EXCEPT !.commit = "yes"]
           noEffect == [o EXCEPT !.commit = "noEffect"]
           unknown == Failed([o EXCEPT !.commit = "unknown"])
           X == {yes, noEffect, unknown}
<1>1. \A x \in X : /\ x \in Op /\ x.attempt = o.attempt /\ x.attempted = o.attempted
                   /\ x.winner = o.winner /\ x.next = o.next
  <2>1. o \in Op
    BY TabFacts
  <2>2. /\ yes \in Op /\ yes.attempt = o.attempt /\ yes.attempted = o.attempted
        /\ yes.winner = o.winner /\ yes.next = o.next
    BY <2>1 DEF Op
  <2>3. /\ noEffect \in Op /\ noEffect.attempt = o.attempt /\ noEffect.attempted = o.attempted
        /\ noEffect.winner = o.winner /\ noEffect.next = o.next
    BY <2>1 DEF Op
  <2>4. /\ unknown \in Op /\ unknown.attempt = o.attempt /\ unknown.attempted = o.attempted
        /\ unknown.winner = o.winner /\ unknown.next = o.next
    BY <2>1 DEF Op, Failed
  <2>5. QED
    BY <2>2, <2>3, <2>4
<1>2. \/ Step(t, CatchRollback(yes)) \/ Step(t, CatchRollback(noEffect))
      \/ Step(t, CatchRollback(unknown))
      \/ FaultStep(t, "storageLost", CatchRollback(unknown))
  BY DEF Reconcile
<1> HIDE DEF yes, noEffect, unknown
<1>3. \A x \in X : Plainly(CatchRollback(x), o)
  BY <1>1, CatchRollbackPlain DEF Plainly, Forgone
<1>4. QED
  BY <1>2, <1>3, PlainOnwards

LEMMA StatusOnwards ==
  ASSUME PublicationInv, AttemptsInv, NEW t \in Tabs, RollbackStatus(t) \/ RollbackTerminal(t)
  PROVE  Onwards(t)
<1> DEFINE o == op[t]
           c == Candidate(o)
<1>1. o \in Op
  BY TabFacts
<1>2. \/ (\E d : Step(t, RolledBack(o, d))) /\ gateway.authority # c
      \/ \E class : Step(t, RollbackThrew(o)) \/ FaultStep(t, class, RollbackThrew(o))
      \/ Step(t, At("rollbackRetry", o))
  <2>0. StatusInactive => gateway.authority # c
    <3>1. op[t].attempted
      BY TabFacts DEF RollbackStatus, RollbackTerminal, Sound, StageOK, Attempting
    <3>2. op[t].attempt # Null /\ op[t].next # Null
      BY <3>1, TabFacts DEF LocalsOK
    <3>3. c \in Authority
      BY <3>2, CandidateType
    <3>4. QED
      BY <3>3, AuthorityType DEF StatusInactive
  <2> HIDE DEF o, c
  <2>1. CASE RollbackStatus(t)
    <3>1. \/ StatusInactive /\ \E d : Step(t, RolledBack(o, d))
          \/ gateway.authority # c /\ \E d : Step(t, RolledBack(o, d))
          \/ Step(t, IF gateway.phase = "recovery-required" THEN RollbackThrew(o)
                     ELSE At("rollbackRetry", o))
          \/ FaultStep(t, "gatewayLost", RollbackThrew(o))
      BY <2>1, Zenon DEF RollbackStatus, o, c
    <3>2. QED
      BY <2>0, <3>1
  <2>2. CASE RollbackTerminal(t)
    <3>1. \/ StatusInactive /\ \E d : Step(t, RolledBack(o, d))
          \/ gateway.authority # c /\ \E d : Step(t, RolledBack(o, d))
          \/ Step(t, RollbackThrew(o)) \/ FaultStep(t, "gatewayLost", RollbackThrew(o))
      BY <2>2, Zenon DEF RollbackTerminal, o, c
    <3>2. QED
      BY <2>0, <3>1
  <2>3. QED
    BY <2>1, <2>2
<1>3. Plainly(RollbackThrew(o), o) /\ Plainly(At("rollbackRetry", o), o)
  BY <1>1, RollbackThrewPlain, UnbackedPlain DEF Unbacked, Stage, Backed, After, Reactivation
<1>4. CASE (\E d : Step(t, RolledBack(o, d))) /\ gateway.authority # c
  <2>1. Absent(gateway.authority, o.attempt)
    BY <1>4 DEF AttemptsInv, RunningInv
  <2>2. PICK d : Step(t, RolledBack(o, d))
    BY <1>4
  <2>3. Onward(RolledBack(o, d), pc[t], o)
    BY <1>1, <2>1, RolledBackOnward
  <2>4. QED
    BY <2>2, <2>3, LocalOnwards
<1>5. QED
  BY <1>2, <1>3, <1>4, PlainOnwards

LEMMA CheckInactiveOnwards ==
  ASSUME PublicationInv, NEW t \in Tabs, CheckInactive(t)
  PROVE  Onwards(t)
<1>1. Onward(At("rollbackRuntime", op[t]), pc[t], op[t])
  BY BackedOnward DEF Backed, CheckInactive
<1>2. Plainly(At("rollbackRuntime", Failed(op[t])), op[t])
  BY TabFacts, FailedPlain DEF Backed
<1>3. QED
  BY <1>1, <1>2, LocalOnwards, PlainOnwards DEF CheckInactive

LEMMA RepositoryOnwards ==
  ASSUME PublicationInv, NEW t \in Tabs, Discard(t) \/ Compensate(t)
  PROVE  Onwards(t)
<1>1. pc[t] \in Backed
  BY DEF Discard, Compensate, Backed
<1>2. \A x \in {op[t], Failed(op[t])} : Onward(AfterRepository(x), pc[t], op[t])
  BY <1>1, TabFacts, AfterRepositoryOnward
<1>3. \E x \in {op[t], Failed(op[t])} :
         \/ Goto(t, AfterRepository(x)) /\ NoGatewayChange /\ UNCHANGED historyVars
         \/ Step(t, AfterRepository(x))
         \/ FaultStep(t, "storageLost", AfterRepository(x))
  BY DEF Discard, Compensate
<1>4. PICK x \in {op[t], Failed(op[t])} :
         \/ Goto(t, AfterRepository(x)) /\ NoGatewayChange /\ UNCHANGED historyVars
         \/ Step(t, AfterRepository(x))
         \/ FaultStep(t, "storageLost", AfterRepository(x))
  BY <1>3
<1>5. Onward(AfterRepository(x), pc[t], op[t])
  BY <1>2
<1>6. QED
  BY <1>4, <1>5, GotoOnwards, LocalOnwards DEF historyVars

LEMMA ReactivateOnwards ==
  ASSUME PublicationInv, NEW t \in Tabs, Reactivate(t) \/ ReactivateVerify(t)
  PROVE  Onwards(t)
<1>1. \A s \in {"reactivateSend", "endCatch"} : Onward(At(s, op[t]), pc[t], op[t])
  BY BackedOnward DEF Backed, After, Reactivation, Reactivate, ReactivateVerify
<1>2. Plainly(At("endCatch", Failed(op[t])), op[t])
  BY TabFacts, FailedPlain DEF Backed, After
<1>3. \/ Step(t, At("reactivateSend", op[t])) \/ Step(t, At("endCatch", op[t]))
      \/ Step(t, At("endCatch", Failed(op[t])))
      \/ FaultStep(t, "gatewayLost", At("endCatch", Failed(op[t])))
  BY DEF Reactivate, ReactivateVerify
<1>4. QED
  BY <1>1, <1>2, <1>3, LocalOnwards, PlainOnwards

LEMMA RestoreOnwards ==
  ASSUME PublicationInv, NEW t \in Tabs,
         RestorePointer(t) \/ RestoreCompensate(t) \/ RestoreStable(t)
  PROVE  Onwards(t)
<1> DEFINE o == [NoOp EXCEPT !.kind = "hydrate", !.next = op[t].previous,
                   !.saw = StablePointer(op[t].saw.previousRevisionId, op[t].saw.previousCommitToken),
                   !.restoring = TRUE]
<1>1. o.attempt = Null
  BY DEF NoOp
<1>2. NoGatewayChange /\ UNCHANGED historyVars
  BY DEF RestorePointer, RestoreCompensate, RestoreStable, LocalOnly
<1>3. \/ \E s \in {"restoreCompensate", "restoreStable"} : Goto(t, At(s, op[t]))
      \/ Goto(t, At("prepareGateway", o))
      \/ Leave(t, TRUE)
  BY DEF RestorePointer, RestoreCompensate, RestoreStable
<1> HIDE DEF o
<1>4. Onward(At("prepareGateway", o), pc[t], op[t])
  BY <1>1, FreshOnward DEF Stage
<1>5. \A s \in {"restoreCompensate", "restoreStable"} : Onward(At(s, op[t]), pc[t], op[t])
  BY UnbackedPlain, PlainlyOnward DEF Unbacked, Stage, Backed, After, Reactivation
<1>6. CASE Leave(t, TRUE)
  BY <1>2, <1>6, EndOnwards DEF Leave, historyVars
<1>7. QED
  BY <1>2, <1>3, <1>4, <1>5, <1>6, GotoOnwards DEF historyVars

(* A step that leaves the tab where it was idle.                           *)
LEMMA DrainOnwards ==
  ASSUME PublicationInv, NEW t \in Tabs, DrainStep(t)
  PROVE  Onwards(t)
<1>1. Onward(At(pc[t], op[t]), pc[t], op[t])
  BY DEF Onward, At, DrainStep
<1>2. QED
  BY <1>1 DEF Onwards, At, DrainStep, NoGatewayChange, historyVars, PublicationInv, TabsInv

(* A tab that has a request in the queue is not reloaded.                  *)
LEMMA ReloadOnwards ==
  ASSUME PublicationInv, AttemptsInv, NEW t \in Tabs, "gatewaySlow" \notin Faults,
         Reload(t) \/ RecoveryReload(t)
  PROVE  Onwards(t) /\ Unasked(t)
<1>1. ReloadEffect(t)
  BY DEF Reload, RecoveryReload
<1>2. \A i \in 1..Len(transitions) :
         /\ transitions[i] \in Request /\ transitions[i].waiting /\ transitions[i].tab # t
  <2>1. TAKE i \in 1..Len(transitions)
  <2>2. transitions[i] \in Request /\ Awaited(transitions[i])
    BY Queued DEF PublicationInv, AttemptsInv, AwaitedInv
  <2>3. CASE Reload(t)
    BY <2>2, <2>3 DEF Reload, PublicationInv, QueueInv, Awaited
  <2>4. CASE RecoveryReload(t)
    BY <2>2, <2>4 DEF RecoveryReload, Awaited, Waiting
  <2>5. QED
    BY <2>2, <2>3, <2>4
<1>3. transitions' = transitions
  <2>1. \A i \in 1..Len(transitions) :
           [transitions[i] EXCEPT !.waiting = @ /\ transitions[i].tab # t] = transitions[i]
    BY <1>2 DEF Request
  <2>2. transitions \in Seq(Request) /\ DOMAIN transitions = 1..Len(transitions)
    BY DEF PublicationInv, QueueInv
  <2>3. transitions' = [i \in 1..Len(transitions) |-> transitions[i]]
    BY <1>1, <2>1, <2>2 DEF ReloadEffect
  <2>4. QED
    BY <2>2, <2>3
<1>4. QED
  BY <1>1, <1>2, <1>3, EndOnwards DEF ReloadEffect, NoGatewayChange, historyVars, Unasked

-----------------------------------------------------------------------------
(* A tab mints an attempt, asks the Gateway, or abandons an attempt.       *)

LEMMA PrepareAttempts ==
  ASSUME PublicationInv, AttemptsInv, NEW t \in Tabs, PrepareGateway(t)
  PROVE  AttemptsInv'
<1> DEFINE o == [op[t] EXCEPT !.attempt = lastAttempt', !.expected = gateway.authority]
<1>1. /\ pc[t] = "prepareGateway" /\ pc[t] \notin Waiting
      /\ UNCHANGED <<gateway, transitions, abandoned>>
  BY DEF PrepareGateway, Waiting, historyVars
<1>2. CASE lastAttempt' = lastAttempt + 1 /\ Goto(t, At("activate", o))
  <2>1. op[t].attempt = Null /\ ~op[t].attempted
    <3>1. op[t].attempt = Null
      BY <1>1, TabFacts DEF Sound, StageOK, Early
    <3>2. QED
      BY <3>1, TabFacts DEF LocalsOK, Op
  <2>2. o.attempt = lastAttempt + 1 /\ ~o.attempted
    BY <1>2, <2>1, TabFacts DEF Op
  <2>3. /\ pc'[t] = "activate" /\ op'[t] = o
        /\ \A u \in Tabs \ {t} : pc'[u] = pc[u] /\ op'[u] = op[u]
    BY <1>2, GotoMoves DEF At, PublicationInv
  <2> HIDE DEF o
  <2>4. Absent(gateway.authority, op'[t].attempt)
    <3>1. lastAttempt + 1 \notin 1..lastAttempt
      BY DEF PublicationInv, BudgetInv
    <3>2. QED
      BY <2>2, <2>3, <3>1 DEF Absent, AttemptsInv, RunningInv
  <2>5. AttemptMoves(t) /\ AbandonMoves(t) /\ RequestMoves
    BY <1>1, <1>2, <2>2, <2>3 DEF AttemptMoves, AbandonMoves, RequestMoves
  <2>6. QED
    BY <1>1, <1>2, <2>2, <2>3, <2>4, <2>5, TabKeeps
<1>3. CASE Goto(t, Catch(op[t])) /\ UNCHANGED lastAttempt
  <2>1. Onward(Catch(op[t]), pc[t], op[t])
    BY TabFacts, CatchPlain, PlainlyOnward
  <2>2. Onwards(t)
    BY <1>1, <1>3, <2>1, GotoOnwards DEF NoGatewayChange
  <2>3. QED
    BY <1>1, <2>2, OnwardsKeeps
<1>4. QED
  BY <1>2, <1>3 DEF PrepareGateway

(* A request that arrives.                                                 *)
LEMMA RequestKeeps ==
  ASSUME PublicationInv, AttemptsInv, NEW t \in Tabs, pc[t] \notin Waiting,
         NEW q \in Request, transitions' = Append(transitions, q), Awaited(q)',
         q.authority.attempt \in 1..lastAttempt',
         lastAttempt' \in {lastAttempt, lastAttempt + 1}, UNCHANGED <<gateway, abandoned>>,
         NEW s, NEW o, Goto(t, At(s, o)), o.attempt = op[t].attempt, o.next = op[t].next,
         s # "activate", s = "activating" => o.winner = "no",
         Withdrawn(s, o) => Withdrawn(pc[t], op[t])
  PROVE  AttemptsInv'
<1>1. /\ pc'[t] = s /\ op'[t] = o
      /\ \A u \in Tabs \ {t} : pc'[u] = pc[u] /\ op'[u] = op[u]
  BY GotoMoves DEF At, PublicationInv
<1>2. Withdrawn(s, o) => Absent(gateway.authority, o.attempt)
  BY DEF AttemptsInv, RunningInv
<1>3. AttemptMoves(t) /\ AbandonMoves(t) /\ RequestMoves
  BY <1>1 DEF AttemptMoves, AbandonMoves, RequestMoves
<1>4. QED
  BY <1>1, <1>2, <1>3, TabKeeps

LEMMA ActivateAttempts ==
  ASSUME PublicationInv, AttemptsInv, NEW t \in Tabs, Activate(t)
  PROVE  AttemptsInv'
<1> DEFINE o == [op[t] EXCEPT !.attempted = TRUE]
<1>1. /\ pc[t] = "activate" /\ pc[t] \notin Waiting /\ UNCHANGED lastAttempt
      /\ \/ Send(t, "activate", Candidate(op[t]), op[t].expected, "activating", o)
         \/ FaultStep(t, "runtimeFailed", Catch(op[t]))
  BY DEF Activate, Waiting
<1>2. ~op[t].attempted /\ op[t].winner = "no"
  BY <1>1, TabFacts DEF LocalsOK, AttemptsInv, RunningInv
<1>3. /\ o \in Op /\ o.attempt = op[t].attempt /\ o.next = op[t].next /\ o.winner = "no"
      /\ o.attempted /\ Candidate(o) = Candidate(op[t])
  BY ZenonT(30), <1>2, TabFacts DEF Op, Candidate
<1>4. op[t].attempt # Null /\ op[t].next # Null
  BY <1>1, TabFacts DEF Sound, StageOK
<1>5. PICK q \in Request :
         q = [kind |-> "activate", tab |-> t, waiting |-> TRUE,
              authority |-> Candidate(op[t]), expected |-> op[t].expected]
  BY <1>4, CandidateType DEF Request
<1> HIDE DEF o
<1>6. CASE /\ Enqueue("activate", t, Candidate(op[t]), op[t].expected)
           /\ Goto(t, At("activating", o)) /\ UNCHANGED <<historyVars, gateway>>
  <2>1. transitions' = Append(transitions, q)
    BY <1>5, <1>6 DEF Enqueue
  <2>2. pc'[t] = "activating" /\ op'[t] = o
    BY <1>6, GotoMoves DEF At, PublicationInv
  <2>3. Awaited(q)'
    BY <1>3, <1>5, <2>2 DEF Awaited, Waiting
  <2>4. q.authority.attempt \in 1..lastAttempt'
    BY <1>1, <1>4, <1>5 DEF Candidate, AttemptsInv, MintedInv
  <2>5. ~Withdrawn("activating", o)
    BY <1>3 DEF Withdrawn, Forgone, Backed, After, Reactivation
  <2>6. QED
    BY <1>1, <1>3, <1>5, <1>6, <2>1, <2>3, <2>4, <2>5, RequestKeeps DEF historyVars
<1>7. CASE /\ Goto(t, Answered(o, "activating", "lost"))
           /\ UNCHANGED <<historyVars, gateway, transitions>>
  <2>1. Answered(o, "activating", "lost") = Catch(o)
    BY DEF Answered
  <2>2. Plainly(Catch(o), o) /\ ~Forgone(o)
    BY <1>3, CatchPlain DEF Forgone
  <2>3. Onward(Catch(o), pc[t], op[t])
    BY <1>3, <2>2 DEF Plainly, Onward
  <2>4. Onwards(t)
    BY <1>1, <1>7, <2>1, <2>3, GotoOnwards DEF NoGatewayChange, historyVars
  <2>5. QED
    BY <1>1, <2>4, OnwardsKeeps
<1>8. CASE FaultStep(t, "runtimeFailed", Catch(op[t]))
  <2>1. Onwards(t)
    BY <1>8, TabFacts, CatchPlain, PlainOnwards
  <2>2. QED
    BY <1>1, <2>1, OnwardsKeeps
<1>9. QED
  BY <1>1, <1>6, <1>7, <1>8 DEF Send

LEMMA WithdrawAttempts ==
  ASSUME PublicationInv, AttemptsInv, NEW t \in Tabs, Rollback(t) \/ RollbackRetry(t)
  PROVE  AttemptsInv'
<1> DEFINE o == op[t]
<1>1. PICK s \in {"rollingBack", "rollbackRetrying"} :
         /\ pc[t] \in {"rollback", "rollbackRetry"} /\ UNCHANGED lastAttempt
         /\ Send(t, "deactivate", Candidate(o), Null, s, o)
  BY DEF Rollback, RollbackRetry
<1>2. o.attempt # Null /\ o.next # Null /\ o \in Op
  BY <1>1, TabFacts DEF Sound, StageOK, Attempting, LocalsOK
<1>3. PICK q \in Request : q = [kind |-> "deactivate", tab |-> t, waiting |-> TRUE,
                                authority |-> Candidate(o), expected |-> Null]
  BY <1>2, CandidateType DEF Request
<1>4. pc[t] \notin Waiting
  BY <1>1 DEF Waiting
<1>5. CASE /\ Enqueue("deactivate", t, Candidate(o), Null)
           /\ Goto(t, At(s, o)) /\ UNCHANGED <<historyVars, gateway>>
  <2>1. transitions' = Append(transitions, q)
    BY <1>3, <1>5 DEF Enqueue
  <2>2. pc'[t] = s /\ op'[t] = o
    BY <1>5, GotoMoves DEF At, PublicationInv
  <2>3. Awaited(q)'
    BY <1>1, <1>3, <2>2 DEF Awaited, Waiting
  <2>4. q.authority.attempt \in 1..lastAttempt'
    BY <1>1, <1>2, <1>3 DEF Candidate, AttemptsInv, MintedInv
  <2>5. Withdrawn(s, o) => Withdrawn(pc[t], op[t])
    BY <1>1 DEF Withdrawn, Backed, After, Reactivation
  <2> HIDE DEF o
  <2>6. QED
    BY <1>1, <1>3, <1>4, <1>5, <2>1, <2>3, <2>4, <2>5, RequestKeeps DEF historyVars, o
<1>6. CASE /\ Goto(t, Answered(o, s, "lost")) /\ UNCHANGED <<historyVars, gateway, transitions>>
  <2> DEFINE e == [o EXCEPT !.conflict = ("lost" = "conflict")]
  <2>1. /\ e.attempt = o.attempt /\ e.next = o.next /\ e.attempted = o.attempted
        /\ e.winner = o.winner
    BY <1>2 DEF Op
  <2>2. Answered(o, s, "lost") \in {At("rollbackStatus", e), At("rollbackTerminal", o)}
    BY <1>1 DEF Answered
  <2> HIDE DEF e
  <2>3. Plainly(At("rollbackStatus", e), o) /\ Plainly(At("rollbackTerminal", o), o)
    BY <2>1, UnbackedPlain DEF Unbacked, Stage, Backed, After, Reactivation
  <2>4. Onwards(t)
    BY <1>1, <1>6, <2>2, <2>3, PlainlyOnward, GotoOnwards DEF NoGatewayChange, historyVars
  <2>5. QED
    BY <1>4, <2>4, OnwardsKeeps
<1>7. QED
  BY <1>1, <1>5, <1>6 DEF Send

(* The previous publication is given back under an attempt of its own.     *)
LEMMA ReactivateAttempts ==
  ASSUME PublicationInv, AttemptsInv, NEW t \in Tabs, ReactivateSend(t)
  PROVE  AttemptsInv'
<1> DEFINE o == op[t]
           a == [revisionId |-> o.previous, attempt |-> lastAttempt + 1]
<1>1. /\ pc[t] = "reactivateSend" /\ pc[t] \notin Waiting /\ lastAttempt' = lastAttempt + 1
      /\ Send(t, "activate", a, Null, "reactivating", o)
  BY DEF ReactivateSend, Waiting
<1>2. /\ o \in Op /\ o.previous # Null /\ o.attempt # Null
      /\ lastAttempt \in Nat /\ lastAttempt + 1 \in Attempts
  <2>1. o \in Op /\ o.previous # Null /\ o.attempt # Null
    BY <1>1, TabFacts DEF Sound, StageOK, LocalsOK, Reactivation
  <2>2. MintsOne(pc[t], op[t])
    BY <1>1, TabFacts DEF MintsOne, Sound, StageOK, LocalsOK, ReactivateSend, ReplaceOnly, After,
                          Reactivation
  <2>3. lastAttempt + 1 \in Attempts
    BY <2>2, AttemptLeft DEF PublicationInv
  <2>4. QED
    BY <2>1, <2>3 DEF PublicationInv, BudgetInv
<1>3. PICK q \in Request : q = [kind |-> "activate", tab |-> t, waiting |-> TRUE,
                                authority |-> a, expected |-> Null]
  <2>1. a \in Authority
    BY <1>2 DEF Authority, Op, Revision
  <2>2. QED
    BY <2>1 DEF Request
<1>4. CASE /\ Enqueue("activate", t, a, Null) /\ Goto(t, At("reactivating", o))
           /\ UNCHANGED <<historyVars, gateway>>
  <2>1. transitions' = Append(transitions, q)
    BY <1>3, <1>4 DEF Enqueue
  <2>2. /\ pc'[t] = "reactivating" /\ op'[t] = o
        /\ \A u \in Tabs \ {t} : op'[u] = op[u]
    BY <1>4, GotoMoves DEF At, PublicationInv
  <2>3. q.authority.attempt = lastAttempt + 1 /\ lastAttempt + 1 \notin 1..lastAttempt
    BY <1>2, <1>3
  <2>4. Unowned(q.authority.attempt)'
    <3>1. \A u \in Tabs : op'[u].attempt = op[u].attempt
      BY <2>2
    <3>2. lastAttempt + 1 # Null
      BY <1>2, PublicationAssumption
    <3>3. \A u \in Tabs : op'[u].attempt # lastAttempt + 1
      BY <2>3, <3>1, <3>2 DEF AttemptsInv, MintedInv
    <3>4. lastAttempt + 1 \notin abandoned'
      BY <1>4, <2>3 DEF AttemptsInv, MintedInv, historyVars
    <3>5. QED
      BY <2>3, <3>3, <3>4 DEF Unowned
  <2>5. Awaited(q)'
    BY <1>3, <2>2, <2>4 DEF Awaited, Waiting
  <2>6. q.authority.attempt \in 1..lastAttempt'
    BY <1>1, <1>2, <2>3
  <2>7. Withdrawn("reactivating", o) => Withdrawn(pc[t], op[t])
    BY <1>1 DEF Withdrawn, Backed, After, Reactivation
  <2> HIDE DEF o
  <2>8. QED
    BY <1>1, <1>3, <1>4, <2>1, <2>5, <2>6, <2>7, RequestKeeps DEF historyVars, o
<1>5. CASE /\ Goto(t, Answered(o, "reactivating", "lost"))
           /\ UNCHANGED <<historyVars, gateway, transitions>>
  <2>1. Answered(o, "reactivating", "lost") = At("endCatch", Failed(o))
    BY DEF Answered
  <2>2. Onward(At("endCatch", Failed(o)), pc[t], op[t])
    BY <1>2, FailedPlain, PlainlyOnward DEF Backed, After
  <2>3. Onwards(t)
    BY <1>1, <1>5, <2>1, <2>2 DEF Onwards, Goto, historyVars
  <2>4. QED
    BY <1>1, <2>3, OnwardsKeeps
<1>6. QED
  BY <1>1, <1>4, <1>5 DEF Send

(* A tab that abandons its attempt, and goes on without, has it withdrawn. *)
LEMMA AbandonKeeps ==
  ASSUME PublicationInv, AttemptsInv, NEW t \in Tabs, pc[t] \notin Waiting,
         \A u \in Tabs \ {t} : pc'[u] = pc[u] /\ op'[u] = op[u],
         op'[t].attempt = Null, pc'[t] \notin {"activate", "activating"},
         NoGatewayChange, pc[t] \in Backed,
         abandoned' \subseteq abandoned \cup ({op[t].attempt} \ {Null}),
         op[t].failed => abandoned' = abandoned
  PROVE  AttemptsInv'
<1>1. AbandonMoves(t)
  <2>1. ASSUME NEW a \in abandoned', a \notin abandoned
        PROVE  a = op[t].attempt /\ a # Null /\ Absent(gateway.authority, a)
    <3>1. a = op[t].attempt /\ a # Null /\ ~op[t].failed
      BY <2>1
    <3>2. Withdrawn(pc[t], op[t])
      BY <3>1 DEF Withdrawn
    <3>3. QED
      BY <3>1, <3>2 DEF AttemptsInv, RunningInv
  <2>2. QED
    BY <2>1 DEF AbandonMoves
<1>2. AttemptMoves(t) /\ RequestMoves
  BY DEF AttemptMoves, RequestMoves, NoGatewayChange
<1>3. ~Withdrawn(pc'[t], op'[t])
  BY DEF Withdrawn, Forgone
<1>4. QED
  BY <1>1, <1>2, <1>3, TabKeeps DEF NoGatewayChange

LEMMA EndCatchAttempts ==
  ASSUME PublicationInv, AttemptsInv, NEW t \in Tabs, EndCatch(t)
  PROVE  AttemptsInv'
<1>1. pc[t] \in Backed \ Waiting
  BY DEF EndCatch, Backed, After, Waiting
<1>2. NoOp.attempt = Null
  BY DEF NoOp
<1>3. /\ pc'[t] = "idle" /\ op'[t] = NoOp
      /\ \A u \in Tabs \ {t} : pc'[u] = pc[u] /\ op'[u] = op[u]
      /\ NoGatewayChange /\ (op[t].failed => abandoned' = abandoned)
      /\ abandoned' \subseteq abandoned \cup ({op[t].attempt} \ {Null})
  BY DEF EndCatch, Leave, PublicationInv, TabsInv
<1>4. QED
  BY <1>1, <1>2, <1>3, AbandonKeeps

LEMMA RollbackRuntimeAttempts ==
  ASSUME PublicationInv, AttemptsInv, NEW t \in Tabs, RollbackRuntime(t)
  PROVE  AttemptsInv'
<1> DEFINE o == op[t]
           goesOn == o.kind = "replace" \/ (Interrupted(o) /\ o.previous # Null)
           stuck == (Interrupted(o) /\ o.previous = Null) \/ (o.restoring /\ ~o.activated)
           r == [NoOp EXCEPT !.kind = "hydrate", !.saw = o.saw, !.next = o.next,
                             !.previous = o.previous]
           to == IF o.kind = "replace" THEN AfterRuntime(o) ELSE At("restorePointer", r)
<1>1. /\ pc[t] = "rollbackRuntime" /\ NoGatewayChange
      /\ pc' = [pc EXCEPT ![t] = IF goesOn THEN to.stage ELSE "idle"]
      /\ op' = [op EXCEPT ![t] = IF goesOn THEN to.op ELSE NoOp]
      /\ recovery' = [recovery EXCEPT ![t] = @ \/ (o.kind # "replace" /\ (o.failed \/ stuck))]
      /\ abandoned' = IF o.kind = "replace" \/ recovery'[t] THEN abandoned
                      ELSE abandoned \cup ({o.attempt} \ {Null})
  BY DEF RollbackRuntime
<1>2. pc[t] \in Backed \ Waiting /\ o \in Op
  BY <1>1, TabFacts DEF Backed, Waiting
<1>3. CASE o.kind = "replace"
  <2>1. \E s \in Backed : AfterRuntime(o) = At(s, o)
    BY DEF AfterRuntime, AfterRepository, Backed, After, Reactivation
  <2>2. Onward(AfterRuntime(o), pc[t], op[t])
    BY <1>2, <2>1, BackedOnward
  <2>3. /\ pc' = [pc EXCEPT ![t] = AfterRuntime(o).stage]
        /\ op' = [op EXCEPT ![t] = AfterRuntime(o).op] /\ abandoned' = abandoned
    BY <1>1, <1>3
  <2>4. Onwards(t)
    BY <1>1, <2>2, <2>3 DEF Onwards, NoGatewayChange
  <2>5. QED
    BY <1>2, <2>4, OnwardsKeeps
<1>4. CASE o.kind # "replace"
  <2>1. /\ abandoned' \subseteq abandoned \cup ({o.attempt} \ {Null})
        /\ o.failed => abandoned' = abandoned
    BY <1>1, <1>4 DEF PublicationInv, RestInv
  <2>2. r.attempt = Null /\ NoOp.attempt = Null
    BY DEF NoOp
  <2> HIDE DEF r
  <2>3. CASE goesOn
    <3>1. to.stage = "restorePointer" /\ to.op = r
      BY <1>4 DEF At
    <3>2. /\ pc'[t] = "restorePointer" /\ op'[t] = r
          /\ \A u \in Tabs \ {t} : pc'[u] = pc[u] /\ op'[u] = op[u]
      BY <1>1, <2>3, <3>1 DEF PublicationInv, TabsInv
    <3>3. QED
      BY <1>1, <1>2, <2>1, <2>2, <3>2, AbandonKeeps
  <2>4. CASE ~goesOn
    <3>1. /\ pc'[t] = "idle" /\ op'[t] = NoOp
          /\ \A u \in Tabs \ {t} : pc'[u] = pc[u] /\ op'[u] = op[u]
      BY <1>1, <2>4 DEF PublicationInv, TabsInv
    <3>2. QED
      BY <1>1, <1>2, <2>1, <2>2, <3>1, AbandonKeeps
  <2>5. QED
    BY <2>3, <2>4
<1>5. QED
  BY <1>3, <1>4

-----------------------------------------------------------------------------
(* The Gateway answers the request at the head of its queue.               *)

LEMMA HeadAwaited ==
  ASSUME PublicationInv, AttemptsInv, transitions # <<>>, NEW q, q = Head(transitions)
  PROVE  /\ q \in Request /\ q.tab \in Tabs /\ Awaited(q)
         /\ q.authority \in Authority /\ q.authority.attempt # Null
         /\ q.authority.attempt \in (1..lastAttempt) \ abandoned
         /\ \A i \in 1..Len(transitions) : i # 1 => transitions[i].tab # q.tab
<1>1. /\ transitions \in Seq(Request) /\ 1 \in 1..Len(transitions) /\ q = transitions[1]
  BY DEF PublicationInv, QueueInv
<1>2. q \in Request /\ q.tab \in Tabs
  BY <1>1, Queued DEF PublicationInv
<1>3. \A i \in 1..Len(transitions) :
         Awaited(transitions[i]) /\ transitions[i].authority.attempt \in 1..lastAttempt
  BY DEF AttemptsInv, AwaitedInv
<1>4. Awaited(q) /\ q.authority.attempt \in 1..lastAttempt
  BY <1>1, <1>3
<1>5. q.authority \in Authority /\ q.authority.attempt # Null
  BY <1>2, Requested, PublicationAssumption DEF Authority, Attempts
<1>6. q.authority.attempt \notin abandoned
  <2>1. CASE pc[q.tab] = "reactivating"
    BY <1>4, <2>1 DEF Awaited, Unowned
  <2>2. CASE pc[q.tab] # "reactivating"
    <3>1. op[q.tab].attempt = q.authority.attempt
      BY <1>4, <2>2 DEF Awaited, Candidate
    <3>2. QED
      BY <1>2, <1>5, <3>1 DEF AttemptsInv, MintedInv
  <2>3. QED
    BY <2>1, <2>2
<1>7. \A i \in 1..Len(transitions) : transitions[i].waiting
  BY <1>3 DEF Awaited
<1>8. \A i \in 1..Len(transitions) : i # 1 => transitions[i].tab # q.tab
  BY <1>1, <1>7 DEF PublicationInv, QueueInv
<1>9. QED
  BY <1>2, <1>4, <1>5, <1>6, <1>8

(* Where the answer leaves the operation: the attempt is given up only     *)
(* when the Gateway says it withdrew it.                                   *)
LEMMA AnsweredAttempt ==
  ASSUME NEW stage \in Waiting, NEW o \in Op, NEW given \in Answers, NEW gone \in BOOLEAN,
         stage = "activating" => o.attempted /\ o.winner = "no",
         given = "ok" /\ stage \in {"rollingBack", "rollbackRetrying"} => gone,
         NEW to, to = Answered(o, stage, given)
  PROVE  /\ to.op.attempt = o.attempt /\ to.op.next = o.next
         /\ to.stage \notin {"activate", "activating"}
         /\ Withdrawn(to.stage, to.op) => Withdrawn(stage, o) \/ gone
         /\ stage = "activating" => ~Withdrawn(to.stage, to.op)
<1>1. CASE stage = "activating"
  <2>1. ~Forgone(o)
    BY <1>1 DEF Forgone
  <2>2. \/ to = At("commit", o) \/ to = At("commitRuntime", o)
        \/ to = At("winner", o) \/ to = Catch(o)
    BY <1>1 DEF Answered
  <2>3. Plainly(to, o)
    BY <2>2, CatchPlain, UnbackedPlain DEF Unbacked, Stage, Backed, After, Reactivation
  <2>4. QED
    BY <1>1, <2>1, <2>3 DEF Plainly
<1>2. CASE stage \in {"rollingBack", "rollbackRetrying"} /\ given = "ok"
  <2>1. to = RolledBack(o, "candidate-deactivated")
    BY <1>2 DEF Answered
  <2>2. gone
    BY <1>2
  <2> DEFINE w == [o EXCEPT !.winner = "yes", !.disposition = "other-authority"]
             e == [o EXCEPT !.disposition = "candidate-deactivated"]
  <2>3. w.attempt = o.attempt /\ e.attempt = o.attempt /\ w.next = o.next /\ e.next = o.next
    BY DEF Op
  <2>4. \/ to = At("commitRuntime", w) \/ to = At("checkInactive", e)
        \/ to = At("rollbackRuntime", e)
    BY <2>1 DEF RolledBack, AfterRollback
  <2> HIDE DEF w, e
  <2>5. QED
    BY <1>2, <2>2, <2>3, <2>4 DEF At
<1>3. CASE stage \in {"rollingBack", "rollbackRetrying"} /\ given # "ok"
  <2> DEFINE e == [o EXCEPT !.conflict = (given = "conflict")]
  <2>1. /\ e.attempt = o.attempt /\ e.next = o.next /\ e.attempted = o.attempted
        /\ e.winner = o.winner
    BY DEF Op
  <2>2. \/ to = RollbackThrew(o) \/ to = At("rollbackStatus", e) \/ to = At("rollbackTerminal", o)
    BY <1>3 DEF Answered, Answers
  <2> HIDE DEF e
  <2>3. Plainly(to, o)
    BY <2>1, <2>2, RollbackThrewPlain, UnbackedPlain
       DEF Unbacked, Stage, Backed, After, Reactivation
  <2>4. QED
    BY <1>3, <2>3 DEF Plainly, Withdrawn
<1>4. CASE stage = "reactivating"
  <2>1. to = At("reactivateVerify", o) \/ to = At("endCatch", Failed(o))
    BY <1>4 DEF Answered
  <2>2. CASE to = At("reactivateVerify", o)
    BY <1>4, <2>2 DEF At, Withdrawn, Backed, After, Reactivation
  <2>3. CASE to = At("endCatch", Failed(o))
    BY <1>4, <2>3, FailedPlain DEF Plainly, Withdrawn, Backed, After
  <2>4. QED
    BY <2>1, <2>2, <2>3
<1>5. QED
  BY <1>1, <1>2, <1>3, <1>4 DEF Waiting

(* The request leaves the queue and its tab goes on; the Gateway keeps its *)
(* authority, has none, or accepts the one that was asked for.             *)
LEMMA AnswerKeeps ==
  ASSUME PublicationInv, AttemptsInv, transitions # <<>>,
         NEW q, q = Head(transitions), NEW given \in Answers,
         transitions' = Tail(transitions), UNCHANGED <<abandoned, lastAttempt>>,
         Answer(q, given),
         \/ gateway'.authority = gateway.authority
         \/ gateway'.authority = Null
         \/ gateway'.authority = q.authority /\ q.kind = "activate",
         given = "ok" /\ q.kind = "deactivate" => gateway'.authority = Null
  PROVE  AttemptsInv'
<1>1. /\ q \in Request /\ q.tab \in Tabs /\ Awaited(q)
      /\ q.authority \in Authority /\ q.authority.attempt # Null
      /\ q.authority.attempt \in (1..lastAttempt) \ abandoned
      /\ \A i \in 1..Len(transitions) : i # 1 => transitions[i].tab # q.tab
  BY HeadAwaited
<1>2. PICK t \in Tabs : t = q.tab
  BY <1>1
<1>3. PICK o \in Op : o = op[t]
  BY TabFacts
<1>4. pc[t] \in Waiting /\ (q.kind = "activate" <=> pc[t] \in {"activating", "reactivating"})
  BY <1>1, <1>2 DEF Awaited
<1>5. PICK to : to = Answered(o, pc[t], given)
  OBVIOUS
<1>6. /\ pc'[t] = to.stage /\ op'[t] = to.op
      /\ \A u \in Tabs \ {t} : pc'[u] = pc[u] /\ op'[u] = op[u]
  BY <1>1, <1>2, <1>3, <1>5, GotoMoves DEF Answer, Awaited, PublicationInv
<1>7. pc[t] = "activating" => o.attempted /\ o.winner = "no"
  BY <1>3, TabFacts DEF Sound, StageOK, Attempting, AttemptsInv, RunningInv
<1>8. /\ to.op.attempt = o.attempt /\ to.op.next = o.next
      /\ to.stage \notin {"activate", "activating"}
      /\ Withdrawn(to.stage, to.op) => Withdrawn(pc[t], o) \/ gateway'.authority = Null
      /\ pc[t] = "activating" => ~Withdrawn(to.stage, to.op)
  <2>1. PICK gone \in BOOLEAN : gone <=> gateway'.authority = Null
    OBVIOUS
  <2>2. given = "ok" /\ pc[t] \in {"rollingBack", "rollbackRetrying"} => gone
    BY <1>1, <1>4, <2>1, Requested
  <2>3. QED
    BY <1>4, <1>5, <1>7, <2>1, <2>2, AnsweredAttempt
<1>9. \A u \in Tabs : op'[u].attempt = op[u].attempt /\ op'[u].next = op[u].next
  BY <1>3, <1>6, <1>8
<1>10. MintedInv'
  <2>1. MintedInv
    BY DEF AttemptsInv
  <2>2. QED
    BY <1>9, <2>1 DEF MintedInv
<1>11. AwaitedInv'
  <2>1. transitions \in Seq(Request)
    BY DEF PublicationInv, QueueInv
  <2>2. ASSUME NEW i \in 1..Len(transitions'), NEW x, x = transitions'[i]
        PROVE  Awaited(x)' /\ x.authority.attempt \in 1..lastAttempt'
    <3>2. i + 1 \in 1..Len(transitions) /\ i + 1 # 1 /\ x = transitions[i + 1]
      BY <2>1, <2>2
    <3>3. Awaited(x) /\ x.authority.attempt \in 1..lastAttempt
      BY <3>2 DEF AttemptsInv, AwaitedInv
    <3>4. x \in Request /\ x.tab \in Tabs \ {t}
      BY <1>1, <1>2, <3>2, Queued DEF PublicationInv
    <3>5. pc'[x.tab] = pc[x.tab] /\ op'[x.tab] = op[x.tab]
      BY <1>6, <3>4
    <3>6. Unowned(x.authority.attempt) => Unowned(x.authority.attempt)'
      BY <1>9 DEF Unowned
    <3>7. Awaited(x)'
      BY <3>3, <3>5, <3>6 DEF Awaited, Candidate
    <3>8. QED
      BY <3>3, <3>7
  <2>3. QED
    BY <2>2 DEF AwaitedInv
<1>12. RunningInv'
  <2>1. RunningInv /\ MintedInv
    BY DEF AttemptsInv
  <2>2. gateway'.authority # Null =>
            gateway'.authority.attempt \in (1..lastAttempt') \ abandoned'
    BY <1>1, <2>1 DEF RunningInv
  <2>3. ASSUME NEW u \in Tabs, ~Absent(gateway'.authority, op'[u].attempt)
        PROVE  gateway'.authority = Candidate(op'[u]) /\ ~Withdrawn(pc'[u], op'[u])
    <3>1. gateway'.authority # Null /\ gateway'.authority.attempt = op[u].attempt
          /\ Candidate(op'[u]) = Candidate(op[u])
      BY <1>9, <2>3 DEF Absent, Candidate
    <3>2. CASE gateway'.authority = gateway.authority
      <4>1. gateway.authority = Candidate(op[u]) /\ ~Withdrawn(pc[u], op[u])
        BY <2>1, <3>1, <3>2 DEF RunningInv, Absent
      <4>2. u # t => ~Withdrawn(pc'[u], op'[u])
        BY <1>6, <4>1
      <4>3. u = t => ~Withdrawn(pc'[u], op'[u])
        BY <1>3, <1>6, <1>8, <3>1, <4>1
      <4>4. QED
        BY <3>1, <3>2, <4>1, <4>2, <4>3
    <3>3. CASE gateway'.authority = q.authority /\ q.kind = "activate"
      <4>1. pc[t] # "reactivating"
        BY <1>1, <1>2, <3>1, <3>3 DEF Awaited, Unowned
      <4>2. pc[t] = "activating" /\ q.authority = Candidate(o)
        BY <1>1, <1>2, <1>3, <1>4, <3>3, <4>1 DEF Awaited
      <4>3. op[u].attempt = op[t].attempt /\ op[u].attempt # Null
        BY <1>1, <1>3, <3>1, <3>3, <4>2 DEF Candidate
      <4>4. u = t
        BY <2>1, <4>3 DEF MintedInv
      <4>5. QED
        BY <1>3, <1>6, <1>8, <3>1, <3>3, <4>2, <4>4
    <3>4. QED
      BY <3>1, <3>2, <3>3
  <2>4. \A u \in Tabs : /\ pc'[u] = "activate" => ~op'[u].attempted
                        /\ pc'[u] = "activating" => op'[u].winner = "no"
    BY <1>6, <1>8, <2>1 DEF RunningInv
  <2>5. QED
    BY <2>2, <2>3, <2>4 DEF RunningInv
<1>13. QED
  BY <1>10, <1>11, <1>12 DEF AttemptsInv

LEMMA RespondKeeps ==
  ASSUME PublicationInv, AttemptsInv, transitions # <<>>, NEW q, q = Head(transitions),
         NEW answer \in Answers, NEW a, NEW p,
         Respond(answer, a, p) \/ (RespondFailed(a, p) /\ answer = "failed"),
         a = gateway.authority \/ a = Null \/ (a = q.authority /\ q.kind = "activate"),
         answer = "ok" /\ q.kind = "deactivate" => a = Null
  PROVE  AttemptsInv'
<1>1. PICK given \in Answers :
         /\ given = "ok" => answer = "ok"
         /\ transitions' = Tail(transitions) /\ gateway'.authority = a
         /\ UNCHANGED <<abandoned, lastAttempt>> /\ Answer(q, given)
  BY DEF Respond, RespondFailed, Answers, historyVars
<1>2. QED
  BY <1>1, AnswerKeeps

(* An accepted PUT is of an attempt nobody gave up, and a DELETE that says *)
(* ok has left the Gateway without an authority.                           *)
LEMMA GatewayStepAttempts ==
  ASSUME PublicationInv, AttemptsInv, GatewayStep
  PROVE  AttemptsInv'
<1>1. transitions # <<>>
  BY DEF GatewayStep, GatewayActivate, GatewayRefuseDeactivate, GatewayStartDeactivate,
         GatewayFinishDeactivate
<1>2. PICK q : q = Head(transitions)
  OBVIOUS
<1>3. CASE GatewayActivate
  <2>1. q.kind = "activate"
    BY <1>2, <1>3 DEF GatewayActivate
  <2>2. CASE \/ Respond("failed", gateway.authority, gateway.phase)
             \/ Respond("conflict", gateway.authority, gateway.phase)
             \/ RespondFailed(gateway.authority, gateway.phase)
    BY <1>1, <1>2, <2>1, <2>2, RespondKeeps DEF Answers
  <2>3. CASE Respond("ok", q.authority, "active")
    BY <1>1, <1>2, <2>1, <2>3, RespondKeeps DEF Answers
  <2>4. CASE RespondFailed(IF gateway.authority = Null THEN q.authority
                           ELSE gateway.authority, "recovery-required")
    <3>1. \/ RespondFailed(q.authority, "recovery-required")
          \/ RespondFailed(gateway.authority, "recovery-required")
      BY <2>4
    <3>2. QED
      BY <1>1, <1>2, <2>1, <3>1, RespondKeeps DEF Answers
  <2>5. QED
    BY <1>2, <1>3, <2>2, <2>3, <2>4 DEF GatewayActivate
<1>4. CASE GatewayRefuseDeactivate
  <2>1. Respond("conflict", gateway.authority, gateway.phase)
    BY <1>4 DEF GatewayRefuseDeactivate
  <2>2. QED
    BY <1>1, <1>2, <2>1, RespondKeeps DEF Answers
<1>5. CASE GatewayStartDeactivate
  <2>1. /\ gateway'.authority = gateway.authority
        /\ UNCHANGED <<pc, op, transitions, abandoned, lastAttempt>>
    BY <1>5 DEF GatewayStartDeactivate, tabVars, historyVars, PublicationInv, GatewayInv
  <2>2. QED
    BY <2>1 DEF AttemptsInv, MintedInv, AwaitedInv, RunningInv, Awaited, Unowned, Candidate,
                Absent, Withdrawn, Forgone
<1>6. CASE GatewayFinishDeactivate
  <2>1. \/ Respond("ok", Null, "inactive")
        \/ RespondFailed(gateway.authority, "recovery-required")
    BY <1>6 DEF GatewayFinishDeactivate
  <2>2. QED
    BY <1>1, <1>2, <2>1, RespondKeeps DEF Answers
<1>7. QED
  BY <1>3, <1>4, <1>5, <1>6 DEF GatewayStep

-----------------------------------------------------------------------------
(* The invariant of a Gateway in which no transition outlives its request. *)

LEMMA AttemptsInitInv == Init => AttemptsInv
<1> SUFFICES ASSUME Init PROVE AttemptsInv
  OBVIOUS
<1>1. MintedInv
  BY DEF Init, MintedInv, NoOp
<1>2. AwaitedInv
  BY DEF Init, AwaitedInv
<1>3. RunningInv
  BY DEF Init, RunningInv, NoGateway, Absent
<1>4. QED
  BY <1>1, <1>2, <1>3 DEF AttemptsInv

LEMMA ForwardAttempts ==
  ASSUME PublicationInv, AttemptsInv, NEW t \in Tabs, Forward(t)
  PROVE  AttemptsInv'
<1>1. CASE PrepareGateway(t) \/ Activate(t)
  BY <1>1, PrepareAttempts, ActivateAttempts
<1>2. CASE ~(PrepareGateway(t) \/ Activate(t))
  <2>1. Onwards(t)
    BY SMTT(30), <1>2, EmptyOnwards, LoadOnwards, AttemptOnwards, CheckOnwards, FinalizeOnwards
       DEF Forward
  <2>2. pc[t] \notin Waiting
    BY <1>2 DEF Forward, EmptyStatus, EmptyVerify, EmptyPointer, LoadPrevious, LoadTarget,
                Winner, Commit, CommitRuntime, PointerCheck, Verify, Finalize, FinalizeRead,
                Waiting
  <2>3. QED
    BY <2>1, <2>2, OnwardsKeeps
<1>3. QED
  BY <1>1, <1>2

LEMMA BackwardAttempts ==
  ASSUME PublicationInv, AttemptsInv, NEW t \in Tabs, Backward(t)
  PROVE  AttemptsInv'
<1> DEFINE Asks == \/ Rollback(t) \/ RollbackRetry(t) \/ ReactivateSend(t)
                   \/ RollbackRuntime(t) \/ EndCatch(t)
<1>1. CASE Asks
  BY <1>1, WithdrawAttempts, ReactivateAttempts, RollbackRuntimeAttempts, EndCatchAttempts
<1>2. CASE ~Asks
  <2>1. Onwards(t)
    BY <1>2, ReconcileOnwards, StatusOnwards, CheckInactiveOnwards, RepositoryOnwards,
       ReactivateOnwards, RestoreOnwards DEF Backward
  <2>2. pc[t] \notin Waiting
    BY <1>2 DEF Backward, Reconcile, RollbackStatus, RollbackTerminal, CheckInactive, Discard,
                Compensate, Reactivate, ReactivateVerify, RestorePointer, RestoreCompensate,
                RestoreStable, Waiting
  <2>3. QED
    BY <2>1, <2>2, OnwardsKeeps
<1>3. QED
  BY <1>1, <1>2

LEMMA AttemptsNext ==
  ASSUME PublicationInv, AttemptsInv, "gatewaySlow" \notin Faults, Next
  PROVE  AttemptsInv'
<1>1. CASE GatewayStep
  BY <1>1, GatewayStepAttempts
<1>2. ~GatewayTimeout
  BY DEF GatewayTimeout, Fault
<1>3. ASSUME NEW t \in Tabs,
             \/ Begin(t) \/ Hydrate(t) \/ DrainStep(t) \/ Reload(t) \/ RecoveryReload(t)
      PROVE  AttemptsInv'
  <2>1. CASE Begin(t) \/ Hydrate(t) \/ DrainStep(t)
    <3>1. Onwards(t)
      BY <2>1, BeginOnwards, DrainOnwards
    <3>2. pc[t] \notin Waiting
      BY <2>1 DEF Begin, Hydrate, DrainStep, Editable, Waiting
    <3>3. QED
      BY <3>1, <3>2, OnwardsKeeps
  <2>2. CASE Reload(t) \/ RecoveryReload(t)
    BY <2>2, ReloadOnwards, OnwardsKeeps
  <2>3. QED
    BY <1>3, <2>1, <2>2
<1>4. QED
  BY <1>1, <1>2, <1>3, ForwardAttempts, BackwardAttempts DEF Next

(* Attempts are minted once, the requests in the Gateway's queue are those *)
(* the tabs wait for, and the Gateway runs none that its operation forwent *)
(* or saw withdrawn, provided no transition runs on in the Gateway once    *)
(* the timer of its client has given it up                                 *)
(* (runtime-gateway-connectivity-client.ts:163-193): this is the invariant *)
(* behind the theorem that follows.                                        *)
THEOREM AttemptsInvariant ==
  ASSUME "gatewaySlow" \notin Faults
  PROVE  Spec => []AttemptsInv
<1>1. Init => AttemptsInv
  BY AttemptsInitInv
<1>2. PublicationInv /\ AttemptsInv /\ [Next]_vars => AttemptsInv'
  <2> SUFFICES ASSUME PublicationInv, AttemptsInv, [Next]_vars
               PROVE  AttemptsInv'
    OBVIOUS
  <2>1. CASE Next
    BY <2>1, AttemptsNext
  <2>2. CASE UNCHANGED vars
    BY <2>2 DEF vars, tabVars, historyVars, AttemptsInv, MintedInv, AwaitedInv, RunningInv,
                Awaited, Unowned, Candidate, Absent, Withdrawn, Forgone
  <2>3. QED
    BY <2>1, <2>2
<1>3. QED
  BY <1>1, <1>2, PublicationInvariant, PTL DEF Spec

(* The Gateway never ends up running the attempt of an operation that      *)
(* rejected without asking for recovery, whatever is lost or fails between *)
(* the two (runtime-gateway-connectivity-client.ts:270-299 takes every     *)
(* uncertain activation back), as long as no transition outlives its       *)
(* client's timer; the run slow_gateway shows what one that does can leave *)
(* behind.                                                                 *)
THEOREM AbandonedNeverInGateway ==
  ASSUME "gatewaySlow" \notin Faults
  PROVE  Spec => []AbandonedNotInGateway
<1>1. AttemptsInv => AbandonedNotInGateway
  BY DEF AttemptsInv, RunningInv, AbandonedNotInGateway
<1>2. QED
  BY <1>1, AttemptsInvariant, PTL

-----------------------------------------------------------------------------
(* A single tab: what each await knows of the three authorities.           *)

Emptying == {"emptyStatus", "emptyVerify", "emptyPointer"}
Hydrating == Emptying \cup {"loadPrevious", "loadTarget"} \cup Restore
Before == {"prepareGateway", "activate", "activating", "commit", "commitRuntime"}
Shown == {"pointerCheck", "verify", "finalize", "finalizeRead"}
Holding == Shown \cup {"commit", "commitRuntime", "reconcile"}
Begun == {"rollback", "rollingBack"}
Rolling == Begun \cup {"rollbackStatus", "rollbackRetry", "rollbackRetrying", "rollbackTerminal"}
Undone == {"checkInactive", "rollbackRuntime", "discard", "compensate", "reactivate", "endCatch"}

RevisionOf(g) == IF g = Null THEN Null ELSE g.revisionId

(* Revision r is published, and nothing is in progress.                    *)
StableAt(p, r) == p.state # "publishing" /\ p.revisionId = r

(* The commit of o has happened and was not compensated.                   *)
Holds(p, o) ==
    /\ p.state # "none" /\ p.revisionId = o.next /\ p.commitToken = o.token
    /\ p.state = "publishing" => p.previousRevisionId = o.previous

(* What the operation is for: set tells whether the tab settled before,    *)
(* pub what it has published, h the revision of its handle.                *)
Planned(stage, o, h, pub, set) ==
    /\ o.kind # "none" /\ o.winner = "no" /\ stage # "winner"
    /\ stage \in Hydrating => o.kind = "hydrate"
    /\ o.kind = "hydrate" =>
           /\ pub = Null /\ o.next = o.saw.revisionId
           /\ o.previous \in {Null, o.saw.previousRevisionId}
           /\ set = "yes" => stage \in Emptying
           /\ o.restoring => o.saw.state = "stable"
    /\ o.kind = "replace" =>
           /\ o.previous = pub
           /\ o.commit = "none" => h = o.next
           /\ stage \in Before => ~o.transition

(* The durable pointer.                                                    *)
PointerPart(stage, o, p, set) ==
    /\ o.kind = "hydrate" /\ stage \in {"verify", "finalize"} => p = o.saw
    /\ stage = "discard" => o.commit # "yes"
    /\ o.kind = "replace" =>
           /\ o.commit = "none" /\ set = "yes" => StableAt(p, o.previous)
           /\ o.commit = "noEffect" => StableAt(p, o.previous)
           /\ o.commit = "started" /\ p.commitToken = o.token => Holds(p, o)
           /\ o.commit = "yes" /\ stage \notin After => Holds(p, o)
           /\ o.commit = "yes" /\ stage \in After /\ ~o.failed => StableAt(p, o.previous)

(* The tab's runtime.                                                      *)
RuntimePart(stage, o, r, set) ==
    /\ stage \in Shown => r.active = o.next
    /\ stage \in {"emptyVerify", "emptyPointer"} => r.active = Null
    /\ o.kind = "replace" /\ set = "yes" =>
           IF o.transition /\ stage \notin {"discard", "compensate"} \cup After
           THEN r.previous = o.previous
           ELSE r.active = o.previous

(* The Gateway's authority.                                                *)
GatewayPart(stage, o, g, set) ==
    /\ stage \in {"emptyVerify", "emptyPointer"} => g = Null
    /\ stage \in {"activate", "activating"} => g = o.expected
    /\ stage \in Holding => o.attempted /\ g = Candidate(o)
    /\ o.kind = "replace" /\ set = "yes" =>
           /\ ~o.attempted => RevisionOf(g) = o.previous
           /\ o.attempted => RevisionOf(o.expected) = o.previous
           /\ stage \in Begun /\ o.attempted => g \in {Candidate(o), o.expected}
           /\ stage \in Rolling /\ o.attempted => g \in {Null, Candidate(o), o.expected}
           /\ stage = "rollbackStatus" /\ o.conflict => g = o.expected
           /\ stage \in Undone /\ o.attempted /\ ~o.failed =>
                  IF o.disposition = "candidate-deactivated" /\ stage # "endCatch"
                  THEN g = Null
                  ELSE RevisionOf(g) = o.previous

Suits(to, p, h, r, g, pub, set) ==
    /\ Planned(to.stage, to.op, h, pub, set)
    /\ PointerPart(to.stage, to.op, p, set)
    /\ RuntimePart(to.stage, to.op, r, set)
    /\ GatewayPart(to.stage, to.op, g, set)

(* At rest the three authorities agree.                                    *)
Rests(p, r, g, pub) == StableAt(p, pub) /\ r.active = pub /\ RevisionOf(g) = pub

Agrees(t, to) ==
    Suits(to, pointer, prepared[t].revisionId, runtime[t], gateway.authority, published[t],
          settled[t])

AloneInv(t) ==
    /\ pc[t] # "idle" => Agrees(t, At(pc[t], op[t]))
    /\ pc[t] = "idle" /\ settled[t] = "yes" /\ ~recovery[t] =>
           Rests(pointer, runtime[t], gateway.authority, published[t])
    /\ pc[t] = "activating" =>
           \A i \in 1..Len(transitions) : transitions[i].expected = op[t].expected

-----------------------------------------------------------------------------
(* Where the code continues when an await throws.                          *)

LEMMA RollbackSuits ==
  ASSUME NEW p, NEW h, NEW r, NEW g, NEW pub, NEW set, NEW stage, NEW o,
         Suits(At(stage, o), p, h, r, g, pub, set),
         stage \in Holding \cup {"prepareGateway", "activate", "activating"},
         stage = "prepareGateway" => ~o.attempted
  PROVE  Suits(At("rollback", o), p, h, r, g, pub, set)
<1>1. Planned("rollback", o, h, pub, set)
  BY DEF Suits, At, Planned, Holding, Shown, Emptying, Hydrating, Before, Restore
<1>2. PointerPart("rollback", o, p, set)
  BY DEF Suits, At, PointerPart, Holding, Shown, After, Reactivation
<1>3. RuntimePart("rollback", o, r, set)
  BY DEF Suits, At, RuntimePart, Holding, Shown, After, Reactivation
<1>4. GatewayPart("rollback", o, g, set)
  BY DEF Suits, At, GatewayPart, Holding, Shown, Begun, Rolling, Undone
<1>5. QED
  BY <1>1, <1>2, <1>3, <1>4 DEF Suits, At

LEMMA CatchRollbackSuits ==
  ASSUME NEW p, NEW h, NEW r, NEW g, NEW pub, NEW set, NEW o,
         Suits(At("rollback", o), p, h, r, g, pub, set)
  PROVE  Suits(CatchRollback(o), p, h, r, g, pub, set)
<1>1. o.winner = "no"
  BY DEF Suits, At, Planned
<1>2. CASE o.attempted
  BY <1>1, <1>2 DEF CatchRollback
<1>3. CASE ~o.attempted
  <2>1. CatchRollback(o) = At("rollbackRuntime", o)
    BY <1>3 DEF CatchRollback
  <2>2. Planned("rollbackRuntime", o, h, pub, set)
    BY DEF Suits, At, Planned, Emptying, Hydrating, Before, Restore
  <2>3. PointerPart("rollbackRuntime", o, p, set)
    BY DEF Suits, At, PointerPart, After, Reactivation
  <2>4. RuntimePart("rollbackRuntime", o, r, set)
    BY DEF Suits, At, RuntimePart, Shown, After, Reactivation
  <2>5. GatewayPart("rollbackRuntime", o, g, set)
    BY <1>3 DEF Suits, At, GatewayPart, Holding, Shown, Begun, Rolling, Undone
  <2>6. QED
    BY <2>1, <2>2, <2>3, <2>4, <2>5 DEF Suits, At
<1>4. QED
  BY <1>2, <1>3

LEMMA CatchSuits ==
  ASSUME NEW p, NEW h, NEW r, NEW g, NEW pub, NEW set, NEW o, o.commit # "started",
         Suits(At("rollback", o), p, h, r, g, pub, set)
  PROVE  Suits(Catch(o), p, h, r, g, pub, set)
BY CatchRollbackSuits DEF Catch

(* gateway.rollback resolves with disposition d: what the Gateway has now. *)
LEMMA RolledBackSuits ==
  ASSUME NEW p, NEW h, NEW r, NEW g, NEW pub, NEW set, NEW stage \in Rolling, NEW o \in Op,
         NEW g0, Suits(At(stage, o), p, h, r, g0, pub, set), o.attempted, NEW d \in Dispositions,
         o.kind = "replace" /\ set = "yes" =>
             IF d = "candidate-deactivated" THEN g = Null ELSE RevisionOf(g) = o.previous
  PROVE  Suits(RolledBack(o, d), p, h, r, g, pub, set)
<1> DEFINE e == [o EXCEPT !.disposition = d]
<1>1. /\ e \in Op /\ e.disposition = d
      /\ e.kind = o.kind /\ e.winner = o.winner /\ e.next = o.next /\ e.previous = o.previous
      /\ e.saw = o.saw /\ e.restoring = o.restoring /\ e.commit = o.commit /\ e.token = o.token
      /\ e.transition = o.transition /\ e.attempted = o.attempted /\ e.expected = o.expected
      /\ e.failed = o.failed
  BY ZenonT(30) DEF Op, Dispositions
<1>2. o.winner = "no"
  BY DEF Suits, At, Planned
<1>3. PICK s \in {"checkInactive", "rollbackRuntime"} : RolledBack(o, d) = At(s, e)
  BY <1>2 DEF RolledBack, AfterRollback
<1> HIDE DEF e
<1>4. Planned(s, e, h, pub, set)
  BY <1>1 DEF Suits, At, Planned, Emptying, Hydrating, Before, Restore, Rolling, Begun
<1>5. PointerPart(s, e, p, set)
  BY <1>1 DEF Suits, At, PointerPart, After, Reactivation, Rolling, Begun, StableAt, Holds
<1>6. RuntimePart(s, e, r, set)
  BY <1>1 DEF Suits, At, RuntimePart, Shown, After, Reactivation, Rolling, Begun
<1>7. GatewayPart(s, e, g, set)
  BY <1>1 DEF Suits, At, GatewayPart, Holding, Shown, Begun, Rolling, Undone
<1>8. QED
  BY <1>3, <1>4, <1>5, <1>6, <1>7 DEF Suits, At

(* gateway.rollback throws: the operation will ask for recovery.           *)
LEMMA RollbackThrewSuits ==
  ASSUME NEW p, NEW h, NEW r, NEW g, NEW pub, NEW set, NEW stage \in Rolling, NEW o \in Op,
         NEW g0, Suits(At(stage, o), p, h, r, g0, pub, set), o.attempted
  PROVE  Suits(RollbackThrew(o), p, h, r, g, pub, set)
<1> DEFINE e == [o EXCEPT !.failed = TRUE]
<1>1. /\ e \in Op /\ e.failed
      /\ e.kind = o.kind /\ e.winner = o.winner /\ e.next = o.next /\ e.previous = o.previous
      /\ e.saw = o.saw /\ e.restoring = o.restoring /\ e.commit = o.commit /\ e.token = o.token
      /\ e.transition = o.transition /\ e.attempted = o.attempted /\ e.expected = o.expected
  BY DEF Op
<1>2. o.winner = "no"
  BY DEF Suits, At, Planned
<1>3. PICK s \in {"checkInactive", "rollbackRuntime"} : RollbackThrew(o) = At(s, e)
  BY <1>2 DEF RollbackThrew, AfterRollback
<1> HIDE DEF e
<1>4. Planned(s, e, h, pub, set)
  BY <1>1 DEF Suits, At, Planned, Emptying, Hydrating, Before, Restore, Rolling, Begun
<1>5. PointerPart(s, e, p, set)
  BY <1>1 DEF Suits, At, PointerPart, After, Reactivation, Rolling, Begun, StableAt, Holds
<1>6. RuntimePart(s, e, r, set)
  BY <1>1 DEF Suits, At, RuntimePart, Shown, After, Reactivation, Rolling, Begun
<1>7. GatewayPart(s, e, g, set)
  BY <1>1 DEF Suits, At, GatewayPart, Holding, Shown, Begun, Rolling, Undone
<1>8. QED
  BY <1>3, <1>4, <1>5, <1>6, <1>7 DEF Suits, At

(* The await at stage throws, before any word of a withdrawal.             *)
LEMMA ThrowSuits ==
  ASSUME NEW p, NEW h, NEW r, NEW g, NEW pub, NEW set, NEW stage, NEW o,
         Suits(At(stage, o), p, h, r, g, pub, set), o.commit # "started",
         stage \in Holding \cup {"prepareGateway", "activate", "activating"},
         stage = "prepareGateway" => ~o.attempted
  PROVE  Suits(Catch(o), p, h, r, g, pub, set) /\ Suits(CatchRollback(o), p, h, r, g, pub, set)
<1>1. Suits(At("rollback", o), p, h, r, g, pub, set)
  BY RollbackSuits
<1>2. QED
  BY <1>1, CatchSuits, CatchRollbackSuits

LEMMA CatchStages ==
  ASSUME NEW o
  PROVE  Catch(o).stage \notin {"idle", "activating"} /\ CatchRollback(o).stage \notin {"idle", "activating"}
BY DEF Catch, CatchRollback, At

LEMMA RolledBackStages ==
  ASSUME NEW o, NEW d
  PROVE  /\ RolledBack(o, d).stage \notin {"idle", "activating"}
         /\ RollbackThrew(o).stage \notin {"idle", "activating"}
BY DEF RolledBack, RollbackThrew, AfterRollback, At

(* The PUT may have reached the Gateway or not.                            *)
LEMMA UncertainSuits ==
  ASSUME NEW p, NEW h, NEW r, NEW g, NEW g0, NEW pub, NEW set, NEW o,
         Suits(At("activating", o), p, h, r, g0, pub, set), o.commit # "started", o.attempted,
         g \in {g0, Candidate(o)}
  PROVE  Suits(Catch(o), p, h, r, g, pub, set)
<1>1. Planned("rollback", o, h, pub, set)
  BY DEF Suits, At, Planned, Holding, Shown, Emptying, Hydrating, Before, Restore
<1>2. PointerPart("rollback", o, p, set)
  BY DEF Suits, At, PointerPart, Holding, Shown, After, Reactivation
<1>3. RuntimePart("rollback", o, r, set)
  BY DEF Suits, At, RuntimePart, Holding, Shown, After, Reactivation
<1>4. GatewayPart("rollback", o, g, set)
  BY DEF Suits, At, GatewayPart, Holding, Shown, Begun, Rolling, Undone
<1>5. Suits(At("rollback", o), p, h, r, g, pub, set)
  BY <1>1, <1>2, <1>3, <1>4 DEF Suits, At
<1>6. QED
  BY <1>5, CatchSuits

(* Reading the status changes nothing, or fails the compensation.          *)
LEMMA CheckedSuits ==
  ASSUME NEW p, NEW h, NEW r, NEW g, NEW pub, NEW set, NEW o \in Op,
         Suits(At("checkInactive", o), p, h, r, g, pub, set)
  PROVE  /\ Suits(At("rollbackRuntime", o), p, h, r, g, pub, set)
         /\ Suits(At("rollbackRuntime", Failed(o)), p, h, r, g, pub, set)
<1>1. ASSUME NEW e, e \in {o, Failed(o)}
      PROVE  Suits(At("rollbackRuntime", e), p, h, r, g, pub, set)
  <2>1. /\ e.kind = o.kind /\ e.winner = o.winner /\ e.next = o.next /\ e.previous = o.previous
        /\ e.saw = o.saw /\ e.restoring = o.restoring /\ e.commit = o.commit /\ e.token = o.token
        /\ e.transition = o.transition /\ e.attempted = o.attempted /\ e.expected = o.expected
        /\ e.disposition = o.disposition /\ (e.failed \/ e.failed = o.failed)
    BY <1>1 DEF Failed, Op
  <2>2. Planned("rollbackRuntime", e, h, pub, set)
    BY <2>1 DEF Suits, At, Planned, Emptying, Hydrating, Before, Restore
  <2>3. PointerPart("rollbackRuntime", e, p, set)
    BY <2>1 DEF Suits, At, PointerPart, After, Reactivation, StableAt, Holds
  <2>4. RuntimePart("rollbackRuntime", e, r, set)
    BY <2>1 DEF Suits, At, RuntimePart, Shown, After, Reactivation
  <2>5. GatewayPart("rollbackRuntime", e, g, set)
    BY <2>1 DEF Suits, At, GatewayPart, Holding, Shown, Begun, Rolling, Undone
  <2>6. QED
    BY <2>2, <2>3, <2>4, <2>5 DEF Suits, At
<1>2. QED
  BY <1>1

(* The tab's runtime is restored, and the catch block of replace goes on.  *)
Restoring(o, r) == IF o.transition THEN [NoRuntime EXCEPT !.active = r.previous] ELSE r

LEMMA AfterRuntimeSuits ==
  ASSUME NEW p, NEW h, NEW r, NEW g, NEW pub, NEW set, NEW o \in Op, o.kind = "replace",
         o.commit # "started", o.commit = "unknown" => o.failed,
         Suits(At("rollbackRuntime", o), p, h, r, g, pub, set)
  PROVE  /\ Suits(AfterRuntime(o), p, h, Restoring(o, r), g, pub, set)
         /\ AfterRuntime(o).stage \notin {"idle", "activating"}
<1>1. PICK q : q = Restoring(o, r)
  OBVIOUS
<1>2. IF o.transition THEN q.active = r.previous ELSE q = r
  BY <1>1 DEF Restoring, NoRuntime
<1>3. PICK s \in {"compensate", "discard", "reactivate", "endCatch"} : AfterRuntime(o) = At(s, o)
  BY DEF AfterRuntime, AfterRepository
<1>4. /\ s = "compensate" => o.commit = "yes"
      /\ s = "discard" => o.commit # "yes"
      /\ s \in {"reactivate", "endCatch"} => o.commit = "unknown"
  BY <1>3 DEF AfterRuntime, AfterRepository, At, Op
<1>5. Planned(s, o, h, pub, set)
  BY DEF Suits, At, Planned, Emptying, Hydrating, Before, Restore
<1>6. PointerPart(s, o, p, set)
  BY <1>4 DEF Suits, At, PointerPart, After, Reactivation
<1>7. RuntimePart(s, o, q, set)
  BY <1>2 DEF Suits, At, RuntimePart, Shown, After, Reactivation
<1>8. GatewayPart(s, o, g, set)
  BY <1>4 DEF Suits, At, GatewayPart, Holding, Shown, Begun, Rolling, Undone
<1>9. Suits(At(s, o), p, h, q, g, pub, set)
  BY <1>5, <1>6, <1>7, <1>8 DEF Suits, At
<1>10. AfterRuntime(o).stage = s
  BY <1>3 DEF At
<1>11. QED
  BY <1>1, <1>3, <1>9, <1>10

(* The repository's part is done: the handle was discarded, or the commit  *)
(* compensated and p is the pointer now.                                   *)
LEMMA AfterRepositorySuits ==
  ASSUME NEW p, NEW p0, NEW h, NEW r, NEW g, NEW pub, NEW set, NEW stage \in {"discard", "compensate"},
         NEW o \in Op, o.kind = "replace", o.commit # "started", o.commit = "yes" <=> stage = "compensate",
         Suits(At(stage, o), p0, h, r, g, pub, set),
         stage = "discard" => p = p0,
         stage = "compensate" => o.failed \/ StableAt(p, o.previous)
  PROVE  Suits(AfterRepository(o), p, h, r, g, pub, set)
<1>1. PICK s \in {"reactivate", "endCatch"} : AfterRepository(o) = At(s, o)
  BY DEF AfterRepository
<1>2. /\ s = "reactivate" => o.disposition = "candidate-deactivated"
      /\ s = "endCatch" /\ o.attempted =>
             o.disposition # "candidate-deactivated" \/ o.previous = Null
  BY <1>1 DEF AfterRepository, At
<1>3. Planned(s, o, h, pub, set)
  BY DEF Suits, At, Planned, Emptying, Hydrating, Before, Restore
<1>4. PointerPart(s, o, p, set)
  BY DEF Suits, At, PointerPart, After, Reactivation
<1>5. RuntimePart(s, o, r, set)
  BY DEF Suits, At, RuntimePart, Shown, After, Reactivation
<1>6. GatewayPart(s, o, g, set)
  BY <1>2 DEF Suits, At, GatewayPart, Holding, Shown, Begun, Rolling, Undone, RevisionOf
<1>7. QED
  BY <1>1, <1>3, <1>4, <1>5, <1>6 DEF Suits, At

LEMMA AfterRepositoryStages ==
  ASSUME NEW o
  PROVE  AfterRepository(o).stage \notin {"idle", "activating"}
BY DEF AfterRepository, At

LEMMA FailedFields ==
  ASSUME NEW o \in Op
  PROVE  /\ Failed(o) \in Op /\ Failed(o).failed
         /\ Failed(o).kind = o.kind /\ Failed(o).winner = o.winner /\ Failed(o).next = o.next
         /\ Failed(o).previous = o.previous /\ Failed(o).saw = o.saw
         /\ Failed(o).restoring = o.restoring /\ Failed(o).commit = o.commit
         /\ Failed(o).token = o.token /\ Failed(o).transition = o.transition
         /\ Failed(o).attempted = o.attempted /\ Failed(o).expected = o.expected
         /\ Failed(o).attempt = o.attempt /\ Failed(o).disposition = o.disposition
         /\ Failed(o).conflict = o.conflict
BY DEF Failed, Op

LEMMA FailedRepositorySuits ==
  ASSUME NEW p, NEW h, NEW r, NEW g, NEW pub, NEW set, NEW o \in Op, NEW stage,
         stage \in {"discard", "compensate"} \cup After,
         Suits(At(stage, o), p, h, r, g, pub, set), NEW s \in After, NEW p2,
         o.commit \notin {"started", "none", "noEffect"} \/ p2 = p
  PROVE  Suits(At(s, Failed(o)), p2, h, r, g, pub, set)
<1>1. PICK e \in Op : e = Failed(o)
  BY FailedFields
<1>2. /\ e.failed
      /\ e.kind = o.kind /\ e.winner = o.winner /\ e.next = o.next /\ e.previous = o.previous
      /\ e.saw = o.saw /\ e.restoring = o.restoring /\ e.commit = o.commit /\ e.token = o.token
      /\ e.transition = o.transition /\ e.attempted = o.attempted /\ e.expected = o.expected
  BY <1>1, FailedFields
<1>3. Planned(s, e, h, pub, set)
  BY <1>2 DEF Suits, At, Planned, Emptying, Hydrating, Before, Restore, After, Reactivation
<1>4. PointerPart(s, e, p2, set)
  BY <1>2 DEF Suits, At, PointerPart, After, Reactivation, StableAt, Holds
<1>5. RuntimePart(s, e, r, set)
  BY <1>2 DEF Suits, At, RuntimePart, Shown, After, Reactivation
<1>6. GatewayPart(s, e, g, set)
  BY <1>2 DEF Suits, At, GatewayPart, Holding, Shown, Begun, Rolling, Undone, After, Reactivation
<1>7. Suits(At(s, e), p2, h, r, g, pub, set)
  BY <1>3, <1>4, <1>5, <1>6 DEF Suits, At
<1>8. QED
  BY <1>1, <1>7

LEMMA AfterFailed ==
  ASSUME NEW o
  PROVE  \E s \in After : AfterRepository(o) = At(s, o)
BY DEF AfterRepository, After, Reactivation

-----------------------------------------------------------------------------
(* The tab goes on, or comes to rest.                                      *)

LEMMA AloneGoes ==
  ASSUME TabsInv, NEW t \in Tabs, NEW to, MovesTo(t, to), to.stage \notin {"idle", "activating"},
         Suits(to, pointer', prepared'[t].revisionId, runtime'[t], gateway'.authority, published'[t],
               settled'[t])
  PROVE  AloneInv(t)'
<1>1. pc'[t] = to.stage /\ op'[t] = to.op
  BY DEF MovesTo, TabsInv
<1>2. Suits(At(pc'[t], op'[t]), pointer', prepared'[t].revisionId, runtime'[t], gateway'.authority,
            published'[t], settled'[t])
  BY <1>1 DEF Suits, At
<1>3. QED
  BY <1>1, <1>2 DEF AloneInv, Agrees

LEMMA GotoAlone ==
  ASSUME TabsInv, NEW t \in Tabs, NEW to, Goto(t, to), to.stage \notin {"idle", "activating"},
         Suits(to, pointer', prepared'[t].revisionId, runtime[t], gateway'.authority, published[t],
               settled[t])
  PROVE  AloneInv(t)'
<1>1. MovesTo(t, to) /\ runtime' = runtime /\ published' = published /\ settled' = settled
  BY DEF Goto, MovesTo
<1>2. QED
  BY <1>1, AloneGoes

LEMMA LocalAlone ==
  ASSUME TabsInv, NEW t \in Tabs, NEW to, Goto(t, to), UNCHANGED <<pointer, prepared, gateway>>,
         to.stage \notin {"idle", "activating"}, Agrees(t, to)
  PROVE  AloneInv(t)'
<1>1. pointer' = pointer /\ prepared' = prepared /\ gateway' = gateway
  OBVIOUS
<1>2. QED
  BY <1>1, GotoAlone DEF Agrees

LEMMA StepAlone ==
  ASSUME TabsInv, NEW t \in Tabs, NEW to, Step(t, to) \/ \E class : FaultStep(t, class, to),
         to.stage \notin {"idle", "activating"}, Agrees(t, to)
  PROVE  AloneInv(t)'
<1>1. Goto(t, to) /\ UNCHANGED <<pointer, prepared, gateway>>
  BY DEF Step, FaultStep, LocalOnly, NoGatewayChange, repositoryVars
<1>2. QED
  BY <1>1, LocalAlone

LEMMA AloneRests ==
  ASSUME NEW t \in Tabs, pc'[t] = "idle",
         \/ recovery'[t]
         \/ settled'[t] # "yes"
         \/ Rests(pointer', runtime'[t], gateway'.authority, published'[t])
  PROVE  AloneInv(t)'
BY DEF AloneInv

LEMMA LeaveAlone ==
  ASSUME TabsInv, RestInv, NEW t \in Tabs, Leave(t, TRUE)
  PROVE  AloneInv(t)'
<1>1. pc'[t] = "idle" /\ recovery'[t]
  BY DEF Leave, TabsInv, RestInv
<1>2. QED
  BY <1>1, AloneRests

LEMMA SucceedAlone ==
  ASSUME TabsInv, RestInv, NEW t \in Tabs, NEW tokens, Succeed(t, tokens),
         Rests(pointer', runtime[t], gateway.authority, op[t].next)
  PROVE  AloneInv(t)'
<1>1. /\ pc'[t] = "idle" /\ published'[t] = op[t].next
      /\ runtime' = runtime /\ gateway' = gateway
  BY DEF Succeed, NoGatewayChange, TabsInv, RestInv
<1>2. Rests(pointer', runtime'[t], gateway'.authority, published'[t])
  BY <1>1
<1>3. QED
  BY <1>1, <1>2, AloneRests

(* What is known of a tab at an await.                                     *)
LEMMA AloneFacts ==
  ASSUME PublicationInv, NEW t \in Tabs, AloneInv(t), pc[t] # "idle"
  PROVE  /\ TabsInv /\ RestInv /\ op[t] \in Op
         /\ Agrees(t, At(pc[t], op[t]))
         /\ Sound(pc[t], op[t], prepared[t].status, compensated)
         /\ pc[t] # "reconcile" => op[t].commit # "started"
         /\ pc[t] = "prepareGateway" => ~op[t].attempted
         /\ op[t].commit = "unknown" => op[t].failed
         /\ op[t].winner = "no" /\ op[t].kind \in {"replace", "hydrate"}
<1>1. /\ TabsInv /\ RestInv /\ op[t] \in Op /\ Agrees(t, At(pc[t], op[t]))
      /\ Sound(pc[t], op[t], prepared[t].status, compensated)
  BY DEF PublicationInv, TabsInv, AloneInv
<1>2. LocalsOK(op[t], prepared[t].status) /\ StageOK(pc[t], op[t], compensated)
  BY <1>1 DEF Sound
<1>3. /\ pc[t] # "reconcile" => op[t].commit # "started"
      /\ pc[t] = "prepareGateway" => ~op[t].attempted
      /\ op[t].commit = "unknown" => op[t].failed
  BY <1>2 DEF LocalsOK, StageOK, Early
<1>4. Planned(pc[t], op[t], prepared[t].revisionId, published[t], settled[t])
  BY <1>1 DEF Agrees, Suits, At
<1>5. op[t].winner = "no" /\ op[t].kind \in {"replace", "hydrate"}
  BY <1>1, <1>4 DEF Planned, Op
<1>6. QED
  BY <1>1, <1>3, <1>5

(* The await throws.                                                       *)
LEMMA ThrowAlone ==
  ASSUME PublicationInv, NEW t \in Tabs, AloneInv(t),
         pc[t] \in Holding \cup {"prepareGateway", "activate", "activating"}, pc[t] # "reconcile"
  PROVE  Agrees(t, Catch(op[t])) /\ Agrees(t, CatchRollback(op[t]))
<1>1. pc[t] # "idle"
  BY DEF Holding, Shown
<1>2. PICK o : o = op[t]
  OBVIOUS
<1>3. PICK s : s = pc[t]
  OBVIOUS
<1>4. /\ Agrees(t, At(s, o)) /\ o.commit # "started" /\ (s = "prepareGateway" => ~o.attempted)
      /\ s \in Holding \cup {"prepareGateway", "activate", "activating"}
  BY <1>1, <1>2, <1>3, AloneFacts
<1>5. Agrees(t, Catch(o)) /\ Agrees(t, CatchRollback(o))
  BY <1>4, ThrowSuits DEF Agrees
<1>6. QED
  BY <1>2, <1>5

-----------------------------------------------------------------------------
(* The steps of the tab, up to the Gateway candidate.                      *)

LEMMA BeginAlone ==
  ASSUME RepositoryInv, PublicationInv, NEW t \in Tabs, AloneInv(t), Begin(t)
  PROVE  AloneInv(t)'
<1>1. PICK r \in RevisionIds, x \in Contents :
         /\ PrepareRevision(t, r, x)
         /\ Goto(t, At("prepareGateway",
                [NoOp EXCEPT !.kind = "replace", !.next = r, !.previous = published[t]]))
  BY DEF Begin
<1> DEFINE o == [NoOp EXCEPT !.kind = "replace", !.next = r, !.previous = published[t]]
<1>2. /\ NoGatewayChange /\ pc[t] = "idle" /\ ~recovery[t]
  BY DEF Begin, Editable
<1>3. /\ o.kind = "replace" /\ o.winner = "no" /\ o.next = r /\ o.previous = published[t]
      /\ o.commit = "none" /\ ~o.transition /\ ~o.attempted
  BY DEF NoOp
<1> HIDE DEF o
<1>4. pointer' = pointer /\ prepared'[t].revisionId = r /\ gateway' = gateway
  BY <1>1, <1>2 DEF PrepareRevision, RepositoryInv, RepositoryTypeOK, Tabs, NoGatewayChange
<1>5. settled[t] = "yes" => Rests(pointer, runtime[t], gateway.authority, published[t])
  BY <1>2 DEF AloneInv
<1>6. Planned("prepareGateway", o, r, published[t], settled[t])
  BY <1>3 DEF Planned, Hydrating, Emptying, Restore
<1>7. PointerPart("prepareGateway", o, pointer, settled[t])
  BY <1>3, <1>5 DEF PointerPart, Rests
<1>8. RuntimePart("prepareGateway", o, runtime[t], settled[t])
  BY <1>3, <1>5 DEF RuntimePart, Rests, Shown
<1>9. GatewayPart("prepareGateway", o, gateway.authority, settled[t])
  BY <1>3, <1>5 DEF GatewayPart, Rests, Holding, Shown, Begun, Rolling, Undone
<1>10. Suits(At("prepareGateway", o), pointer', prepared'[t].revisionId, runtime[t],
             gateway'.authority, published[t], settled[t])
  BY <1>4, <1>6, <1>7, <1>8, <1>9 DEF Suits, At
<1>11. Goto(t, At("prepareGateway", o)) /\ At("prepareGateway", o).stage = "prepareGateway"
  BY <1>1 DEF At, o
<1>12. QED
  BY <1>10, <1>11, GotoAlone DEF PublicationInv

(* An operation that hydrates, while the tab has not settled yet: what the *)
(* three authorities have is none of its business until it shows it.       *)
LEMMA HydratingSuits ==
  ASSUME NEW stage, NEW o, NEW p, NEW h, NEW r, NEW g, NEW pub, NEW set,
         Planned(stage, o, h, pub, set), o.kind = "hydrate",
         stage \in {"emptyStatus", "loadPrevious", "loadTarget", "prepareGateway", "rollbackRuntime"}
                   \cup Restore
  PROVE  Suits(At(stage, o), p, h, r, g, pub, set)
BY DEF Suits, At, PointerPart, RuntimePart, GatewayPart, Restore, Shown, Holding, Begun, Rolling

LEMMA HydrateAlone ==
  ASSUME RepositoryInv, PublicationInv, NEW t \in Tabs, AloneInv(t), Hydrate(t)
  PROVE  AloneInv(t)'
<1> DEFINE o == [NoOp EXCEPT !.kind = "hydrate", !.saw = pointer, !.next = pointer.revisionId]
<1>1. PICK s : /\ Step(t, At(s, o))
              /\ s = CASE pointer.state = "none" -> "emptyStatus"
                        [] pointer.previousRevisionId # Null -> "loadPrevious"
                        [] OTHER -> "loadTarget"
  BY DEF Hydrate
<1>2. pc[t] = "idle" /\ ~recovery[t] /\ published[t] = Null
  BY DEF Hydrate, Editable
<1>3. /\ pointer.state = "none" => pointer.previousRevisionId = Null
      /\ pointer.state # "none" => pointer.revisionId # Null
  BY RepositoryAssumption DEF RepositoryInv, PointerShape, NoPointer
<1>4. s \in {"emptyStatus", "loadPrevious", "loadTarget"} /\ (pointer.state = "none" => s = "emptyStatus")
  BY <1>1, <1>3
<1>5. settled[t] = "yes" => pointer.state = "none"
  BY <1>2, <1>3 DEF AloneInv, Rests, StableAt
<1>6. /\ o.kind = "hydrate" /\ o.winner = "no" /\ o.next = pointer.revisionId /\ o.saw = pointer
      /\ o.previous = Null /\ ~o.restoring
  BY DEF NoOp
<1> HIDE DEF o
<1>7. PICK h : h = prepared[t].revisionId
  OBVIOUS
<1>8. Planned(s, o, h, published[t], settled[t])
  BY <1>2, <1>4, <1>5, <1>6 DEF Planned, Emptying
<1>9. Suits(At(s, o), pointer, h, runtime[t], gateway.authority, published[t], settled[t])
  BY <1>4, <1>6, <1>8, HydratingSuits
<1>10. Agrees(t, At(s, o)) /\ At(s, o).stage = s /\ s \notin {"idle", "activating"}
  BY <1>4, <1>7, <1>9 DEF Agrees, At
<1>11. QED
  BY <1>1, <1>10, StepAlone DEF PublicationInv

LEMMA EmptyStatusAlone ==
  ASSUME PublicationInv, NEW t \in Tabs, AloneInv(t), EmptyStatus(t)
  PROVE  AloneInv(t)'
<1>1. pc[t] = "emptyStatus" /\ pc[t] # "idle"
  BY DEF EmptyStatus
<1>2. /\ TabsInv /\ RestInv /\ Agrees(t, At(pc[t], op[t]))
  BY <1>1, AloneFacts
<1>3. CASE Leave(t, TRUE)
  BY <1>2, <1>3, LeaveAlone
<1>4. CASE ~Leave(t, TRUE)
  <2>1. /\ StatusInactive
        /\ runtime' = [runtime EXCEPT ![t] = [active |-> Null, previous |-> @.active, open |-> TRUE]]
        /\ pc' = [pc EXCEPT ![t] = "emptyVerify"]
        /\ UNCHANGED <<op, published, settled>>
        /\ pointer' = pointer /\ prepared' = prepared /\ gateway' = gateway
    BY <1>4 DEF EmptyStatus, repositoryVars, NoGatewayChange
  <2>2. /\ pc'[t] = "emptyVerify" /\ op'[t] = op[t] /\ runtime'[t].active = Null
    BY <1>2, <2>1 DEF TabsInv, RestInv
  <2>3. gateway.authority = Null
    BY <2>1 DEF StatusInactive
  <2>4. PICK o : o = op[t]
    OBVIOUS
  <2>5. Planned("emptyStatus", o, prepared[t].revisionId, published[t], settled[t])
    BY <1>1, <1>2, <2>4 DEF Agrees, Suits, At
  <2>6. o.kind = "hydrate"
    BY <2>5 DEF Planned, Hydrating, Emptying
  <2>7. Planned("emptyVerify", o, prepared[t].revisionId, published[t], settled[t])
    BY <2>5 DEF Planned, Hydrating, Emptying, Before
  <2>8. PointerPart("emptyVerify", o, pointer, settled[t])
    BY <2>6 DEF PointerPart
  <2>9. RuntimePart("emptyVerify", o, runtime'[t], settled[t])
    BY <2>2, <2>6 DEF RuntimePart, Shown
  <2>10. GatewayPart("emptyVerify", o, gateway.authority, settled[t])
    BY <2>3, <2>6 DEF GatewayPart, Holding, Shown
  <2>11. Agrees(t, At(pc[t], op[t]))'
    BY <2>1, <2>2, <2>4, <2>7, <2>8, <2>9, <2>10 DEF Agrees, Suits, At
  <2>12. QED
    BY <2>2, <2>11 DEF AloneInv
<1>5. QED
  BY <1>3, <1>4

LEMMA EmptyFailedAlone ==
  ASSUME TabsInv, RestInv, NEW t \in Tabs, EmptyFailed(t)
  PROVE  AloneInv(t)'
<1>1. pc'[t] = "idle" /\ recovery'[t]
  BY DEF EmptyFailed, TabsInv, RestInv
<1>2. QED
  BY <1>1, AloneRests

LEMMA EmptyVerifyAlone ==
  ASSUME PublicationInv, NEW t \in Tabs, AloneInv(t), EmptyVerify(t)
  PROVE  AloneInv(t)'
<1>1. pc[t] = "emptyVerify" /\ pc[t] # "idle" /\ UNCHANGED <<pointer, prepared, gateway>>
  BY DEF EmptyVerify, LocalOnly, NoGatewayChange, repositoryVars
<1>2. TabsInv /\ RestInv /\ Agrees(t, At(pc[t], op[t]))
  BY <1>1, AloneFacts
<1>3. CASE EmptyFailed(t)
  BY <1>2, <1>3, EmptyFailedAlone
<1>4. CASE Goto(t, At("emptyPointer", op[t]))
  <2>1. PICK o : o = op[t]
    OBVIOUS
  <2>2. Suits(At("emptyVerify", o), pointer, prepared[t].revisionId, runtime[t], gateway.authority,
              published[t], settled[t])
    BY <1>1, <1>2, <2>1 DEF Agrees
  <2>3. o.kind = "hydrate"
    BY <2>2 DEF Suits, At, Planned, Hydrating, Emptying
  <2>4. Planned("emptyPointer", o, prepared[t].revisionId, published[t], settled[t])
    BY <2>2 DEF Suits, At, Planned, Hydrating, Emptying, Before
  <2>5. PointerPart("emptyPointer", o, pointer, settled[t])
    BY <2>3 DEF PointerPart
  <2>6. RuntimePart("emptyPointer", o, runtime[t], settled[t])
    BY <2>2, <2>3 DEF Suits, At, RuntimePart, Shown
  <2>7. GatewayPart("emptyPointer", o, gateway.authority, settled[t])
    BY <2>2, <2>3 DEF Suits, At, GatewayPart, Holding, Shown
  <2>8. Agrees(t, At("emptyPointer", op[t])) /\ At("emptyPointer", op[t]).stage = "emptyPointer"
    BY <2>1, <2>4, <2>5, <2>6, <2>7 DEF Agrees, Suits, At
  <2>9. QED
    BY <1>1, <1>2, <1>4, <2>8, LocalAlone
<1>5. QED
  BY <1>3, <1>4 DEF EmptyVerify

LEMMA EmptyPointerAlone ==
  ASSUME RepositoryInv, PublicationInv, NEW t \in Tabs, AloneInv(t), EmptyPointer(t)
  PROVE  AloneInv(t)'
<1>1. pc[t] = "emptyPointer" /\ pc[t] # "idle" /\ UNCHANGED <<pointer, prepared, gateway>>
  BY DEF EmptyPointer, LocalOnly, NoGatewayChange, repositoryVars
<1>2. TabsInv /\ RestInv /\ Agrees(t, At(pc[t], op[t]))
  BY <1>1, AloneFacts
<1>3. CASE EmptyFailed(t)
  BY <1>2, <1>3, EmptyFailedAlone
<1>4. CASE ~EmptyFailed(t)
  <2>1. /\ pointer.state = "none" /\ pc' = [pc EXCEPT ![t] = "idle"]
        /\ UNCHANGED <<published, runtime>>
    BY <1>4 DEF EmptyPointer
  <2>2. pc'[t] = "idle"
    BY <1>2, <2>1 DEF TabsInv
  <2>3. PICK o : o = op[t]
    OBVIOUS
  <2>4. Suits(At("emptyPointer", o), pointer, prepared[t].revisionId, runtime[t], gateway.authority,
              published[t], settled[t])
    BY <1>1, <1>2, <2>3 DEF Agrees
  <2>5. published[t] = Null
    BY <2>4 DEF Suits, At, Planned, Hydrating, Emptying
  <2>6. runtime[t].active = Null /\ gateway.authority = Null
    BY <2>4 DEF Suits, At, RuntimePart, GatewayPart
  <2>7. pointer.revisionId = Null
    BY <2>1 DEF RepositoryInv, PointerShape, NoPointer
  <2>8. Rests(pointer', runtime'[t], gateway'.authority, published'[t])
    BY <1>1, <2>1, <2>5, <2>6, <2>7 DEF Rests, StableAt, RevisionOf
  <2>9. QED
    BY <2>2, <2>8, AloneRests
<1>5. QED
  BY <1>3, <1>4

LEMMA LoadPreviousAlone ==
  ASSUME PublicationInv, NEW t \in Tabs, AloneInv(t), LoadPrevious(t)
  PROVE  AloneInv(t)'
<1>1. pc[t] = "loadPrevious" /\ pc[t] # "idle" /\ UNCHANGED <<pointer, prepared, gateway>>
  BY DEF LoadPrevious, LocalOnly, NoGatewayChange, repositoryVars
<1>2. TabsInv /\ RestInv /\ Agrees(t, At(pc[t], op[t])) /\ op[t] \in Op
  BY <1>1, AloneFacts
<1>3. CASE Leave(t, TRUE)
  BY <1>2, <1>3, LeaveAlone
<1>4. CASE ~Leave(t, TRUE)
  <2>1. PICK o \in Op : o = op[t]
    BY <1>2
  <2>2. PICK e : e = [o EXCEPT !.previous = o.saw.previousRevisionId]
    OBVIOUS
  <2>3. Goto(t, At("loadTarget", e))
    BY <1>4, <2>1, <2>2 DEF LoadPrevious
  <2>4. /\ e.kind = o.kind /\ e.winner = o.winner /\ e.next = o.next /\ e.saw = o.saw
        /\ e.restoring = o.restoring /\ e.previous = o.saw.previousRevisionId
    BY <2>2 DEF Op
  <2>5. Planned("loadPrevious", o, prepared[t].revisionId, published[t], settled[t])
    BY <1>1, <1>2, <2>1 DEF Agrees, Suits, At
  <2>6. Planned("loadTarget", e, prepared[t].revisionId, published[t], settled[t]) /\ e.kind = "hydrate"
    BY <2>4, <2>5 DEF Planned, Hydrating, Emptying
  <2>7. Agrees(t, At("loadTarget", e)) /\ At("loadTarget", e).stage = "loadTarget"
    BY <2>6, HydratingSuits DEF Agrees, At
  <2>8. QED
    BY <1>1, <1>2, <2>3, <2>7, LocalAlone
<1>5. QED
  BY <1>3, <1>4

LEMMA LoadTargetAlone ==
  ASSUME PublicationInv, NEW t \in Tabs, AloneInv(t), LoadTarget(t)
  PROVE  AloneInv(t)'
<1>1. pc[t] = "loadTarget" /\ pc[t] # "idle" /\ UNCHANGED <<pointer, prepared, gateway>>
  BY DEF LoadTarget, LocalOnly, NoGatewayChange, repositoryVars
<1>2. TabsInv /\ RestInv /\ Agrees(t, At(pc[t], op[t]))
  BY <1>1, AloneFacts
<1>3. CASE Leave(t, TRUE)
  BY <1>2, <1>3, LeaveAlone
<1>4. ASSUME NEW s \in {"prepareGateway", "restorePointer"}, Goto(t, At(s, op[t]))
      PROVE  AloneInv(t)'
  <2>1. PICK o : o = op[t]
    OBVIOUS
  <2>2. Planned("loadTarget", o, prepared[t].revisionId, published[t], settled[t])
    BY <1>1, <1>2, <2>1 DEF Agrees, Suits, At
  <2>3. Planned(s, o, prepared[t].revisionId, published[t], settled[t]) /\ o.kind = "hydrate"
    BY <2>2 DEF Planned, Hydrating, Emptying
  <2>4. Agrees(t, At(s, o)) /\ At(s, o).stage = s
    BY <2>3, HydratingSuits DEF Agrees, At, Restore
  <2>5. QED
    BY <1>1, <1>2, <1>4, <2>1, <2>4, LocalAlone
<1>5. QED
  BY <1>3, <1>4 DEF LoadTarget, LoadFailed

LEMMA PrepareGatewayAlone ==
  ASSUME PublicationInv, NEW t \in Tabs, AloneInv(t), PrepareGateway(t)
  PROVE  AloneInv(t)'
<1>1. pc[t] = "prepareGateway" /\ pc[t] # "idle" /\ UNCHANGED <<pointer, prepared, gateway>>
  BY DEF PrepareGateway, repositoryVars
<1>2. TabsInv /\ Agrees(t, At(pc[t], op[t])) /\ op[t] \in Op /\ ~op[t].attempted
  BY <1>1, AloneFacts
<1>3. CASE Goto(t, Catch(op[t]))
  <2>1. Agrees(t, Catch(op[t])) /\ Catch(op[t]).stage \notin {"idle", "activating"}
    BY <1>1, ThrowAlone, CatchStages
  <2>2. QED
    BY <1>1, <1>2, <1>3, <2>1, LocalAlone
<1>4. CASE ~Goto(t, Catch(op[t]))
  <2>1. PICK o \in Op : o = op[t]
    BY <1>2
  <2>2. PICK a : a = lastAttempt'
    OBVIOUS
  <2>3. PICK e : e = [o EXCEPT !.attempt = a, !.expected = gateway.authority]
    OBVIOUS
  <2>4. Goto(t, At("activate", e))
    BY <1>4, <2>1, <2>2, <2>3 DEF PrepareGateway
  <2>5. /\ e.kind = o.kind /\ e.winner = o.winner /\ e.next = o.next /\ e.saw = o.saw
        /\ e.restoring = o.restoring /\ e.previous = o.previous /\ e.commit = o.commit
        /\ e.token = o.token /\ e.transition = o.transition /\ e.attempted = o.attempted
        /\ e.expected = gateway.authority /\ ~o.attempted
    BY <1>2, <2>1, <2>3 DEF Op
  <2>6. Suits(At("prepareGateway", o), pointer, prepared[t].revisionId, runtime[t],
              gateway.authority, published[t], settled[t])
    BY <1>1, <1>2, <2>1 DEF Agrees
  <2>7. Planned("activate", e, prepared[t].revisionId, published[t], settled[t])
    BY <2>5, <2>6 DEF Suits, At, Planned, Hydrating, Emptying, Restore, Before
  <2>8. PointerPart("activate", e, pointer, settled[t])
    BY <2>5, <2>6 DEF Suits, At, PointerPart, After, Reactivation, Holds
  <2>9. RuntimePart("activate", e, runtime[t], settled[t])
    BY <2>5, <2>6 DEF Suits, At, RuntimePart, Shown, After, Reactivation
  <2>10. GatewayPart("activate", e, gateway.authority, settled[t])
    BY <2>5, <2>6 DEF Suits, At, GatewayPart, Holding, Shown, Begun, Rolling, Undone
  <2>11. Agrees(t, At("activate", e)) /\ At("activate", e).stage = "activate"
    BY <2>7, <2>8, <2>9, <2>10 DEF Agrees, Suits, At
  <2>12. QED
    BY <1>1, <1>2, <2>4, <2>11, LocalAlone
<1>5. QED
  BY <1>3, <1>4

(* No request is in the queue while its only tab waits for none.           *)
LEMMA NothingAsked ==
  ASSUME PublicationInv, AttemptsInv, NEW t, Clients = {t}, pc[t] \notin Waiting
  PROVE  Len(transitions) = 0
<1>1. ASSUME NEW i \in 1..Len(transitions)
      PROVE  FALSE
  <2>1. Awaited(transitions[i])
    BY DEF AttemptsInv, AwaitedInv
  <2>2. transitions[i].tab \in Tabs
    BY Queued DEF PublicationInv
  <2>3. QED
    BY <2>1, <2>2 DEF Awaited, Tabs
<1>2. Len(transitions) \in Nat
  BY DEF PublicationInv, QueueInv
<1>3. QED
  BY <1>1, <1>2

LEMMA SentSuits ==
  ASSUME NEW o \in Op, NEW p, NEW h, NEW r, NEW g, NEW pub, NEW set, ~o.attempted,
         Suits(At("activate", o), p, h, r, g, pub, set),
         NEW e, e = [o EXCEPT !.attempted = TRUE]
  PROVE  Suits(At("activating", e), p, h, r, g, pub, set)
<1>1. /\ e.kind = o.kind /\ e.winner = o.winner /\ e.next = o.next /\ e.saw = o.saw
      /\ e.restoring = o.restoring /\ e.previous = o.previous /\ e.commit = o.commit
      /\ e.token = o.token /\ e.transition = o.transition /\ e.attempted
      /\ e.expected = o.expected
  BY DEF Op
<1>2. Planned("activating", e, h, pub, set)
  BY <1>1 DEF Suits, At, Planned, Hydrating, Emptying, Restore, Before
<1>3. PointerPart("activating", e, p, set)
  BY <1>1 DEF Suits, At, PointerPart, After, Reactivation, Holds
<1>4. RuntimePart("activating", e, r, set)
  BY <1>1 DEF Suits, At, RuntimePart, Shown, After, Reactivation
<1>5. GatewayPart("activating", e, g, set)
  BY <1>1 DEF Suits, At, GatewayPart, Holding, Shown, Begun, Rolling, Undone
<1>6. QED
  BY <1>2, <1>3, <1>4, <1>5 DEF Suits, At

LEMMA ActivateAlone ==
  ASSUME PublicationInv, AttemptsInv, NEW t \in Tabs, Clients = {t}, AloneInv(t), Activate(t)
  PROVE  AloneInv(t)'
<1>1. pc[t] = "activate" /\ pc[t] # "idle" /\ pc[t] \notin Waiting
  BY DEF Activate, Waiting
<1>2. /\ TabsInv /\ Agrees(t, At(pc[t], op[t])) /\ op[t] \in Op /\ op[t].commit # "started"
      /\ ~op[t].attempted
  BY <1>1, AloneFacts DEF AttemptsInv, RunningInv
<1>3. CASE FaultStep(t, "runtimeFailed", Catch(op[t]))
  <2>1. Agrees(t, Catch(op[t])) /\ Catch(op[t]).stage \notin {"idle", "activating"}
    BY <1>1, ThrowAlone, CatchStages
  <2>2. QED
    BY <1>2, <1>3, <2>1, StepAlone
<1>4. CASE ~FaultStep(t, "runtimeFailed", Catch(op[t]))
  <2>1. PICK o \in Op : o = op[t]
    BY <1>2
  <2>2. PICK e : e = [o EXCEPT !.attempted = TRUE]
    OBVIOUS
  <2>3. Send(t, "activate", Candidate(o), o.expected, "activating", e)
    BY <1>4, <2>1, <2>2 DEF Activate
  <2>4. Suits(At("activate", o), pointer, prepared[t].revisionId, runtime[t], gateway.authority,
              published[t], settled[t])
    BY <1>1, <1>2, <2>1 DEF Agrees
  <2>5. Suits(At("activating", e), pointer, prepared[t].revisionId, runtime[t], gateway.authority,
              published[t], settled[t])
    BY <1>2, <2>1, <2>2, <2>4, SentSuits
  <2>6. e.attempted /\ e.commit # "started" /\ e.expected = o.expected
    BY <1>2, <2>1, <2>2 DEF Op
  <2>7. UNCHANGED <<pointer, prepared, gateway>>
    BY <2>3 DEF Send, repositoryVars
  <2>8. CASE Goto(t, Answered(e, "activating", "lost"))
    <3>1. Answered(e, "activating", "lost") = Catch(e)
      BY DEF Answered
    <3>2. Agrees(t, Catch(e)) /\ Catch(e).stage \notin {"idle", "activating"}
      BY <2>5, <2>6, UncertainSuits, CatchStages DEF Agrees
    <3>3. QED
      BY <1>2, <2>7, <2>8, <3>1, <3>2, LocalAlone
  <2>9. CASE Enqueue("activate", t, Candidate(o), o.expected) /\ Goto(t, At("activating", e))
    <3>1. PICK q : q = [kind |-> "activate", tab |-> t, waiting |-> TRUE,
                        authority |-> Candidate(o), expected |-> o.expected]
      OBVIOUS
    <3>2. transitions' = Append(transitions, q) /\ q.expected = o.expected
      BY <2>9, <3>1 DEF Enqueue
    <3>3. Len(transitions) = 0 /\ transitions \in Seq(Request)
      BY <1>1, NothingAsked DEF PublicationInv, QueueInv
    <3>4. \A i \in 1..Len(transitions') : transitions'[i].expected = o.expected
      BY <3>2, <3>3
    <3>5. pc'[t] = "activating" /\ op'[t] = e
      BY <1>2, <2>9 DEF Goto, At, TabsInv
    <3>6. runtime' = runtime /\ published' = published /\ settled' = settled
      BY <2>9 DEF Goto
    <3>7. Agrees(t, At(pc[t], op[t]))'
      BY <2>5, <2>7, <3>5, <3>6 DEF Agrees, Suits, At
    <3>8. QED
      BY <2>6, <3>4, <3>5, <3>7 DEF AloneInv
  <2>10. QED
    BY <2>3, <2>8, <2>9 DEF Send
<1>5. QED
  BY <1>3, <1>4

LEMMA WinnerAlone ==
  ASSUME PublicationInv, NEW t \in Tabs, AloneInv(t), Winner(t)
  PROVE  FALSE
<1>1. pc[t] = "winner" /\ pc[t] # "idle"
  BY DEF Winner
<1>2. Agrees(t, At(pc[t], op[t]))
  BY <1>1, AloneFacts
<1>3. QED
  BY <1>1, <1>2 DEF Agrees, Suits, At, Planned

-----------------------------------------------------------------------------
(* The commits, of the repository and of the runtime.                      *)

(* The commit of o with token k: e goes on at s, and p is the pointer.     *)
Committing(o, k, s, e, p) ==
    \/ /\ s = "commitRuntime" /\ e = [o EXCEPT !.token = k, !.commit = "yes"] /\ Holds(p, e)
    \/ /\ s = "reconcile" /\ e = [o EXCEPT !.token = k, !.commit = "started"]
       /\ p.commitToken = k => Holds(p, e)

LEMMA CommittedSuits ==
  ASSUME NEW o \in Op, NEW p, NEW p0, NEW h, NEW r, NEW g, NEW pub, NEW set,
         Suits(At("commit", o), p0, h, r, g, pub, set), o.kind = "replace",
         NEW k, NEW s, NEW e, Committing(o, k, s, e, p)
  PROVE  Suits(At(s, e), p, h, r, g, pub, set)
<1>1. /\ e.kind = o.kind /\ e.winner = o.winner /\ e.next = o.next /\ e.saw = o.saw
      /\ e.restoring = o.restoring /\ e.previous = o.previous
      /\ e.token = k /\ e.transition = o.transition /\ e.attempted = o.attempted
      /\ e.expected = o.expected /\ e.attempt = o.attempt
      /\ \/ s = "commitRuntime" /\ e.commit = "yes" /\ Holds(p, e)
         \/ s = "reconcile" /\ e.commit = "started" /\ (p.commitToken = k => Holds(p, e))
  BY DEF Op, Committing
<1>2. Planned(s, e, h, pub, set)
  BY <1>1 DEF Suits, At, Planned, Hydrating, Emptying, Restore, Before
<1>3. PointerPart(s, e, p, set)
  BY <1>1 DEF Suits, At, PointerPart, After, Reactivation
<1>4. RuntimePart(s, e, r, set)
  BY <1>1 DEF Suits, At, RuntimePart, Shown, After, Reactivation
<1>5. GatewayPart(s, e, g, set)
  BY <1>1 DEF Suits, At, GatewayPart, Holding, Shown, Begun, Rolling, Undone, Candidate
<1>6. QED
  BY <1>2, <1>3, <1>4, <1>5 DEF Suits, At

LEMMA CommitAlone ==
  ASSUME RepositoryInv, PublicationInv, NEW t \in Tabs, AloneInv(t), Commit(t)
  PROVE  AloneInv(t)'
<1>1. pc[t] = "commit" /\ pc[t] # "idle" /\ gateway' = gateway
  BY DEF Commit, NoGatewayChange
<1>2. /\ TabsInv /\ Agrees(t, At(pc[t], op[t])) /\ op[t] \in Op
      /\ Sound(pc[t], op[t], prepared[t].status, compensated)
  BY <1>1, AloneFacts
<1>3. PICK o \in Op : o = op[t]
  BY SMTT(30), <1>2
<1>4. PICK k \in FreshTokens :
         LET z == [op[t] EXCEPT !.token = k, !.commit = "started"]
         IN \/ /\ CommitPreparedRevision(t, z.previous, k)
               /\ Goto(t, At("commitRuntime", [z EXCEPT !.commit = "yes"]))
            \/ CommitResponseLost(t, z.previous, k) /\ Goto(t, Catch(z))
            \/ CommitRejected(t) /\ Goto(t, Catch(z))
  BY DEF Commit
<1>5. PICK x : x = [o EXCEPT !.token = k, !.commit = "started"]
  OBVIOUS
<1>6. PICK y : y = [o EXCEPT !.token = k, !.commit = "yes"]
  OBVIOUS
<1>7. [x EXCEPT !.commit = "yes"] = y
  BY <1>5, <1>6 DEF Op
<1>8. /\ x.kind = o.kind /\ x.commit = "started" /\ x.token = k /\ x.next = o.next
      /\ x.previous = o.previous
      /\ y.kind = o.kind /\ y.commit = "yes" /\ y.token = k /\ y.next = o.next
      /\ y.previous = o.previous
  BY <1>5, <1>6 DEF Op
<1>9. \/ CommitPreparedRevision(t, o.previous, k) /\ Goto(t, At("commitRuntime", y))
      \/ CommitResponseLost(t, o.previous, k) /\ Goto(t, Catch(x))
      \/ CommitRejected(t) /\ Goto(t, Catch(x))
  BY <1>3, <1>4, <1>5, <1>7, <1>8
<1>10. PICK h : h = prepared[t].revisionId
  OBVIOUS
<1>11. Suits(At("commit", o), pointer, h, runtime[t], gateway.authority, published[t], settled[t])
  BY <1>1, <1>2, <1>3, <1>10 DEF Agrees
<1>12. o.kind = "replace" /\ LocalsOK(o, prepared[t].status)
  BY <1>1, <1>2, <1>3 DEF Sound, StageOK, ReplaceOnly
<1>13. prepared[t].status = "prepared" /\ \E s : SetStatus(t, s)
  BY <1>9 DEF CommitPreparedRevision, CommitResponseLost, CommitRejected
<1>14. o.commit = "none" /\ prepared'[t].revisionId = h
  BY <1>10, <1>12, <1>13 DEF LocalsOK, SetStatus, RepositoryInv, RepositoryTypeOK, Tabs, PreparedState
<1>15. h = o.next
  BY <1>11, <1>12, <1>14 DEF Suits, At, Planned
<1>16. ASSUME CommitAllowed(t, o.previous, k), CommitEffect(t, k), NEW e \in {x, y}
       PROVE  Holds(pointer', e)
  <2>1. pointer' = PublishingPointer(h, k, pointer) /\ pointer.revisionId = o.previous
    BY <1>10, <1>16 DEF CommitAllowed, CommitEffect
  <2>2. QED
    BY <1>8, <1>15, <2>1 DEF Holds, PublishingPointer
<1>17. ASSUME UNCHANGED pointer
       PROVE  pointer'.commitToken # k
  <2>1. k \in Tokens /\ k \notin projectCommitTokens
    BY DEF FreshTokens
  <2>2. pointer.state = "none" => pointer.commitToken = Null
    BY DEF RepositoryInv, PointerShape, NoPointer
  <2>3. pointer.state \in {"none", "stable", "publishing"}
    BY DEF RepositoryInv, RepositoryTypeOK, StoredProjectPointer
  <2>4. pointer.state # "none" => pointer.commitToken \in projectCommitTokens
    BY <2>3 DEF RepositoryInv, TokensDecided
  <2>5. QED
    BY <1>17, <2>1, <2>2, <2>4, RepositoryAssumption
<1>18. CASE CommitPreparedRevision(t, o.previous, k) /\ Goto(t, At("commitRuntime", y))
  <2>1. Holds(pointer', y)
    BY <1>16, <1>18 DEF CommitPreparedRevision
  <2>2. Suits(At("commitRuntime", y), pointer', h, runtime[t], gateway.authority, published[t],
              settled[t])
    <3>1. Committing(o, k, "commitRuntime", y, pointer')
      BY <1>6, <2>1 DEF Committing
    <3>2. QED
      BY <1>11, <1>12, <3>1, CommittedSuits
  <2>3. At("commitRuntime", y).stage = "commitRuntime"
    BY DEF At
  <2>4. QED
    BY <1>1, <1>2, <1>14, <1>18, <2>2, <2>3, GotoAlone
<1>19. CASE (CommitResponseLost(t, o.previous, k) \/ CommitRejected(t)) /\ Goto(t, Catch(x))
  <2>1. pointer'.commitToken = k => Holds(pointer', x)
    BY <1>16, <1>17, <1>19 DEF CommitResponseLost, CommitRejected
  <2>2. Suits(At("reconcile", x), pointer', h, runtime[t], gateway.authority, published[t],
              settled[t])
    <3>1. Committing(o, k, "reconcile", x, pointer')
      BY <1>5, <2>1 DEF Committing
    <3>2. QED
      BY <1>11, <1>12, <3>1, CommittedSuits
  <2>3. Catch(x) = At("reconcile", x) /\ At("reconcile", x).stage = "reconcile"
    BY <1>8, <1>12 DEF Catch, At
  <2>4. QED
    BY <1>1, <1>2, <1>14, <1>19, <2>2, <2>3, GotoAlone
<1>20. QED
  BY <1>9, <1>18, <1>19

LEMMA ShownSuits ==
  ASSUME NEW o \in Op, NEW p, NEW h, NEW r, NEW r0, NEW g, NEW pub, NEW set,
         Suits(At("commitRuntime", o), p, h, r0, g, pub, set), o.kind = "replace" => o.commit = "yes",
         r.active = o.next, r.previous = r0.active, NEW a,
         NEW e, e = [o EXCEPT !.transition = TRUE, !.activated = a],
         NEW s, s = IF o.kind = "replace" THEN "verify" ELSE "pointerCheck"
  PROVE  Suits(At(s, e), p, h, r, g, pub, set)
<1>1. /\ e.kind = o.kind /\ e.winner = o.winner /\ e.next = o.next /\ e.saw = o.saw
      /\ e.restoring = o.restoring /\ e.previous = o.previous /\ e.commit = o.commit
      /\ e.token = o.token /\ e.transition /\ e.attempted = o.attempted
      /\ e.expected = o.expected /\ e.attempt = o.attempt
  BY DEF Op
<1>2. Planned(s, e, h, pub, set)
  BY <1>1 DEF Suits, At, Planned, Hydrating, Emptying, Restore, Before
<1>3. PointerPart(s, e, p, set)
  BY <1>1 DEF Suits, At, PointerPart, After, Reactivation, Holds
<1>4. RuntimePart(s, e, r, set)
  BY <1>1 DEF Suits, At, RuntimePart, Shown, After, Reactivation, Planned, Before
<1>5. GatewayPart(s, e, g, set)
  BY <1>1 DEF Suits, At, GatewayPart, Holding, Shown, Begun, Rolling, Undone, Candidate
<1>6. QED
  BY <1>2, <1>3, <1>4, <1>5 DEF Suits, At

LEMMA CommitRuntimeAlone ==
  ASSUME PublicationInv, NEW t \in Tabs, AloneInv(t), CommitRuntime(t)
  PROVE  AloneInv(t)'
<1>1. pc[t] = "commitRuntime" /\ pc[t] # "idle"
  BY DEF CommitRuntime
<1>2. /\ TabsInv /\ RestInv /\ Agrees(t, At(pc[t], op[t])) /\ op[t] \in Op
      /\ Sound(pc[t], op[t], prepared[t].status, compensated)
  BY <1>1, AloneFacts
<1>3. CASE FaultStep(t, "runtimeFailed", Catch(op[t]))
  <2>1. Agrees(t, Catch(op[t])) /\ Catch(op[t]).stage \notin {"idle", "activating"}
    BY <1>1, ThrowAlone, CatchStages DEF Holding
  <2>2. QED
    BY <1>2, <1>3, <2>1, StepAlone
<1>4. CASE ~FaultStep(t, "runtimeFailed", Catch(op[t]))
  <2>1. PICK o \in Op : o = op[t]
    BY <1>2
  <2>2. PICK a : a = (op[t].kind = "hydrate")
    OBVIOUS
  <2>3. PICK e : e = [o EXCEPT !.transition = TRUE, !.activated = a]
    OBVIOUS
  <2>4. PICK s : s = IF o.kind = "replace" THEN "verify" ELSE "pointerCheck"
    OBVIOUS
  <2>5. /\ runtime' = [runtime EXCEPT ![t] =
               [active |-> op[t].next, previous |-> @.active, open |-> TRUE]]
        /\ pc' = [pc EXCEPT ![t] = s]
        /\ op' = [op EXCEPT ![t].transition = TRUE, ![t].activated = op[t].kind = "hydrate"]
        /\ UNCHANGED <<published, settled, pointer, prepared, gateway>>
    BY <1>4, <2>1, <2>4 DEF CommitRuntime, LocalOnly, NoGatewayChange, repositoryVars
  <2>6. runtime'[t].active = o.next /\ runtime'[t].previous = runtime[t].active
    BY <1>2, <2>1, <2>5 DEF RestInv
  <2>7. pc'[t] = s /\ s \notin {"idle", "activating"}
    BY <1>2, <2>4, <2>5 DEF TabsInv
  <2>8. op'[t] = e
    BY <1>2, <2>1, <2>2, <2>3, <2>5 DEF TabsInv
  <2>9. o.kind = "replace" => o.commit = "yes"
    BY <1>1, <1>2, <2>1 DEF Sound, StageOK, Publishing
  <2>10. Suits(At("commitRuntime", o), pointer, prepared[t].revisionId, runtime[t],
               gateway.authority, published[t], settled[t])
    BY <1>1, <1>2, <2>1 DEF Agrees
  <2>11. Suits(At(s, e), pointer, prepared[t].revisionId, runtime'[t], gateway.authority,
               published[t], settled[t])
    BY <2>3, <2>4, <2>6, <2>9, <2>10, ShownSuits
  <2>12. Agrees(t, At(pc[t], op[t]))'
    BY <2>5, <2>7, <2>8, <2>11 DEF Agrees
  <2>13. QED
    BY <2>7, <2>12 DEF AloneInv
<1>5. QED
  BY <1>3, <1>4

-----------------------------------------------------------------------------
(* The operation is shown: verification, finalization and success.         *)

LEMMA ShowingSuits ==
  ASSUME NEW o, NEW p, NEW p0, NEW h, NEW r, NEW g, NEW pub, NEW set, NEW stage \in Shown,
         Suits(At(stage, o), p0, h, r, g, pub, set), NEW s \in {"verify", "finalize", "finalizeRead"},
         o.kind = "hydrate" /\ s # "finalizeRead" => p = o.saw,
         o.kind = "replace" => o.commit = "yes" /\ Holds(p, o)
  PROVE  Suits(At(s, o), p, h, r, g, pub, set)
<1>1. Planned(s, o, h, pub, set)
  BY DEF Suits, At, Planned, Hydrating, Emptying, Restore, Before, Shown
<1>2. PointerPart(s, o, p, set)
  BY DEF Suits, At, PointerPart, After, Reactivation
<1>3. RuntimePart(s, o, r, set)
  BY DEF Suits, At, RuntimePart, Shown, After, Reactivation
<1>4. GatewayPart(s, o, g, set)
  BY DEF Suits, At, GatewayPart, Holding, Shown, Begun, Rolling, Undone
<1>5. QED
  BY <1>1, <1>2, <1>3, <1>4 DEF Suits, At

(* What the tab shows is what the Gateway runs.                            *)
LEMMA ShownFacts ==
  ASSUME PublicationInv, NEW t \in Tabs, AloneInv(t), pc[t] \in Shown
  PROVE  /\ TabsInv /\ RestInv /\ Agrees(t, At(pc[t], op[t])) /\ op[t] \in Op
         /\ RevisionOf(gateway.authority) = op[t].next /\ runtime[t].active = op[t].next
         /\ pc[t] \in {"verify", "finalize"} /\ op[t].kind = "hydrate" => pointer = op[t].saw
         /\ op[t].kind = "hydrate" => op[t].next = op[t].saw.revisionId
         /\ op[t].kind = "replace" => op[t].commit = "yes" /\ Holds(pointer, op[t])
         /\ op[t].restoring => op[t].saw.state = "stable"
         /\ pc[t] = "pointerCheck" => op[t].kind = "hydrate"
         /\ op[t].kind \in {"hydrate", "replace"}
<1>1. pc[t] # "idle"
  BY DEF Shown
<1>2. /\ TabsInv /\ RestInv /\ Agrees(t, At(pc[t], op[t])) /\ op[t] \in Op
      /\ Sound(pc[t], op[t], prepared[t].status, compensated)
      /\ op[t].kind \in {"hydrate", "replace"}
  BY <1>1, AloneFacts
<1>3. /\ Planned(pc[t], op[t], prepared[t].revisionId, published[t], settled[t])
      /\ PointerPart(pc[t], op[t], pointer, settled[t])
      /\ RuntimePart(pc[t], op[t], runtime[t], settled[t])
      /\ GatewayPart(pc[t], op[t], gateway.authority, settled[t])
  BY <1>2 DEF Agrees, Suits, At
<1>4. op[t].attempted /\ gateway.authority = Candidate(op[t])
  BY <1>3 DEF GatewayPart, Holding
<1>5. /\ op[t].attempt # Null /\ op[t].next # Null
      /\ op[t].restoring => op[t].kind = "hydrate"
      /\ pc[t] = "pointerCheck" => op[t].kind # "replace"
      /\ op[t].kind = "replace" => op[t].commit = "yes"
  BY <1>2, <1>4 DEF Sound, LocalsOK, StageOK, Publishing, Shown
<1>6. Candidate(op[t]) \in Authority
  BY <1>2, <1>5 DEF Candidate, Authority, Op, Revision
<1>7. gateway.authority # Null
  BY <1>4, <1>6, PublicationAssumption DEF Authority, Attempts
<1>8. RevisionOf(gateway.authority) = op[t].next
  BY <1>4, <1>7 DEF RevisionOf, Candidate
<1>9. runtime[t].active = op[t].next
  BY <1>3 DEF RuntimePart
<1>10. op[t].kind = "replace" => Holds(pointer, op[t])
  BY <1>3, <1>5 DEF PointerPart, Shown, After, Reactivation
<1>11. /\ op[t].kind = "hydrate" => op[t].next = op[t].saw.revisionId
       /\ op[t].restoring => op[t].saw.state = "stable"
  BY <1>3, <1>5 DEF Planned
<1>12. pc[t] \in {"verify", "finalize"} /\ op[t].kind = "hydrate" => pointer = op[t].saw
  BY <1>3 DEF PointerPart
<1>13. QED
  BY <1>2, <1>5, <1>8, <1>9, <1>10, <1>11, <1>12

(* Once the pointer is at the revision shown, the authorities agree.       *)
LEMMA ShownSucceeds ==
  ASSUME PublicationInv, NEW t \in Tabs, AloneInv(t), pc[t] \in Shown, NEW tokens, Succeed(t, tokens),
         NEW p, pointer' = p, p.state # "publishing", p.revisionId = op[t].next
  PROVE  AloneInv(t)'
<1>1. /\ TabsInv /\ RestInv
      /\ RevisionOf(gateway.authority) = op[t].next /\ runtime[t].active = op[t].next
  BY ShownFacts
<1>2. Rests(pointer', runtime[t], gateway.authority, op[t].next)
  BY <1>1 DEF Rests, StableAt
<1>3. QED
  BY <1>1, <1>2, SucceedAlone

LEMMA PointerCheckAlone ==
  ASSUME PublicationInv, NEW t \in Tabs, AloneInv(t), PointerCheck(t)
  PROVE  AloneInv(t)'
<1>1. pc[t] = "pointerCheck" /\ pc[t] \in Shown
  BY DEF PointerCheck, Shown
<1>2. /\ TabsInv /\ Agrees(t, At(pc[t], op[t])) /\ op[t].kind = "hydrate"
      /\ op[t].restoring => op[t].saw.state = "stable"
      /\ op[t].next = op[t].saw.revisionId
  BY <1>1, ShownFacts
<1>3. CASE Step(t, CatchRollback(op[t])) \/ FaultStep(t, "storageLost", CatchRollback(op[t]))
  <2>1. Agrees(t, CatchRollback(op[t])) /\ CatchRollback(op[t]).stage \notin {"idle", "activating"}
    BY <1>1, ThrowAlone, CatchStages DEF Holding
  <2>2. QED
    BY <1>2, <1>3, <2>1, StepAlone
<1>4. CASE pointer = op[t].saw /\ op[t].restoring /\ Succeed(t, {}) /\ UNCHANGED repositoryVars
  <2>1. pointer' = pointer
    BY <1>4 DEF repositoryVars
  <2>2. QED
    BY <1>1, <1>2, <1>4, <2>1, ShownSucceeds
<1>5. CASE pointer = op[t].saw /\ Step(t, At("verify", op[t]))
  <2>1. Agrees(t, At("verify", op[t])) /\ At("verify", op[t]).stage = "verify"
    BY <1>1, <1>2, <1>5, ShowingSuits DEF Agrees, At
  <2>2. QED
    BY <1>2, <1>5, <2>1, StepAlone
<1>6. QED
  BY <1>3, <1>4, <1>5 DEF PointerCheck

LEMMA VerifyAlone ==
  ASSUME PublicationInv, NEW t \in Tabs, AloneInv(t), Verify(t)
  PROVE  AloneInv(t)'
<1>1. pc[t] = "verify" /\ pc[t] \in Shown
  BY DEF Verify, Shown
<1>2. /\ TabsInv /\ Agrees(t, At(pc[t], op[t]))
      /\ op[t].kind = "hydrate" => op[t].next = op[t].saw.revisionId /\ pointer = op[t].saw
      /\ op[t].kind = "replace" => op[t].commit = "yes" /\ Holds(pointer, op[t])
  BY <1>1, ShownFacts
<1>3. CASE Step(t, Catch(op[t])) \/ FaultStep(t, "gatewayLost", Catch(op[t]))
  <2>1. Agrees(t, Catch(op[t])) /\ Catch(op[t]).stage \notin {"idle", "activating"}
    BY <1>1, ThrowAlone, CatchStages DEF Holding
  <2>2. QED
    BY <1>2, <1>3, <2>1, StepAlone
<1>4. CASE op[t].kind = "hydrate" /\ op[t].saw.state = "stable" /\ Succeed(t, {})
           /\ UNCHANGED repositoryVars
  <2>1. pointer' = pointer
    BY <1>4 DEF repositoryVars
  <2>2. QED
    BY <1>1, <1>2, <1>4, <2>1, ShownSucceeds
<1>5. CASE Step(t, At("finalize", op[t]))
  <2>1. Agrees(t, At("finalize", op[t])) /\ At("finalize", op[t]).stage = "finalize"
    BY <1>1, <1>2, <1>5, ShowingSuits DEF Agrees, At
  <2>2. QED
    BY <1>2, <1>5, <2>1, StepAlone
<1>6. QED
  BY <1>3, <1>4, <1>5 DEF Verify

LEMMA FinalizeAlone ==
  ASSUME PublicationInv, NEW t \in Tabs, AloneInv(t), Finalize(t)
  PROVE  AloneInv(t)'
<1>1. pc[t] = "finalize" /\ pc[t] \in Shown
  BY DEF Finalize, Shown
<1>2. /\ TabsInv /\ Agrees(t, At(pc[t], op[t])) /\ op[t].kind \in {"hydrate", "replace"}
      /\ op[t].kind = "hydrate" => op[t].next = op[t].saw.revisionId /\ pointer = op[t].saw
      /\ op[t].kind = "replace" => op[t].commit = "yes" /\ Holds(pointer, op[t])
  BY <1>1, ShownFacts
<1>3. CASE FinalizePublication(FinalToken(op[t]))
  <2>1. PICK p : p = pointer'
    OBVIOUS
  <2>2. p = StablePointer(pointer.revisionId, FinalToken(op[t])) /\ UNCHANGED prepared
    BY <1>3, <2>1 DEF FinalizePublication
  <2>3. /\ p.state = "stable" /\ p.revisionId = pointer.revisionId
        /\ p.commitToken = FinalToken(op[t])
    BY <2>2 DEF StablePointer, NoPointer
  <2>4. p.state # "publishing" /\ p.revisionId = op[t].next
    BY <1>2, <2>3 DEF Holds
  <2>5. op[t].kind = "replace" => Holds(p, op[t])
    BY <2>3, <2>4 DEF Holds, FinalToken
  <2>6. CASE Succeed(t, Acknowledged(op[t]))
    BY <1>1, <2>1, <2>4, <2>6, ShownSucceeds
  <2>7. CASE Goto(t, At("finalizeRead", op[t])) /\ NoGatewayChange
    <3>1. Suits(At(pc[t], op[t]), pointer, prepared[t].revisionId, runtime[t], gateway.authority,
                published[t], settled[t])
      BY <1>2 DEF Agrees
    <3>2. Suits(At("finalizeRead", op[t]), p, prepared[t].revisionId, runtime[t],
                gateway.authority, published[t], settled[t])
      BY <1>1, <1>2, <2>5, <3>1, ShowingSuits
    <3>3. gateway' = gateway /\ At("finalizeRead", op[t]).stage = "finalizeRead"
      BY <2>7 DEF NoGatewayChange, At
    <3>4. QED
      BY <1>2, <2>1, <2>2, <2>7, <3>2, <3>3, GotoAlone
  <2>8. CASE Step(t, At("finalizeRead", op[t])) \/ FaultStep(t, "storageLost", At("finalizeRead", op[t]))
    <3>1. Goto(t, At("finalizeRead", op[t])) /\ NoGatewayChange
      BY <2>8 DEF Step, FaultStep, LocalOnly
    <3>2. QED
      BY <2>7, <3>1
  <2>9. QED
    BY <2>6, <2>7, <2>8 DEF Finalize
<1>4. CASE ~FinalizePublication(FinalToken(op[t]))
  <2>1. Step(t, At("finalizeRead", op[t])) \/ FaultStep(t, "storageLost", At("finalizeRead", op[t]))
    BY <1>4 DEF Finalize
  <2>2. Agrees(t, At("finalizeRead", op[t])) /\ At("finalizeRead", op[t]).stage = "finalizeRead"
    BY <1>1, <1>2, ShowingSuits DEF Agrees, At
  <2>3. QED
    BY <1>2, <2>1, <2>2, StepAlone
<1>5. QED
  BY <1>3, <1>4

LEMMA FailedShownSuits ==
  ASSUME NEW o \in Op, NEW p, NEW h, NEW r, NEW g, NEW pub, NEW set, o.kind = "hydrate",
         Suits(At("finalizeRead", o), p, h, r, g, pub, set)
  PROVE  Suits(At("finalizeRead", Failed(o)), p, h, r, g, pub, set)
<1>1. PICK e \in Op : e = Failed(o)
  BY FailedFields
<1>2. /\ e.kind = o.kind /\ e.winner = o.winner /\ e.next = o.next /\ e.previous = o.previous
      /\ e.saw = o.saw /\ e.restoring = o.restoring /\ e.attempted = o.attempted
      /\ e.attempt = o.attempt
  BY <1>1, FailedFields
<1>3. Planned("finalizeRead", e, h, pub, set)
  BY <1>2 DEF Suits, At, Planned
<1>4. PointerPart("finalizeRead", e, p, set)
  BY <1>2 DEF PointerPart
<1>5. RuntimePart("finalizeRead", e, r, set)
  BY <1>2 DEF Suits, At, RuntimePart
<1>6. GatewayPart("finalizeRead", e, g, set)
  BY <1>2 DEF Suits, At, GatewayPart, Holding, Shown, Candidate
<1>7. QED
  BY <1>1, <1>3, <1>4, <1>5, <1>6 DEF Suits, At

LEMMA FinalizeReadAlone ==
  ASSUME PublicationInv, NEW t \in Tabs, AloneInv(t), FinalizeRead(t)
  PROVE  AloneInv(t)'
<1>1. pc[t] = "finalizeRead" /\ pc[t] \in Shown /\ pc[t] # "idle"
  BY DEF FinalizeRead, Shown
<1>2. /\ TabsInv /\ RestInv /\ Agrees(t, At(pc[t], op[t])) /\ op[t] \in Op
      /\ op[t].kind \in {"hydrate", "replace"}
  BY <1>1, ShownFacts
<1>3. CASE op[t].kind = "replace" /\ (Step(t, Catch(op[t])) \/ FaultStep(t, "storageLost", Catch(op[t])))
  <2>1. Agrees(t, Catch(op[t])) /\ Catch(op[t]).stage \notin {"idle", "activating"}
    BY <1>1, ThrowAlone, CatchStages DEF Holding
  <2>2. QED
    BY <1>2, <1>3, <2>1, StepAlone
<1>4. CASE op[t].kind = "hydrate" /\ Step(t, CatchRollback(Failed(op[t])))
  <2>1. PICK o \in Op : o = op[t]
    BY <1>2
  <2>2. Suits(At("finalizeRead", o), pointer, prepared[t].revisionId, runtime[t],
              gateway.authority, published[t], settled[t])
    BY <1>1, <1>2, <2>1 DEF Agrees
  <2>3. PICK e \in Op : e = Failed(o)
    BY FailedFields
  <2>4. e.commit # "started"
    BY <1>1, <2>1, <2>3, AloneFacts, FailedFields
  <2>5. Suits(At("finalizeRead", e), pointer, prepared[t].revisionId, runtime[t],
              gateway.authority, published[t], settled[t])
    BY <1>4, <2>1, <2>2, <2>3, FailedShownSuits
  <2>6. Agrees(t, CatchRollback(e))
    BY <2>4, <2>5, ThrowSuits DEF Agrees, Holding, Shown
  <2>7. CatchRollback(e).stage \notin {"idle", "activating"}
    BY CatchStages
  <2>8. QED
    BY <1>2, <1>4, <2>1, <2>3, <2>6, <2>7, StepAlone
<1>5. CASE Leave(t, TRUE)
  BY <1>2, <1>5, LeaveAlone
<1>6. CASE FinalizedDespiteRejection(op[t]) /\ Succeed(t, Acknowledged(op[t])) /\ UNCHANGED repositoryVars
  <2>1. pointer' = pointer /\ pointer.state # "publishing" /\ pointer.revisionId = op[t].next
    BY <1>6 DEF FinalizedDespiteRejection, repositoryVars
  <2>2. QED
    BY <1>1, <1>6, <2>1, ShownSucceeds
<1>7. QED
  BY <1>2, <1>3, <1>4, <1>5, <1>6 DEF FinalizeRead

-----------------------------------------------------------------------------
(* The steps back.                                                         *)

(* What reading the pointer makes of an uncertain commit of o.             *)
Reconciled(o, e, p) ==
    \/ e = [o EXCEPT !.commit = "yes"] /\ Holds(p, o)
    \/ e = [o EXCEPT !.commit = "noEffect"] /\ StableAt(p, o.previous)
    \/ e = Failed([o EXCEPT !.commit = "unknown"])

LEMMA ReconciledSuits ==
  ASSUME NEW o \in Op, NEW p, NEW h, NEW r, NEW g, NEW pub, NEW set, o.kind = "replace",
         Suits(At("reconcile", o), p, h, r, g, pub, set), NEW e, Reconciled(o, e, p)
  PROVE  Suits(CatchRollback(e), p, h, r, g, pub, set)
<1>1. /\ e.kind = o.kind /\ e.winner = o.winner /\ e.next = o.next /\ e.saw = o.saw
      /\ e.restoring = o.restoring /\ e.previous = o.previous
      /\ e.token = o.token /\ e.transition = o.transition /\ e.attempted = o.attempted
      /\ e.expected = o.expected /\ e.attempt = o.attempt
      /\ \/ e.commit = "yes" /\ Holds(p, e)
         \/ e.commit = "noEffect" /\ StableAt(p, e.previous)
         \/ e.commit = "unknown"
  BY DEF Reconciled, Failed, Op, Holds
<1>2. Planned("rollback", e, h, pub, set)
  BY <1>1 DEF Suits, At, Planned, Hydrating, Emptying, Restore, Before
<1>3. PointerPart("rollback", e, p, set)
  BY <1>1 DEF Suits, At, PointerPart, After, Reactivation
<1>4. RuntimePart("rollback", e, r, set)
  BY <1>1 DEF Suits, At, RuntimePart, Shown, After, Reactivation
<1>5. GatewayPart("rollback", e, g, set)
  BY <1>1 DEF Suits, At, GatewayPart, Holding, Shown, Begun, Rolling, Undone, Candidate
<1>6. Suits(At("rollback", e), p, h, r, g, pub, set)
  BY <1>2, <1>3, <1>4, <1>5 DEF Suits, At
<1>7. QED
  BY <1>6, CatchRollbackSuits

LEMMA ReconcileAlone ==
  ASSUME RepositoryInv, PublicationInv, NEW t \in Tabs, AloneInv(t), Reconcile(t)
  PROVE  AloneInv(t)'
<1>1. pc[t] = "reconcile" /\ pc[t] # "idle"
  BY DEF Reconcile
<1>2. /\ TabsInv /\ Agrees(t, At(pc[t], op[t])) /\ op[t] \in Op
      /\ Sound(pc[t], op[t], prepared[t].status, compensated)
  BY <1>1, AloneFacts
<1>3. PICK o \in Op : o = op[t]
  BY <1>2
<1>4. o.commit = "started" /\ o.kind = "replace"
  BY <1>1, <1>2, <1>3 DEF Sound, StageOK, ReplaceOnly
<1>5. Suits(At("reconcile", o), pointer, prepared[t].revisionId, runtime[t],
            gateway.authority, published[t], settled[t])
  BY <1>1, <1>2, <1>3 DEF Agrees
<1>6. pointer.commitToken = o.token => Holds(pointer, o)
  BY <1>4, <1>5 DEF Suits, At, PointerPart
<1>7. pointer.state = "none" => pointer.revisionId = Null
  BY DEF RepositoryInv, PointerShape, NoPointer
<1>8. PICK e : /\ Reconciled(o, e, pointer)
               /\ Step(t, CatchRollback(e)) \/ FaultStep(t, "storageLost", CatchRollback(e))
  <2>1. PICK y : y = [o EXCEPT !.commit = "yes"]
    OBVIOUS
  <2>2. PICK n : n = [o EXCEPT !.commit = "noEffect"]
    OBVIOUS
  <2>3. PICK u : u = Failed([o EXCEPT !.commit = "unknown"])
    OBVIOUS
  <2>4. \/ /\ pointer.commitToken = o.token
           /\ Step(t, CatchRollback(y))
        \/ /\ IF o.previous = Null THEN pointer.state = "none"
              ELSE pointer.state = "stable" /\ pointer.revisionId = o.previous
           /\ Step(t, CatchRollback(n))
        \/ Step(t, CatchRollback(u))
        \/ FaultStep(t, "storageLost", CatchRollback(u))
    BY <1>3, <2>1, <2>2, <2>3 DEF Reconcile
  <2>5. CASE pointer.commitToken = o.token /\ Step(t, CatchRollback(y))
    BY <1>6, <2>1, <2>5 DEF Reconciled
  <2>6. CASE /\ IF o.previous = Null THEN pointer.state = "none"
                ELSE pointer.state = "stable" /\ pointer.revisionId = o.previous
             /\ Step(t, CatchRollback(n))
    <3>1. StableAt(pointer, o.previous)
      BY <1>7, <2>6 DEF StableAt
    <3>2. Reconciled(o, n, pointer)
      BY <2>2, <3>1 DEF Reconciled
    <3>3. QED
      BY <2>6, <3>2
  <2>7. CASE Step(t, CatchRollback(u)) \/ FaultStep(t, "storageLost", CatchRollback(u))
    BY <2>3, <2>7 DEF Reconciled
  <2>8. QED
    BY <2>4, <2>5, <2>6, <2>7
<1>9. Agrees(t, CatchRollback(e)) /\ CatchRollback(e).stage \notin {"idle", "activating"}
  BY <1>4, <1>5, <1>8, ReconciledSuits, CatchStages DEF Agrees
<1>10. QED
  BY <1>2, <1>8, <1>9, StepAlone

(* gateway.rollback goes on: c tells whether a DELETE was a conflict.      *)
LEMMA RollingSuits ==
  ASSUME NEW p, NEW h, NEW r, NEW g, NEW pub, NEW set, NEW stage \in Rolling, NEW o \in Op,
         NEW g0, Suits(At(stage, o), p, h, r, g0, pub, set), o.attempted,
         NEW s \in Rolling \ Begun, NEW c \in BOOLEAN, NEW e, e = [o EXCEPT !.conflict = c],
         o.kind = "replace" /\ set = "yes" =>
             /\ g \in {Null, Candidate(o), o.expected}
             /\ s = "rollbackStatus" /\ c => g = o.expected
  PROVE  Suits(At(s, e), p, h, r, g, pub, set)
<1>1. /\ e.kind = o.kind /\ e.winner = o.winner /\ e.next = o.next /\ e.saw = o.saw
      /\ e.restoring = o.restoring /\ e.previous = o.previous /\ e.commit = o.commit
      /\ e.token = o.token /\ e.transition = o.transition /\ e.attempted = o.attempted
      /\ e.expected = o.expected /\ e.attempt = o.attempt /\ e.failed = o.failed /\ e.conflict = c
  BY DEF Op
<1>2. Planned(s, e, h, pub, set)
  BY <1>1 DEF Suits, At, Planned, Hydrating, Emptying, Restore, Before, Rolling, Begun
<1>3. PointerPart(s, e, p, set)
  BY <1>1 DEF Suits, At, PointerPart, After, Reactivation, Rolling, Begun, StableAt, Holds
<1>4. RuntimePart(s, e, r, set)
  BY <1>1 DEF Suits, At, RuntimePart, Shown, After, Reactivation, Rolling, Begun
<1>5. GatewayPart(s, e, g, set)
  BY <1>1 DEF Suits, At, GatewayPart, Holding, Shown, Begun, Rolling, Undone, Candidate
<1>6. QED
  BY <1>2, <1>3, <1>4, <1>5 DEF Suits, At

LEMMA RollingFacts ==
  ASSUME PublicationInv, NEW t \in Tabs, AloneInv(t), pc[t] \in Rolling
  PROVE  /\ TabsInv /\ RestInv /\ op[t] \in Op /\ Agrees(t, At(pc[t], op[t]))
         /\ op[t].attempted
         /\ op[t].kind = "replace" /\ settled[t] = "yes" =>
                /\ gateway.authority \in {Null, Candidate(op[t]), op[t].expected}
                /\ RevisionOf(op[t].expected) = op[t].previous
                /\ pc[t] \in Begun => gateway.authority \in {Candidate(op[t]), op[t].expected}
                /\ pc[t] = "rollbackStatus" /\ op[t].conflict => gateway.authority = op[t].expected
<1>1. pc[t] # "idle"
  BY DEF Rolling, Begun
<1>2. /\ TabsInv /\ RestInv /\ op[t] \in Op /\ Agrees(t, At(pc[t], op[t]))
      /\ Sound(pc[t], op[t], prepared[t].status, compensated)
  BY <1>1, AloneFacts
<1>3. op[t].attempted
  BY <1>2 DEF Sound, StageOK, Attempting, Rolling, Begun
<1>4. GatewayPart(pc[t], op[t], gateway.authority, settled[t])
  BY <1>2 DEF Agrees, Suits, At
<1>5. QED
  BY <1>2, <1>3, <1>4 DEF GatewayPart

LEMMA RollingAlone ==
  ASSUME PublicationInv, NEW t \in Tabs, AloneInv(t), pc[t] \in Rolling, NEW s \in Rolling \ Begun,
         NEW c \in BOOLEAN, NEW e, e = [op[t] EXCEPT !.conflict = c],
         s = "rollbackStatus" => ~c,
         Goto(t, At(s, e)), UNCHANGED <<pointer, prepared, gateway>>
  PROVE  AloneInv(t)'
<1>1. PICK o \in Op : o = op[t]
  BY RollingFacts
<1>2. /\ TabsInv /\ o.attempted
      /\ Suits(At(pc[t], o), pointer, prepared[t].revisionId, runtime[t], gateway.authority,
               published[t], settled[t])
      /\ o.kind = "replace" /\ settled[t] = "yes" =>
             gateway.authority \in {Null, Candidate(o), o.expected}
  BY <1>1, RollingFacts DEF Agrees
<1>3. Suits(At(s, e), pointer, prepared[t].revisionId, runtime[t], gateway.authority,
            published[t], settled[t])
  BY <1>1, <1>2, RollingSuits
<1>4. At(s, e).stage = s /\ s \notin {"idle", "activating"}
  BY DEF At, Rolling, Begun
<1>5. QED
  BY <1>2, <1>3, <1>4, LocalAlone DEF Agrees

LEMMA RollbackAlone ==
  ASSUME PublicationInv, NEW t \in Tabs, AloneInv(t), Rollback(t)
  PROVE  AloneInv(t)'
<1>1. pc[t] = "rollback" /\ pc[t] \in Rolling
  BY DEF Rollback, Rolling, Begun
<1>2. /\ TabsInv /\ op[t] \in Op /\ Agrees(t, At(pc[t], op[t]))
  BY <1>1, RollingFacts
<1>3. UNCHANGED <<pointer, prepared, gateway>>
  BY DEF Rollback, Send, repositoryVars
<1>4. CASE Goto(t, At("rollingBack", op[t]))
  <2>1. PICK o : o = op[t]
    OBVIOUS
  <2>2. Suits(At("rollback", o), pointer, prepared[t].revisionId, runtime[t], gateway.authority,
              published[t], settled[t])
    BY <1>1, <1>2, <2>1 DEF Agrees
  <2>3. Planned("rollingBack", o, prepared[t].revisionId, published[t], settled[t])
    BY <2>2 DEF Suits, At, Planned, Hydrating, Emptying, Restore, Before
  <2>4. PointerPart("rollingBack", o, pointer, settled[t])
    BY <2>2 DEF Suits, At, PointerPart, After, Reactivation
  <2>5. RuntimePart("rollingBack", o, runtime[t], settled[t])
    BY <2>2 DEF Suits, At, RuntimePart, Shown, After, Reactivation
  <2>6. GatewayPart("rollingBack", o, gateway.authority, settled[t])
    BY <2>2 DEF Suits, At, GatewayPart, Holding, Shown, Begun, Rolling, Undone
  <2>7. Agrees(t, At("rollingBack", op[t])) /\ At("rollingBack", op[t]).stage = "rollingBack"
    BY <2>1, <2>3, <2>4, <2>5, <2>6 DEF Agrees, Suits, At
  <2>8. QED
    BY <1>2, <1>3, <1>4, <2>7, LocalAlone
<1>5. CASE Goto(t, Answered(op[t], "rollingBack", "lost"))
  <2>1. PICK c \in BOOLEAN : c = ("lost" = "conflict")
    OBVIOUS
  <2>2. PICK e : e = [op[t] EXCEPT !.conflict = c]
    OBVIOUS
  <2>3. Answered(op[t], "rollingBack", "lost") = At("rollbackStatus", e) /\ ~c
    BY <2>1, <2>2 DEF Answered
  <2>4. "rollbackStatus" \in Rolling \ Begun
    BY DEF Rolling, Begun
  <2>5. QED
    BY <1>1, <1>3, <1>5, <2>2, <2>3, <2>4, RollingAlone
<1>6. QED
  BY <1>4, <1>5 DEF Rollback, Send

LEMMA RollbackRetryAlone ==
  ASSUME PublicationInv, NEW t \in Tabs, AloneInv(t), RollbackRetry(t)
  PROVE  AloneInv(t)'
<1>1. pc[t] = "rollbackRetry" /\ pc[t] \in Rolling
  BY DEF RollbackRetry, Rolling, Begun
<1>2. op[t] \in Op
  BY <1>1, RollingFacts
<1>3. UNCHANGED <<pointer, prepared, gateway>>
  BY DEF RollbackRetry, Send, repositoryVars
<1>4. PICK s \in {"rollbackRetrying", "rollbackTerminal"} : Goto(t, At(s, op[t]))
  BY DEF RollbackRetry, Send, Answered
<1>5. PICK c \in BOOLEAN : op[t] = [op[t] EXCEPT !.conflict = c]
  BY <1>2 DEF Op
<1>6. s \in Rolling \ Begun
  BY DEF Rolling, Begun
<1>7. QED
  BY <1>1, <1>3, <1>4, <1>5, <1>6, RollingAlone

(* gateway.rollback resolves or throws after a status read.                *)
LEMMA ResolvedAlone ==
  ASSUME PublicationInv, NEW t \in Tabs, AloneInv(t), pc[t] \in Rolling,
         \/ \E d \in Dispositions :
               /\ op[t].kind = "replace" /\ settled[t] = "yes" =>
                      IF d = "candidate-deactivated" THEN gateway.authority = Null
                      ELSE RevisionOf(gateway.authority) = op[t].previous
               /\ Step(t, RolledBack(op[t], d))
         \/ Step(t, RollbackThrew(op[t]))
         \/ FaultStep(t, "gatewayLost", RollbackThrew(op[t]))
  PROVE  AloneInv(t)'
<1>1. PICK o \in Op : o = op[t]
  BY RollingFacts
<1>2. /\ TabsInv /\ o.attempted
      /\ Suits(At(pc[t], o), pointer, prepared[t].revisionId, runtime[t], gateway.authority,
               published[t], settled[t])
  BY <1>1, RollingFacts DEF Agrees
<1>3. CASE Step(t, RollbackThrew(o)) \/ FaultStep(t, "gatewayLost", RollbackThrew(o))
  <2>1. Agrees(t, RollbackThrew(o)) /\ RollbackThrew(o).stage \notin {"idle", "activating"}
    BY <1>2, RollbackThrewSuits, RolledBackStages DEF Agrees
  <2>2. QED
    BY <1>2, <1>3, <2>1, StepAlone
<1>4. ASSUME NEW d \in Dispositions,
             o.kind = "replace" /\ settled[t] = "yes" =>
                 IF d = "candidate-deactivated" THEN gateway.authority = Null
                 ELSE RevisionOf(gateway.authority) = o.previous,
             Step(t, RolledBack(o, d))
      PROVE  AloneInv(t)'
  <2>1. Agrees(t, RolledBack(o, d)) /\ RolledBack(o, d).stage \notin {"idle", "activating"}
    BY <1>2, <1>4, RolledBackSuits, RolledBackStages DEF Agrees
  <2>2. QED
    BY <1>2, <1>4, <2>1, StepAlone
<1>5. QED
  BY <1>1, <1>3, <1>4

LEMMA RollbackStatusAlone ==
  ASSUME PublicationInv, NEW t \in Tabs, AloneInv(t), RollbackStatus(t)
  PROVE  AloneInv(t)'
<1>1. pc[t] = "rollbackStatus" /\ pc[t] \in Rolling
  BY DEF RollbackStatus, Rolling, Begun
<1>2. PICK o \in Op : o = op[t]
  BY <1>1, RollingFacts
<1>3. /\ o.conflict \in BOOLEAN
      /\ o.kind = "replace" /\ settled[t] = "yes" =>
             /\ gateway.authority \in {Null, Candidate(o), o.expected}
             /\ RevisionOf(o.expected) = o.previous
             /\ o.conflict => gateway.authority = o.expected
  BY <1>1, <1>2, RollingFacts DEF Op
<1>4. CASE Step(t, At("rollbackRetry", o))
  <2>1. PICK c \in BOOLEAN : o = [o EXCEPT !.conflict = c]
    BY DEF Op
  <2>2. Goto(t, At("rollbackRetry", o)) /\ UNCHANGED <<pointer, prepared, gateway>>
    BY <1>4 DEF Step, LocalOnly, NoGatewayChange, repositoryVars
  <2>3. "rollbackRetry" \in Rolling \ Begun
    BY DEF Rolling, Begun
  <2>4. QED
    BY <1>1, <1>2, <2>1, <2>2, <2>3, RollingAlone
<1>5. CASE Step(t, RollbackThrew(o)) \/ FaultStep(t, "gatewayLost", RollbackThrew(o))
  BY <1>1, <1>2, <1>5, ResolvedAlone
<1>6. CASE /\ StatusInactive
           /\ Step(t, RolledBack(o, IF o.conflict THEN "candidate-absent"
                                    ELSE "candidate-deactivated"))
  <2>1. PICK d \in Dispositions : d = IF o.conflict THEN "candidate-absent" ELSE "candidate-deactivated"
    BY DEF Dispositions
  <2>2. o.kind = "replace" /\ settled[t] = "yes" =>
            IF d = "candidate-deactivated" THEN gateway.authority = Null
            ELSE RevisionOf(gateway.authority) = o.previous
    BY <1>3, <1>6, <2>1 DEF StatusInactive
  <2>3. Step(t, RolledBack(o, d))
    BY <1>6, <2>1
  <2>4. QED
    BY <1>1, <1>2, <2>2, <2>3, ResolvedAlone
<1>7. CASE gateway.authority \notin {Null, Candidate(o)} /\ Step(t, RolledBack(o, "other-authority"))
  <2>1. PICK d \in Dispositions : d = "other-authority"
    BY DEF Dispositions
  <2>2. o.kind = "replace" /\ settled[t] = "yes" =>
            IF d = "candidate-deactivated" THEN gateway.authority = Null
            ELSE RevisionOf(gateway.authority) = o.previous
    BY <1>3, <1>7, <2>1
  <2>3. Step(t, RolledBack(o, d))
    BY <1>7, <2>1
  <2>4. QED
    BY <1>1, <1>2, <2>2, <2>3, ResolvedAlone
<1>8. QED
  BY <1>2, <1>4, <1>5, <1>6, <1>7 DEF RollbackStatus

LEMMA RollbackTerminalAlone ==
  ASSUME PublicationInv, NEW t \in Tabs, AloneInv(t), RollbackTerminal(t)
  PROVE  AloneInv(t)'
<1>1. pc[t] = "rollbackTerminal" /\ pc[t] \in Rolling
  BY DEF RollbackTerminal, Rolling, Begun
<1>2. PICK o \in Op : o = op[t]
  BY <1>1, RollingFacts
<1>3. o.kind = "replace" /\ settled[t] = "yes" =>
          /\ gateway.authority \in {Null, Candidate(o), o.expected}
          /\ RevisionOf(o.expected) = o.previous
  BY <1>1, <1>2, RollingFacts
<1>4. CASE Step(t, RollbackThrew(o)) \/ FaultStep(t, "gatewayLost", RollbackThrew(o))
  BY <1>1, <1>2, <1>4, ResolvedAlone
<1>5. ASSUME NEW d \in {"candidate-deactivated", "other-authority"}, Step(t, RolledBack(o, d)),
             IF d = "candidate-deactivated" THEN StatusInactive
             ELSE gateway.authority \notin {Null, Candidate(o)}
      PROVE  AloneInv(t)'
  <2>1. d \in Dispositions
    BY DEF Dispositions
  <2>2. o.kind = "replace" /\ settled[t] = "yes" =>
            IF d = "candidate-deactivated" THEN gateway.authority = Null
            ELSE RevisionOf(gateway.authority) = o.previous
    BY <1>3, <1>5 DEF StatusInactive
  <2>3. QED
    BY <1>1, <1>2, <1>5, <2>1, <2>2, ResolvedAlone
<1>6. QED
  BY <1>2, <1>4, <1>5 DEF RollbackTerminal

LEMMA CheckInactiveAlone ==
  ASSUME PublicationInv, NEW t \in Tabs, AloneInv(t), CheckInactive(t)
  PROVE  AloneInv(t)'
<1>1. pc[t] = "checkInactive" /\ pc[t] # "idle"
  BY DEF CheckInactive
<1>2. TabsInv /\ Agrees(t, At(pc[t], op[t])) /\ op[t] \in Op
  BY <1>1, AloneFacts
<1>3. /\ Agrees(t, At("rollbackRuntime", op[t]))
      /\ Agrees(t, At("rollbackRuntime", Failed(op[t])))
  BY <1>1, <1>2, CheckedSuits DEF Agrees
<1>4. \A e : At("rollbackRuntime", e).stage = "rollbackRuntime"
  BY DEF At
<1>5. QED
  BY <1>2, <1>3, <1>4, StepAlone DEF CheckInactive

LEMMA RollbackRuntimeAlone ==
  ASSUME PublicationInv, NEW t \in Tabs, AloneInv(t), RollbackRuntime(t)
  PROVE  AloneInv(t)'
<1>1. pc[t] = "rollbackRuntime" /\ pc[t] # "idle"
  BY DEF RollbackRuntime
<1>2. /\ TabsInv /\ RestInv /\ Agrees(t, At(pc[t], op[t])) /\ op[t] \in Op
      /\ op[t].kind \in {"replace", "hydrate"}
      /\ op[t].commit # "started" /\ (op[t].commit = "unknown" => op[t].failed)
  BY <1>1, AloneFacts
<1>3. PICK o \in Op : o = op[t]
  BY <1>2
<1>4. /\ UNCHANGED <<pointer, prepared, gateway, published>> /\ RestoreRuntime(t)
  BY DEF RollbackRuntime, NoGatewayChange, repositoryVars
<1>5. runtime'[t] = Restoring(o, runtime[t])
  BY <1>2, <1>3, <1>4 DEF RestoreRuntime, Restoring, RestInv
<1>6. Suits(At("rollbackRuntime", o), pointer, prepared[t].revisionId, runtime[t],
            gateway.authority, published[t], settled[t])
  BY <1>1, <1>2, <1>3 DEF Agrees
<1>7. CASE o.kind = "replace"
  <2>1. PICK to : to = AfterRuntime(o)
    OBVIOUS
  <2>2. /\ pc' = [pc EXCEPT ![t] = to.stage] /\ op' = [op EXCEPT ![t] = to.op]
        /\ settled' = settled
    BY <1>3, <1>7, <2>1 DEF RollbackRuntime
  <2>3. /\ Suits(to, pointer, prepared[t].revisionId, Restoring(o, runtime[t]),
                 gateway.authority, published[t], settled[t])
        /\ to.stage \notin {"idle", "activating"}
    BY <1>2, <1>3, <1>6, <1>7, <2>1, AfterRuntimeSuits
  <2>4. Suits(to, pointer', prepared'[t].revisionId, runtime'[t], gateway'.authority,
              published'[t], settled'[t])
    BY <1>4, <1>5, <2>2, <2>3
  <2>5. QED
    BY <1>2, <2>2, <2>3, <2>4, AloneGoes DEF MovesTo
<1>8. CASE o.kind = "hydrate" /\ Interrupted(o) /\ o.previous # Null
  <2>1. PICK e : e = [NoOp EXCEPT !.kind = "hydrate", !.saw = o.saw, !.next = o.next,
                                 !.previous = o.previous]
    OBVIOUS
  <2>2. PICK to : to = At("restorePointer", e)
    OBVIOUS
  <2>3. /\ pc' = [pc EXCEPT ![t] = to.stage] /\ op' = [op EXCEPT ![t] = to.op]
        /\ settled' = settled
    BY <1>3, <1>8, <2>1, <2>2 DEF RollbackRuntime
  <2>4. /\ e.kind = o.kind /\ e.winner = "no" /\ e.next = o.next /\ e.saw = o.saw
        /\ e.restoring = o.restoring /\ e.previous = o.previous
    BY <1>2, <1>3, <1>8, <2>1 DEF Op, NoOp, Interrupted
  <2>5. Planned("rollbackRuntime", o, prepared[t].revisionId, published[t], settled[t])
    BY <1>6 DEF Suits, At
  <2>6. Planned("restorePointer", e, prepared[t].revisionId, published[t], settled[t]) /\ e.kind = "hydrate"
    BY <1>8, <2>4, <2>5 DEF Planned, Emptying
  <2>7. Suits(to, pointer, prepared[t].revisionId, runtime'[t], gateway.authority, published[t],
              settled[t])
    BY <2>2, <2>6, HydratingSuits DEF Restore
  <2>8. Suits(to, pointer', prepared'[t].revisionId, runtime'[t], gateway'.authority,
              published'[t], settled'[t])
    BY <1>4, <2>3, <2>7
  <2>9. to.stage = "restorePointer"
    BY <2>2 DEF At
  <2>10. QED
    BY <1>2, <2>3, <2>8, <2>9, AloneGoes DEF MovesTo
<1>9. CASE o.kind = "hydrate" /\ ~(Interrupted(o) /\ o.previous # Null)
  <2>1. pc' = [pc EXCEPT ![t] = "idle"] /\ settled' = Tried(t)
    BY <1>3, <1>9 DEF RollbackRuntime
  <2>2. settled[t] # "yes"
    BY <1>6, <1>9 DEF Suits, At, Planned, Emptying
  <2>3. pc'[t] = "idle" /\ settled'[t] # "yes"
    BY <1>2, <2>1, <2>2 DEF Tried, TabsInv, RestInv
  <2>4. QED
    BY <2>3, AloneRests
<1>10. QED
  BY <1>2, <1>3, <1>7, <1>8, <1>9

LEMMA DiscardAlone ==
  ASSUME RepositoryInv, PublicationInv, NEW t \in Tabs, AloneInv(t), Discard(t)
  PROVE  AloneInv(t)'
<1>1. pc[t] = "discard" /\ pc[t] # "idle"
  BY DEF Discard
<1>2. /\ TabsInv /\ Agrees(t, At(pc[t], op[t])) /\ op[t] \in Op
      /\ Sound(pc[t], op[t], prepared[t].status, compensated) /\ op[t].commit # "started"
  BY <1>1, AloneFacts
<1>3. PICK o \in Op : o = op[t]
  BY <1>2
<1>4. Suits(At("discard", o), pointer, prepared[t].revisionId, runtime[t], gateway.authority,
            published[t], settled[t])
  BY <1>1, <1>2, <1>3 DEF Agrees
<1>5. o.kind = "replace" /\ o.commit # "yes" /\ o.commit # "started"
  BY <1>1, <1>2, <1>3, <1>4 DEF Sound, StageOK, ReplaceOnly, Suits, At, PointerPart
<1>6. CASE Step(t, AfterRepository(Failed(o)))
  <2>1. PICK s \in After : AfterRepository(Failed(o)) = At(s, Failed(o))
    BY AfterFailed
  <2>2. Suits(At(s, Failed(o)), pointer, prepared[t].revisionId, runtime[t], gateway.authority,
              published[t], settled[t])
    BY <1>4, FailedRepositorySuits
  <2>3. Agrees(t, AfterRepository(Failed(o))) /\ AfterRepository(Failed(o)).stage \notin {"idle", "activating"}
    BY <2>1, <2>2, AfterRepositoryStages DEF Agrees
  <2>4. QED
    BY <1>2, <1>6, <2>3, StepAlone
<1>7. CASE DiscardPreparedRevision(t) /\ Goto(t, AfterRepository(o)) /\ NoGatewayChange
  <2>1. /\ pointer' = pointer /\ gateway' = gateway
        /\ prepared'[t].revisionId = prepared[t].revisionId
    BY <1>7 DEF DiscardPreparedRevision, SetStatus, NoGatewayChange, RepositoryInv,
                RepositoryTypeOK, Tabs, PreparedState
  <2>2. Suits(AfterRepository(o), pointer, prepared[t].revisionId, runtime[t], gateway.authority,
              published[t], settled[t])
    BY <1>4, <1>5, AfterRepositorySuits
  <2>3. AfterRepository(o).stage \notin {"idle", "activating"}
    BY AfterRepositoryStages
  <2>4. QED
    BY <1>2, <1>7, <2>1, <2>2, <2>3, GotoAlone
<1>8. QED
  BY <1>3, <1>6, <1>7 DEF Discard

LEMMA CompensateAlone ==
  ASSUME PublicationInv, NEW t \in Tabs, AloneInv(t), Compensate(t)
  PROVE  AloneInv(t)'
<1>1. pc[t] = "compensate" /\ pc[t] # "idle"
  BY DEF Compensate
<1>2. /\ TabsInv /\ Agrees(t, At(pc[t], op[t])) /\ op[t] \in Op
      /\ Sound(pc[t], op[t], prepared[t].status, compensated)
  BY <1>1, AloneFacts
<1>3. PICK o \in Op : o = op[t]
  BY <1>2
<1>4. Suits(At("compensate", o), pointer, prepared[t].revisionId, runtime[t], gateway.authority,
            published[t], settled[t])
  BY <1>1, <1>2, <1>3 DEF Agrees
<1>5. o.kind = "replace" /\ o.commit = "yes"
  BY <1>1, <1>2, <1>3 DEF Sound, StageOK, ReplaceOnly
<1>6. \A p : \E s \in After :
         /\ AfterRepository(Failed(o)) = At(s, Failed(o))
         /\ Suits(At(s, Failed(o)), p, prepared[t].revisionId, runtime[t], gateway.authority,
                  published[t], settled[t])
  <2>1. PICK s \in After : AfterRepository(Failed(o)) = At(s, Failed(o))
    BY AfterFailed
  <2>2. ASSUME NEW p
        PROVE  Suits(At(s, Failed(o)), p, prepared[t].revisionId, runtime[t], gateway.authority,
                     published[t], settled[t])
    BY <1>4, <1>5, FailedRepositorySuits
  <2>3. QED
    BY <2>1, <2>2
<1>7. CASE Step(t, AfterRepository(Failed(o))) \/ FaultStep(t, "storageLost", AfterRepository(Failed(o)))
  <2>1. Agrees(t, AfterRepository(Failed(o))) /\ AfterRepository(Failed(o)).stage \notin {"idle", "activating"}
    BY <1>6, AfterRepositoryStages DEF Agrees
  <2>2. QED
    BY <1>2, <1>7, <2>1, StepAlone
<1>8. CASE CompensatePublication(o.token) /\ NoGatewayChange
           /\ (Goto(t, AfterRepository(o)) \/ Goto(t, AfterRepository(Failed(o))))
  <2>1. /\ gateway' = gateway /\ prepared' = prepared
        /\ pointer' = IF pointer.previousRevisionId = Null THEN NoPointer
                      ELSE StablePointer(pointer.previousRevisionId, pointer.previousCommitToken)
    BY <1>8 DEF CompensatePublication, NoGatewayChange
  <2>2. PICK p : p = pointer'
    OBVIOUS
  <2>3. pointer.state = "publishing"
    BY <1>8 DEF CompensatePublication, CompensateAllowed
  <2>4. Holds(pointer, o)
    BY <1>4, <1>5 DEF Suits, At, PointerPart, After, Reactivation
  <2>5. StableAt(p, o.previous)
    BY <2>1, <2>2, <2>3, <2>4 DEF Holds, StableAt, NoPointer, StablePointer
  <2>6. CASE Goto(t, AfterRepository(o))
    <3>1. Suits(AfterRepository(o), p, prepared[t].revisionId, runtime[t], gateway.authority,
                published[t], settled[t])
      BY <1>4, <1>5, <2>5, AfterRepositorySuits
    <3>2. AfterRepository(o).stage \notin {"idle", "activating"}
      BY AfterRepositoryStages
    <3>3. QED
      BY <1>2, <2>1, <2>2, <2>6, <3>1, <3>2, GotoAlone
  <2>7. CASE Goto(t, AfterRepository(Failed(o)))
    <3>1. Suits(AfterRepository(Failed(o)), p, prepared[t].revisionId, runtime[t],
                gateway.authority, published[t], settled[t])
      BY <1>6
    <3>2. AfterRepository(Failed(o)).stage \notin {"idle", "activating"}
      BY AfterRepositoryStages
    <3>3. QED
      BY <1>2, <2>1, <2>2, <2>7, <3>1, <3>2, GotoAlone
  <2>8. QED
    BY <1>8, <2>6, <2>7
<1>9. QED
  BY <1>3, <1>7, <1>8 DEF Compensate

(* The previous publication is given back to the Gateway.                  *)
LEMMA ReactivationSuits ==
  ASSUME NEW p, NEW h, NEW r, NEW g, NEW g0, NEW pub, NEW set, NEW o, NEW stage \in Reactivation,
         Suits(At(stage, o), p, h, r, g0, pub, set), o.attempted, NEW s \in After \ {"reactivate"},
         s = "endCatch" => RevisionOf(g) = o.previous
  PROVE  Suits(At(s, o), p, h, r, g, pub, set)
<1>1. Planned(s, o, h, pub, set)
  BY DEF Suits, At, Planned, Hydrating, Emptying, Restore, Before, After, Reactivation
<1>2. PointerPart(s, o, p, set)
  BY DEF Suits, At, PointerPart, After, Reactivation
<1>3. RuntimePart(s, o, r, set)
  BY DEF Suits, At, RuntimePart, Shown, After, Reactivation
<1>4. GatewayPart(s, o, g, set)
  BY DEF Suits, At, GatewayPart, Holding, Shown, Begun, Rolling, Undone, After, Reactivation
<1>5. QED
  BY <1>1, <1>2, <1>3, <1>4 DEF Suits, At

LEMMA ReactivationFacts ==
  ASSUME PublicationInv, NEW t \in Tabs, AloneInv(t), pc[t] \in Reactivation
  PROVE  /\ TabsInv /\ op[t] \in Op /\ Agrees(t, At(pc[t], op[t])) /\ op[t].attempted
         /\ pc[t] \in After /\ At("endCatch", Failed(op[t])).stage \notin {"idle", "activating"}
         /\ \A s : At(s, op[t]).stage = s
<1>1. pc[t] # "idle" /\ pc[t] \in After
  BY DEF Reactivation, After
<1>2. /\ TabsInv /\ op[t] \in Op /\ Agrees(t, At(pc[t], op[t]))
      /\ Sound(pc[t], op[t], prepared[t].status, compensated)
  BY <1>1, AloneFacts
<1>3. op[t].attempted
  BY <1>2 DEF Sound, StageOK
<1>4. QED
  BY <1>1, <1>2, <1>3 DEF At

LEMMA GiveUpSuits ==
  ASSUME NEW p, NEW h, NEW r, NEW g, NEW g0, NEW pub, NEW set, NEW o \in Op, o.attempted,
         NEW stage \in Reactivation, Suits(At(stage, o), p, h, r, g0, pub, set)
  PROVE  Suits(At("endCatch", Failed(o)), p, h, r, g, pub, set)
<1>1. PICK e : e = Failed(o)
  OBVIOUS
<1>2. /\ e.failed /\ e.attempted /\ e.kind = o.kind /\ e.expected = o.expected
      /\ e.previous = o.previous
  BY <1>1, FailedFields
<1>3. Suits(At("endCatch", e), p, h, r, g0, pub, set)
  BY <1>1, FailedRepositorySuits DEF After
<1>4. GatewayPart("endCatch", e, g0, set)
  BY <1>3 DEF Suits, At
<1>5. GatewayPart("endCatch", e, g, set)
  BY <1>2, <1>4 DEF GatewayPart, Holding, Shown, Begun, Rolling, Undone
<1>6. QED
  BY <1>1, <1>3, <1>5 DEF Suits, At

LEMMA ReactivateAlone ==
  ASSUME PublicationInv, NEW t \in Tabs, AloneInv(t), Reactivate(t)
  PROVE  AloneInv(t)'
<1>1. pc[t] = "reactivate" /\ pc[t] \in Reactivation
  BY DEF Reactivate, Reactivation
<1>2. /\ TabsInv /\ op[t] \in Op /\ Agrees(t, At(pc[t], op[t])) /\ op[t].attempted
      /\ At("endCatch", Failed(op[t])).stage \notin {"idle", "activating"}
      /\ \A s : At(s, op[t]).stage = s
  BY <1>1, ReactivationFacts
<1>3. Agrees(t, At("endCatch", Failed(op[t])))
  BY <1>1, <1>2, GiveUpSuits DEF Agrees
<1>4. Agrees(t, At("reactivateSend", op[t]))
  BY <1>1, <1>2, ReactivationSuits DEF Agrees, After, Reactivation
<1>5. QED
  BY <1>2, <1>3, <1>4, StepAlone DEF Reactivate

LEMMA ReactivateSendAlone ==
  ASSUME PublicationInv, NEW t \in Tabs, AloneInv(t), ReactivateSend(t)
  PROVE  AloneInv(t)'
<1>1. pc[t] = "reactivateSend" /\ pc[t] \in Reactivation
  BY DEF ReactivateSend, Reactivation
<1>2. /\ TabsInv /\ op[t] \in Op /\ Agrees(t, At(pc[t], op[t])) /\ op[t].attempted
      /\ At("endCatch", Failed(op[t])).stage \notin {"idle", "activating"}
      /\ \A s : At(s, op[t]).stage = s
  BY <1>1, ReactivationFacts
<1>3. Agrees(t, At("endCatch", Failed(op[t])))
  BY <1>1, <1>2, GiveUpSuits DEF Agrees
<1>4. Agrees(t, At("reactivating", op[t]))
  BY <1>1, <1>2, ReactivationSuits DEF Agrees, After, Reactivation
<1>5. /\ UNCHANGED <<pointer, prepared, gateway>>
      /\ Goto(t, At("reactivating", op[t])) \/ Goto(t, At("endCatch", Failed(op[t])))
  BY DEF ReactivateSend, Send, Answered, repositoryVars
<1>6. QED
  BY <1>2, <1>3, <1>4, <1>5, LocalAlone

LEMMA ReactivateVerifyAlone ==
  ASSUME PublicationInv, NEW t \in Tabs, AloneInv(t), ReactivateVerify(t)
  PROVE  AloneInv(t)'
<1>1. pc[t] = "reactivateVerify" /\ pc[t] \in Reactivation
  BY DEF ReactivateVerify, Reactivation
<1>2. /\ TabsInv /\ op[t] \in Op /\ Agrees(t, At(pc[t], op[t])) /\ op[t].attempted
      /\ At("endCatch", Failed(op[t])).stage \notin {"idle", "activating"}
      /\ \A s : At(s, op[t]).stage = s
  BY <1>1, ReactivationFacts
<1>3. Agrees(t, At("endCatch", Failed(op[t])))
  BY <1>1, <1>2, GiveUpSuits DEF Agrees
<1>4. CASE StatusMatches(op[t].previous) /\ Step(t, At("endCatch", op[t]))
  <2>1. RevisionOf(gateway.authority) = op[t].previous
    BY <1>4 DEF StatusMatches, RevisionOf
  <2>2. Agrees(t, At("endCatch", op[t]))
    BY <1>1, <1>2, <2>1, ReactivationSuits DEF Agrees, After, Reactivation
  <2>3. QED
    BY <1>2, <1>4, <2>2, StepAlone
<1>5. CASE Step(t, At("endCatch", Failed(op[t]))) \/ FaultStep(t, "gatewayLost", At("endCatch", Failed(op[t])))
  BY <1>2, <1>3, <1>5, StepAlone
<1>6. QED
  BY <1>4, <1>5 DEF ReactivateVerify

LEMMA EndCatchAlone ==
  ASSUME PublicationInv, NEW t \in Tabs, AloneInv(t), EndCatch(t)
  PROVE  AloneInv(t)'
<1>1. pc[t] = "endCatch" /\ pc[t] # "idle" /\ Leave(t, op[t].failed)
  BY DEF EndCatch
<1>2. /\ TabsInv /\ RestInv /\ op[t] \in Op /\ Agrees(t, At(pc[t], op[t]))
      /\ Sound(pc[t], op[t], prepared[t].status, compensated)
      /\ op[t].commit # "started" /\ (op[t].commit = "unknown" => op[t].failed)
  BY <1>1, AloneFacts
<1>3. op[t].failed \in BOOLEAN
  BY <1>2 DEF Op
<1>4. CASE op[t].failed
  <2>1. pc'[t] = "idle" /\ recovery'[t]
    BY <1>1, <1>2, <1>4 DEF Leave, TabsInv, RestInv
  <2>2. QED
    BY <2>1, AloneRests
<1>5. CASE ~op[t].failed
  <2>1. /\ pc'[t] = "idle" /\ settled' = Tried(t) /\ runtime' = runtime /\ published' = published
        /\ pointer' = pointer /\ gateway' = gateway
    BY <1>1, <1>2 DEF Leave, TabsInv, EndCatch, NoGatewayChange, repositoryVars
  <2>2. settled'[t] = "yes" => settled[t] = "yes"
    BY <1>2, <2>1 DEF Tried, RestInv
  <2>3. CASE settled[t] = "yes"
    <3>1. PICK o \in Op : o = op[t]
      BY <1>2
    <3>2. /\ Planned("endCatch", o, prepared[t].revisionId, published[t], settled[t])
          /\ PointerPart("endCatch", o, pointer, settled[t])
          /\ RuntimePart("endCatch", o, runtime[t], settled[t])
          /\ GatewayPart("endCatch", o, gateway.authority, settled[t])
      BY <1>1, <1>2, <3>1 DEF Agrees, Suits, At
    <3>3. o.kind = "replace"
      BY <1>1, <1>2, <3>1 DEF Sound, StageOK, ReplaceOnly, After
    <3>4. o.previous = published[t]
      BY <3>2, <3>3 DEF Planned
    <3>5. o.commit \in {"none", "noEffect", "yes"}
      BY <1>2, <1>5, <3>1 DEF Op
    <3>6. StableAt(pointer, o.previous)
      BY <1>5, <2>3, <3>1, <3>2, <3>3, <3>5 DEF PointerPart, After
    <3>7. runtime[t].active = o.previous
      BY <2>3, <3>2, <3>3 DEF RuntimePart, After
    <3>8. RevisionOf(gateway.authority) = o.previous
      BY <1>5, <2>3, <3>1, <3>2, <3>3 DEF GatewayPart, Undone
    <3>9. Rests(pointer', runtime'[t], gateway'.authority, published'[t])
      BY <2>1, <3>4, <3>6, <3>7, <3>8 DEF Rests
    <3>10. QED
      BY <2>1, <3>9, AloneRests
  <2>4. CASE settled[t] # "yes"
    BY <2>1, <2>2, <2>4, AloneRests
  <2>5. QED
    BY <2>3, <2>4
<1>6. QED
  BY <1>3, <1>4, <1>5

LEMMA RestoringAlone ==
  ASSUME PublicationInv, NEW t \in Tabs, AloneInv(t), pc[t] \in Restore, NEW o,
         o = op[t], NEW e, e.kind = "hydrate", e.winner = "no", e.next = e.saw.revisionId,
         e.previous \in {Null, e.saw.previousRevisionId}, e.restoring => e.saw.state = "stable",
         NEW s \in {"prepareGateway"} \cup Restore, Goto(t, At(s, e))
  PROVE  AloneInv(t)'
<1>1. pc[t] # "idle"
  BY DEF Restore
<1>2. TabsInv /\ Agrees(t, At(pc[t], op[t]))
  BY <1>1, AloneFacts
<1>3. Planned(pc[t], o, prepared[t].revisionId, published[t], settled[t])
  BY <1>2 DEF Agrees, Suits, At
<1>4. published[t] = Null /\ settled[t] # "yes"
  BY <1>3 DEF Planned, Restore, Hydrating, Emptying
<1>5. Planned(s, e, prepared'[t].revisionId, published[t], settled[t])
  <2>1. PICK h : h = prepared'[t].revisionId
    OBVIOUS
  <2>2. s # "winner" /\ e.kind # "none" /\ e.kind # "replace"
    BY DEF Restore
  <2>3. Planned(s, e, h, published[t], settled[t])
    BY <1>4, <2>2 DEF Planned, Hydrating, Emptying, Restore
  <2>4. QED
    BY <2>1, <2>3
<1>6. Suits(At(s, e), pointer', prepared'[t].revisionId, runtime[t], gateway'.authority,
            published[t], settled[t])
  BY <1>5, HydratingSuits
<1>7. At(s, e).stage = s /\ s \notin {"idle", "activating"}
  BY DEF At, Restore
<1>8. QED
  BY <1>2, <1>6, <1>7, GotoAlone

LEMMA RestoreFacts ==
  ASSUME PublicationInv, NEW t \in Tabs, AloneInv(t), pc[t] \in Restore
  PROVE  /\ TabsInv /\ RestInv /\ op[t].kind = "hydrate" /\ op[t].winner = "no"
         /\ op[t].next = op[t].saw.revisionId /\ op[t].previous = op[t].saw.previousRevisionId
         /\ op[t].restoring => op[t].saw.state = "stable"
<1>1. pc[t] # "idle"
  BY DEF Restore
<1>2. /\ TabsInv /\ RestInv /\ Agrees(t, At(pc[t], op[t]))
      /\ Sound(pc[t], op[t], prepared[t].status, compensated)
  BY <1>1, AloneFacts
<1>3. op[t].previous # Null
  BY <1>2 DEF Sound, StageOK
<1>4. Planned(pc[t], op[t], prepared[t].revisionId, published[t], settled[t])
  BY <1>2 DEF Agrees, Suits, At
<1>5. QED
  BY <1>2, <1>3, <1>4 DEF Planned, Hydrating

LEMMA RestoreAlone ==
  ASSUME PublicationInv, NEW t \in Tabs, AloneInv(t),
         RestorePointer(t) \/ RestoreCompensate(t) \/ RestoreStable(t)
  PROVE  AloneInv(t)'
<1>1. pc[t] \in Restore
  BY DEF RestorePointer, RestoreCompensate, RestoreStable, Restore
<1>2. /\ TabsInv /\ RestInv /\ op[t].kind = "hydrate" /\ op[t].winner = "no"
      /\ op[t].next = op[t].saw.revisionId /\ op[t].previous = op[t].saw.previousRevisionId
      /\ op[t].restoring => op[t].saw.state = "stable"
  BY <1>1, RestoreFacts
<1>3. CASE Leave(t, TRUE)
  BY <1>2, <1>3, LeaveAlone
<1>4. ASSUME NEW s \in {"restoreCompensate", "restoreStable"}, Goto(t, At(s, op[t]))
      PROVE  AloneInv(t)'
  BY <1>1, <1>2, <1>4, RestoringAlone DEF Restore
<1>5. CASE RestoreStable(t) /\ ~Leave(t, TRUE)
  <2>1. PICK q : q = StablePointer(op[t].saw.previousRevisionId, op[t].saw.previousCommitToken)
    OBVIOUS
  <2>2. PICK e : e = [NoOp EXCEPT !.kind = "hydrate", !.next = op[t].previous,
                                  !.saw = q, !.restoring = TRUE]
    OBVIOUS
  <2>3. Goto(t, At("prepareGateway", e))
    BY <1>5, <2>1, <2>2 DEF RestoreStable
  <2>4. /\ e.kind = "hydrate" /\ e.winner = "no" /\ e.next = op[t].previous /\ e.saw = q
        /\ e.previous = Null
    BY <2>2 DEF NoOp
  <2>5. q.revisionId = op[t].saw.previousRevisionId /\ q.state = "stable"
    BY <2>1 DEF StablePointer, NoPointer
  <2>6. e.next = e.saw.revisionId /\ e.saw.state = "stable"
    BY <1>2, <2>4, <2>5
  <2>7. QED
    BY <1>1, <2>3, <2>4, <2>6, RestoringAlone
<1>6. QED
  BY <1>3, <1>4, <1>5 DEF RestorePointer, RestoreCompensate

-----------------------------------------------------------------------------
(* At rest.                                                                *)

LEMMA DrainAlone ==
  ASSUME PublicationInv, NEW t \in Tabs, AloneInv(t), DrainStep(t)
  PROVE  AloneInv(t)'
<1>1. /\ pc[t] = "idle" /\ UNCHANGED <<pc, published, settled, recovery, pointer, gateway>>
  BY DEF DrainStep, NoGatewayChange, repositoryVars, GarbageCollect
<1>2. runtime'[t].active = runtime[t].active
  BY DEF DrainStep, PublicationInv, RestInv
<1>3. QED
  BY <1>1, <1>2 DEF AloneInv, Rests

LEMMA ReloadAlone ==
  ASSUME PublicationInv, NEW t \in Tabs, ReloadEffect(t)
  PROVE  AloneInv(t)'
<1>1. pc'[t] = "idle" /\ settled'[t] # "yes"
  BY DEF ReloadEffect, PublicationInv, TabsInv, RestInv
<1>2. QED
  BY <1>1, AloneRests

-----------------------------------------------------------------------------
(* The Gateway answers the only tab.                                       *)

LEMMA ActivatedSuits ==
  ASSUME NEW p, NEW h, NEW r, NEW g0, NEW pub, NEW set, NEW o,
         Suits(At("activating", o), p, h, r, g0, pub, set), o.attempted,
         NEW s \in {"commit", "commitRuntime"}
  PROVE  Suits(At(s, o), p, h, r, Candidate(o), pub, set)
<1>1. Planned(s, o, h, pub, set)
  BY DEF Suits, At, Planned, Before, Hydrating, Emptying, Restore
<1>2. PointerPart(s, o, p, set)
  BY DEF Suits, At, PointerPart, After, Reactivation
<1>3. RuntimePart(s, o, r, set)
  BY DEF Suits, At, RuntimePart, Shown, After, Reactivation
<1>4. GatewayPart(s, o, Candidate(o), set)
  BY DEF Suits, At, GatewayPart, Begun, Rolling, Undone
<1>5. QED
  BY <1>1, <1>2, <1>3, <1>4 DEF Suits, At

(* An activation that was not refused: its authority runs, or may run.     *)
LEMMA ActivatingAlone ==
  ASSUME PublicationInv, NEW t \in Tabs, AloneInv(t), pc[t] = "activating", NEW given \in Answers,
         Goto(t, Answered(op[t], pc[t], given)), UNCHANGED repositoryVars, given # "conflict",
         gateway'.authority \in {gateway.authority, Candidate(op[t])},
         given = "ok" => gateway'.authority = Candidate(op[t])
  PROVE  AloneInv(t)'
<1>1. PICK o \in Op : o = op[t]
  BY AloneFacts
<1>2. /\ TabsInv /\ Agrees(t, At("activating", o)) /\ o.commit # "started" /\ o.attempted
  BY <1>1, AloneFacts DEF Sound, StageOK, Attempting
<1>3. pointer' = pointer /\ prepared' = prepared
  BY DEF repositoryVars
<1>4. PICK g : g = gateway'.authority
  OBVIOUS
<1>5. CASE given = "ok"
  <2>1. PICK s \in {"commit", "commitRuntime"} : s = IF o.kind = "replace" THEN "commit" ELSE "commitRuntime"
    OBVIOUS
  <2>2. Goto(t, At(s, o))
    BY <1>1, <1>5, <2>1 DEF Answered
  <2>3. Suits(At(s, o), pointer, prepared[t].revisionId, runtime[t], g, published[t], settled[t])
    BY <1>1, <1>2, <1>4, <1>5, ActivatedSuits DEF Agrees
  <2>4. At(s, o).stage \notin {"idle", "activating"}
    BY DEF At
  <2>5. QED
    BY <1>2, <1>3, <1>4, <2>2, <2>3, <2>4, GotoAlone
<1>6. CASE given # "ok"
  <2>1. Goto(t, Catch(o))
    BY <1>1, <1>6 DEF Answered
  <2>2. Suits(Catch(o), pointer, prepared[t].revisionId, runtime[t], g, published[t], settled[t])
    BY <1>1, <1>2, <1>4, UncertainSuits DEF Agrees
  <2>3. QED
    BY <1>2, <1>3, <1>4, <2>1, <2>2, GotoAlone, CatchStages
<1>7. QED
  BY <1>5, <1>6

(* A withdrawal that leaves the authority, or no authority; a conflict is  *)
(* answered to one that is not the candidate's.                            *)
LEMMA WithdrawingAlone ==
  ASSUME PublicationInv, NEW t \in Tabs, AloneInv(t), pc[t] \in {"rollingBack", "rollbackRetrying"},
         NEW given \in Answers, Goto(t, Answered(op[t], pc[t], given)), UNCHANGED repositoryVars,
         gateway'.authority \in {gateway.authority, Null}, given = "ok" => gateway'.authority = Null,
         given = "conflict" =>
             gateway'.authority = gateway.authority /\ gateway.authority # Candidate(op[t])
  PROVE  AloneInv(t)'
<1>1. PICK stage \in Rolling : stage = pc[t]
  BY DEF Rolling, Begun
<1>2. PICK o \in Op : o = op[t]
  BY <1>1, RollingFacts
<1>3. PICK g : g = gateway'.authority
  OBVIOUS
<1>4. /\ TabsInv /\ Agrees(t, At(stage, o)) /\ o.attempted
      /\ o.kind = "replace" /\ settled[t] = "yes" =>
             /\ gateway.authority \in {Null, Candidate(o), o.expected}
             /\ stage \in Begun => gateway.authority \in {Candidate(o), o.expected}
  BY <1>1, <1>2, RollingFacts
<1>5. Suits(At(stage, o), pointer, prepared[t].revisionId, runtime[t], gateway.authority,
            published[t], settled[t])
  BY <1>4 DEF Agrees
<1>6. pointer' = pointer /\ prepared' = prepared
  BY DEF repositoryVars
<1>7. CASE given = "ok"
  <2>1. PICK d \in Dispositions : d = "candidate-deactivated"
    BY DEF Dispositions
  <2>2. Goto(t, RolledBack(o, d))
    BY <1>1, <1>2, <1>7, <2>1 DEF Answered
  <2>3. g = Null
    BY <1>3, <1>7
  <2>4. Suits(RolledBack(o, d), pointer, prepared[t].revisionId, runtime[t], g, published[t],
              settled[t])
    BY <1>4, <1>5, <2>1, <2>3, RolledBackSuits
  <2>5. QED
    BY <1>3, <1>4, <1>6, <2>2, <2>4, GotoAlone, RolledBackStages
<1>8. CASE given = "failed"
  <2>1. Goto(t, RollbackThrew(o))
    BY <1>1, <1>2, <1>8 DEF Answered
  <2>2. Suits(RollbackThrew(o), pointer, prepared[t].revisionId, runtime[t], g, published[t],
              settled[t])
    BY <1>4, <1>5, RollbackThrewSuits
  <2>3. QED
    BY <1>3, <1>4, <1>6, <2>1, <2>2, GotoAlone, RolledBackStages
<1>9. CASE given \notin {"ok", "failed"}
  <2>1. PICK s \in Rolling \ Begun :
            s = IF stage = "rollingBack" THEN "rollbackStatus" ELSE "rollbackTerminal"
    BY DEF Rolling, Begun
  <2>2. PICK c \in BOOLEAN : c = IF stage = "rollingBack" THEN given = "conflict" ELSE o.conflict
    BY DEF Op
  <2>3. PICK e : e = [o EXCEPT !.conflict = c]
    OBVIOUS
  <2>4. stage # "rollingBack" => e = o
    BY <2>2, <2>3 DEF Op
  <2>5. Goto(t, At(s, e))
    <3>1. CASE stage = "rollingBack"
      <4>1. e = [o EXCEPT !.conflict = given = "conflict"]
        BY <2>2, <2>3, <3>1
      <4>2. QED
        BY <1>1, <1>2, <1>9, <2>1, <3>1, <4>1 DEF Answered
    <3>2. CASE stage = "rollbackRetrying"
      BY <1>1, <1>2, <1>9, <2>1, <2>4, <3>2 DEF Answered
    <3>3. QED
      BY <1>1, <3>1, <3>2
  <2>6. o.kind = "replace" /\ settled[t] = "yes" =>
            /\ g \in {Null, Candidate(o), o.expected}
            /\ s = "rollbackStatus" /\ c => g = o.expected
    <3>1. g \in {gateway.authority, Null}
      BY <1>3
    <3>2. stage \in Begun \/ s # "rollbackStatus"
      BY <1>1, <2>1 DEF Begun
    <3>3. s = "rollbackStatus" /\ c => g = gateway.authority /\ g # Candidate(o)
      BY <1>2, <1>3, <2>1, <2>2
    <3>4. QED
      BY <1>4, <3>1, <3>2, <3>3
  <2>7. Suits(At(s, e), pointer, prepared[t].revisionId, runtime[t], g, published[t], settled[t])
    BY <1>4, <1>5, <2>3, <2>6, RollingSuits
  <2>8. At(s, e).stage \notin {"idle", "activating"}
    BY DEF At, Rolling, Begun
  <2>9. QED
    BY <1>3, <1>4, <1>6, <2>5, <2>7, <2>8, GotoAlone
<1>10. QED
  BY <1>7, <1>8, <1>9

(* The previous publication is given back, or the operation fails.         *)
LEMMA ReactivatingAlone ==
  ASSUME PublicationInv, NEW t \in Tabs, AloneInv(t), pc[t] = "reactivating", NEW given \in Answers,
         Goto(t, Answered(op[t], pc[t], given)), UNCHANGED repositoryVars
  PROVE  AloneInv(t)'
<1>1. PICK stage \in Reactivation : stage = pc[t]
  BY DEF Reactivation
<1>2. PICK o \in Op : o = op[t]
  BY <1>1, ReactivationFacts
<1>3. PICK g : g = gateway'.authority
  OBVIOUS
<1>4. /\ TabsInv /\ Agrees(t, At(stage, o)) /\ o.attempted
      /\ At("endCatch", Failed(o)).stage \notin {"idle", "activating"}
  BY <1>1, <1>2, ReactivationFacts
<1>5. Suits(At(stage, o), pointer, prepared[t].revisionId, runtime[t], gateway.authority,
            published[t], settled[t])
  BY <1>4 DEF Agrees
<1>6. pointer' = pointer /\ prepared' = prepared
  BY DEF repositoryVars
<1>7. CASE given = "ok"
  <2>1. PICK s \in After \ {"reactivate"} : s = "reactivateVerify"
    BY DEF After, Reactivation
  <2>2. Goto(t, At(s, o))
    BY <1>1, <1>2, <1>7, <2>1 DEF Answered
  <2>3. Suits(At(s, o), pointer, prepared[t].revisionId, runtime[t], g, published[t], settled[t])
    BY <1>4, <1>5, <2>1, ReactivationSuits
  <2>4. At(s, o).stage \notin {"idle", "activating"}
    BY <2>1 DEF At
  <2>5. QED
    BY <1>3, <1>4, <1>6, <2>2, <2>3, <2>4, GotoAlone
<1>8. CASE given # "ok"
  <2>1. Goto(t, At("endCatch", Failed(o)))
    BY <1>1, <1>2, <1>8 DEF Answered
  <2>2. Suits(At("endCatch", Failed(o)), pointer, prepared[t].revisionId, runtime[t], g,
              published[t], settled[t])
    BY <1>4, <1>5, GiveUpSuits
  <2>3. QED
    BY <1>3, <1>4, <1>6, <2>1, <2>2, GotoAlone
<1>9. QED
  BY <1>7, <1>8

(* The request at the head of the queue is the tab's.                      *)
LEMMA HeadAlone ==
  ASSUME PublicationInv, AttemptsInv, NEW t, Clients = {t}, transitions # <<>>,
         NEW q, q = Head(transitions)
  PROVE  /\ t \in Tabs /\ q.tab = t /\ q.waiting /\ pc[t] \in Waiting
         /\ q.kind = "activate" <=> pc[t] \in {"activating", "reactivating"}
         /\ pc[t] # "reactivating" => q.authority = Candidate(op[t])
         /\ AloneInv(t) /\ pc[t] = "activating" => q.expected = gateway.authority
<1>1. q.tab \in Tabs /\ Awaited(q)
  BY HeadAwaited
<1>2. t \in Tabs /\ q.tab = t
  BY <1>1 DEF Tabs
<1>3. ASSUME AloneInv(t), pc[t] = "activating"
      PROVE  q.expected = gateway.authority
  <2>1. transitions \in Seq(Request)
    BY DEF PublicationInv, QueueInv
  <2>2. 1 \in 1..Len(transitions) /\ q = transitions[1]
    BY <2>1
  <2>3. q.expected = op[t].expected
    BY <1>3, <2>2 DEF AloneInv
  <2>4. gateway.authority = op[t].expected
    BY <1>3 DEF AloneInv, Agrees, Suits, GatewayPart, At
  <2>5. QED
    BY <2>3, <2>4
<1>4. QED
  BY <1>1, <1>2, <1>3 DEF Awaited

LEMMA AnswerAlone ==
  ASSUME PublicationInv, AttemptsInv, NEW t, Clients = {t}, AloneInv(t), transitions # <<>>,
         NEW q, q = Head(transitions), NEW answer \in Answers, NEW a, NEW p,
         Respond(answer, a, p) \/ (RespondFailed(a, p) /\ answer = "failed"),
         IF q.kind = "activate"
         THEN /\ answer # "conflict" \/ pc[t] # "activating"
              /\ a \in {gateway.authority, q.authority}
              /\ answer = "ok" => a = q.authority
         ELSE /\ a \in {gateway.authority, Null}
              /\ answer = "ok" => a = Null
              /\ answer = "conflict" => a = gateway.authority /\ a # q.authority
  PROVE  AloneInv(t)'
<1>1. PICK given \in Answers :
         /\ given \in {answer, "lost"}
         /\ gateway'.authority = a /\ UNCHANGED repositoryVars /\ Answer(q, given)
  BY DEF Respond, RespondFailed, Answers
<1>2. /\ t \in Tabs /\ q.tab = t /\ q.waiting /\ pc[t] \in Waiting
      /\ q.kind = "activate" <=> pc[t] \in {"activating", "reactivating"}
      /\ pc[t] # "reactivating" => q.authority = Candidate(op[t])
  BY HeadAlone
<1>3. Goto(t, Answered(op[t], pc[t], given))
  BY <1>1, <1>2 DEF Answer
<1>4. CASE pc[t] = "activating"
  <2>1. /\ given # "conflict" /\ gateway'.authority \in {gateway.authority, Candidate(op[t])}
        /\ given = "ok" => gateway'.authority = Candidate(op[t])
    BY <1>1, <1>2, <1>4
  <2>2. QED
    BY <1>1, <1>2, <1>3, <1>4, <2>1, ActivatingAlone
<1>5. CASE pc[t] = "reactivating"
  BY <1>1, <1>2, <1>3, <1>5, ReactivatingAlone
<1>6. CASE pc[t] \in {"rollingBack", "rollbackRetrying"}
  <2>1. /\ gateway'.authority \in {gateway.authority, Null}
        /\ given = "ok" => gateway'.authority = Null
        /\ given = "conflict" =>
               gateway'.authority = gateway.authority /\ gateway.authority # Candidate(op[t])
    BY <1>1, <1>2, <1>6
  <2>2. QED
    BY <1>1, <1>2, <1>3, <1>6, <2>1, WithdrawingAlone
<1>7. QED
  BY <1>2, <1>4, <1>5, <1>6 DEF Waiting

LEMMA GatewayStepAlone ==
  ASSUME PublicationInv, AttemptsInv, NEW t, Clients = {t}, AloneInv(t), GatewayStep
  PROVE  AloneInv(t)'
<1>1. transitions # <<>>
  BY DEF GatewayStep, GatewayActivate, GatewayRefuseDeactivate, GatewayStartDeactivate,
         GatewayFinishDeactivate
<1>2. PICK q : q = Head(transitions)
  OBVIOUS
<1>3. CASE GatewayActivate
  <2>1. q.kind = "activate"
    BY <1>2, <1>3 DEF GatewayActivate
  <2>2. CASE \/ Respond("failed", gateway.authority, gateway.phase)
             \/ RespondFailed(gateway.authority, gateway.phase)
    BY <1>1, <1>2, <2>1, <2>2, AnswerAlone DEF Answers
  <2>3. CASE gateway.authority # q.expected /\ Respond("conflict", gateway.authority, gateway.phase)
    <3>1. pc[t] # "activating"
      BY <1>1, <1>2, <2>3, HeadAlone
    <3>2. QED
      BY <1>1, <1>2, <2>1, <2>3, <3>1, AnswerAlone DEF Answers
  <2>4. CASE Respond("ok", q.authority, "active")
    BY <1>1, <1>2, <2>1, <2>4, AnswerAlone DEF Answers
  <2>5. CASE RespondFailed(IF gateway.authority = Null THEN q.authority
                           ELSE gateway.authority, "recovery-required")
    <3>1. \/ RespondFailed(q.authority, "recovery-required")
          \/ RespondFailed(gateway.authority, "recovery-required")
      BY <2>5
    <3>2. QED
      BY <1>1, <1>2, <2>1, <3>1, AnswerAlone DEF Answers
  <2>6. QED
    BY <1>2, <1>3, <2>2, <2>3, <2>4, <2>5 DEF GatewayActivate
<1>4. CASE GatewayRefuseDeactivate
  <2>1. /\ q.kind = "deactivate" /\ gateway.authority # q.authority
        /\ Respond("conflict", gateway.authority, gateway.phase)
    BY <1>2, <1>4 DEF GatewayRefuseDeactivate
  <2>2. QED
    BY <1>1, <1>2, <2>1, AnswerAlone DEF Answers
<1>5. CASE GatewayStartDeactivate
  <2>1. /\ gateway'.authority = gateway.authority
        /\ UNCHANGED <<repositoryVars, tabVars, transitions>>
    BY <1>5 DEF GatewayStartDeactivate, PublicationInv, GatewayInv
  <2>2. QED
    BY <2>1 DEF AloneInv, Agrees, Rests, repositoryVars, tabVars
<1>6. CASE GatewayFinishDeactivate
  <2>1. q.kind = "deactivate"
    BY <1>2, <1>6 DEF GatewayFinishDeactivate, PublicationInv, GatewayInv
  <2>2. \/ Respond("ok", Null, "inactive")
        \/ RespondFailed(gateway.authority, "recovery-required")
    BY <1>6 DEF GatewayFinishDeactivate
  <2>3. QED
    BY <1>1, <1>2, <2>1, <2>2, AnswerAlone DEF Answers
<1>7. QED
  BY <1>3, <1>4, <1>5, <1>6 DEF GatewayStep

-----------------------------------------------------------------------------
(* The invariant of a single tab.                                          *)

LEMMA ForwardAlone ==
  ASSUME RepositoryInv, PublicationInv, AttemptsInv, NEW t \in Tabs, Clients = {t}, AloneInv(t),
         Forward(t)
  PROVE  AloneInv(t)'
<1>1. CASE EmptyStatus(t) \/ EmptyVerify(t) \/ EmptyPointer(t) \/ LoadPrevious(t) \/ LoadTarget(t)
  BY <1>1, EmptyStatusAlone, EmptyVerifyAlone, EmptyPointerAlone, LoadPreviousAlone,
     LoadTargetAlone
<1>2. CASE PrepareGateway(t) \/ Activate(t) \/ Winner(t) \/ Commit(t) \/ CommitRuntime(t)
  BY <1>2, PrepareGatewayAlone, ActivateAlone, WinnerAlone, CommitAlone, CommitRuntimeAlone
<1>3. CASE PointerCheck(t) \/ Verify(t) \/ Finalize(t) \/ FinalizeRead(t)
  BY <1>3, PointerCheckAlone, VerifyAlone, FinalizeAlone, FinalizeReadAlone
<1>4. QED
  BY <1>1, <1>2, <1>3 DEF Forward

LEMMA BackwardAlone ==
  ASSUME RepositoryInv, PublicationInv, NEW t \in Tabs, AloneInv(t), Backward(t)
  PROVE  AloneInv(t)'
<1>1. CASE \/ Reconcile(t) \/ Rollback(t) \/ RollbackStatus(t) \/ RollbackRetry(t)
           \/ RollbackTerminal(t) \/ CheckInactive(t) \/ RollbackRuntime(t)
  BY <1>1, ReconcileAlone, RollbackAlone, RollbackStatusAlone, RollbackRetryAlone,
     RollbackTerminalAlone, CheckInactiveAlone, RollbackRuntimeAlone
<1>2. CASE Discard(t) \/ Compensate(t)
  BY <1>2, DiscardAlone, CompensateAlone
<1>3. CASE Reactivate(t) \/ ReactivateSend(t) \/ ReactivateVerify(t) \/ EndCatch(t)
  BY <1>3, ReactivateAlone, ReactivateSendAlone, ReactivateVerifyAlone, EndCatchAlone
<1>4. CASE RestorePointer(t) \/ RestoreCompensate(t) \/ RestoreStable(t)
  BY <1>4, RestoreAlone
<1>5. QED
  BY <1>1, <1>2, <1>3, <1>4 DEF Backward

LEMMA NextAlone ==
  ASSUME RepositoryInv, PublicationInv, AttemptsInv, NEW t, Clients = {t}, AloneInv(t),
         "gatewaySlow" \notin Faults, [Next]_vars
  PROVE  AloneInv(t)'
<1>1. t \in Tabs /\ \A u \in Tabs : u = t
  BY DEF Tabs
<1>2. ~GatewayTimeout
  BY DEF GatewayTimeout, Fault
<1>3. CASE GatewayStep
  BY <1>3, GatewayStepAlone
<1>4. CASE Begin(t) \/ Hydrate(t) \/ DrainStep(t)
  BY <1>1, <1>4, BeginAlone, HydrateAlone, DrainAlone
<1>5. CASE Reload(t) \/ RecoveryReload(t)
  BY <1>1, <1>5, ReloadAlone DEF Reload, RecoveryReload
<1>6. CASE Forward(t) \/ Backward(t)
  BY <1>1, <1>6, ForwardAlone, BackwardAlone
<1>7. CASE UNCHANGED vars
  BY <1>7 DEF vars, tabVars, repositoryVars, AloneInv, Agrees, Rests
<1>8. CASE Next
  BY <1>1, <1>2, <1>3, <1>4, <1>5, <1>6, <1>8 DEF Next
<1>9. QED
  BY <1>7, <1>8

LEMMA AloneInit ==
  ASSUME NEW t \in Tabs, Init
  PROVE  AloneInv(t)
BY DEF Init, AloneInv

LEMMA RestsAgree ==
  ASSUME NEW t, Clients = {t}, AloneInv(t)
  PROVE  SettledAgreement
<1> SUFFICES ASSUME \A u \in Tabs : Quiet(u)
             PROVE  /\ pointer.state # "publishing"
                    /\ \E u \in Tabs : published[u] = pointer.revisionId
                    /\ \A u \in Tabs : runtime[u].active = published[u]
                    /\ GatewayRevision = pointer.revisionId
  BY DEF SettledAgreement
<1>1. t \in Tabs /\ \A u \in Tabs : u = t
  BY DEF Tabs
<1>2. Rests(pointer, runtime[t], gateway.authority, published[t])
  BY <1>1 DEF Quiet, AloneInv
<1>3. GatewayRevision = published[t]
  BY <1>2 DEF Rests, RevisionOf, GatewayRevision, StatusInactive
<1>4. QED
  BY <1>1, <1>2, <1>3 DEF Rests, StableAt

(* With a single tab, whenever it has come to rest without asking for      *)
(* recovery, the durable pointer, the tab's runtime and the Gateway have   *)
(* the same publication, whatever was lost, failed, aborted or reloaded    *)
(* on the way: this is what the three-way compensation of replace and      *)
(* hydrate is for (project-v5-publication.ts:645-712, 536-578).  As above, *)
(* no transition outlives its client's timer.                              *)
THEOREM SingleTabSettles ==
  ASSUME NEW t, Clients = {t}, "gatewaySlow" \notin Faults
  PROVE  Spec => []SettledAgreement
<1>1. Init => AloneInv(t)
  BY AloneInit DEF Tabs
<1>2. RepositoryInv /\ PublicationInv /\ AttemptsInv /\ AloneInv(t) /\ [Next]_vars => AloneInv(t)'
  BY NextAlone
<1>3. AloneInv(t) => SettledAgreement
  BY RestsAgree
<1>4. QED
  BY <1>1, <1>2, <1>3, PublicationKeepsRepository, PublicationInvariant, AttemptsInvariant, PTL
     DEF Spec

=============================================================================
