-------------------------- MODULE ProjectRepository --------------------------
(***************************************************************************)
(* The IndexedDB repository of Project V5 revisions, shared by every tab   *)
(* of the origin (project-v5-repository.ts, project-v5-db.ts): immutable   *)
(* revision rows, one 'active' pointer that is stable or publishing, and a *)
(* ledger of commit tokens that are reserved for ever.  Each method is one *)
(* Dexie transaction, hence one action; a transaction may abort, and its   *)
(* response may be lost after it took effect.                              *)
(*                                                                         *)
(* A revision row is modelled by its canonical content; the config         *)
(* revision is a function of the content and createdAt is dropped.         *)
(***************************************************************************)
CONSTANTS Clients,      \* browser tabs, one repository object each
          RevisionIds, Contents, Tokens, Null

ASSUME RepositoryAssumption ==
    /\ Null \notin RevisionIds
    /\ Null \notin Contents
    /\ Null \notin Tokens
    /\ Null \notin [revisionId : RevisionIds, content : Contents, token : Tokens]

VARIABLES pointer,              \* the row 'active' of projectPointers
          projectRevisions,     \* projectRevisions: content by revision id
          projectCommitTokens,  \* the primary keys of projectCommitTokens
          prepared,             \* each tab's prepared revision handle
          finalized,            \* history: tokens that have been stable
          compensated           \* history: tokens that were compensated

repositoryVars == <<pointer, projectRevisions, projectCommitTokens, prepared,
                    finalized, compensated>>

-----------------------------------------------------------------------------
(* Rows.                                                                   *)

NoPointer == [state |-> "none", revisionId |-> Null, commitToken |-> Null,
              previousRevisionId |-> Null, previousCommitToken |-> Null]

StablePointer(r, k) ==
    [NoPointer EXCEPT !.state = "stable", !.revisionId = r, !.commitToken = k]

(* Mutant: the columns of the previous publication are swapped.            *)
SwappedPublishingPointer(r, k, previous) ==
    [state |-> "publishing", revisionId |-> r, commitToken |-> k,
     previousRevisionId |-> previous.commitToken,
     previousCommitToken |-> previous.revisionId]

PublishingPointer(r, k, previous) ==
    [state |-> "publishing", revisionId |-> r, commitToken |-> k,
     previousRevisionId |-> previous.revisionId,
     previousCommitToken |-> previous.commitToken]

StoredProjectPointer ==
    [state : {"none", "stable", "publishing"},
     revisionId : RevisionIds \cup {Null}, commitToken : Tokens \cup {Null},
     previousRevisionId : RevisionIds \cup {Null},
     previousCommitToken : Tokens \cup {Null}]

PreparedStatus == {"none", "prepared", "committed", "failed", "discarded"}

NoPrepared == [status |-> "none", revisionId |-> Null, content |-> Null]

PreparedState == [status : PreparedStatus, revisionId : RevisionIds \cup {Null},
                  content : Contents \cup {Null}]

(* The revisions garbage collection keeps, and a reader may ask for.       *)
Retained(p) == {p.revisionId, p.previousRevisionId} \ {Null}

-----------------------------------------------------------------------------
RepositoryInit ==
    /\ pointer = NoPointer
    /\ projectRevisions = [r \in RevisionIds |-> Null]
    /\ projectCommitTokens = {}
    /\ prepared = [c \in Clients |-> NoPrepared]
    /\ finalized = {}
    /\ compensated = {}

SetStatus(c, s) == prepared' = [prepared EXCEPT ![c].status = s]

(* prepareRevision: a local handle, no database access.                    *)
PrepareRevision(c, r, x) ==
    /\ prepared' = [prepared EXCEPT
           ![c] = [status |-> "prepared", revisionId |-> r, content |-> x]]
    /\ UNCHANGED <<pointer, projectRevisions, projectCommitTokens, finalized,
                   compensated>>

(* discardPreparedRevision throws unless the handle is still 'prepared'.   *)
CanDiscard(c) == prepared[c].status = "prepared"

DiscardPreparedRevision(c) ==
    /\ CanDiscard(c)
    /\ SetStatus(c, "discarded")
    /\ UNCHANGED <<pointer, projectRevisions, projectCommitTokens, finalized,
                   compensated>>

(* Mutant: a kept row is overwritten by other content under the same id.   *)
CommitAllowedOverwriting(c, expected, k) ==
    /\ k \notin projectCommitTokens
    /\ pointer.state # "publishing"
    /\ pointer.revisionId = expected

(* The checks of commitPreparedRevision, all inside its transaction: the   *)
(* token is new, no publication is in progress, the caller's expected      *)
(* revision is the active one, and a row kept under the same id has the    *)
(* same content.                                                           *)
CommitAllowed(c, expected, k) ==
    /\ k \notin projectCommitTokens
    /\ k # pointer.commitToken
    /\ k # pointer.previousCommitToken
    /\ pointer.state # "publishing"
    /\ pointer.revisionId = expected
    /\ projectRevisions[prepared[c].revisionId] \in {Null, prepared[c].content}

CommitEffect(c, k) ==
    /\ projectCommitTokens' = projectCommitTokens \cup {k}
    /\ projectRevisions' =
           [projectRevisions EXCEPT ![prepared[c].revisionId] = prepared[c].content]
    /\ pointer' = PublishingPointer(prepared[c].revisionId, k, pointer)
    /\ UNCHANGED <<finalized, compensated>>

CommitPreparedRevision(c, expected, k) ==
    /\ prepared[c].status = "prepared"
    /\ CommitAllowed(c, expected, k)
    /\ CommitEffect(c, k)
    /\ SetStatus(c, "committed")

(* The transaction commits but the promise rejects: the catch block marks  *)
(* the handle failed although the pointer moved.                           *)
CommitResponseLost(c, expected, k) ==
    /\ prepared[c].status = "prepared"
    /\ CommitAllowed(c, expected, k)
    /\ CommitEffect(c, k)
    /\ SetStatus(c, "failed")

(* A check fails or the transaction aborts.                                *)
CommitRejected(c) ==
    /\ prepared[c].status = "prepared"
    /\ SetStatus(c, "failed")
    /\ UNCHANGED <<pointer, projectRevisions, projectCommitTokens, finalized,
                   compensated>>

(* finalizePublication: idempotent for the token that is already stable.   *)
FinalizeAllowed(k) == pointer.state # "none" /\ pointer.commitToken = k

FinalizePublication(k) ==
    /\ FinalizeAllowed(k)
    /\ pointer' = StablePointer(pointer.revisionId, k)
    /\ finalized' = finalized \cup {k}
    /\ UNCHANGED <<projectRevisions, projectCommitTokens, prepared, compensated>>

(* Mutant: any pointer of this token is compensated.                       *)
CompensateAllowedStable(k) == pointer.state # "none" /\ pointer.commitToken = k

(* compensatePublication: only the publishing pointer of this token, and   *)
(* only while the row it returns to is stored.                             *)
CompensateAllowed(k) ==
    /\ pointer.state = "publishing"
    /\ pointer.commitToken = k
    /\ pointer.previousRevisionId # Null
           => projectRevisions[pointer.previousRevisionId] # Null

CompensatePublication(k) ==
    /\ CompensateAllowed(k)
    /\ pointer' = IF pointer.previousRevisionId = Null THEN NoPointer
                  ELSE StablePointer(pointer.previousRevisionId,
                                     pointer.previousCommitToken)
    /\ compensated' = compensated \cup {k}
    /\ UNCHANGED <<projectRevisions, projectCommitTokens, prepared, finalized>>

(* Mutant: only the active row is kept.                                    *)
GarbageCollectActiveOnly ==
    /\ pointer.state # "none"
    /\ projectRevisions' = [r \in RevisionIds |->
           IF r = pointer.revisionId THEN projectRevisions[r] ELSE Null]
    /\ UNCHANGED <<pointer, projectCommitTokens, prepared, finalized, compensated>>

(* garbageCollect fails without a pointer or when a retained row is gone.  *)
GarbageCollect ==
    /\ pointer.state # "none"
    /\ \A r \in Retained(pointer) : projectRevisions[r] # Null
    /\ projectRevisions' = [r \in RevisionIds |->
           IF r \in Retained(pointer) THEN projectRevisions[r] ELSE Null]
    /\ UNCHANGED <<pointer, projectCommitTokens, prepared, finalized, compensated>>

RepositoryNext ==
    \/ \E c \in Clients :
          \/ \E r \in RevisionIds, x \in Contents : PrepareRevision(c, r, x)
          \/ DiscardPreparedRevision(c)
          \/ \E e \in RevisionIds \cup {Null}, k \in Tokens :
                CommitPreparedRevision(c, e, k) \/ CommitResponseLost(c, e, k)
          \/ CommitRejected(c)
    \/ \E k \in Tokens : FinalizePublication(k) \/ CompensatePublication(k)
    \/ GarbageCollect

RepositorySpec == RepositoryInit /\ [][RepositoryNext]_repositoryVars
-----------------------------------------------------------------------------
(* Type invariant of the rows, the handles and the histories.              *)
RepositoryTypeOK ==
    /\ pointer \in StoredProjectPointer
    /\ projectRevisions \in [RevisionIds -> Contents \cup {Null}]
    /\ projectCommitTokens \subseteq Tokens
    /\ prepared \in [Clients -> PreparedState]
    /\ finalized \subseteq Tokens
    /\ compensated \subseteq Tokens

(* The revision the pointer names, and the one a compensation would return *)
(* to, are stored: neither garbage collection by another tab nor a         *)
(* compensation leaves the pointer on a missing row, for which readActive  *)
(* and hydration fail (project-v5-repository.ts:330-361).                  *)
RetainedStored == \A r \in Retained(pointer) : projectRevisions[r] # Null

(* A publication is decided once: a token that was ever stable is never    *)
(* compensated, whichever tabs roll it forward and back, lose responses,   *)
(* or finalize it a second time (project-v5-repository.ts:284-323).        *)
FinalizedNeverCompensated == finalized \cap compensated = {}

(* A reader of the pointer sees the register of DurablePublication: the    *)
(* stable row, or while publishing the row a compensation returns to, with *)
(* its content; the publishing row is the undecided candidate.             *)
PublicationOf(r, k) == [revisionId |-> r, content |-> projectRevisions[r], token |-> k]

StablePublication ==
    IF pointer.state = "stable"
    THEN PublicationOf(pointer.revisionId, pointer.commitToken)
    ELSE IF pointer.previousRevisionId # Null
         THEN PublicationOf(pointer.previousRevisionId, pointer.previousCommitToken)
         ELSE Null

CandidatePublication ==
    IF pointer.state = "publishing"
    THEN PublicationOf(pointer.revisionId, pointer.commitToken)
    ELSE Null

Register == INSTANCE DurablePublication
                WITH stable <- StablePublication,
                     candidate <- CandidatePublication,
                     usedTokens <- projectCommitTokens

(* The repository implements the register: an announced publication is     *)
(* decided once, tokens are never reused, and the stable content never     *)
(* changes except by a decision.                                           *)
ImplementsRegister == Register!RegisterSpec
-----------------------------------------------------------------------------
(* The inductive strengthening behind the three invariants and the         *)
(* refinement.                                                             *)

(* The shapes validatePointer accepts.                                     *)
PointerShape ==
    /\ pointer.state = "none" => pointer = NoPointer
    /\ pointer.state # "none" =>
           pointer.revisionId \in RevisionIds /\ pointer.commitToken \in Tokens
    /\ pointer.state = "stable" =>
           pointer = StablePointer(pointer.revisionId, pointer.commitToken)
    /\ (pointer.previousRevisionId = Null) = (pointer.previousCommitToken = Null)

HandleShape ==
    \A c \in Clients : prepared[c].status = "prepared" =>
        prepared[c].revisionId \in RevisionIds /\ prepared[c].content \in Contents

(* A stable token was finalized, a publishing token is undecided and the   *)
(* one it would return to was finalized; only ledger tokens are decided.   *)
TokensDecided ==
    /\ pointer.state = "stable" => pointer.commitToken \in finalized
    /\ pointer.state = "publishing" =>
           pointer.commitToken \in projectCommitTokens \ (finalized \cup compensated)
    /\ pointer.previousCommitToken \in finalized \cup {Null}
    /\ finalized \cup compensated \subseteq projectCommitTokens
    /\ FinalizedNeverCompensated

RepositoryInv == /\ RepositoryTypeOK
                 /\ PointerShape
                 /\ HandleShape
                 /\ RetainedStored
                 /\ TokensDecided
=============================================================================
