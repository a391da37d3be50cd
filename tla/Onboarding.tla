------------------------------ MODULE Onboarding ------------------------------
(***************************************************************************)
(* How one importer gets its kyc_status: the review of its documents and   *)
(* the override (apps/api/src/routes/kyc.ts), and the approval chain of    *)
(* several surety admins (apps/api/src/routes/importers.ts).  No handler   *)
(* uses a transaction: requests are interleaved at every await.            *)
(***************************************************************************)
EXTENDS Integers

CONSTANTS
  Officers,     \* surety admins
  Desks,        \* requests that may be in progress at once
  Documents,    \* ids of kyc_documents
  Reviews,      \* ids of approval_chain_instances
  MAX_STEPS,    \* steps of a chain: 10
  MAX_BREAKS    \* bound of the model: overrides, errors and crashes

ASSUME OnboardingAssumption == MAX_STEPS \in Nat \ {0} /\ MAX_BREAKS \in Nat

VARIABLES
  kyc_status,
  kyc_documents,             \* table: review_status, or none
  approval_chains,           \* table: the versions, each by its number of steps
  approval_chain_instances,  \* table
  approval_chain_decisions,  \* table: the decision of each step
  desk,                      \* what each request has read and has still to do
  kycFrom,                   \* history: which path kyc_status comes from
  cutShort,                  \* history: reviews whose decision broke off
  breaks                     \* bound of the model

onboardingVars == <<kyc_status, kyc_documents, approval_chains, approval_chain_instances,
                    approval_chain_decisions, desk, kycFrom, cutShort, breaks>>

-----------------------------------------------------------------------------

Verdicts == {"approved", "rejected"}

Instance == [status : {"none", "in_progress", "approved", "rejected"},
             steps : 0..MAX_STEPS, current_step : 1..MAX_STEPS]

NoDecision == [verdict |-> "none"]

Decision == [verdict : {"none"}] \cup [verdict : Verdicts, by : Officers]

NoWork == [op |-> "none"]

Work == [op : {"none", "finalise"}]
  \cup [op : {"start"}, steps : 1..MAX_STEPS]
  \cup [op : {"check", "insert", "move"}, review : Reviews, step : 1..MAX_STEPS,
        by : Officers, verdict : Verdicts]
  \cup [op : {"tally"}, alone : BOOLEAN]
  \cup [op : {"settle"}, alone : BOOLEAN, status : {"pending", "approved", "rejected"}]

InProgress(i) == approval_chain_instances[i].status = "in_progress"

NoneOpen == \A i \in Reviews : ~InProgress(i)

Decided(i, k) == approval_chain_decisions[i][k] # NoDecision

Take(c, work) == desk[c] = NoWork /\ desk' = [desk EXCEPT ![c] = work]

Leave(c) == desk' = [desk EXCEPT ![c] = NoWork]

GotoOp(c, op) == desk' = [desk EXCEPT ![c].op = op]

Break == breaks < MAX_BREAKS /\ breaks' = breaks + 1

-----------------------------------------------------------------------------
(* Documents *)

OnDocuments(c) == desk[c].op \in {"tally", "settle"}

(* POST /:id/kyc *)
Upload(d) ==
  /\ kyc_documents[d] = "none"
  /\ kyc_documents' = [kyc_documents EXCEPT ![d] = "pending"]
  /\ UNCHANGED <<kyc_status, approval_chains, approval_chain_instances,
                 approval_chain_decisions, desk, kycFrom, cutShort, breaks>>

(* POST /:id/kyc/:docId/review: the document ... *)
ReviewDocument(c, d, verdict) ==
  /\ kyc_documents[d] # "none"
  /\ desk[c] = NoWork
  /\ kyc_documents' = [kyc_documents EXCEPT ![d] = verdict]
  /\ LET others == {e \in Desks : OnDocuments(e)}
     IN desk' = [e \in Desks |->
          IF e = c THEN [op |-> "tally", alone |-> others = {}]
          ELSE IF e \in others THEN [desk[e] EXCEPT !.alone = FALSE] ELSE desk[e]]
  /\ UNCHANGED <<kyc_status, approval_chains, approval_chain_instances,
                 approval_chain_decisions, kycFrom, cutShort, breaks>>

Some(verdict) == \E d \in Documents : kyc_documents[d] = verdict

(* Mutant of TallyStatus: one approved document is enough. *)
ApprovedFirst ==
  IF Some("approved") THEN "approved" ELSE IF Some("rejected") THEN "rejected" ELSE "pending"

TallyStatus ==
  IF Some("rejected") THEN "rejected" ELSE IF Some("approved") THEN "approved" ELSE "pending"

(* ... the status all documents give ... *)
TallyDocuments(c) ==
  /\ desk[c].op = "tally"
  /\ desk' = [desk EXCEPT
       ![c] = [op |-> "settle", alone |-> @.alone, status |-> TallyStatus]]
  /\ UNCHANGED <<kyc_status, kyc_documents, approval_chains, approval_chain_instances,
                 approval_chain_decisions, kycFrom, cutShort, breaks>>

(* ... and the importer. *)
SettleKyc(c) ==
  /\ desk[c].op = "settle"
  /\ kyc_status' = desk[c].status
  /\ kycFrom' = IF desk[c].alone THEN "documents" ELSE "race"
  /\ Leave(c)
  /\ UNCHANGED <<kyc_documents, approval_chains, approval_chain_instances,
                 approval_chain_decisions, cutShort, breaks>>

(* PATCH /:id/kyc *)
OverrideKyc(status) ==
  /\ Break
  /\ kyc_status' = status /\ kycFrom' = "override"
  /\ UNCHANGED <<kyc_documents, approval_chains, approval_chain_instances,
                 approval_chain_decisions, desk, cutShort>>

-----------------------------------------------------------------------------
(* Approval chains *)

(* POST /admin/approval-chains: the next version, and the earlier ones stay. *)
CreateChain(steps) ==
  /\ steps \notin approval_chains
  /\ approval_chains' = approval_chains \cup {steps}
  /\ UNCHANGED <<kyc_status, kyc_documents, approval_chain_instances,
                 approval_chain_decisions, desk, kycFrom, cutShort, breaks>>

(* POST /admin/:id/review/start: a chain, and no review in progress *)
StartReview(c, steps) ==
  /\ steps \in approval_chains /\ NoneOpen
  /\ Take(c, [op |-> "start", steps |-> steps])
  /\ UNCHANGED <<kyc_status, kyc_documents, approval_chains, approval_chain_instances,
                 approval_chain_decisions, kycFrom, cutShort, breaks>>

(* ... uq_approval_chain_instance_open keeps out a second one. *)
InsertReview(c, i) ==
  /\ desk[c].op = "start" /\ NoneOpen
  /\ approval_chain_instances[i].status = "none"
  /\ approval_chain_instances' = [approval_chain_instances EXCEPT
       ![i] = [status |-> "in_progress", steps |-> desk[c].steps, current_step |-> 1]]
  /\ Leave(c)
  /\ UNCHANGED <<kyc_status, kyc_documents, approval_chains, approval_chain_decisions,
                 kycFrom, cutShort, breaks>>

(* POST /admin/:id/review/decision: the open review and its step ... *)
Decide(c, i, u, verdict) ==
  LET step == approval_chain_instances[i].current_step
  IN /\ InProgress(i) /\ step <= approval_chain_instances[i].steps
     /\ Take(c, [op |-> "check", review |-> i, step |-> step, by |-> u,
                 verdict |-> verdict])
     /\ UNCHANGED <<kyc_status, kyc_documents, approval_chains, approval_chain_instances,
                    approval_chain_decisions, kycFrom, cutShort, breaks>>

Approvers(i) == {u \in Officers : \E k \in 1..MAX_STEPS :
                   Decided(i, k) /\ approval_chain_decisions[i][k].by = u}

MayDecide(c) == desk[c].by \notin Approvers(desk[c].review)

(* ... an officer who has not decided another step of it ... *)
CheckApprover(c) ==
  /\ desk[c].op = "check"
  /\ IF MayDecide(c) THEN GotoOp(c, "insert") ELSE Leave(c)
  /\ UNCHANGED <<kyc_status, kyc_documents, approval_chains, approval_chain_instances,
                 approval_chain_decisions, kycFrom, cutShort, breaks>>

(* Mutant of StepIsFree: no uq_approval_chain_decision_per_step. *)
NoUniqueStep(i, k) == i \in Reviews /\ k \in 1..MAX_STEPS

StepIsFree(i, k) == ~Decided(i, k)

(* ... the decision, the first of its step ... *)
InsertDecision(c) ==
  LET w == desk[c]
  IN /\ w.op = "insert" /\ StepIsFree(w.review, w.step)
     /\ approval_chain_decisions' = [approval_chain_decisions EXCEPT
          ![w.review][w.step] = [verdict |-> w.verdict, by |-> w.by]]
     /\ GotoOp(c, "move")
     /\ UNCHANGED <<kyc_status, kyc_documents, approval_chains, approval_chain_instances,
                    kycFrom, cutShort, breaks>>

SetReview(i, status) ==
  approval_chain_instances' = [approval_chain_instances EXCEPT ![i].status = status]

(* ... and what follows from it, in statements of their own. *)
HaltReview(c) ==
  /\ desk[c].op = "move" /\ desk[c].verdict = "rejected"
  /\ SetReview(desk[c].review, "rejected")
  /\ Leave(c)
  /\ UNCHANGED <<kyc_status, kyc_documents, approval_chains, approval_chain_decisions,
                 kycFrom, cutShort, breaks>>

IsLastStep(c) == desk[c].step >= approval_chain_instances[desk[c].review].steps

AdvanceReview(c) ==
  /\ desk[c].op = "move" /\ desk[c].verdict = "approved" /\ ~IsLastStep(c)
  /\ approval_chain_instances' =
       [approval_chain_instances EXCEPT ![desk[c].review].current_step = @ + 1]
  /\ Leave(c)
  /\ UNCHANGED <<kyc_status, kyc_documents, approval_chains, approval_chain_decisions,
                 kycFrom, cutShort, breaks>>

ApproveReview(c) ==
  /\ desk[c].op = "move" /\ desk[c].verdict = "approved" /\ IsLastStep(c)
  /\ SetReview(desk[c].review, "approved")
  /\ desk' = [desk EXCEPT ![c] = [op |-> "finalise"]]
  /\ UNCHANGED <<kyc_status, kyc_documents, approval_chains, approval_chain_decisions,
                 kycFrom, cutShort, breaks>>

ApproveImporter(c) ==
  /\ desk[c].op = "finalise"
  /\ kyc_status' = "approved" /\ kycFrom' = "review"
  /\ Leave(c)
  /\ UNCHANGED <<kyc_documents, approval_chains, approval_chain_instances,
                 approval_chain_decisions, cutShort, breaks>>

(* A request that has changed nothing yet ends: a conflict, an error. *)
GiveUp(c) ==
  /\ desk[c].op \in {"start", "check", "insert"}
  /\ Leave(c)
  /\ UNCHANGED <<kyc_status, kyc_documents, approval_chains, approval_chain_instances,
                 approval_chain_decisions, kycFrom, cutShort, breaks>>

(* Postgres fails or the process dies between two statements of a request. *)
BreakDesk(c) ==
  /\ desk[c].op \in {"move", "finalise", "tally", "settle"}
  /\ Break
  /\ cutShort' = IF desk[c].op = "move" THEN cutShort \cup {desk[c].review} ELSE cutShort
  /\ kycFrom' = IF OnDocuments(c) THEN "race" ELSE kycFrom
  /\ Leave(c)
  /\ UNCHANGED <<kyc_status, kyc_documents, approval_chains, approval_chain_instances,
                 approval_chain_decisions>>

-----------------------------------------------------------------------------

OnboardingInit ==
  /\ kyc_status = "pending" /\ kycFrom = "documents"
  /\ kyc_documents = [d \in Documents |-> "none"]
  /\ approval_chains = {}
  /\ approval_chain_instances = [i \in Reviews |->
       [status |-> "none", steps |-> 0, current_step |-> 1]]
  /\ approval_chain_decisions = [i \in Reviews |-> [k \in 1..MAX_STEPS |-> NoDecision]]
  /\ desk = [c \in Desks |-> NoWork]
  /\ cutShort = {} /\ breaks = 0

DocumentStep(c) ==
  \/ TallyDocuments(c) \/ SettleKyc(c)
  \/ \E d \in Documents, verdict \in Verdicts : ReviewDocument(c, d, verdict)

ChainStep(c) ==
  \/ CheckApprover(c) \/ InsertDecision(c) \/ HaltReview(c) \/ AdvanceReview(c)
  \/ ApproveReview(c) \/ ApproveImporter(c) \/ GiveUp(c)
  \/ \E steps \in 1..MAX_STEPS : StartReview(c, steps)
  \/ \E i \in Reviews : InsertReview(c, i)
  \/ \E i \in Reviews, u \in Officers, verdict \in Verdicts : Decide(c, i, u, verdict)

OnboardingNext ==
  \/ \E c \in Desks : DocumentStep(c) \/ ChainStep(c) \/ BreakDesk(c)
  \/ \E d \in Documents : Upload(d)
  \/ \E steps \in 1..MAX_STEPS : CreateChain(steps)
  \/ \E status \in {"pending", "approved", "rejected"} : OverrideKyc(status)

OnboardingSpec == OnboardingInit /\ [][OnboardingNext]_onboardingVars

-----------------------------------------------------------------------------

OnboardingTypeOK ==
  /\ kyc_status \in {"pending", "approved", "rejected"}
  /\ kyc_documents \in [Documents -> {"none", "pending", "approved", "rejected"}]
  /\ approval_chains \subseteq 1..MAX_STEPS
  /\ approval_chain_instances \in [Reviews -> Instance]
  /\ approval_chain_decisions \in [Reviews -> [1..MAX_STEPS -> Decision]]
  /\ desk \in [Desks -> Work]
  /\ kycFrom \in {"documents", "race", "override", "review"}
  /\ cutShort \subseteq Reviews

Approved(i, k) == approval_chain_decisions[i][k].verdict = "approved"

(* A review tells the truth about its decisions, however requests interleave:  *)
(* they are those of its first steps, each by another officer, and all but the *)
(* last approve; it is approved when every step of its snapshot has approved,  *)
(* rejected when the last decision rejects, and waits for the first step       *)
(* without a decision otherwise.  Only between a decision and what follows     *)
(* from it, or when a request broke off there, does it wait for a step that    *)
(* is decided.                                                                 *)
ReviewTellsDecisions ==
  \A i \in Reviews :
    LET r == approval_chain_instances[i]
        moving == i \in cutShort \/ \E c \in Desks : desk[c].op = "move" /\ desk[c].review = i
        made == {k \in 1..MAX_STEPS : Decided(i, k)}
    IN /\ \A k, n \in made :
            k # n => approval_chain_decisions[i][k].by # approval_chain_decisions[i][n].by
       /\ \A k \in made, n \in 1..MAX_STEPS : n < k => Decided(i, n) /\ Approved(i, n)
       /\ r.status = "in_progress" =>
            /\ \A k \in 1..MAX_STEPS : k < r.current_step => Approved(i, k)
            /\ \A k \in made : k <= r.current_step
            /\ r.current_step \in made => moving
       /\ r.status = "approved" => \A k \in 1..r.steps : Approved(i, k)
       /\ r.status = "rejected" => \E k \in made : ~Approved(i, k)

(* The status that came from a document review is the one the documents give:  *)
(* rejected if one was rejected, approved if one was approved and none was     *)
(* rejected; unless two document reviews overlapped or one broke off.          *)
KycTellsDocuments ==
  kycFrom = "documents" /\ (\A c \in Desks : ~OnDocuments(c)) =>
    /\ kyc_status = "rejected" <=> Some("rejected")
    /\ kyc_status = "approved" <=> Some("approved") /\ ~Some("rejected")

=============================================================================
