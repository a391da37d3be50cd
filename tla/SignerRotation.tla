---------------------------- MODULE SignerRotation ----------------------------
(***************************************************************************)
(* Proposals to rotate the oracle signers (apps/api/src/routes/admin.ts):  *)
(* surety admins approve one, and with enough approvals it can be sent to  *)
(* the contract.  Module Governance shows that the contract as it is       *)
(* initialized accepts no rotation (SignersNeverAppointed), so a proposal  *)
(* that is sent comes back refused and stays as it was.                    *)
(***************************************************************************)
EXTENDS FiniteSets, Naturals

CONSTANTS
  Proposers,    \* surety admins
  Rotations,    \* ids of oracle_signer_rotations
  Windows,      \* requests that may be in progress at once
  THRESHOLD     \* approvals a rotation needs: 2

ASSUME SignerRotationAssumption == IsFiniteSet(Proposers) /\ THRESHOLD \in Nat

VARIABLES
  oracle_signer_rotations,  \* table: the approvals of each proposal
  window,                   \* what each request has read
  accepted,                 \* history: admins whose approval was answered with success
  overlapped                \* history: proposals that two requests approved at once

rotationVars == <<oracle_signer_rotations, window, accepted, overlapped>>

-----------------------------------------------------------------------------

Proposal == [status : {"none", "pending_signatures"}, approvals : SUBSET Proposers]

Free == [at |-> "free"]

Window == [at : {"free"}]
  \cup [at : {"approve"}, rotation : Rotations, by : Proposers, read : SUBSET Proposers]
  \cup [at : {"execute"}, rotation : Rotations]

Pending(p) == oracle_signer_rotations[p].status = "pending_signatures"

Close(c) == window' = [window EXCEPT ![c] = Free]

(* POST /oracle-signers/propose *)
Propose(p) ==
  /\ oracle_signer_rotations[p].status = "none"
  /\ oracle_signer_rotations' = [oracle_signer_rotations EXCEPT
       ![p] = [status |-> "pending_signatures", approvals |-> {}]]
  /\ UNCHANGED <<window, accepted, overlapped>>

(* POST /oracle-signers/:id/approve: the approvals are read ... *)
Approve(c, p, u) ==
  /\ window[c] = Free /\ Pending(p)
  /\ u \notin oracle_signer_rotations[p].approvals
  /\ window' = [window EXCEPT ![c] = [at |-> "approve", rotation |-> p, by |-> u,
                                      read |-> oracle_signer_rotations[p].approvals]]
  /\ overlapped' = IF \E d \in Windows : window[d].at = "approve" /\ window[d].rotation = p
                     THEN overlapped \cup {p} ELSE overlapped
  /\ UNCHANGED <<oracle_signer_rotations, accepted>>

(* Mutant of WithApproval: the approval takes the place of those before it. *)
OnlyApproval(c) == {window[c].by}

WithApproval(c) == window[c].read \cup {window[c].by}

(* ... and written back with one more, over what has come in between. *)
WriteApproval(c) ==
  LET p == window[c].rotation
  IN /\ window[c].at = "approve"
     /\ oracle_signer_rotations' =
          [oracle_signer_rotations EXCEPT ![p].approvals = WithApproval(c)]
     /\ accepted' = [accepted EXCEPT ![p] = @ \cup {window[c].by}]
     /\ Close(c)
     /\ UNCHANGED overlapped

(* POST /oracle-signers/:id/execute *)
Execute(c, p) ==
  /\ window[c] = Free /\ Pending(p)
  /\ Cardinality(oracle_signer_rotations[p].approvals) >= THRESHOLD
  /\ window' = [window EXCEPT ![c] = [at |-> "execute", rotation |-> p]]
  /\ UNCHANGED <<oracle_signer_rotations, accepted, overlapped>>

(* The contract refuses the call, or the request fails on its way. *)
Refused(c) ==
  /\ window[c] # Free
  /\ Close(c)
  /\ UNCHANGED <<oracle_signer_rotations, accepted, overlapped>>

-----------------------------------------------------------------------------

RotationInit ==
  /\ oracle_signer_rotations = [p \in Rotations |-> [status |-> "none", approvals |-> {}]]
  /\ window = [c \in Windows |-> Free]
  /\ accepted = [p \in Rotations |-> {}] /\ overlapped = {}

RotationNext ==
  \/ \E p \in Rotations : Propose(p)
  \/ \E c \in Windows :
       \/ WriteApproval(c) \/ Refused(c)
       \/ \E p \in Rotations : Execute(c, p) \/ \E u \in Proposers : Approve(c, p, u)

RotationSpec == RotationInit /\ [][RotationNext]_rotationVars

-----------------------------------------------------------------------------

RotationTypeOK ==
  /\ oracle_signer_rotations \in [Rotations -> Proposal]
  /\ window \in [Windows -> Window]
  /\ accepted \in [Rotations -> SUBSET Proposers] /\ overlapped \subseteq Rotations

(* A rotation counts the approvals that were accepted: never one that nobody   *)
(* gave, so that it is sent with that of two admins at least, and every one    *)
(* that was answered with success, unless two were given at once.              *)
ApprovalsKept ==
  /\ \A p \in Rotations :
       /\ oracle_signer_rotations[p].approvals \subseteq accepted[p]
       /\ p \notin overlapped => oracle_signer_rotations[p].approvals = accepted[p]
  /\ \A c \in Windows : window[c].at = "execute" =>
       Cardinality(accepted[window[c].rotation]) >= THRESHOLD

=============================================================================
