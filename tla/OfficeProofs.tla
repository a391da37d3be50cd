---------------------------- MODULE OfficeProofs ----------------------------
(***************************************************************************)
(* What people and callbacks do to the tables of the API: the rotation of  *)
(* signers, the onboarding drip, the signatures of bonds, the webhooks of  *)
(* an importer, the cached account, the reviews of importers and the       *)
(* compliance flags, for every value of the constants, and all of them     *)
(* side by side as module MCOffice has them.                               *)
(***************************************************************************)
EXTENDS MCOffice, FiniteSetTheorems, TLAPS

(* A request approves a proposal that is there, on approvals that were all    *)
(* accepted ...                                                               *)
ReadsAccepted ==
  \A c \in Windows : window[c].at = "approve" =>
    /\ Pending(window[c].rotation)
    /\ window[c].read \subseteq accepted[window[c].rotation]

(* ... and if no other one approves it at the same time, on all of them.      *)
ReadsLatest ==
  \A c \in Windows :
    window[c].at = "approve" /\ window[c].rotation \notin overlapped =>
      /\ window[c].read = oracle_signer_rotations[window[c].rotation].approvals
      /\ \A d \in Windows \ {c} :
           ~(window[d].at = "approve" /\ window[d].rotation = window[c].rotation)

NothingBefore ==
  \A p \in Rotations : ~Pending(p) => oracle_signer_rotations[p].approvals = {}

RotationInv ==
  RotationTypeOK /\ ReadsAccepted /\ ReadsLatest /\ NothingBefore /\ ApprovalsKept

LEMMA RotationInitially == RotationInit => RotationInv
BY DEF RotationInit, RotationInv, RotationTypeOK, ReadsAccepted, ReadsLatest,
       NothingBefore, ApprovalsKept, Proposal, Window, Free, Pending

(* What a window holds that is neither free nor sending. *)
LEMMA Approving ==
  ASSUME RotationTypeOK, NEW c \in Windows, window[c].at = "approve"
  PROVE  /\ window[c].rotation \in Rotations /\ window[c].by \in Proposers
         /\ window[c].read \in SUBSET Proposers
<1>1. window[c] \in Window
  BY DEF RotationTypeOK
<1>2. window[c] \in [at : {"approve"}, rotation : Rotations, by : Proposers,
                     read : SUBSET Proposers]
  BY <1>1 DEF Window
<1> QED
  BY <1>2

LEMMA Executing ==
  ASSUME RotationTypeOK, NEW c \in Windows, window[c].at = "execute"
  PROVE  window[c].rotation \in Rotations
<1>1. window[c] \in [at : {"execute"}, rotation : Rotations]
  BY DEF RotationTypeOK, Window
<1> QED
  BY <1>1

-----------------------------------------------------------------------------

LEMMA RotationStep ==
  ASSUME RotationInv, [RotationNext]_rotationVars
  PROVE  RotationInv'
<1> USE DEF RotationInv
<1>1. ASSUME NEW p \in Rotations, Propose(p) PROVE RotationInv'
  <2>1. /\ oracle_signer_rotations[p].approvals = {}
        /\ window' = window /\ accepted' = accepted /\ overlapped' = overlapped
        /\ \A q \in Rotations : oracle_signer_rotations'[q].approvals
                                  = oracle_signer_rotations[q].approvals
        /\ \A q \in Rotations : Pending(q) => Pending(q)'
    BY <1>1 DEF Propose, NothingBefore, Pending, RotationTypeOK, Proposal
  <2>2. RotationTypeOK'
    BY <1>1, <2>1 DEF Propose, RotationTypeOK, Proposal
  <2>3. ReadsAccepted'
    BY <2>1, Approving DEF ReadsAccepted
  <2>4. ReadsLatest'
    BY <2>1, Approving DEF ReadsLatest
  <2>5. NothingBefore'
    BY <2>1 DEF NothingBefore
  <2>6. ApprovalsKept'
    BY <2>1 DEF ApprovalsKept
  <2> QED
    BY <2>2, <2>3, <2>4, <2>5, <2>6
<1>2. ASSUME NEW c \in Windows, NEW p \in Rotations, NEW u \in Proposers, Approve(c, p, u)
      PROVE  RotationInv'
  <2>1. /\ window'[c] = [at |-> "approve", rotation |-> p, by |-> u,
                         read |-> oracle_signer_rotations[p].approvals]
        /\ \A d \in Windows \ {c} : window'[d] = window[d]
        /\ oracle_signer_rotations' = oracle_signer_rotations
        /\ accepted' = accepted /\ overlapped \subseteq overlapped'
        /\ window[c] = Free /\ Pending(p)
    BY <1>2 DEF Approve, RotationTypeOK
  <2>2. RotationTypeOK'
    <3>1. window'[c] \in Window
      BY <2>1 DEF Window, RotationTypeOK, Proposal
    <3> QED
      BY <1>2, <3>1 DEF Approve, RotationTypeOK
  <2>3. ReadsAccepted'
    BY <2>1 DEF ReadsAccepted, ApprovalsKept, Pending
  <2>4. ReadsLatest'
    <3>1. p \notin overlapped' =>
            \A d \in Windows : ~(window[d].at = "approve" /\ window[d].rotation = p)
      BY <1>2 DEF Approve
    <3>2. ASSUME NEW d \in Windows \ {c}, window'[d].at = "approve",
                 window'[d].rotation \notin overlapped'
          PROVE  /\ window'[d].read
                      = oracle_signer_rotations'[window'[d].rotation].approvals
                 /\ window[d].rotation # p
      BY <2>1, <3>1, <3>2 DEF ReadsLatest
    <3> QED
      BY <2>1, <3>1, <3>2 DEF ReadsLatest, Free
  <2>5. NothingBefore'
    BY <2>1 DEF NothingBefore, Pending
  <2>6. ApprovalsKept'
    BY <2>1 DEF ApprovalsKept
  <2> QED
    BY <2>2, <2>3, <2>4, <2>5, <2>6
<1>3. ASSUME NEW c \in Windows, WriteApproval(c) PROVE RotationInv'
  <2> DEFINE p == window[c].rotation
  <2>1. /\ p \in Rotations /\ window[c].by \in Proposers
        /\ window[c].read \in SUBSET Proposers /\ window[c].at = "approve"
    BY <1>3, Approving DEF WriteApproval
  <2>2. /\ oracle_signer_rotations'[p].approvals = window[c].read \cup {window[c].by}
        /\ accepted'[p] = accepted[p] \cup {window[c].by}
        /\ window'[c] = Free /\ overlapped' = overlapped
        /\ \A d \in Windows \ {c} : window'[d] = window[d]
        /\ \A q \in Rotations : Pending(q)' <=> Pending(q)
        /\ \A q \in Rotations \ {p} :
             /\ oracle_signer_rotations'[q] = oracle_signer_rotations[q]
             /\ accepted'[q] = accepted[q]
    BY <1>3, <2>1 DEF WriteApproval, WithApproval, Close, RotationTypeOK, Proposal, Pending
  <2>3. RotationTypeOK'
    <3>1. /\ oracle_signer_rotations' \in [Rotations -> Proposal]
          /\ accepted' \in [Rotations -> SUBSET Proposers]
      BY <1>3, <2>1 DEF WriteApproval, WithApproval, RotationTypeOK, Proposal
    <3>2. window' \in [Windows -> Window]
      BY <1>3 DEF WriteApproval, Close, RotationTypeOK, Free, Window
    <3> QED
      BY <2>2, <3>1, <3>2 DEF RotationTypeOK
  <2>4. ReadsAccepted'
    <3>1. \A q \in Rotations : accepted[q] \subseteq accepted'[q]
      BY <2>1, <2>2
    <3> QED
      BY <2>2, <3>1, Approving DEF ReadsAccepted, Free
  <2>5. ReadsLatest'
    <3>1. ASSUME NEW d \in Windows \ {c}, window[d].at = "approve",
                 window[d].rotation \notin overlapped
          PROVE  window[d].rotation \in Rotations \ {p}
      BY <2>1, <3>1, Approving DEF ReadsLatest
    <3> QED
      BY <2>2, <3>1 DEF ReadsLatest, Free
  <2>6. NothingBefore'
    BY <2>1, <2>2 DEF NothingBefore, ReadsAccepted
  <2>7. ApprovalsKept'
    <3>1. /\ oracle_signer_rotations'[p].approvals \subseteq accepted'[p]
          /\ p \notin overlapped' => oracle_signer_rotations'[p].approvals = accepted'[p]
      BY <2>1, <2>2 DEF ReadsAccepted, ReadsLatest, ApprovalsKept
    <3>2. \A q \in Rotations :
            /\ Cardinality(accepted'[q]) >= Cardinality(accepted[q])
            /\ Cardinality(accepted'[q]) \in Nat /\ Cardinality(accepted[q]) \in Nat
      <4>1. \A q \in Rotations :
              accepted[q] \subseteq accepted'[q] /\ IsFiniteSet(accepted'[q])
        BY <2>1, <2>2, <2>3, SignerRotationAssumption, FS_Subset DEF RotationTypeOK
      <4> QED
        BY <4>1, FS_Subset, FS_CardinalityType
    <3>3. ASSUME NEW d \in Windows, window'[d].at = "execute"
          PROVE  Cardinality(accepted'[window'[d].rotation]) >= THRESHOLD
      <4>1. window'[d] = window[d]
        BY <2>2, <3>3 DEF Free
      <4>2. window[d].rotation \in Rotations
        BY <3>3, <4>1, Executing
      <4>3. Cardinality(accepted[window[d].rotation]) >= THRESHOLD
        BY <3>3, <4>1 DEF ApprovalsKept
      <4> QED
        BY <3>2, <4>1, <4>2, <4>3, SignerRotationAssumption
    <3> QED
      BY <2>2, <3>1, <3>3 DEF ApprovalsKept
  <2> QED
    BY <2>3, <2>4, <2>5, <2>6, <2>7
<1>4. ASSUME NEW c \in Windows, NEW p \in Rotations, Execute(c, p) PROVE RotationInv'
  <2>1. /\ window'[c] = [at |-> "execute", rotation |-> p]
        /\ \A d \in Windows \ {c} : window'[d] = window[d]
        /\ UNCHANGED <<oracle_signer_rotations, accepted, overlapped>>
    BY <1>4 DEF Execute, RotationTypeOK
  <2>2. RotationTypeOK'
    BY <1>4 DEF Execute, RotationTypeOK, Window
  <2>3. ReadsAccepted' /\ ReadsLatest' /\ NothingBefore'
    BY <2>1 DEF ReadsAccepted, ReadsLatest, NothingBefore, Pending
  <2>4. Cardinality(accepted[p]) >= THRESHOLD
    <3>1. /\ IsFiniteSet(accepted[p])
          /\ oracle_signer_rotations[p].approvals \subseteq accepted[p]
      BY SignerRotationAssumption, FS_Subset DEF RotationTypeOK, ApprovalsKept
    <3>2. /\ Cardinality(accepted[p]) \in Nat
          /\ Cardinality(oracle_signer_rotations[p].approvals) \in Nat
          /\ Cardinality(oracle_signer_rotations[p].approvals) <= Cardinality(accepted[p])
      BY <3>1, FS_Subset, FS_CardinalityType
    <3> QED
      BY <1>4, <3>2, SignerRotationAssumption DEF Execute
  <2>5. ApprovalsKept'
    BY <2>1, <2>4 DEF ApprovalsKept
  <2> QED
    BY <2>2, <2>3, <2>5
<1>5. ASSUME NEW c \in Windows, Refused(c) PROVE RotationInv'
  <2>1. /\ window'[c] = Free /\ \A d \in Windows \ {c} : window'[d] = window[d]
        /\ UNCHANGED <<oracle_signer_rotations, accepted, overlapped>>
    BY <1>5 DEF Refused, Close, RotationTypeOK
  <2>2. RotationTypeOK'
    BY <1>5 DEF Refused, Close, RotationTypeOK, Window, Free
  <2> QED
    BY <2>1, <2>2 DEF ReadsAccepted, ReadsLatest, NothingBefore, ApprovalsKept, Pending, Free
<1>6. CASE UNCHANGED rotationVars
  BY <1>6 DEF rotationVars, RotationTypeOK, ReadsAccepted, ReadsLatest, NothingBefore,
              ApprovalsKept, Pending
<1> QED
  BY <1>1, <1>2, <1>3, <1>4, <1>5, <1>6 DEF RotationNext

LEMMA RotationInvariance == RotationSpec => []RotationInv
BY RotationInitially, RotationStep, PTL DEF RotationSpec

(* The tables and requests of the workflow stay of their types. *)
THEOREM RotationIsTyped == RotationSpec => []RotationTypeOK
BY RotationInvariance, PTL DEF RotationInv

(* With any number of admins approving at any time, a rotation counts only   *)
(* approvals that were given, all of them unless two were given at once, and *)
(* is sent to the contract with those of THRESHOLD admins.                   *)
THEOREM NoApprovalMadeUp == RotationSpec => []ApprovalsKept
BY RotationInvariance, PTL DEF RotationInv

-----------------------------------------------------------------------------

(* What a pass has read and has in hand.  It knows every step that has always *)
(* been active; a step it has in hand comes after those that are resolved.    *)
WalkerInv(w) ==
  /\ walker[w].at \in {"list", "read", "complete"} =>
       /\ DOMAIN walker[w].steps \subseteq DripSteps
       /\ DripSteps \ benched \subseteq DOMAIN walker[w].steps
  /\ walker[w].at = "complete" => \A s \in DOMAIN walker[w].steps : Resolved(s)
  /\ walker[w].at \in {"tell", "record"} =>
       /\ walker[w].step \in DripSteps
       /\ \A s \in DripSteps \ benched : s < walker[w].step => Resolved(s)
  /\ walker[w].at = "record" =>
       /\ walker[w].status \in {"sent", "skipped"}
       /\ walker[w].status = "sent" => told[walker[w].step] > 0

(* A step that no two passes had in hand is in hand of one at most, and open  *)
(* as long as it is.                                                          *)
StepInv(s) ==
  /\ s \in benched \/ onboarding_drip_steps[s].is_active
  /\ s \notin doubled =>
       /\ InHand(s) # {} => ~Resolved(s)
       /\ \A v, w \in InHand(s) : v = w

DripShape ==
  /\ onboarding_drip_steps \in [DripSteps -> DripStep]
  /\ enrollment \in Enrollment
  /\ onboarding_drip_sends \in [DripSteps -> {"none", "sent", "skipped"}]
  /\ told \in [DripSteps -> Nat]
  /\ walker = [w \in Walkers |-> walker[w]]

DripInv ==
  /\ DripShape /\ DripTellsRows
  /\ \A w \in Walkers : WalkerInv(w)
  /\ \A s \in DripSteps : StepInv(s)

LEMMA DripInitially == DripInit => DripInv
<1> SUFFICES ASSUME DripInit PROVE DripInv
  OBVIOUS
<1>1. DripShape
  BY DEF DripInit, DripShape, DripStep, Enrollment
<1>2. \A w \in Walkers : walker[w].at = "home" /\ WalkerInv(w)
  BY DEF DripInit, WalkerInv, Home
<1>3. \A s \in DripSteps : /\ InHand(s) = {} /\ ~ToldAndRecording(s) /\ ~Resolved(s)
                           /\ told[s] = 0
  BY <1>2 DEF DripInit, InHand, ToldAndRecording, Resolved
<1>4. \A s \in DripSteps : onboarding_drip_steps[s].is_active /\ StepInv(s)
  BY <1>3 DEF DripInit, StepInv
<1>5. DripTellsRows
  BY <1>3 DEF DripInit, DripTellsRows, Resolved
<1> QED
  BY <1>1, <1>2, <1>4, <1>5 DEF DripInv

(* A pass that goes elsewhere leaves the others, and the steps they have, alone. *)
LEMMA Others ==
  ASSUME DripShape, NEW w \in Walkers, NEW state, Goes(w, state)
  PROVE  /\ walker'[w] = state
         /\ \A v \in Walkers \ {w} : walker'[v] = walker[v]
         /\ walker' = [v \in Walkers |-> walker'[v]]
BY DEF Goes, DripShape

(* Routes and the clock leave passes, rows and notifications alone. *)
LEMMA DripRoutes ==
  ASSUME DripInv,
         \/ Enroll \/ UnsubscribeDrip \/ HoursPass
         \/ \E s \in DripSteps, row \in DripStep : EditStep(s, row)
  PROVE  DripInv'
<1>1. /\ walker' = walker /\ told' = told /\ doubled' = doubled
      /\ onboarding_drip_sends' = onboarding_drip_sends
      /\ benched \subseteq benched' /\ enrollment'.completed = enrollment.completed
  BY DEF Enroll, UnsubscribeDrip, HoursPass, EditStep, DripInv, DripShape, Enrollment
<1>2. DripShape'
  BY ZenonT(40), <1>1 DEF Enroll, UnsubscribeDrip, HoursPass, EditStep, DripInv, DripShape, Enrollment
<1>3. \A s \in DripSteps : s \in benched' \/ onboarding_drip_steps'[s].is_active
  BY DEF Enroll, UnsubscribeDrip, HoursPass, EditStep, DripInv, DripShape, StepInv, DripStep
<1>4. \A s \in DripSteps : /\ Resolved(s)' <=> Resolved(s)
                           /\ InHand(s)' = InHand(s)
                           /\ ToldAndRecording(s)' <=> ToldAndRecording(s)
  BY <1>1 DEF Resolved, InHand, ToldAndRecording
<1>5. \A s \in DripSteps : StepInv(s)'
  BY <1>1, <1>3, <1>4 DEF DripInv, StepInv
<1>6. \A w \in Walkers : WalkerInv(w)'
  BY <1>1, <1>4 DEF DripInv, WalkerInv, Resolved
<1>7. DripTellsRows'
  BY <1>1, <1>4 DEF DripInv, DripTellsRows
<1> QED
  BY <1>2, <1>5, <1>6, <1>7 DEF DripInv

(* What a pass reads: it has no step in hand before nor after. *)
LEMMA DripReads ==
  ASSUME DripInv, NEW w \in Walkers, NEW state,
         walker[w].at \in {"home", "list", "read"}, Goes(w, state),
         state.at \in {"home", "list", "read", "complete"},
         UNCHANGED <<onboarding_drip_steps, enrollment, onboarding_drip_sends, told, benched,
                     doubled>>,
         WalkerInv(w)'
  PROVE  DripInv'
<1>1. /\ walker'[w] = state /\ \A v \in Walkers \ {w} : walker'[v] = walker[v]
      /\ DripShape'
  BY Others DEF DripInv, DripShape
<1>2. \A s \in DripSteps : /\ Resolved(s)' <=> Resolved(s)
                           /\ InHand(s)' = InHand(s)
  BY <1>1 DEF Resolved, InHand
<1>3. \A s \in DripSteps : ToldAndRecording(s)' <=> ToldAndRecording(s)
  BY <1>1, <1>2 DEF ToldAndRecording, InHand
<1>4. \A v \in Walkers : WalkerInv(v)'
  BY <1>1 DEF DripInv, WalkerInv, Resolved
<1>5. \A s \in DripSteps : StepInv(s)'
  BY <1>2 DEF DripInv, StepInv
<1>6. DripTellsRows'
  BY <1>2, <1>3 DEF DripInv, DripTellsRows
<1> QED
  BY <1>1, <1>4, <1>5, <1>6 DEF DripInv

LEMMA DripStepTaken ==
  ASSUME DripInv, [DripNext]_dripVars
  PROVE  DripInv'
<1>1. CASE \/ Enroll \/ UnsubscribeDrip \/ HoursPass
           \/ \E s \in DripSteps, row \in DripStep : EditStep(s, row)
  BY <1>1, DripRoutes
<1>2. ASSUME NEW w \in Walkers, ReadSteps(w) PROVE DripInv'
  <2> DEFINE active == {s \in DripSteps : onboarding_drip_steps[s].is_active}
             state == [at |-> "list",
                       steps |-> [s \in active |-> onboarding_drip_steps[s].delay_hours]]
  <2>1. walker[w].at = "home" /\ Goes(w, state)
    BY <1>2 DEF ReadSteps, Home
  <2>2. walker'[w] = state
    BY <2>1, Others DEF DripInv
  <2>3. DripSteps \ benched \subseteq active
    BY DEF DripInv, StepInv
  <2>4. WalkerInv(w)'
    BY <1>2, <2>2, <2>3 DEF WalkerInv, ReadSteps
  <2> QED
    BY <1>2, <2>1, <2>4, DripReads DEF ReadSteps
<1>3. ASSUME NEW w \in Walkers, ReadEnrollments(w) PROVE DripInv'
  <2>1. PICK state \in {[at |-> "read", steps |-> walker[w].steps], Home} : Goes(w, state)
    BY <1>3 DEF ReadEnrollments
  <2>2. walker'[w] = state /\ walker[w].at = "list"
    BY <1>3, <2>1, Others DEF DripInv, ReadEnrollments
  <2>3. WalkerInv(w)'
    BY <1>3, <2>2 DEF WalkerInv, ReadEnrollments, DripInv, Home
  <2> QED
    BY <1>3, <2>1, <2>2, <2>3, DripReads DEF ReadEnrollments, Home
<1>4. ASSUME NEW w \in Walkers, ReadSends(w) PROVE DripInv'
  <2> DEFINE steps == walker[w].steps
             open == {s \in DOMAIN steps : ~Resolved(s)}
  <2>1. /\ walker[w].at = "read" /\ WalkerInv(w)
        /\ UNCHANGED <<onboarding_drip_steps, enrollment, onboarding_drip_sends, told, benched>>
    BY <1>4 DEF ReadSends, DripInv
  <2>2. CASE open = {} /\ Goes(w, [at |-> "complete", steps |-> steps]) /\ UNCHANGED doubled
    <3>1. walker'[w] = [at |-> "complete", steps |-> steps]
      BY <2>2, Others DEF DripInv
    <3>2. WalkerInv(w)'
      BY <2>1, <2>2, <3>1 DEF WalkerInv, Resolved
    <3> QED
      BY <2>1, <2>2, <3>2, DripReads
  <2>3. CASE Goes(w, Home) /\ UNCHANGED doubled
    <3>1. walker'[w] = Home
      BY <2>3, Others DEF DripInv
    <3>2. WalkerInv(w)'
      BY <3>1 DEF WalkerInv, Home
    <3> QED
      BY <2>1, <2>3, <3>2, DripReads DEF Home
  <2>4. ASSUME NEW s \in StepToTake(steps, open),
               Goes(w, [at |-> "tell", step |-> s]),
               doubled' = IF InHand(s) = {} THEN doubled ELSE doubled \cup {s}
        PROVE  DripInv'
    <3>1. /\ s \in DripSteps /\ ~Resolved(s)
          /\ \A e \in DripSteps \ benched : e < s => Resolved(e)
      <4>1. s \in open /\ \A other \in open : s <= other
        BY <2>4 DEF StepToTake
      <4>2. open \subseteq DripSteps /\ DripSteps \ benched \subseteq DOMAIN steps
        BY <2>1 DEF WalkerInv
      <4>3. \A e \in DripSteps : e < s => ~(s <= e)
        BY <4>1, <4>2, OnboardingDripAssumption DEF DripSteps
      <4> QED
        BY <4>1, <4>2, <4>3
    <3>2. /\ walker'[w] = [at |-> "tell", step |-> s]
          /\ \A v \in Walkers \ {w} : walker'[v] = walker[v]
          /\ DripShape'
      BY <2>1, <2>4, Others DEF DripInv, DripShape
    <3>3. /\ \A e \in DripSteps : Resolved(e)' <=> Resolved(e)
          /\ \A e \in DripSteps \ {s} : InHand(e)' = InHand(e)
          /\ InHand(s)' = InHand(s) \cup {w} /\ w \notin InHand(s)
      BY <2>1, <3>2 DEF Resolved, InHand
    <3>4. \A e \in DripSteps : ToldAndRecording(e)' <=> ToldAndRecording(e)
      BY <2>1, <3>2, <3>3 DEF ToldAndRecording, InHand
    <3>5. \A v \in Walkers : WalkerInv(v)'
      <4>1. WalkerInv(w)'
        BY <2>1, <3>1, <3>2 DEF WalkerInv, Resolved
      <4>2. \A v \in Walkers \ {w} : WalkerInv(v)'
        BY <2>1, <3>2 DEF DripInv, WalkerInv, Resolved
      <4> QED
        BY <4>1, <4>2
    <3>6. \A e \in DripSteps : StepInv(e)'
      <4>1. ASSUME NEW e \in DripSteps \ {s} PROVE StepInv(e)'
        <5>1. e \notin doubled' => e \notin doubled
          BY <2>4
        <5> QED
          BY <2>1, <3>3, <5>1 DEF DripInv, StepInv
      <4>2. s \notin doubled' => InHand(s) = {} /\ s \notin doubled
        BY <2>4
      <4>3. StepInv(s)'
        BY <2>1, <3>1, <3>3, <4>2 DEF DripInv, StepInv
      <4> QED
        BY <4>1, <4>3
    <3>7. DripTellsRows'
      <4>1. doubled \subseteq doubled'
        BY <2>4
      <4> QED
        BY <2>1, <3>3, <3>4, <4>1 DEF DripInv, DripTellsRows
    <3> QED
      BY <3>2, <3>5, <3>6, <3>7 DEF DripInv
  <2> QED
    BY <1>4, <2>2, <2>3, <2>4 DEF ReadSends
<1>5. ASSUME NEW w \in Walkers, CompleteDrip(w) PROVE DripInv'
  <2>1. /\ walker'[w] = Home /\ \A v \in Walkers \ {w} : walker'[v] = walker[v]
        /\ walker[w].at = "complete" /\ WalkerInv(w)
        /\ UNCHANGED <<onboarding_drip_steps, onboarding_drip_sends, told, benched, doubled>>
        /\ DripShape'
    BY <1>5, Others DEF CompleteDrip, DripInv, DripShape, Enrollment
  <2>2. \A s \in DripSteps : /\ Resolved(s)' <=> Resolved(s)
                             /\ InHand(s)' = InHand(s)
    BY <2>1 DEF Resolved, InHand, Home
  <2>3. \A s \in DripSteps : ToldAndRecording(s)' <=> ToldAndRecording(s)
    BY <2>1, <2>2 DEF ToldAndRecording, InHand
  <2>4. \A v \in Walkers : WalkerInv(v)'
    BY <2>1 DEF DripInv, WalkerInv, Resolved, Home
  <2>5. \A s \in DripSteps : StepInv(s)'
    BY <2>1, <2>2 DEF DripInv, StepInv
  <2>6. \A s \in DripSteps \ benched : Resolved(s)
    BY <2>1 DEF WalkerInv
  <2>7. DripTellsRows'
    BY <2>1, <2>2, <2>3, <2>6 DEF DripInv, DripTellsRows
  <2> QED
    BY <2>1, <2>4, <2>5, <2>7 DEF DripInv
<1>6. ASSUME NEW w \in Walkers, SkipStep(w) \/ TellStep(w) PROVE DripInv'
  <2>0. PICK s \in DripSteps : s = walker[w].step
    BY <1>6 DEF SkipStep, TellStep, DripInv, WalkerInv
  <2>1. /\ walker[w].at = "tell" /\ walker[w].step = s /\ WalkerInv(w)
        /\ UNCHANGED <<onboarding_drip_steps, enrollment, onboarding_drip_sends, benched,
                       doubled>>
    BY <1>6, <2>0 DEF SkipStep, TellStep, DripInv
  <2>2. PICK status \in {"sent", "skipped"} :
          /\ Goes(w, [at |-> "record", step |-> s, status |-> status])
          /\ told' = IF status = "sent" THEN [told EXCEPT ![s] = @ + 1] ELSE told
    BY <1>6, <2>0 DEF SkipStep, TellStep
  <2>3. /\ walker'[w] = [at |-> "record", step |-> s, status |-> status]
        /\ \A v \in Walkers \ {w} : walker'[v] = walker[v]
        /\ DripShape'
    BY <2>1, <2>2, Others DEF DripInv, DripShape
  <2>4. /\ told'[s] = IF status = "sent" THEN told[s] + 1 ELSE told[s]
        /\ \A e \in DripSteps \ {s} : told'[e] = told[e]
        /\ \A e \in DripSteps : told[e] \in Nat /\ told'[e] \in Nat /\ told'[e] >= told[e]
    BY <2>1, <2>2 DEF DripInv, DripShape
  <2>5. \A e \in DripSteps : /\ Resolved(e)' <=> Resolved(e)
                             /\ InHand(e)' = InHand(e)
    BY <2>1, <2>3 DEF Resolved, InHand
  <2>6. w \in InHand(s)
    BY <2>1 DEF InHand
  <2>7. \A e \in DripSteps \ {s} : ToldAndRecording(e)' <=> ToldAndRecording(e)
    BY <2>1, <2>3 DEF ToldAndRecording, InHand
  <2>8. \A v \in Walkers : WalkerInv(v)'
    <3>1. WalkerInv(w)'
      BY <2>1, <2>3, <2>4 DEF WalkerInv, Resolved
    <3>2. \A v \in Walkers \ {w} : WalkerInv(v)'
      BY <2>1, <2>3, <2>4 DEF DripInv, WalkerInv, Resolved
    <3> QED
      BY <3>1, <3>2
  <2>9. \A e \in DripSteps : StepInv(e)'
    BY <2>1, <2>5 DEF DripInv, StepInv
  <2>10. DripTellsRows'
    <3>1. s \notin doubled =>
            /\ ~Resolved(s) /\ InHand(s) = {w} /\ ~ToldAndRecording(s) /\ told[s] = 0
      <4>1. s \notin doubled => ~Resolved(s) /\ InHand(s) = {w}
        BY <2>1, <2>6 DEF DripInv, StepInv
      <4>2. s \notin doubled => ~ToldAndRecording(s)
        BY <2>1, <4>1 DEF ToldAndRecording
      <4> QED
        BY <2>1, <4>1, <4>2 DEF DripInv, DripTellsRows, Resolved
    <3>2. s \notin doubled => (ToldAndRecording(s)' <=> status = "sent")
      BY <2>1, <2>3, <2>5, <3>1 DEF ToldAndRecording
    <3>3. s \notin doubled =>
            told'[s] = IF onboarding_drip_sends'[s] = "sent" \/ ToldAndRecording(s)'
                       THEN 1 ELSE 0
      BY <2>1, <2>4, <3>1, <3>2 DEF Resolved
    <3>4. \A e \in DripSteps \ benched : e < s => Resolved(e)
      BY <2>1 DEF WalkerInv
    <3>5. \A e \in DripSteps : onboarding_drip_sends'[e] = "sent" => told'[e] > 0
      BY <2>1, <2>4 DEF DripInv, DripTellsRows
    <3>6. \A e \in DripSteps \ {s} : e \notin doubled' =>
            told'[e] = IF onboarding_drip_sends'[e] = "sent" \/ ToldAndRecording(e)'
                       THEN 1 ELSE 0
      BY <2>1, <2>4, <2>7 DEF DripInv, DripTellsRows
    <3>7. \A e \in DripSteps \ benched' :
            /\ enrollment'.completed => Resolved(e)'
            /\ \A later \in DripSteps :
                 later > e /\ (Resolved(later)' \/ told'[later] > 0) => Resolved(e)'
      <4>1. \A e, later \in DripSteps : later > e <=> e < later
        BY OnboardingDripAssumption DEF DripSteps
      <4> QED
        BY <2>1, <2>4, <2>5, <3>4, <4>1 DEF DripInv, DripTellsRows
    <3> QED
      BY <2>1, <3>3, <3>5, <3>6, <3>7 DEF DripTellsRows
  <2> QED
    BY <2>3, <2>8, <2>9, <2>10 DEF DripInv
<1>7. ASSUME NEW w \in Walkers, RecordSend(w) PROVE DripInv'
  <2>0. PICK s \in DripSteps : s = walker[w].step
    BY <1>7 DEF RecordSend, DripInv, WalkerInv
  <2>1. /\ walker[w].at = "record" /\ walker[w].step = s /\ WalkerInv(w)
        /\ walker[w].status \in {"sent", "skipped"}
        /\ walker'[w] = Home /\ \A v \in Walkers \ {w} : walker'[v] = walker[v]
        /\ UNCHANGED <<onboarding_drip_steps, enrollment, told, benched, doubled>>
    BY <1>7, <2>0, Others DEF RecordSend, DripInv, WalkerInv
  <2>2. /\ onboarding_drip_sends'[s]
             = IF Resolved(s) THEN onboarding_drip_sends[s] ELSE walker[w].status
        /\ \A e \in DripSteps \ {s} : onboarding_drip_sends'[e] = onboarding_drip_sends[e]
        /\ DripShape'
    <3>1. walker' = [v \in Walkers |-> walker'[v]]
      BY <1>7, Others DEF RecordSend, DripInv
    <3> QED
      BY <1>7, <2>1, <3>1 DEF RecordSend, Kept, Resolved, DripInv, DripShape
  <2>3. /\ Resolved(s)' /\ \A e \in DripSteps : Resolved(e) => Resolved(e)'
        /\ \A e \in DripSteps \ {s} : Resolved(e)' <=> Resolved(e)
    BY <2>1, <2>2 DEF Resolved
  <2>4. /\ \A e \in DripSteps \ {s} : InHand(e)' = InHand(e)
        /\ InHand(s)' = InHand(s) \ {w} /\ w \in InHand(s)
    BY <2>1 DEF InHand, Home
  <2>5. \A e \in DripSteps \ {s} : ToldAndRecording(e)' <=> ToldAndRecording(e)
    BY <2>1, <2>4 DEF ToldAndRecording, InHand
  <2>6. \A v \in Walkers : WalkerInv(v)'
    <3>1. WalkerInv(w)'
      BY <2>1 DEF WalkerInv, Home
    <3>2. ASSUME NEW v \in Walkers \ {w} PROVE WalkerInv(v)'
      <4>1. WalkerInv(v) /\ walker'[v] = walker[v]
        BY <2>1 DEF DripInv
      <4> QED
        BY <2>1, <2>3, <4>1 DEF WalkerInv
    <3> QED
      BY <3>1, <3>2
  <2>7. s \notin doubled =>
          /\ ~Resolved(s) /\ InHand(s) = {w}
          /\ ToldAndRecording(s) <=> walker[w].status = "sent"
    <3>1. s \notin doubled => ~Resolved(s) /\ InHand(s) = {w}
      BY <2>1, <2>4 DEF DripInv, StepInv
    <3> QED
      BY <2>1, <3>1 DEF ToldAndRecording
  <2>8. \A e \in DripSteps : StepInv(e)'
    <3>1. StepInv(s)'
      BY <2>1, <2>4, <2>7 DEF DripInv, StepInv
    <3>2. \A e \in DripSteps \ {s} : StepInv(e)'
      BY <2>1, <2>3, <2>4 DEF DripInv, StepInv
    <3> QED
      BY <3>1, <3>2
  <2>9. DripTellsRows'
    <3>1. onboarding_drip_sends'[s] = "sent" => told'[s] > 0
      BY <2>1, <2>2 DEF DripInv, DripTellsRows, WalkerInv
    <3>2. s \notin doubled =>
            /\ ~ToldAndRecording(s)'
            /\ told'[s] = IF onboarding_drip_sends'[s] = "sent" THEN 1 ELSE 0
      <4>1. s \notin doubled => ~ToldAndRecording(s)'
        BY <2>4, <2>7 DEF ToldAndRecording
      <4>2. s \notin doubled => told[s] = IF walker[w].status = "sent" THEN 1 ELSE 0
        BY <2>1, <2>7 DEF DripInv, DripTellsRows, Resolved
      <4> QED
        BY <2>1, <2>2, <2>7, <4>1, <4>2
    <3>3. \A e \in DripSteps \ benched : e < s => Resolved(e)
      BY <2>1 DEF WalkerInv
    <3>4. \A e, later \in DripSteps : later > e <=> e < later
      BY OnboardingDripAssumption DEF DripSteps
    <3>5. \A e \in DripSteps \ {s} :
            /\ onboarding_drip_sends'[e] = "sent" => told'[e] > 0
            /\ e \notin doubled' =>
                 told'[e] = IF onboarding_drip_sends'[e] = "sent" \/ ToldAndRecording(e)'
                            THEN 1 ELSE 0
      BY <2>1, <2>2, <2>5 DEF DripInv, DripTellsRows
    <3>6. \A e \in DripSteps \ benched' :
            /\ enrollment'.completed => Resolved(e)'
            /\ \A later \in DripSteps :
                 later > e /\ (Resolved(later)' \/ told'[later] > 0) => Resolved(e)'
      BY <2>1, <2>3, <3>3, <3>4 DEF DripInv, DripTellsRows
    <3> QED
      BY <2>1, <3>1, <3>2, <3>5, <3>6 DEF DripTellsRows
  <2> QED
    BY <2>2, <2>6, <2>8, <2>9 DEF DripInv
<1>8. ASSUME NEW w \in Walkers, WalkBreaks(w) PROVE DripInv'
  <2>1. /\ walker'[w] = Home /\ \A v \in Walkers \ {w} : walker'[v] = walker[v]
        /\ UNCHANGED <<onboarding_drip_steps, enrollment, onboarding_drip_sends, told, benched>>
        /\ doubled \subseteq doubled' /\ DripShape'
        /\ walker[w].at = "record" => walker[w].step \in doubled'
    BY <1>8, Others DEF WalkBreaks, DripInv, DripShape
  <2>2. \A s \in DripSteps : /\ Resolved(s)' <=> Resolved(s)
                             /\ InHand(s)' \subseteq InHand(s)
    BY <2>1 DEF Resolved, InHand, Home
  <2>3. \A s \in DripSteps \ doubled' : ToldAndRecording(s)' <=> ToldAndRecording(s)
    BY <2>1 DEF ToldAndRecording, InHand, Home
  <2>4. \A v \in Walkers : WalkerInv(v)'
    BY <2>1 DEF DripInv, WalkerInv, Resolved, Home
  <2>5. \A s \in DripSteps : StepInv(s)'
    BY <2>1, <2>2 DEF DripInv, StepInv
  <2>6. DripTellsRows'
    BY <2>1, <2>2, <2>3 DEF DripInv, DripTellsRows
  <2> QED
    BY <2>1, <2>4, <2>5, <2>6 DEF DripInv
<1>9. CASE UNCHANGED dripVars
  <2>1. \A s \in DripSteps : /\ Resolved(s)' <=> Resolved(s)
                             /\ InHand(s)' = InHand(s)
                             /\ ToldAndRecording(s)' <=> ToldAndRecording(s)
    BY <1>9 DEF dripVars, Resolved, InHand, ToldAndRecording
  <2>2. \A w \in Walkers : WalkerInv(w)'
    BY <1>9 DEF dripVars, DripInv, WalkerInv, Resolved
  <2>3. \A s \in DripSteps : StepInv(s)'
    BY <1>9, <2>1 DEF dripVars, DripInv, StepInv
  <2>4. DripTellsRows'
    BY <1>9, <2>1 DEF dripVars, DripInv, DripTellsRows
  <2>5. DripShape'
    BY <1>9 DEF dripVars, DripInv, DripShape
  <2> QED
    BY <2>2, <2>3, <2>4, <2>5 DEF DripInv
<1> QED
  BY <1>1, <1>2, <1>3, <1>4, <1>5, <1>6, <1>7, <1>8, <1>9 DEF DripNext, Walk

LEMMA DripInvariance == DripSpec => []DripInv
BY DripInitially, DripStepTaken, PTL DEF DripSpec

(* However passes overlap, break off and read a sequence that is being edited, *)
(* the importer was told what the rows say, in order and with nothing left     *)
(* out, but for the steps DripTellsRows names.                                 *)
THEOREM ToldInOrder == DripSpec => []DripTellsRows
BY DripInvariance, PTL DEF DripInv

-----------------------------------------------------------------------------

(* The row of an envelope has an outcome. *)
Told(e) == bond_signatures[e] \in Outcomes

(* The bond is completed, or was sent once more. *)
Settled == signature_status = "completed" \/ reopened

(* The row of an envelope that was answered for, and the bond of one that was *)
(* only ever reported completed.                                              *)
Answered(e) == Told(e) /\ (reported[e] = {"completed"} => Settled)

(* A request to send has found the bond not completed, and the row it is to  *)
(* store is not there.                                                       *)
SenderInv(c) ==
  /\ sender[c].at # "idle" => sender[c].found # "completed"
  /\ sender[c].at = "store" =>
       /\ ~HasRow(sender[c].envelope) /\ provider[sender[c].envelope] # "none"
       /\ \A d \in Senders \ {c} :
            ~(sender[d].at = "store" /\ sender[d].envelope = sender[c].envelope)

(* A call of the webhook that has gone past the row, or the bond. *)
CallInv(w) ==
  /\ webhook[w].at # "idle" => webhook[w].status \in reported[webhook[w].envelope]
  /\ webhook[w].at = "bond" => webhook[w].status = "completed"
  /\ webhook[w].at \in {"bond", "answer"} =>
       webhook[w].envelope \in unknown \/ Told(webhook[w].envelope)
  /\ webhook[w].at = "answer" /\ webhook[w].status = "completed" =>
       webhook[w].envelope \in unknown \/ Settled

EnvelopeInv(e) ==
  /\ HasRow(e) => provider[e] # "none"
  /\ Told(e) => bond_signatures[e] \in reported[e]
  /\ e \in answered => reported[e] # {}
  /\ e \in answered \ unknown => Answered(e)

BondCompleted ==
  signature_status = "completed" => \E e \in Envelopes : HasRow(e) /\ "completed" \in reported[e]

BondsInv ==
  /\ BondsTypeOK /\ BondCompleted
  /\ \A c \in Senders : SenderInv(c)
  /\ \A w \in Calls : CallInv(w)
  /\ \A e \in Envelopes : EnvelopeInv(e)

LEMMA BondsInitially == BondsInit => BondsInv
<1> SUFFICES ASSUME BondsInit PROVE BondsInv
  OBVIOUS
<1>1. BondsTypeOK
  BY DEF BondsInit, BondsTypeOK, Sender, Call, Idle
<1>2. BondCompleted /\ \A e \in Envelopes : EnvelopeInv(e)
  BY DEF BondsInit, BondCompleted, EnvelopeInv, HasRow, Told, Outcomes
<1>3. (\A c \in Senders : SenderInv(c)) /\ (\A w \in Calls : CallInv(w))
  BY DEF BondsInit, SenderInv, CallInv, Idle
<1> QED
  BY <1>1, <1>2, <1>3 DEF BondsInv

(* What a request and a call hold. *)
LEMMA SenderHolds ==
  ASSUME BondsTypeOK, NEW c \in Senders
  PROVE  /\ sender[c].at \in {"idle", "create", "store", "mark"}
         /\ sender[c].at = "idle" <=> sender[c] = Idle
         /\ sender[c].at # "idle" => sender[c].found \in {"pending", "sent", "completed"}
         /\ sender[c].at \in {"store", "mark"} => sender[c].envelope \in Envelopes
BY DEF BondsTypeOK, Sender, Idle

LEMMA CallHolds ==
  ASSUME BondsTypeOK, NEW w \in Calls
  PROVE  /\ webhook[w].at \in {"idle", "signature", "bond", "answer"}
         /\ webhook[w].at = "idle" <=> webhook[w] = Idle
         /\ webhook[w].at # "idle" =>
              webhook[w].envelope \in Envelopes /\ webhook[w].status \in Outcomes
BY DEF BondsTypeOK, Call, Idle

-----------------------------------------------------------------------------

(* The steps of a request to send leave the calls and the outcomes alone. *)
LEMMA SenderStep ==
  ASSUME BondsInv, NEW c \in Senders, NEW s \in Sender, sender' = [sender EXCEPT ![c] = s],
         UNCHANGED <<signature_status, bond_signatures, provider, webhook, answered,
                     reported, unknown, reopened>>,
         s.at # "idle" => s.found # "completed",
         s.at # "store"
  PROVE  BondsInv'
<1>1. sender'[c] = s /\ \A d \in Senders \ {c} : sender'[d] = sender[d]
  BY DEF BondsInv, BondsTypeOK
<1>2. BondsTypeOK'
  BY DEF BondsInv, BondsTypeOK
<1>3. ASSUME NEW d \in Senders PROVE SenderInv(d)'
  BY <1>1 DEF BondsInv, SenderInv, HasRow
<1>4. \A w \in Calls : CallInv(w)'
  BY DEF BondsInv, CallInv, Told, Settled
<1>5. BondCompleted' /\ \A e \in Envelopes : EnvelopeInv(e)'
  BY DEF BondsInv, BondCompleted, EnvelopeInv, HasRow, Told, Answered, Settled
<1> QED
  BY <1>2, <1>3, <1>4, <1>5 DEF BondsInv

LEMMA SendStep ==
  ASSUME BondsInv, NEW c \in Senders, BeginSending(c) \/ SendingBreaks(c) PROVE BondsInv'
<1>1. CASE BeginSending(c)
  <2>1. PICK s \in Sender : s = [at |-> "create", found |-> signature_status]
    BY DEF BondsInv, BondsTypeOK, Sender
  <2> QED
    BY <1>1, <2>1, SenderStep DEF BeginSending, MayBeSent
<1>2. CASE SendingBreaks(c)
  <2>1. PICK s \in Sender : s = Idle
    BY DEF Sender, Idle
  <2> QED
    BY <1>2, <2>1, SenderStep DEF SendingBreaks, SenderDone, Idle
<1> QED
  BY <1>1, <1>2

LEMMA CreateStep ==
  ASSUME BondsInv, NEW c \in Senders, NEW e \in Envelopes, CreateEnvelope(c, e)
  PROVE  BondsInv'
<1>1. /\ sender'[c] = [at |-> "store", found |-> sender[c].found, envelope |-> e]
      /\ \A d \in Senders \ {c} : sender'[d] = sender[d]
      /\ sender[c].at = "create" /\ provider[e] = "none"
      /\ provider'[e] = "out" /\ \A f \in Envelopes \ {e} : provider'[f] = provider[f]
      /\ UNCHANGED <<signature_status, bond_signatures, webhook, answered, reported, unknown,
                     reopened>>
  BY DEF CreateEnvelope, BondsInv, BondsTypeOK
<1>2. BondsTypeOK'
  <2>1. sender'[c] \in Sender
    BY <1>1, SenderHolds DEF BondsInv, Sender
  <2>2. sender' \in [Senders -> Sender]
    BY <1>1, <2>1 DEF CreateEnvelope, BondsInv, BondsTypeOK
  <2>3. provider' \in [Envelopes -> {"none", "out"} \cup Outcomes]
    BY DEF CreateEnvelope, BondsInv, BondsTypeOK
  <2> QED
    BY <1>1, <2>2, <2>3 DEF BondsInv, BondsTypeOK
<1>3. ~HasRow(e)
  BY <1>1 DEF BondsInv, EnvelopeInv
<1>4. ASSUME NEW d \in Senders PROVE SenderInv(d)'
  <2>1. CASE d = c
    BY <1>1, <1>3, <2>1, SenderHolds DEF BondsInv, SenderInv, HasRow
  <2>2. CASE d # c
    BY <1>1, <2>2, SenderHolds DEF BondsInv, SenderInv, HasRow
  <2> QED
    BY <2>1, <2>2
<1>5. ASSUME NEW w \in Calls PROVE CallInv(w)'
  BY <1>1 DEF BondsInv, CallInv, Told, Settled
<1>6. ASSUME NEW f \in Envelopes PROVE EnvelopeInv(f)'
  BY <1>1, <1>3 DEF BondsInv, EnvelopeInv, HasRow, Told, Answered, Settled, Outcomes
<1>7. BondCompleted'
  BY <1>1 DEF BondsInv, BondCompleted, HasRow
<1> QED
  BY <1>2, <1>4, <1>5, <1>6, <1>7 DEF BondsInv

LEMMA StoreStep == ASSUME BondsInv, NEW c \in Senders, StoreEnvelope(c) PROVE BondsInv'
<1>1. PICK e \in Envelopes : e = sender[c].envelope
  BY SenderHolds DEF StoreEnvelope, BondsInv
<1>2. /\ sender[c].at = "store" /\ sender[c].found \in {"pending", "sent", "completed"}
      /\ sender[c].found # "completed" /\ ~HasRow(e) /\ provider[e] # "none"
      /\ \A d \in Senders \ {c} : ~(sender[d].at = "store" /\ sender[d].envelope = e)
  BY <1>1, SenderHolds DEF StoreEnvelope, BondsInv, SenderInv
<1>3. /\ bond_signatures' = [bond_signatures EXCEPT ![e] = "sent"]
      /\ sender' = [sender EXCEPT ![c].at = "mark"]
      /\ UNCHANGED <<signature_status, provider, webhook, answered, reported, unknown,
                     reopened>>
  BY <1>1 DEF StoreEnvelope
<1>4. sender'[c] = [at |-> "mark", found |-> sender[c].found, envelope |-> e]
  <2>1. sender[c] \in [at : {"store", "mark"}, found : {"pending", "sent", "completed"},
                       envelope : Envelopes]
    BY <1>2 DEF BondsInv, BondsTypeOK, Sender
  <2> QED
    BY <1>1, <1>3, <2>1 DEF BondsInv, BondsTypeOK
<1>5. /\ \A d \in Senders \ {c} : sender'[d] = sender[d]
      /\ bond_signatures'[e] = "sent"
      /\ \A f \in Envelopes \ {e} : bond_signatures'[f] = bond_signatures[f]
  BY <1>3 DEF BondsInv, BondsTypeOK
<1>6. BondsTypeOK'
  <2>1. sender'[c] \in Sender
    BY <1>2, <1>4 DEF Sender
  <2>2. sender' \in [Senders -> Sender]
    BY <1>3, <2>1, <1>5 DEF BondsInv, BondsTypeOK
  <2>3. bond_signatures' \in [Envelopes -> {"none", "sent"} \cup Outcomes]
    BY <1>3 DEF BondsInv, BondsTypeOK
  <2> QED
    BY <1>3, <2>2, <2>3 DEF BondsInv, BondsTypeOK
<1>7. ASSUME NEW d \in Senders PROVE SenderInv(d)'
  <2>1. CASE d = c
    BY <1>2, <1>4, <2>1 DEF SenderInv
  <2>2. CASE d # c
    <3>1. sender[d].at = "store" => sender[d].envelope \in Envelopes \ {e}
      BY <1>2, <2>2, SenderHolds DEF BondsInv
    <3> QED
      BY <1>3, <1>4, <1>5, <2>2, <3>1 DEF BondsInv, SenderInv, HasRow
  <2> QED
    BY <2>1, <2>2
<1>8. ASSUME NEW w \in Calls PROVE CallInv(w)'
  <2>1. webhook[w].at # "idle" => webhook[w].envelope \in Envelopes
    BY CallHolds DEF BondsInv
  <2> QED
    BY <1>2, <1>3, <1>5, <2>1 DEF BondsInv, CallInv, Told, Settled, HasRow, Outcomes
<1>9. ASSUME NEW f \in Envelopes PROVE EnvelopeInv(f)'
  BY <1>2, <1>3, <1>5 DEF BondsInv, EnvelopeInv, HasRow, Told, Answered, Settled, Outcomes
<1>10. BondCompleted'
  BY <1>2, <1>3, <1>5 DEF BondsInv, BondCompleted, HasRow
<1> QED
  BY <1>6, <1>7, <1>8, <1>9, <1>10 DEF BondsInv

LEMMA MarkStep == ASSUME BondsInv, NEW c \in Senders, MarkSent(c) PROVE BondsInv'
<1>1. /\ sender' = [sender EXCEPT ![c] = Idle] /\ sender[c].at = "mark"
      /\ signature_status' = "sent"
      /\ reopened' = (reopened \/ (signature_status = "completed"
                                     /\ sender[c].found # "completed"))
      /\ UNCHANGED <<bond_signatures, provider, webhook, answered, reported, unknown>>
  BY DEF MarkSent, SenderDone
<1>2. signature_status = "completed" \/ reopened => reopened'
  BY <1>1 DEF BondsInv, SenderInv
<1>3. BondsTypeOK'
  <2>1. sender' \in [Senders -> Sender]
    BY <1>1 DEF BondsInv, BondsTypeOK, Sender, Idle
  <2>2. reopened' \in BOOLEAN
    BY <1>1
  <2> QED
    BY <1>1, <2>1, <2>2 DEF BondsInv, BondsTypeOK
<1>4. ASSUME NEW d \in Senders PROVE SenderInv(d)'
  BY <1>1 DEF BondsInv, BondsTypeOK, SenderInv, HasRow, Idle
<1>5. ASSUME NEW w \in Calls PROVE CallInv(w)'
  BY <1>1, <1>2 DEF BondsInv, CallInv, Told, Settled
<1>6. ASSUME NEW f \in Envelopes PROVE EnvelopeInv(f)'
  BY <1>1, <1>2 DEF BondsInv, EnvelopeInv, HasRow, Told, Answered, Settled
<1>7. BondCompleted'
  BY <1>1 DEF BondCompleted
<1> QED
  BY <1>3, <1>4, <1>5, <1>6, <1>7 DEF BondsInv

-----------------------------------------------------------------------------

(* What the provider comes to know changes no table. *)
LEMMA OutcomeStep ==
  ASSUME BondsInv, NEW e \in Envelopes, NEW result \in Outcomes, Outcome(e, result)
  PROVE  BondsInv'
<1>1. /\ provider[e] = "out" /\ provider'[e] = result
      /\ \A f \in Envelopes \ {e} : provider'[f] = provider[f]
      /\ UNCHANGED <<signature_status, bond_signatures, sender, webhook, answered, reported,
                     unknown, reopened>>
  BY DEF Outcome, BondsInv, BondsTypeOK
<1>2. BondsTypeOK'
  <2>1. provider' \in [Envelopes -> {"none", "out"} \cup Outcomes]
    BY DEF Outcome, BondsInv, BondsTypeOK
  <2> QED
    BY <1>1, <2>1 DEF BondsInv, BondsTypeOK
<1>3. ASSUME NEW f \in Envelopes PROVE provider[f] # "none" => provider'[f] # "none"
  BY <1>1 DEF Outcomes
<1>4. ASSUME NEW d \in Senders PROVE SenderInv(d)'
  <2>1. sender[d].at = "store" => sender[d].envelope \in Envelopes
    BY SenderHolds DEF BondsInv
  <2> QED
    BY <1>1, <1>3, <2>1 DEF BondsInv, SenderInv, HasRow
<1>5. ASSUME NEW w \in Calls PROVE CallInv(w)'
  BY <1>1 DEF BondsInv, CallInv, Told, Settled
<1>6. ASSUME NEW f \in Envelopes PROVE EnvelopeInv(f)'
  BY <1>1, <1>3 DEF BondsInv, EnvelopeInv, HasRow, Told, Answered, Settled
<1>7. BondCompleted'
  BY <1>1 DEF BondsInv, BondCompleted, HasRow
<1> QED
  BY <1>2, <1>4, <1>5, <1>6, <1>7 DEF BondsInv

(* A report: of an envelope that was answered for, there was one before. *)
LEMMA ReportStep ==
  ASSUME BondsInv, NEW w \in Calls, NEW e \in Envelopes, NEW status \in Outcomes,
         CallWebhook(w, e, status)
  PROVE  BondsInv'
<1>1. /\ webhook'[w] = [at |-> "signature", envelope |-> e, status |-> status]
      /\ \A v \in Calls \ {w} : webhook'[v] = webhook[v]
      /\ reported'[e] = reported[e] \cup {status}
      /\ \A f \in Envelopes \ {e} : reported'[f] = reported[f]
      /\ UNCHANGED <<signature_status, bond_signatures, provider, sender, answered, unknown,
                     reopened>>
  BY DEF CallWebhook, BondsInv, BondsTypeOK
<1>2. BondsTypeOK'
  <2>1. webhook' \in [Calls -> Call]
    BY DEF CallWebhook, BondsInv, BondsTypeOK, Call
  <2>2. reported' \in [Envelopes -> SUBSET Outcomes]
    BY DEF CallWebhook, BondsInv, BondsTypeOK
  <2> QED
    BY <1>1, <2>1, <2>2 DEF BondsInv, BondsTypeOK
<1>3. \A f \in Envelopes : reported[f] \subseteq reported'[f]
  BY <1>1
<1>4. ASSUME NEW d \in Senders PROVE SenderInv(d)'
  BY <1>1 DEF BondsInv, SenderInv, HasRow
<1>5. ASSUME NEW v \in Calls PROVE CallInv(v)'
  <2>1. CASE v = w
    BY <1>1, <2>1 DEF CallInv
  <2>2. CASE v # w
    <3>1. webhook[v].at # "idle" => webhook[v].envelope \in Envelopes
      BY CallHolds DEF BondsInv
    <3>2. webhook'[v] = webhook[v] /\ CallInv(v)
      BY <1>1, <2>2 DEF BondsInv
    <3> QED
      BY <1>1, <1>3, <3>1, <3>2 DEF CallInv, Told, Settled
  <2> QED
    BY <2>1, <2>2
<1>6. ASSUME NEW f \in Envelopes PROVE EnvelopeInv(f)'
  <2>1. EnvelopeInv(f) /\ reported[f] \subseteq reported'[f]
    BY <1>3 DEF BondsInv
  <2>2. reported[f] # {} /\ reported'[f] = {"completed"} => reported[f] = {"completed"}
    BY <2>1
  <2>3. /\ HasRow(f)' <=> HasRow(f)
        /\ Told(f)' <=> Told(f)
        /\ Settled' <=> Settled
        /\ provider'[f] = provider[f] /\ bond_signatures'[f] = bond_signatures[f]
        /\ answered' = answered /\ unknown' = unknown
    BY <1>1 DEF HasRow, Told, Settled
  <2>4. f \in answered \ unknown => Answered(f)'
    BY <2>1, <2>2, <2>3 DEF EnvelopeInv, Answered
  <2>5. f \in answered => reported'[f] # {}
    BY <2>1 DEF EnvelopeInv
  <2>6. Told(f) => bond_signatures[f] \in reported'[f]
    BY <2>1 DEF EnvelopeInv
  <2> QED
    BY <2>1, <2>3, <2>4, <2>5, <2>6 DEF EnvelopeInv
<1>7. BondCompleted'
  BY <1>1, <1>3 DEF BondsInv, BondCompleted, HasRow
<1> QED
  BY <1>2, <1>4, <1>5, <1>6, <1>7 DEF BondsInv

(* What a call may do: complete the bond of a row that was reported completed,   *)
(* give a row an outcome that was reported, answer for one that is told.         *)
StatusMoves ==
  \/ signature_status' = signature_status
  \/ /\ signature_status' = "completed"
     /\ \E e \in Envelopes : HasRow(e) /\ "completed" \in reported[e]

RowsMove ==
  /\ bond_signatures' \in [Envelopes -> {"none", "sent"} \cup Outcomes]
  /\ \A e \in Envelopes : bond_signatures'[e] # bond_signatures[e] =>
       HasRow(e) /\ bond_signatures'[e] \in Outcomes /\ bond_signatures'[e] \in reported[e]

AnswersMove ==
  /\ unknown \subseteq unknown' /\ unknown' \subseteq Envelopes /\ answered' \subseteq Envelopes
  /\ \A e \in answered' : e \in answered \/ reported[e] # {}
  /\ \A e \in answered' \ unknown' : e \in answered \/ Answered(e)

LEMMA NothingMoves ==
  ASSUME BondsInv
  PROVE  /\ signature_status' = signature_status => StatusMoves
         /\ bond_signatures' = bond_signatures => RowsMove
         /\ unknown' = unknown /\ answered' = answered => AnswersMove
BY DEF BondsInv, BondsTypeOK, StatusMoves, RowsMove, AnswersMove

(* The steps of a call leave the requests and the provider alone. *)
LEMMA CallStep ==
  ASSUME BondsInv, NEW w \in Calls, NEW s \in Call, webhook' = [webhook EXCEPT ![w] = s],
         UNCHANGED <<provider, sender, reported, reopened>>, CallInv(w)',
         StatusMoves, RowsMove, AnswersMove
  PROVE  BondsInv'
<1>1. /\ webhook'[w] = s /\ \A v \in Calls \ {w} : webhook'[v] = webhook[v]
      /\ \A e \in Envelopes : Told(e) => Told(e)'
      /\ Settled => Settled'
      /\ \A e \in Envelopes : HasRow(e)' <=> HasRow(e)
  <2>1. webhook'[w] = s /\ \A v \in Calls \ {w} : webhook'[v] = webhook[v]
    BY DEF BondsInv, BondsTypeOK
  <2>2. \A e \in Envelopes : Told(e) => Told(e)'
    BY DEF Told, RowsMove
  <2>3. Settled => Settled'
    BY DEF Settled, StatusMoves
  <2>4. \A e \in Envelopes : HasRow(e)' <=> HasRow(e)
    BY DEF HasRow, Outcomes, RowsMove
  <2> QED
    BY <2>1, <2>2, <2>3, <2>4
<1>2. BondsTypeOK'
  <2>1. webhook' \in [Calls -> Call]
    BY DEF BondsInv, BondsTypeOK
  <2> QED
    BY <2>1 DEF BondsInv, BondsTypeOK, StatusMoves, RowsMove, AnswersMove
<1>3. ASSUME NEW c \in Senders PROVE SenderInv(c)'
  <2>1. sender[c].at = "store" => sender[c].envelope \in Envelopes
    BY SenderHolds DEF BondsInv
  <2> QED
    BY <1>1, <2>1 DEF BondsInv, SenderInv
<1>4. ASSUME NEW v \in Calls PROVE CallInv(v)'
  <2>1. CASE v # w
    <3>1. webhook[v].at # "idle" => webhook[v].envelope \in Envelopes
      BY CallHolds DEF BondsInv
    <3>2. webhook'[v] = webhook[v] /\ CallInv(v)
      BY <1>1, <2>1 DEF BondsInv
    <3> QED
      BY <1>1, <3>1, <3>2 DEF CallInv, AnswersMove
  <2> QED
    BY <2>1
<1>5. ASSUME NEW e \in Envelopes PROVE EnvelopeInv(e)'
  <2>1. EnvelopeInv(e)
    BY DEF BondsInv
  <2>2. Answered(e) => Answered(e)'
    BY <1>1 DEF Answered
  <2>3. Told(e)' => bond_signatures'[e] \in reported'[e]
    BY <2>1 DEF EnvelopeInv, Told, RowsMove
  <2>4. e \in answered' => reported'[e] # {}
    BY <2>1 DEF EnvelopeInv, AnswersMove
  <2>5. e \in answered' \ unknown' => Answered(e)'
    BY <2>1, <2>2 DEF EnvelopeInv, AnswersMove
  <2>6. HasRow(e)' => provider'[e] # "none"
    BY <1>1, <2>1 DEF EnvelopeInv
  <2> QED
    BY <2>3, <2>4, <2>5, <2>6 DEF EnvelopeInv
<1>6. BondCompleted'
  BY <1>1 DEF BondsInv, BondCompleted, StatusMoves
<1> QED
  BY <1>2, <1>3, <1>4, <1>5, <1>6 DEF BondsInv

LEMMA WebhookStep ==
  ASSUME BondsInv, NEW w \in Calls,
         UpdateSignature(w) \/ UpdateBond(w) \/ Answer(w) \/ CallBreaks(w)
  PROVE  BondsInv'
<1>0. /\ BondsTypeOK /\ CallInv(w) /\ Idle \in Call
      /\ \A e \in Envelopes : EnvelopeInv(e)
      /\ bond_signatures \in [Envelopes -> {"none", "sent"} \cup Outcomes]
      /\ unknown \subseteq Envelopes /\ answered \subseteq Envelopes
  BY DEF BondsInv, BondsTypeOK, Call, Idle
<1>1. CASE CallBreaks(w)
  <2>1. /\ webhook' = [webhook EXCEPT ![w] = Idle]
        /\ UNCHANGED <<signature_status, bond_signatures, provider, sender, answered, reported,
                       unknown, reopened>>
    BY <1>1 DEF CallBreaks, CallDone
  <2>2. CallInv(w)'
    BY <1>0, <2>1 DEF CallInv, BondsTypeOK, Idle
  <2>3. StatusMoves /\ RowsMove /\ AnswersMove
    BY <2>1, NothingMoves
  <2> QED
    BY <1>0, <2>1, <2>2, <2>3, CallStep
<1>2. ASSUME webhook[w].at # "idle"
      PROVE  \E e \in Envelopes, status \in Outcomes :
               /\ webhook[w].envelope = e /\ webhook[w].status = status /\ status \in reported[e]
               /\ \A at \in {"bond", "answer"} :
                    [webhook[w] EXCEPT !.at = at] = [at |-> at, envelope |-> e, status |-> status]
  <2>1. webhook[w] \in [at : {"signature", "bond", "answer"}, envelope : Envelopes,
                        status : Outcomes]
    BY <1>0, <1>2 DEF BondsTypeOK, Call
  <2>2. webhook[w].status \in reported[webhook[w].envelope]
    BY <1>0, <1>2 DEF CallInv
  <2> QED
    BY <2>1, <2>2
<1>3. CASE UpdateSignature(w)
  <2>1. PICK e \in Envelopes, status \in Outcomes :
          /\ webhook[w].envelope = e /\ webhook[w].status = status /\ status \in reported[e]
          /\ \A at \in {"bond", "answer"} :
               [webhook[w] EXCEPT !.at = at] = [at |-> at, envelope |-> e, status |-> status]
    BY <1>2, <1>3 DEF UpdateSignature
  <2>2. PICK at \in {"bond", "answer"} :
          at = AfterSignature(status) /\ (at = "bond" <=> status = "completed")
    BY DEF AfterSignature
  <2>3. PICK s \in Call : s = [at |-> at, envelope |-> e, status |-> status]
    BY DEF Call
  <2>4. webhook' = [webhook EXCEPT ![w] = s]
    <3>1. webhook' = [webhook EXCEPT ![w] = [webhook[w] EXCEPT !.at = at]]
      BY <1>3, <2>1, <2>2 DEF UpdateSignature
    <3> QED
      BY <2>1, <2>3, <3>1
  <2>5. UNCHANGED <<signature_status, provider, sender, answered, reported, reopened>>
    BY <1>3 DEF UpdateSignature
  <2>6. CASE HasRow(e)
    <3>1. bond_signatures' = [bond_signatures EXCEPT ![e] = status] /\ unknown' = unknown
      BY <1>3, <2>1, <2>6 DEF UpdateSignature
    <3>2. /\ bond_signatures'[e] = status
          /\ \A f \in Envelopes \ {e} : bond_signatures'[f] = bond_signatures[f]
      BY <1>0, <3>1
    <3>3. bond_signatures' \in [Envelopes -> {"none", "sent"} \cup Outcomes]
      BY <1>0, <3>1
    <3>4. webhook'[w] = s
      BY <1>0, <2>4 DEF BondsTypeOK
    <3>5. CallInv(w)'
      BY <2>1, <2>2, <2>3, <2>5, <3>2, <3>4 DEF CallInv, Told
    <3>6. RowsMove
      BY <2>1, <2>6, <3>2, <3>3 DEF RowsMove
    <3>7. StatusMoves /\ AnswersMove
      BY <2>5, <3>1, NothingMoves
    <3> QED
      BY <2>3, <2>4, <2>5, <3>5, <3>6, <3>7, CallStep
  <2>7. CASE ~HasRow(e)
    <3>1. bond_signatures' = bond_signatures /\ unknown' = unknown \cup {e}
      BY <1>3, <2>1, <2>7 DEF UpdateSignature
    <3>2. webhook'[w] = s
      BY <1>0, <2>4 DEF BondsTypeOK
    <3>3. CallInv(w)'
      BY <2>1, <2>2, <2>3, <2>5, <3>1, <3>2 DEF CallInv
    <3>4. StatusMoves /\ RowsMove
      BY <2>5, <3>1, NothingMoves
    <3>5. AnswersMove
      BY <1>0, <2>5, <3>1 DEF AnswersMove
    <3> QED
      BY <2>3, <2>4, <2>5, <3>3, <3>4, <3>5, CallStep
  <2> QED
    BY <2>6, <2>7
<1>4. CASE UpdateBond(w)
  <2>1. PICK e \in Envelopes, status \in Outcomes :
          /\ webhook[w].envelope = e /\ webhook[w].status = status /\ status \in reported[e]
          /\ [webhook[w] EXCEPT !.at = "answer"]
               = [at |-> "answer", envelope |-> e, status |-> status]
    BY <1>2, <1>4 DEF UpdateBond
  <2>2. PICK s \in Call : s = [at |-> "answer", envelope |-> e, status |-> status]
    BY DEF Call
  <2>3. webhook' = [webhook EXCEPT ![w] = s]
    <3>1. webhook' = [webhook EXCEPT ![w] = [webhook[w] EXCEPT !.at = "answer"]]
      BY <1>4 DEF UpdateBond
    <3> QED
      BY <2>1, <2>2, <3>1
  <2>4. /\ UNCHANGED <<bond_signatures, provider, sender, answered, reported, unknown, reopened>>
        /\ signature_status' = IF HasRow(e) THEN "completed" ELSE signature_status
        /\ status = "completed"
        /\ e \in unknown \/ Told(e)
    BY <1>0, <1>4, <2>1 DEF UpdateBond, CallInv
  <2>5. Told(e) => HasRow(e)
    BY DEF Told, HasRow, Outcomes
  <2>6. webhook'[w] = s
    BY <1>0, <2>3 DEF BondsTypeOK
  <2>7. CallInv(w)'
    BY <2>1, <2>2, <2>4, <2>5, <2>6 DEF CallInv, Settled, Told
  <2>8. StatusMoves
    BY <2>1, <2>4 DEF StatusMoves
  <2>9. RowsMove /\ AnswersMove
    BY <2>4, NothingMoves
  <2> QED
    BY <2>2, <2>3, <2>4, <2>7, <2>8, <2>9, CallStep
<1>5. CASE Answer(w)
  <2>1. PICK e \in Envelopes, status \in Outcomes :
          webhook[w].envelope = e /\ webhook[w].status = status /\ status \in reported[e]
    BY <1>2, <1>5 DEF Answer
  <2>2. /\ webhook' = [webhook EXCEPT ![w] = Idle] /\ answered' = answered \cup {e}
        /\ UNCHANGED <<signature_status, bond_signatures, provider, sender, reported, unknown,
                       reopened>>
        /\ e \in unknown \/ (Told(e) /\ (status = "completed" => Settled))
    BY <1>0, <1>5, <2>1 DEF Answer, CallDone, CallInv
  <2>3. CallInv(w)'
    BY <1>0, <2>2 DEF CallInv, BondsTypeOK, Idle
  <2>4. StatusMoves /\ RowsMove
    BY <2>2, NothingMoves
  <2>5. e \in unknown \/ Answered(e)
    BY <2>1, <2>2 DEF Answered
  <2>6. AnswersMove
    BY <1>0, <2>1, <2>2, <2>5 DEF AnswersMove
  <2> QED
    BY <1>0, <2>2, <2>3, <2>4, <2>6, CallStep
<1> QED
  BY <1>1, <1>3, <1>4, <1>5

-----------------------------------------------------------------------------

LEMMA BondsStep == ASSUME BondsInv, BondsNext PROVE BondsInv'
BY SendStep, CreateStep, StoreStep, MarkStep, OutcomeStep, ReportStep, WebhookStep DEF BondsNext

LEMMA BondsStutter == ASSUME BondsInv, UNCHANGED bondVars PROVE BondsInv'
BY DEF BondsInv, bondVars, BondsTypeOK, BondCompleted, SenderInv, CallInv, EnvelopeInv,
       HasRow, Told, Answered, Settled

LEMMA BondsInvariance == BondsSpec => []BondsInv
BY BondsInitially, BondsStep, BondsStutter, PTL DEF BondsSpec

LEMMA BondsInvTells == ASSUME BondsInv PROVE BondTellsReports
<1>1. ASSUME NEW e \in Envelopes
      PROVE  /\ bond_signatures[e] \in Outcomes => bond_signatures[e] \in reported[e]
             /\ e \in answered \ unknown /\ Truthful(e) =>
                  /\ bond_signatures[e] = provider[e]
                  /\ provider[e] = "completed" => signature_status = "completed" \/ reopened
  <2>1. EnvelopeInv(e)
    BY DEF BondsInv
  <2>2. bond_signatures[e] \in Outcomes => bond_signatures[e] \in reported[e]
    BY <2>1 DEF EnvelopeInv, Told
  <2>3. ASSUME e \in answered \ unknown, Truthful(e)
        PROVE  /\ bond_signatures[e] = provider[e]
               /\ provider[e] = "completed" => signature_status = "completed" \/ reopened
    <3>1. reported[e] = {provider[e]}
      BY <2>1, <2>3 DEF EnvelopeInv, Truthful
    <3>2. Answered(e)
      BY <2>1, <2>3 DEF EnvelopeInv
    <3> QED
      BY <2>2, <3>1, <3>2 DEF Answered, Told, Settled
  <2> QED
    BY <2>2, <2>3
<1> QED
  BY <1>1 DEF BondsInv, BondCompleted, BondTellsReports

(* The bond, its envelopes, the requests and the calls stay of their types,    *)
(* whoever calls the webhook and whatever is reported.                         *)
THEOREM BondsAreTyped == BondsSpec => []BondsTypeOK
BY BondsInvariance, PTL DEF BondsInv

(* For any number of envelopes and requests, and any calls, true or not,       *)
(* repeated, late or concurrent: the tables tell what was reported, and what   *)
(* the provider knows where the reports were true.                             *)
THEOREM BondsTell == BondsSpec => []BondTellsReports
BY BondsInvariance, BondsInvTells, PTL

-----------------------------------------------------------------------------

Readings == UNION {[S -> Delays] : S \in SUBSET DripSteps}

LEMMA WalkerForms ==
  /\ Home \in Walker
  /\ \A place \in {"list", "read", "complete"}, q \in Readings :
       [at |-> place, steps |-> q] \in Walker
  /\ \A s \in DripSteps : /\ [at |-> "tell", step |-> s] \in Walker
                          /\ \A status \in {"sent", "skipped"} :
                               [at |-> "record", step |-> s, status |-> status] \in Walker
  /\ \A state \in Walker :
       /\ state.at \in {"list", "read", "complete"} => state.steps \in Readings
       /\ state.at \in {"tell", "record"} => state.step \in DripSteps
       /\ state.at = "record" => state.status \in {"sent", "skipped"}
BY DEF Walker, Home, Readings

LEMMA ReadingsWithin ==
  ASSUME NEW q \in Readings PROVE DOMAIN q \subseteq DripSteps
BY DEF Readings

(* What a step leaves of the types, when a pass goes where passes may be. *)
LEMMA WalkTyped ==
  ASSUME DripTypeOK, NEW w \in Walkers, NEW state \in Walker, Goes(w, state),
         UNCHANGED <<onboarding_drip_steps, hours, benched>>,
         enrollment' \in Enrollment, doubled' \subseteq DripSteps,
         onboarding_drip_sends' \in [DripSteps -> {"none", "sent", "skipped"}],
         told' \in [DripSteps -> Nat]
  PROVE  DripTypeOK'
BY DEF DripTypeOK, Goes

LEMMA DripTyped == ASSUME DripTypeOK, [DripNext]_dripVars PROVE DripTypeOK'
<1> USE OnboardingDripAssumption
<1>0. /\ enrollment \in Enrollment /\ doubled \subseteq DripSteps
      /\ onboarding_drip_sends \in [DripSteps -> {"none", "sent", "skipped"}]
      /\ told \in [DripSteps -> Nat]
  BY DEF DripTypeOK
<1>1. CASE Enroll \/ UnsubscribeDrip
  <2>1. enrollment' \in Enrollment
    BY <1>0, <1>1 DEF Enroll, UnsubscribeDrip, Enrollment
  <2>2. UNCHANGED <<onboarding_drip_steps, hours, onboarding_drip_sends, told, walker, benched,
                    doubled, edits, slips>>
    BY <1>1 DEF Enroll, UnsubscribeDrip
  <2> QED
    BY <2>1, <2>2 DEF DripTypeOK
<1>2. CASE HoursPass
  BY <1>2 DEF HoursPass, DripTypeOK
<1>3. ASSUME NEW s \in DripSteps, NEW row \in DripStep, EditStep(s, row) PROVE DripTypeOK'
  BY <1>3 DEF EditStep, DripTypeOK
<1>4. ASSUME NEW w \in Walkers, ReadSteps(w) PROVE DripTypeOK'
  <2> DEFINE active == {s \in DripSteps : onboarding_drip_steps[s].is_active}
             q == [s \in active |-> onboarding_drip_steps[s].delay_hours]
  <2>1. q \in Readings
    <3>1. q \in [active -> Delays] /\ active \in SUBSET DripSteps
      BY DEF DripTypeOK, DripStep
    <3> QED  BY <3>1 DEF Readings
  <2>2. Goes(w, [at |-> "list", steps |-> q])
    BY <1>4 DEF ReadSteps
  <2>3. [at |-> "list", steps |-> q] \in Walker
    BY <2>1, WalkerForms
  <2> HIDE DEF q
  <2> QED  BY <1>0, <1>4, <2>2, <2>3, WalkTyped DEF ReadSteps
<1>5. ASSUME NEW w \in Walkers, ReadEnrollments(w) PROVE DripTypeOK'
  <2>1. walker[w] \in Walker /\ walker[w].at = "list"
    BY <1>5 DEF ReadEnrollments, DripTypeOK
  <2>2. PICK state \in {[at |-> "read", steps |-> walker[w].steps], Home} : Goes(w, state)
    BY <1>5 DEF ReadEnrollments
  <2>3. state \in Walker
    BY <2>1, <2>2, WalkerForms
  <2> QED  BY <1>0, <1>5, <2>2, <2>3, WalkTyped DEF ReadEnrollments
<1>6. ASSUME NEW w \in Walkers, ReadSends(w) PROVE DripTypeOK'
  <2>1. walker[w] \in Walker /\ walker[w].at = "read"
    BY <1>6 DEF ReadSends, DripTypeOK
  <2> DEFINE open == {s \in DOMAIN walker[w].steps : ~Resolved(s)}
             states == {[at |-> "complete", steps |-> walker[w].steps], Home}
                       \cup {[at |-> "tell", step |-> s] : s \in StepToTake(walker[w].steps, open)}
  <2>2. walker[w].steps \in Readings
    BY <2>1, WalkerForms
  <2>3. StepToTake(walker[w].steps, open) \subseteq DripSteps
    BY <2>2, ReadingsWithin DEF StepToTake
  <2>4. states \subseteq Walker
    BY <2>2, <2>3, WalkerForms
  <2>5. \E state \in states : Goes(w, state)
    BY <1>6 DEF ReadSends
  <2>6. doubled' \subseteq DripSteps
    <3>1. \/ doubled' = doubled
          \/ \E s \in StepToTake(walker[w].steps, open) : doubled' \subseteq doubled \cup {s}
      BY <1>6 DEF ReadSends
    <3> HIDE DEF open
    <3> QED  BY <1>0, <2>3, <3>1
  <2> HIDE DEF states
  <2> QED  BY <1>0, <1>6, <2>4, <2>5, <2>6, WalkTyped DEF ReadSends
<1>7. ASSUME NEW w \in Walkers, CompleteDrip(w) PROVE DripTypeOK'
  <2>1. enrollment' \in Enrollment
    BY <1>0, <1>7 DEF CompleteDrip, Enrollment
  <2> QED  BY <1>0, <1>7, <2>1, WalkerForms, WalkTyped DEF CompleteDrip
<1>8. ASSUME NEW w \in Walkers, SkipStep(w) PROVE DripTypeOK'
  <2>1. walker[w] \in Walker /\ walker[w].at = "tell"
    BY <1>8 DEF SkipStep, DripTypeOK
  <2>2. [at |-> "record", step |-> walker[w].step, status |-> "skipped"] \in Walker
    BY <2>1, WalkerForms
  <2> QED  BY <1>0, <1>8, <2>2, WalkTyped DEF SkipStep
<1>9. ASSUME NEW w \in Walkers, TellStep(w) PROVE DripTypeOK'
  <2>1. walker[w] \in Walker /\ walker[w].at = "tell"
    BY <1>9 DEF TellStep, DripTypeOK
  <2>2. [at |-> "record", step |-> walker[w].step, status |-> "sent"] \in Walker
    BY <2>1, WalkerForms
  <2>3. told' \in [DripSteps -> Nat]
    <3>1. told' = [told EXCEPT ![walker[w].step] = @ + 1]
      BY <1>9 DEF TellStep
    <3>2. walker[w].step \in DripSteps
      BY <2>1, WalkerForms
    <3>3. told[walker[w].step] + 1 \in Nat
      BY <1>0, <3>2
    <3> QED  BY <1>0, <3>1, <3>3
  <2> QED  BY <1>0, <1>9, <2>2, <2>3, WalkTyped DEF TellStep
<1>10. ASSUME NEW w \in Walkers, RecordSend(w) PROVE DripTypeOK'
  <2>1. walker[w] \in Walker /\ walker[w].at = "record"
    BY <1>10 DEF RecordSend, DripTypeOK
  <2>2. walker[w].status \in {"sent", "skipped"}
    BY <2>1, WalkerForms
  <2>3. onboarding_drip_sends' \in [DripSteps -> {"none", "sent", "skipped"}]
    BY <1>0, <1>10, <2>2 DEF RecordSend, Kept
  <2> QED  BY <1>0, <1>10, <2>3, WalkerForms, WalkTyped DEF RecordSend
<1>11. ASSUME NEW w \in Walkers, WalkBreaks(w) PROVE DripTypeOK'
  <2>1. doubled' \subseteq DripSteps
    <3>1. walker[w] \in Walker
      BY DEF DripTypeOK
    <3> QED  BY <1>0, <1>11, <3>1, WalkerForms DEF WalkBreaks
  <2> QED  BY <1>0, <1>11, <2>1, WalkerForms, WalkTyped DEF WalkBreaks
<1>12. CASE UNCHANGED dripVars
  BY <1>12 DEF dripVars, DripTypeOK
<1> QED
  BY <1>1, <1>2, <1>3, <1>4, <1>5, <1>6, <1>7, <1>8, <1>9, <1>10, <1>11, <1>12 DEF DripNext, Walk

LEMMA DripTypedInitially == DripInit => DripTypeOK
<1> SUFFICES ASSUME DripInit PROVE DripTypeOK
  OBVIOUS
<1>1. walker \in [Walkers -> Walker]
  BY WalkerForms DEF DripInit
<1>2. onboarding_drip_steps \in [DripSteps -> DripStep]
  <2>1. [delay_hours : Delays, is_active : {TRUE}] \subseteq DripStep
    BY DEF DripStep
  <2> QED  BY <2>1 DEF DripInit
<1>3. enrollment \in Enrollment /\ hours \in 0..MAX_HOURS
  BY OnboardingDripAssumption DEF DripInit, Enrollment
<1> QED
  BY <1>1, <1>2, <1>3 DEF DripInit, DripTypeOK

-----------------------------------------------------------------------------

Gone(h) == webhook_subscriptions[SubOf[h]] = "deleted"

(* What is known of one delivery: the attempts it has made are those up to    *)
(* hook[h].attempt, and rows end where they do ...                            *)
Underway(h) ==
  /\ HookAt(h, "none") => hook[h].attempt = 0
  /\ ~HookAt(h, "none") =>
       hook[h].attempt \in Attempts /\ webhook_subscriptions[SubOf[h]] # "none"
  /\ HookAt(h, "waiting") => hook[h].attempt < BACKOFFS
  /\ HookAt(h, "inserting") /\ hook[h].ok => hook[h].attempt \in received[h]

RowsSoFar(h) ==
  /\ \A a \in Attempts :
       /\ a > hook[h].attempt => webhook_deliveries[h][a] = "none"
       /\ hook[h].at \in {"posting", "inserting"} /\ a = hook[h].attempt =>
            webhook_deliveries[h][a] = "none"
       /\ webhook_deliveries[h][a] = "success" =>
            a \in received[h] /\ HookAt(h, "ended") /\ hook[h].attempt = a
       /\ webhook_deliveries[h][a] = "pending_retry" /\ h \notin forgotten =>
            \/ \E b \in Attempts : b = a + 1 /\ webhook_deliveries[h][b] # "none"
            \/ HookAt(h, "waiting") /\ hook[h].attempt = a
            \/ hook[h].at \in {"posting", "inserting"} /\ hook[h].attempt = a + 1
  /\ Gone(h) => \A a \in Attempts : webhook_deliveries[h][a] = "none"

(* ... and a request to a subscription that is gone was its last.             *)
LateOnce(h) ==
  /\ postedLate[h] \in {0, 1}
  /\ postedLate[h] = 1 => Gone(h) /\ hook[h].at \in {"inserting", "ended"}

HookInv(h) == Underway(h) /\ RowsSoFar(h) /\ LateOnce(h)

HooksInv == HooksTypeOK /\ \A h \in Hooks : HookInv(h)

LEMMA HooksInitially == HooksInit => HooksInv
<1> SUFFICES ASSUME HooksInit PROVE HooksInv
  OBVIOUS
<1> USE WebhooksAssumption
<1>1. HooksTypeOK
  BY DEF HooksInit, HooksTypeOK, Hook, Attempts
<1>2. ASSUME NEW h \in Hooks PROVE HookInv(h)
  BY DEF HooksInit, HookInv, Underway, RowsSoFar, LateOnce, Gone, HookAt, Attempts
<1> QED
  BY <1>1, <1>2 DEF HooksInv

(* One delivery for which a step does nothing keeps its part. *)
LEMMA HookUntouched ==
  ASSUME NEW h \in Hooks, HookInv(h), hook'[h] = hook[h],
         webhook_deliveries'[h] = webhook_deliveries[h],
         webhook_subscriptions'[SubOf[h]] = webhook_subscriptions[SubOf[h]],
         received'[h] = received[h], postedLate'[h] = postedLate[h],
         forgotten \subseteq forgotten'
  PROVE  HookInv(h)'
<1>1. Underway(h)' /\ LateOnce(h)'
  BY DEF HookInv, Underway, LateOnce, HookAt, Gone
<1>2. RowsSoFar(h)'
  BY DEF HookInv, RowsSoFar, HookAt, Gone
<1> QED
  BY <1>1, <1>2 DEF HookInv

-----------------------------------------------------------------------------

LEMMA HooksTypeStep == ASSUME HooksInv, HooksNext PROVE HooksTypeOK'
<1> USE WebhooksAssumption DEF HooksInv
<1>1. ASSUME NEW s \in Subs, Subscribe(s) PROVE HooksTypeOK'
  BY <1>1 DEF Subscribe, HooksTypeOK
<1>2. ASSUME NEW s \in Subs, Unsubscribe(s) PROVE HooksTypeOK'
  BY <1>2 DEF Unsubscribe, HooksTypeOK
<1>3. ASSUME NEW h \in Hooks, Dispatch(h) PROVE HooksTypeOK'
  BY <1>3 DEF Dispatch, HooksTypeOK, Hook
<1>4. ASSUME NEW h \in Hooks, PostHook(h) PROVE HooksTypeOK'
  <2>1. HookInv(h) /\ hook[h].attempt \in Attempts
    BY <1>4 DEF PostHook, HookAt, HookInv, Underway
  <2>2. PICK ok \in BOOLEAN, reached \in BOOLEAN :
          /\ hook' = [hook EXCEPT ![h].at = "inserting", ![h].ok = ok]
          /\ received' = IF reached THEN [received EXCEPT ![h] = @ \cup {hook[h].attempt}]
                         ELSE received
    BY <1>4 DEF PostHook
  <2>3. hook' \in [Hooks -> Hook]
    BY ZenonT(40), <2>2 DEF HooksTypeOK, Hook
  <2>4. received' \in [Hooks -> SUBSET Attempts]
    BY <2>1, <2>2 DEF HooksTypeOK
  <2>5. postedLate' \in [Hooks -> Nat]
    BY <1>4 DEF PostHook, HooksTypeOK
  <2> QED
    BY <1>4, <2>3, <2>4, <2>5 DEF PostHook, HooksTypeOK
<1>5. ASSUME NEW h \in Hooks, InsertDelivery(h) PROVE HooksTypeOK'
  <2>1. /\ RowStatus(h) \in {"success", "failed", "pending_retry"}
        /\ AfterAttempt(h) \in {"waiting", "ended"}
    BY DEF RowStatus, AfterAttempt
  <2>2. hook' \in [Hooks -> Hook]
    BY <1>5, <2>1 DEF InsertDelivery, HooksTypeOK, Hook
  <2>3. webhook_deliveries' \in
          [Hooks -> [Attempts -> {"none", "success", "failed", "pending_retry"}]]
    BY <1>5, <2>1 DEF InsertDelivery, HooksTypeOK
  <2> QED
    BY <1>5, <2>2, <2>3 DEF InsertDelivery, HooksTypeOK
<1>6. ASSUME NEW h \in Hooks, InsertRefused(h) PROVE HooksTypeOK'
  BY <1>6 DEF InsertRefused, EndHook, HooksTypeOK, Hook
<1>7. ASSUME NEW h \in Hooks, InsertBreaks(h) PROVE HooksTypeOK'
  BY <1>7 DEF InsertBreaks, EndHook, HooksTypeOK, Hook
<1>8. ASSUME NEW h \in Hooks, RetryHook(h) PROVE HooksTypeOK'
  <2>1. HookInv(h) /\ hook[h].attempt \in Attempts /\ hook[h].attempt < BACKOFFS
    BY <1>8 DEF RetryHook, HookAt, HookInv, Underway
  <2>2. hook[h].attempt + 1 \in 0..BACKOFFS
    BY <2>1 DEF Attempts
  <2> QED
    BY <1>8, <2>2 DEF RetryHook, HooksTypeOK, Hook
<1>9. CASE RestartHooks
  <2>1. hook' \in [Hooks -> Hook]
    BY ZenonT(40), <1>9 DEF RestartHooks, HooksTypeOK, Hook
  <2> QED
    BY <1>9, <2>1 DEF RestartHooks, HooksTypeOK
<1> QED
  BY <1>1, <1>2, <1>3, <1>4, <1>5, <1>6, <1>7, <1>8, <1>9 DEF HooksNext

LEMMA HooksStep == ASSUME HooksInv, HooksNext PROVE HooksInv'
<1> USE WebhooksAssumption
<1>0. HooksTypeOK /\ HooksTypeOK' /\ \A h \in Hooks : HookInv(h)
  BY HooksTypeStep DEF HooksInv
<1>1. ASSUME NEW s \in Subs, Subscribe(s) PROVE \A h \in Hooks : HookInv(h)'
  <2> TAKE h \in Hooks
  <2>1. CASE SubOf[h] # s
    BY <1>0, <1>1, <2>1, HookUntouched DEF Subscribe, HooksTypeOK
  <2>2. CASE SubOf[h] = s
    <3>1. HookAt(h, "none") /\ hook[h].attempt = 0 /\ ~Gone(h) /\ ~Gone(h)'
      BY <1>0, <1>1, <2>2 DEF Subscribe, HookInv, Underway, Gone, HooksTypeOK
    <3>2. UNCHANGED <<hook, webhook_deliveries, received, postedLate, forgotten>>
      BY <1>1 DEF Subscribe
    <3> QED
      BY <1>0, <3>1, <3>2 DEF HookInv, Underway, RowsSoFar, LateOnce, HookAt
  <2> QED
    BY <2>1, <2>2
<1>2. ASSUME NEW s \in Subs, Unsubscribe(s) PROVE \A h \in Hooks : HookInv(h)'
  <2> TAKE h \in Hooks
  <2>1. CASE SubOf[h] # s
    BY <1>0, <1>2, <2>1, HookUntouched DEF Unsubscribe, HooksTypeOK
  <2>2. CASE SubOf[h] = s
    <3>1. UNCHANGED <<hook, received, postedLate, forgotten>>
      BY <1>2 DEF Unsubscribe
    <3>2. Gone(h)' /\ \A a \in Attempts : webhook_deliveries'[h][a] = "none"
      BY <1>0, <1>2, <2>2 DEF Unsubscribe, Gone, HooksTypeOK
    <3>3. Underway(h)' /\ LateOnce(h)'
      BY <1>0, <3>1, <3>2 DEF HookInv, Underway, LateOnce, HookAt, Gone
    <3>4. RowsSoFar(h)'
      BY <3>2 DEF RowsSoFar
    <3> QED
      BY <3>3, <3>4 DEF HookInv
  <2> QED
    BY <2>1, <2>2
<1>3. ASSUME NEW g \in Hooks, Dispatch(g) PROVE \A h \in Hooks : HookInv(h)'
  <2> TAKE h \in Hooks
  <2>1. CASE h # g
    BY <1>0, <1>3, <2>1, HookUntouched DEF Dispatch, HooksTypeOK
  <2>2. CASE h = g
    <3>1. /\ hook'[h].at = "posting" /\ hook'[h].attempt = 1 /\ HookAt(h, "none")
          /\ UNCHANGED <<webhook_subscriptions, webhook_deliveries, received, postedLate,
                         forgotten>>
          /\ Subscribed(h) /\ 1 \in Attempts
      BY <1>0, <1>3, <2>2 DEF Dispatch, HooksTypeOK, Attempts
    <3>2. \A a \in Attempts : webhook_deliveries[h][a] = "none"
      BY <1>0, <3>1 DEF HookInv, Underway, RowsSoFar, Attempts
    <3>3. Underway(h)' /\ LateOnce(h)'
      BY <1>0, <3>1 DEF HookInv, Underway, LateOnce, HookAt, Gone, Subscribed
    <3>4. RowsSoFar(h)'
      BY <3>1, <3>2 DEF RowsSoFar
    <3> QED
      BY <3>3, <3>4 DEF HookInv
  <2> QED
    BY <2>1, <2>2
<1>4. ASSUME NEW g \in Hooks, PostHook(g) PROVE \A h \in Hooks : HookInv(h)'
  <2> TAKE h \in Hooks
  <2>1. CASE h # g
    BY <1>0, <1>4, <2>1, HookUntouched DEF PostHook, HooksTypeOK
  <2>2. CASE h = g
    <3>1. /\ hook'[h].at = "inserting" /\ hook'[h].attempt = hook[h].attempt
          /\ HookAt(h, "posting")
          /\ hook'[h].ok => hook[h].attempt \in received'[h]
          /\ received[h] \subseteq received'[h]
          /\ UNCHANGED <<webhook_subscriptions, webhook_deliveries, forgotten>>
      BY <1>0, <1>4, <2>2 DEF PostHook, HooksTypeOK, Hook
    <3>2. Underway(h)'
      BY <1>0, <3>1 DEF HookInv, Underway, HookAt
    <3>3. RowsSoFar(h)'
      BY <1>0, <3>1 DEF HookInv, RowsSoFar, HookAt, Gone
    <3>4. postedLate[h] = 0
      BY <1>0, <3>1 DEF HookInv, LateOnce, HookAt
    <3>5. Subscribed(h) \/ Gone(h)
      BY <1>0, <3>1 DEF HookInv, Underway, HookAt, Subscribed, Gone, HooksTypeOK
    <3>6. postedLate'[h] = IF Subscribed(h) THEN 0 ELSE 1
      BY <1>0, <1>4, <2>2, <3>4 DEF PostHook, HooksTypeOK
    <3>7. LateOnce(h)'
      BY <3>1, <3>5, <3>6 DEF LateOnce, Gone
    <3> QED
      BY <3>2, <3>3, <3>7 DEF HookInv
  <2> QED
    BY <2>1, <2>2
<1>5. ASSUME NEW g \in Hooks, InsertDelivery(g) PROVE \A h \in Hooks : HookInv(h)'
  <2> TAKE h \in Hooks
  <2>1. CASE h # g
    BY <1>0, <1>5, <2>1, HookUntouched DEF InsertDelivery, HooksTypeOK
  <2>2. CASE h = g
    <3> DEFINE n == hook[h].attempt
    <3>1. /\ hook'[h].at = AfterAttempt(h) /\ hook'[h].attempt = n /\ hook'[h].ok = hook[h].ok
          /\ HookAt(h, "inserting") /\ Subscribed(h) /\ n \in Attempts
          /\ webhook_deliveries'[h][n] = RowStatus(h)
          /\ \A a \in Attempts \ {n} : webhook_deliveries'[h][a] = webhook_deliveries[h][a]
          /\ UNCHANGED <<webhook_subscriptions, received, postedLate, forgotten>>
      BY <1>0, <1>5, <2>2 DEF InsertDelivery, HooksTypeOK, Hook, HookInv, Underway, HookAt
    <3>2. /\ AfterAttempt(h) = "waiting" \/ AfterAttempt(h) = "ended"
          /\ AfterAttempt(h) = "waiting" => n < BACKOFFS
          /\ RowStatus(h) # "none"
          /\ RowStatus(h) = "success" => hook[h].ok /\ AfterAttempt(h) = "ended"
          /\ RowStatus(h) = "pending_retry" => AfterAttempt(h) = "waiting"
      BY <3>1 DEF AfterAttempt, RowStatus, CanRetry, Attempts
    <3>3. Underway(h)'
      BY <1>0, <3>1, <3>2 DEF HookInv, Underway, HookAt
    <3>4. LateOnce(h)'
      BY <1>0, <3>1 DEF HookInv, LateOnce, Gone, Subscribed
    <3>5. ASSUME NEW a \in Attempts, a > n PROVE webhook_deliveries'[h][a] = "none"
      BY <1>0, <3>1, <3>5 DEF HookInv, RowsSoFar, Attempts
    <3>6. ASSUME NEW a \in Attempts, webhook_deliveries'[h][a] = "success"
          PROVE  a \in received'[h] /\ HookAt(h, "ended")' /\ hook'[h].attempt = a
      <4>1. webhook_deliveries[h][a] # "success"
        BY <1>0, <3>1 DEF HookInv, RowsSoFar, HookAt
      <4>2. a = n
        BY <3>1, <3>6, <4>1
      <4> QED
        BY <1>0, <3>1, <3>2, <3>6, <4>2 DEF HookInv, Underway, HookAt
    <3>7. ASSUME NEW a \in Attempts, webhook_deliveries'[h][a] = "pending_retry",
                 h \notin forgotten'
          PROVE  \/ \E b \in Attempts : b = a + 1 /\ webhook_deliveries'[h][b] # "none"
                 \/ HookAt(h, "waiting")' /\ hook'[h].attempt = a
      <4>1. CASE a = n
        BY <3>1, <3>2, <3>7, <4>1 DEF HookAt
      <4>2. CASE a # n
        <5>1. webhook_deliveries[h][a] = "pending_retry"
          BY <3>1, <3>7, <4>2
        <5>2. \/ \E b \in Attempts : b = a + 1 /\ webhook_deliveries[h][b] # "none"
              \/ n = a + 1
          BY <1>0, <3>1, <3>7, <5>1 DEF HookInv, RowsSoFar, HookAt
        <5> QED
          BY <3>1, <3>2, <5>2
      <4> QED
        BY <4>1, <4>2
    <3>8. ~Gone(h)'
      BY <3>1 DEF Gone, Subscribed
    <3>9. RowsSoFar(h)'
      BY <3>1, <3>2, <3>5, <3>6, <3>7, <3>8 DEF RowsSoFar
    <3> QED
      BY <3>3, <3>4, <3>9 DEF HookInv
  <2> QED
    BY <2>1, <2>2
<1>6. ASSUME NEW g \in Hooks, InsertRefused(g) PROVE \A h \in Hooks : HookInv(h)'
  <2> TAKE h \in Hooks
  <2>1. CASE h # g
    BY <1>0, <1>6, <2>1, HookUntouched DEF InsertRefused, EndHook, HooksTypeOK
  <2>2. CASE h = g
    <3>1. /\ hook'[h].at = "ended" /\ hook'[h].attempt = hook[h].attempt
          /\ HookAt(h, "inserting") /\ ~Subscribed(h)
          /\ UNCHANGED <<webhook_subscriptions, webhook_deliveries, received, postedLate,
                         forgotten>>
      BY <1>0, <1>6, <2>2 DEF InsertRefused, EndHook, HooksTypeOK, Hook
    <3>2. Gone(h) /\ \A a \in Attempts : webhook_deliveries[h][a] = "none"
      BY <1>0, <3>1 DEF HookInv, Underway, RowsSoFar, HookAt, Gone, Subscribed, HooksTypeOK
    <3>3. Underway(h)' /\ LateOnce(h)'
      BY <1>0, <3>1 DEF HookInv, Underway, LateOnce, HookAt, Gone
    <3>4. RowsSoFar(h)'
      BY <3>1, <3>2 DEF RowsSoFar
    <3> QED
      BY <3>3, <3>4 DEF HookInv
  <2> QED
    BY <2>1, <2>2
<1>7. ASSUME NEW g \in Hooks, InsertBreaks(g) PROVE \A h \in Hooks : HookInv(h)'
  <2> TAKE h \in Hooks
  <2>1. CASE h # g
    BY <1>0, <1>7, <2>1, HookUntouched DEF InsertBreaks, EndHook, HooksTypeOK
  <2>2. CASE h = g
    <3>1. /\ hook'[h].at = "ended" /\ hook'[h].attempt = hook[h].attempt
          /\ HookAt(h, "inserting") /\ h \in forgotten'
          /\ UNCHANGED <<webhook_subscriptions, webhook_deliveries, received, postedLate>>
      BY <1>0, <1>7, <2>2 DEF InsertBreaks, EndHook, HooksTypeOK, Hook
    <3>2. Underway(h)' /\ LateOnce(h)'
      BY <1>0, <3>1 DEF HookInv, Underway, LateOnce, HookAt, Gone
    <3>3. RowsSoFar(h)'
      BY <1>0, <3>1 DEF HookInv, RowsSoFar, HookAt, Gone
    <3> QED
      BY <3>2, <3>3 DEF HookInv
  <2> QED
    BY <2>1, <2>2
<1>8. ASSUME NEW g \in Hooks, RetryHook(g) PROVE \A h \in Hooks : HookInv(h)'
  <2> TAKE h \in Hooks
  <2>1. CASE h # g
    BY <1>0, <1>8, <2>1, HookUntouched DEF RetryHook, HooksTypeOK
  <2>2. CASE h = g
    <3> DEFINE n == hook[h].attempt
    <3>1. /\ hook'[h].at = "posting" /\ hook'[h].attempt = n + 1
          /\ HookAt(h, "waiting") /\ n \in Attempts /\ n + 1 \in Attempts
          /\ UNCHANGED <<webhook_subscriptions, webhook_deliveries, received, postedLate,
                         forgotten>>
      BY <1>0, <1>8, <2>2
         DEF RetryHook, HooksTypeOK, Hook, HookInv, Underway, HookAt, Attempts
    <3>2. Underway(h)' /\ LateOnce(h)'
      BY <1>0, <3>1 DEF HookInv, Underway, LateOnce, HookAt, Gone
    <3>3. ASSUME NEW a \in Attempts, a > n PROVE webhook_deliveries'[h][a] = "none"
      BY <1>0, <3>1, <3>3 DEF HookInv, RowsSoFar
    <3>4. ASSUME NEW a \in Attempts PROVE webhook_deliveries'[h][a] # "success"
      BY <1>0, <3>1, <3>4 DEF HookInv, RowsSoFar, HookAt
    <3>5. ASSUME NEW a \in Attempts, webhook_deliveries'[h][a] = "pending_retry",
                 h \notin forgotten'
          PROVE  \/ \E b \in Attempts : b = a + 1 /\ webhook_deliveries'[h][b] # "none"
                 \/ hook'[h].attempt = a + 1
      BY <1>0, <3>1, <3>5 DEF HookInv, RowsSoFar, HookAt
    <3>6. Gone(h)' => \A a \in Attempts : webhook_deliveries'[h][a] = "none"
      BY <1>0, <3>1 DEF HookInv, RowsSoFar, Gone
    <3>7. RowsSoFar(h)'
      BY <3>1, <3>3, <3>4, <3>5, <3>6 DEF RowsSoFar, Attempts
    <3> QED
      BY <3>2, <3>7 DEF HookInv
  <2> QED
    BY <2>1, <2>2
<1>9. ASSUME RestartHooks PROVE \A h \in Hooks : HookInv(h)'
  <2> TAKE h \in Hooks
  <2>1. CASE hook[h].at \notin {"posting", "inserting", "waiting"}
    BY <1>0, <1>9, <2>1, HookUntouched DEF RestartHooks, HooksTypeOK
  <2>2. CASE hook[h].at \in {"posting", "inserting", "waiting"}
    <3>1. /\ hook'[h].at = "ended" /\ hook'[h].attempt = hook[h].attempt
          /\ h \in forgotten'
          /\ UNCHANGED <<webhook_subscriptions, webhook_deliveries, received, postedLate>>
      BY <1>0, <1>9, <2>2 DEF RestartHooks, HooksTypeOK, Hook
    <3>2. Underway(h)' /\ LateOnce(h)'
      BY <1>0, <2>2, <3>1 DEF HookInv, Underway, LateOnce, HookAt, Gone
    <3>3. RowsSoFar(h)'
      BY <1>0, <2>2, <3>1 DEF HookInv, RowsSoFar, HookAt, Gone
    <3> QED
      BY <3>2, <3>3 DEF HookInv
  <2> QED
    BY <2>1, <2>2
<1>10. \A h \in Hooks : HookInv(h)'
  BY <1>1, <1>2, <1>3, <1>4, <1>5, <1>6, <1>7, <1>8, <1>9 DEF HooksNext
<1> QED
  BY <1>0, <1>10 DEF HooksInv

-----------------------------------------------------------------------------

LEMMA HooksStutter == ASSUME HooksInv, UNCHANGED hookVars PROVE HooksInv'
<1>1. HooksTypeOK'
  BY DEF HooksInv, hookVars, HooksTypeOK
<1>2. ASSUME NEW h \in Hooks PROVE HookInv(h)'
  BY <1>2, HookUntouched DEF HooksInv, hookVars
<1> QED
  BY <1>1, <1>2 DEF HooksInv

LEMMA HooksInvariance == HooksSpec => []HooksInv
BY HooksInitially, HooksStep, HooksStutter, PTL DEF HooksSpec

LEMMA HookInvMeans == ASSUME HooksInv PROVE LogIsTrue /\ OneLatePost
<1> USE DEF HooksInv
<1>1. LogIsTrue
  BY DEF LogIsTrue, HookInv, RowsSoFar
<1>2. OneLatePost
  BY DEF OneLatePost, HookInv, LateOnce
<1> QED
  BY <1>1, <1>2

(* The tables and timers of the webhooks stay of their types. *)
THEOREM HooksAreTyped == HooksSpec => []HooksTypeOK
BY HooksInvariance, PTL DEF HooksInv

(* For any number of subscriptions and of attempts, the log of a delivery says *)
(* success only of what was received, and promises no retry it does not make.  *)
THEOREM DeliveryLog == HooksSpec => []LogIsTrue
BY HooksInvariance, HookInvMeans, PTL

(* A subscriber that is gone hears of an event once more at most, whatever the *)
(* number of its deliveries under way.                                         *)
THEOREM LastWord == HooksSpec => []OneLatePost
BY HooksInvariance, HookInvMeans, PTL

-----------------------------------------------------------------------------

EntryOK == entry = NoEntry \/ entry \in [version : 0..onChain, ttl : 1..TTL]

(* Nothing older than what a job made is in the cache, or on its way there,   *)
(* once the job has deleted the entry.                                        *)
SettledJob(j) == txJob[j].at = "done" /\ txJob[j].method \in Invalidating /\ j \notin spoilt

NothingOlder ==
  \A j \in TxJobs : SettledJob(j) =>
    /\ Cached => entry.version >= txJob[j].version
    /\ ~Behind(txJob[j].version)

CacheInv == CacheTypeOK /\ EntryOK /\ NothingOlder

LEMMA CacheInitially == CacheInit => CacheInv
<1> SUFFICES ASSUME CacheInit PROVE CacheInv
  OBVIOUS
<1>1. (CHOOSE m \in Methods : TRUE) \in Methods
  BY AccountCacheAssumption
<1>2. CacheTypeOK /\ EntryOK
  BY <1>1 DEF CacheInit, CacheTypeOK, EntryOK, Cached, Reader, TxJob
<1>3. NothingOlder
  BY DEF CacheInit, NothingOlder, SettledJob
<1> QED
  BY <1>2, <1>3 DEF CacheInv

-----------------------------------------------------------------------------

LEMMA CacheStep == ASSUME CacheInv, CacheNext PROVE CacheInv'
<1> USE AccountCacheAssumption DEF CacheInv
<1>0. /\ \A r \in Readers : reader[r] \in Reader /\ reader[r].version \in Nat
      /\ \A j \in TxJobs : txJob[j] \in TxJob /\ txJob[j].version \in Nat
      /\ onChain \in Nat /\ TTL \in Nat /\ TTL # 0
  BY DEF CacheTypeOK, Reader, TxJob
<1>1. CASE Expire
  <2>1. entry.ttl # 0
    BY <1>1 DEF Expire
  <2>2. entry \in [version : 0..onChain, ttl : 1..TTL]
    BY <2>1 DEF EntryOK, NoEntry
  <2>3. entry' = IF entry.ttl = 1 THEN NoEntry ELSE [entry EXCEPT !.ttl = entry.ttl - 1]
    BY <1>1, <2>2 DEF Expire
  <2>4. EntryOK' /\ (Cached' => entry'.version = entry.version /\ Cached)
    <3>1. CASE entry.ttl = 1
      <4>1. entry' = NoEntry
        BY <2>3, <3>1
      <4> QED
        BY <4>1 DEF EntryOK, Cached
    <3>2. CASE entry.ttl # 1
      <4>1. entry.ttl - 1 \in 1..TTL /\ entry.version \in 0..onChain
        BY <1>0, <2>2, <3>2
      <4>2. entry' = [version |-> entry.version, ttl |-> entry.ttl - 1]
        BY <2>2, <2>3, <3>2
      <4> QED
        BY <1>1, <2>1, <4>1, <4>2 DEF EntryOK, Cached, NoEntry, Expire
    <3> QED
      BY <3>1, <3>2
  <2>5. CacheTypeOK'
    <3>1. UNCHANGED <<onChain, reader, txJob, spoilt>>
      BY <1>1 DEF Expire
    <3>2. Cached' => entry'.version \in 0..onChain' /\ entry'.ttl \in 1..TTL
      BY <2>4 DEF EntryOK, Cached
    <3> QED
      BY <3>1, <3>2 DEF CacheTypeOK
  <2>6. NothingOlder'
    BY <1>1, <2>4 DEF Expire, NothingOlder, SettledJob, Behind
  <2> QED
    BY <2>4, <2>5, <2>6
<1>2. ASSUME NEW r \in Readers, Miss(r) PROVE CacheInv'
  <2>1. /\ UNCHANGED <<onChain, entry, txJob, spoilt>>
        /\ reader' = [reader EXCEPT ![r].at = "fetch"] /\ reader[r].at = "none"
    BY <1>2 DEF Miss
  <2>2. CacheTypeOK' /\ EntryOK'
    BY <2>1 DEF CacheTypeOK, Reader, EntryOK, Cached
  <2>3. NothingOlder'
    BY <1>0, <2>1 DEF NothingOlder, SettledJob, Behind, Cached, CacheTypeOK, Reader
  <2> QED
    BY <2>2, <2>3
<1>3. ASSUME NEW r \in Readers, FetchAccount(r) PROVE CacheInv'
  <2>1. /\ UNCHANGED <<onChain, entry, txJob, spoilt>>
        /\ reader' = [reader EXCEPT ![r] = [at |-> "set", version |-> onChain]]
    BY <1>3 DEF FetchAccount
  <2>2. CacheTypeOK' /\ EntryOK'
    BY <1>0, <2>1 DEF CacheTypeOK, Reader, EntryOK, Cached
  <2>3. ASSUME NEW j \in TxJobs, SettledJob(j) PROVE ~Behind(txJob[j].version)'
    BY <1>0, <2>1, <2>3 DEF NothingOlder, Behind, CacheTypeOK
  <2>4. NothingOlder'
    BY <2>1, <2>3 DEF NothingOlder, SettledJob, Cached, Behind
  <2> QED
    BY <2>2, <2>4
<1>4. ASSUME NEW r \in Readers, StoreEntry(r) PROVE CacheInv'
  <2>1. /\ UNCHANGED <<onChain, txJob, spoilt>> /\ reader[r].at = "set"
        /\ reader' = [reader EXCEPT ![r] = [at |-> "none", version |-> 0]]
        /\ entry' = [version |-> reader[r].version, ttl |-> TTL]
        /\ reader[r].version \in 0..onChain
    BY <1>0, <1>4 DEF StoreEntry, LeaveReader, CacheTypeOK
  <2>2. EntryOK' /\ entry'.version = reader[r].version
    BY <1>0, <2>1 DEF EntryOK
  <2>3. CacheTypeOK'
    <3>1. reader' \in [Readers -> Reader] /\ \A q \in Readers : reader'[q].version <= onChain'
      BY <1>0, <2>1 DEF CacheTypeOK, Reader
    <3>2. entry'.version \in 0..onChain' /\ entry'.ttl \in 1..TTL
      BY <1>0, <2>1
    <3> QED
      BY <2>1, <3>1, <3>2 DEF CacheTypeOK
  <2>4. ASSUME NEW j \in TxJobs, SettledJob(j)
        PROVE  reader[r].version >= txJob[j].version /\ ~Behind(txJob[j].version)'
    BY <1>0, <2>1, <2>4 DEF NothingOlder, Behind, CacheTypeOK
  <2>5. NothingOlder'
    BY <2>1, <2>2, <2>4 DEF NothingOlder, SettledJob, Behind
  <2> QED
    BY <2>2, <2>3, <2>5
<1>5. ASSUME NEW r \in Readers, ReadFails(r) PROVE CacheInv'
  <2>1. /\ UNCHANGED <<onChain, entry, txJob, spoilt>>
        /\ reader' = [reader EXCEPT ![r] = [at |-> "none", version |-> 0]]
    BY <1>5 DEF ReadFails, LeaveReader
  <2>2. CacheTypeOK' /\ EntryOK'
    BY <1>0, <2>1 DEF CacheTypeOK, Reader, EntryOK, Cached
  <2>3. ASSUME NEW j \in TxJobs, SettledJob(j) PROVE ~Behind(txJob[j].version)'
    BY <1>0, <2>1, <2>3 DEF NothingOlder, Behind, CacheTypeOK
  <2>4. NothingOlder'
    BY <2>1, <2>3 DEF NothingOlder, SettledJob, Cached, Behind
  <2> QED
    BY <2>2, <2>4
<1>6. ASSUME NEW j \in TxJobs, NEW m \in Methods, QueueTx(j, m) PROVE CacheInv'
  <2>1. /\ UNCHANGED <<onChain, entry, reader, spoilt>>
        /\ txJob' = [txJob EXCEPT ![j] = [at |-> "queued", method |-> m, version |-> 0,
                                          route |-> m \in AtRoute]]
    BY <1>6 DEF QueueTx
  <2>2. txJob' \in [TxJobs -> TxJob] /\ \A k \in TxJobs : txJob'[k].version <= onChain'
    BY <1>0, <2>1 DEF CacheTypeOK, TxJob
  <2>3. CacheTypeOK' /\ EntryOK'
    BY <2>1, <2>2 DEF CacheTypeOK, EntryOK, Cached
  <2>4. NothingOlder'
    BY <2>1 DEF NothingOlder, SettledJob, Cached, Behind, CacheTypeOK
  <2> QED
    BY <2>3, <2>4
<1>7. ASSUME NEW j \in TxJobs, RouteInvalidates(j) PROVE CacheInv'
  <2>1. /\ UNCHANGED <<onChain, reader, spoilt>>
        /\ txJob' = [txJob EXCEPT ![j].route = FALSE]
        /\ entry' = NoEntry \/ entry' = entry
    BY <1>7 DEF RouteInvalidates
  <2>2. txJob' \in [TxJobs -> TxJob] /\ \A k \in TxJobs : txJob'[k].version <= onChain'
    BY <1>0, <2>1 DEF CacheTypeOK, TxJob
  <2>3. CacheTypeOK' /\ EntryOK'
    BY <2>1, <2>2 DEF CacheTypeOK, EntryOK, Cached
  <2>4. NothingOlder'
    BY <1>0, <2>1 DEF NothingOlder, SettledJob, Cached, Behind, CacheTypeOK, TxJob
  <2> QED
    BY <2>3, <2>4
<1>8. ASSUME NEW j \in TxJobs, Land(j) PROVE CacheInv'
  <2>1. /\ UNCHANGED <<entry, reader, spoilt>> /\ onChain' = onChain + 1
        /\ txJob' = [txJob EXCEPT ![j].at = "landed", ![j].version = onChain + 1]
    BY <1>8 DEF Land
  <2>2. txJob' \in [TxJobs -> TxJob] /\ \A k \in TxJobs : txJob'[k].version <= onChain'
    BY <1>0, <2>1 DEF CacheTypeOK, TxJob
  <2>3. EntryOK'
    BY <1>0, <2>1 DEF EntryOK
  <2>4. CacheTypeOK'
    BY <1>0, <2>1, <2>2 DEF CacheTypeOK, Cached
  <2>5. NothingOlder'
    BY <1>0, <2>1 DEF NothingOlder, SettledJob, Cached, Behind, CacheTypeOK, TxJob
  <2> QED
    BY <2>3, <2>4, <2>5
<1>9. ASSUME NEW j \in TxJobs, NotLanded(j) \/ RecordTx(j) PROVE CacheInv'
  <2>1. /\ UNCHANGED <<onChain, entry, reader, spoilt>>
        /\ \E at \in {"recorded", "failed"} : txJob' = [txJob EXCEPT ![j].at = at]
    BY <1>9 DEF NotLanded, RecordTx
  <2>2. txJob' \in [TxJobs -> TxJob] /\ \A k \in TxJobs : txJob'[k].version <= onChain'
    BY <1>0, <2>1 DEF CacheTypeOK, TxJob
  <2>3. CacheTypeOK' /\ EntryOK'
    BY <2>1, <2>2 DEF CacheTypeOK, EntryOK, Cached
  <2>4. NothingOlder'
    BY <1>0, <2>1 DEF NothingOlder, SettledJob, Cached, Behind, CacheTypeOK, TxJob
  <2> QED
    BY <2>3, <2>4
<1>10. ASSUME NEW j \in TxJobs, JobInvalidates(j) PROVE CacheInv'
  <2>1. /\ UNCHANGED <<onChain, reader>> /\ spoilt \subseteq spoilt' /\ spoilt' \subseteq TxJobs
        /\ txJob' = [txJob EXCEPT ![j].at = "done"]
        /\ entry' = NoEntry \/ entry' = entry
    BY <1>10 DEF JobInvalidates, CacheTypeOK
  <2>2. txJob' \in [TxJobs -> TxJob] /\ \A k \in TxJobs : txJob'[k].version <= onChain'
    BY <1>0, <2>1 DEF CacheTypeOK, TxJob
  <2>3. CacheTypeOK' /\ EntryOK'
    BY <2>1, <2>2 DEF CacheTypeOK, EntryOK, Cached
  <2>4. ASSUME NEW k \in TxJobs \ {j}, SettledJob(k)'
        PROVE  /\ Cached' => entry'.version >= txJob'[k].version
               /\ ~Behind(txJob[k].version)'
    <3>1. SettledJob(k)
      BY <2>1, <2>4 DEF SettledJob, CacheTypeOK
    <3> QED
      BY <2>1, <2>4, <3>1 DEF NothingOlder, Cached, Behind, CacheTypeOK
  <2>5. ASSUME SettledJob(j)'
        PROVE  entry' = NoEntry /\ ~Behind(txJob[j].version)'
    <3>1. Deletes(j) /\ j \notin spoilt'
      BY <1>0, <2>1, <2>5 DEF SettledJob, Deletes, CacheTypeOK, TxJob
    <3>2. entry' = NoEntry /\ ~Behind(txJob[j].version)
      BY <1>10, <3>1 DEF JobInvalidates
    <3> QED
      BY <2>1, <3>2 DEF Behind
  <2>6. \A k \in TxJobs : txJob'[k].version = txJob[k].version
    BY <1>0, <2>1 DEF CacheTypeOK, TxJob
  <2>7. NothingOlder'
    BY <2>4, <2>5, <2>6 DEF NothingOlder, Cached, Behind
  <2> QED
    BY <2>3, <2>7
<1> QED
  BY <1>1, <1>2, <1>3, <1>4, <1>5, <1>6, <1>7, <1>8, <1>9, <1>10 DEF CacheNext

-----------------------------------------------------------------------------

LEMMA CacheStutter == ASSUME CacheInv, UNCHANGED cacheVars PROVE CacheInv'
BY DEF CacheInv, cacheVars, CacheTypeOK, EntryOK, NothingOlder, SettledJob, Cached, Behind

LEMMA CacheInvariance == CacheSpec => []CacheInv
BY CacheInitially, CacheStep, CacheStutter, PTL DEF CacheSpec

LEMMA NothingOlderIsFresh == ASSUME CacheInv PROVE FreshAfterJob
BY DEF CacheInv, NothingOlder, SettledJob, FreshAfterJob

(* The entry, the readers and the jobs stay of their types; no version is one  *)
(* the account has not had.                                                    *)
THEOREM CacheIsTyped == CacheSpec => []CacheTypeOK
BY CacheInvariance, PTL DEF CacheInv

(* With any number of readers and jobs at once, a job that has deleted the     *)
(* entry is not followed by an older state of the account, but for a reader    *)
(* that had fetched it before.                                                 *)
THEOREM NoOlderState == CacheSpec => []FreshAfterJob
BY CacheInvariance, NothingOlderIsFresh, PTL

-----------------------------------------------------------------------------

(* The status is the one the documents give. *)
Fits(status) ==
  /\ status = "rejected" <=> Some("rejected")
  /\ status = "approved" <=> (Some("approved") /\ ~Some("rejected"))

(* A document review that is alone holds, once it has counted, the status the *)
(* documents still give.                                                      *)
AloneInv(c) ==
  OnDocuments(c) /\ desk[c].alone =>
    /\ \A e \in Desks \ {c} : ~OnDocuments(e)
    /\ desk[c].op = "settle" => Fits(desk[c].status)

StatusInv == kycFrom = "documents" /\ (\A c \in Desks : ~OnDocuments(c)) => Fits(kyc_status)

KycInv == StatusInv /\ \A c \in Desks : AloneInv(c)

Moving(i) == i \in cutShort \/ \E c \in Desks : desk[c].op = "move" /\ desk[c].review = i

(* No officer decides two steps of a review. *)
ByTwo(i) ==
  \A k, n \in 1..MAX_STEPS : Decided(i, k) /\ Decided(i, n) /\ k # n =>
    approval_chain_decisions[i][k].by # approval_chain_decisions[i][n].by

(* Where a review stands, its decisions end. *)
Standing(i) ==
  LET r == approval_chain_instances[i]
  IN /\ r.status = "none" => \A k \in 1..MAX_STEPS : ~Decided(i, k)
     /\ r.status # "none" =>
          /\ r.steps >= 1 /\ r.current_step <= r.steps
          /\ \A k \in 1..MAX_STEPS :
               (k < r.current_step => Approved(i, k)) /\ (k > r.current_step => ~Decided(i, k))
     /\ r.status = "approved" => r.current_step = r.steps /\ Approved(i, r.steps)
     /\ r.status = "rejected" => Decided(i, r.current_step) /\ ~Approved(i, r.current_step)
     /\ r.status = "in_progress" /\ Decided(i, r.current_step) => Moving(i)

OnReview(c) == desk[c].op \in {"check", "insert", "move"}

(* A decision on its way is for a step the review has reached.  One whose step *)
(* is still free comes from an officer who has decided no other; one that was  *)
(* stored is what the review waits for, and nothing else is.                   *)
DecisionInv(c) ==
  LET w == desk[c]
  IN OnReview(c) =>
       /\ approval_chain_instances[w.review].status # "none"
       /\ w.step <= approval_chain_instances[w.review].current_step
       /\ w.op = "insert" /\ ~Decided(w.review, w.step) => MayDecide(c)
       /\ w.op = "move" =>
            /\ InProgress(w.review) /\ Decided(w.review, w.step)
            /\ w.step = approval_chain_instances[w.review].current_step
            /\ approval_chain_decisions[w.review][w.step].verdict = w.verdict
            /\ \A d \in Desks \ {c} : ~(desk[d].op = "move" /\ desk[d].review = w.review)

ReviewsInv ==
  /\ \A i \in Reviews : ByTwo(i) /\ Standing(i)
  /\ \A c \in Desks : DecisionInv(c)

OnboardingInv == OnboardingTypeOK /\ KycInv /\ ReviewsInv

LEMMA OnboardingInitially == OnboardingInit => OnboardingInv
<1> SUFFICES ASSUME OnboardingInit PROVE OnboardingInv
  OBVIOUS
<1> USE OnboardingAssumption
<1>1. OnboardingTypeOK
  <2>1. approval_chain_instances \in [Reviews -> Instance]
    BY DEF OnboardingInit, Instance
  <2>2. approval_chain_decisions \in [Reviews -> [1..MAX_STEPS -> Decision]]
    BY DEF OnboardingInit, Decision, NoDecision
  <2>3. desk \in [Desks -> Work]
    BY DEF OnboardingInit, Work, NoWork
  <2> QED  BY <2>1, <2>2, <2>3 DEF OnboardingInit, OnboardingTypeOK
<1>2. \A c \in Desks : desk[c].op = "none"
  BY DEF OnboardingInit, NoWork
<1>3. KycInv
  BY <1>2 DEF OnboardingInit, KycInv, StatusInv, AloneInv, OnDocuments, Fits, Some
<1>4. \A i \in Reviews, k \in 1..MAX_STEPS : ~Decided(i, k)
  BY DEF OnboardingInit, Decided
<1>5. \A i \in Reviews : approval_chain_instances[i].status = "none"
  BY DEF OnboardingInit
<1>6. ReviewsInv
  BY <1>2, <1>4, <1>5 DEF ReviewsInv, ByTwo, Standing, DecisionInv, OnReview
<1> QED  BY <1>1, <1>3, <1>6 DEF OnboardingInv

(* What the forms of work and of decisions say. *)
LEMMA WorkForms ==
  ASSUME NEW w \in Work
  PROVE  /\ w.op = "start" => w.steps \in 1..MAX_STEPS
         /\ w.op \in {"check", "insert", "move"} =>
              /\ w.review \in Reviews /\ w.step \in 1..MAX_STEPS
              /\ w.by \in Officers /\ w.verdict \in Verdicts
              /\ \A op \in {"check", "insert", "move"} :
                   [w EXCEPT !.op = op] = [op |-> op, review |-> w.review, step |-> w.step,
                                           by |-> w.by, verdict |-> w.verdict]
         /\ w.op \in {"tally", "settle"} =>
              /\ w.alone \in BOOLEAN
              /\ [w EXCEPT !.alone = FALSE] \in Work
              /\ [w EXCEPT !.alone = FALSE].op = w.op
              /\ [w EXCEPT !.alone = FALSE].alone = FALSE
         /\ w.op = "settle" => w.status \in {"pending", "approved", "rejected"}
<1>1. CASE w \in [op : {"none", "finalise"}]
  BY <1>1
<1>2. CASE w \in [op : {"start"}, steps : 1..MAX_STEPS]
  BY <1>2
<1>3. CASE w \in [op : {"check", "insert", "move"}, review : Reviews, step : 1..MAX_STEPS,
                  by : Officers, verdict : Verdicts]
  BY <1>3 DEF Work
<1>4. CASE w \in [op : {"tally"}, alone : BOOLEAN]
  BY <1>4 DEF Work
<1>5. CASE w \in [op : {"settle"}, alone : BOOLEAN, status : {"pending", "approved", "rejected"}]
  BY <1>5 DEF Work
<1> QED  BY <1>1, <1>2, <1>3, <1>4, <1>5 DEF Work

LEMMA DecisionForms ==
  ASSUME NEW d \in Decision
  PROVE  /\ d # NoDecision <=> d.verdict # "none"
         /\ d # NoDecision => d.verdict \in Verdicts /\ d.by \in Officers
BY DEF Decision, NoDecision, Verdicts

LEMMA NoWorkWorks == NoWork \in Work /\ NoWork.op = "none"
BY DEF NoWork, Work

LEMMA OthersAtDesks ==
  ASSUME OnboardingTypeOK, NEW c \in Desks, NEW work \in Work, desk' = [desk EXCEPT ![c] = work]
  PROVE  /\ desk' \in [Desks -> Work] /\ desk'[c] = work
         /\ \A d \in Desks \ {c} : desk'[d] = desk[d]
BY DEF OnboardingTypeOK

LEMMA NoMore ==
  ASSUME OnboardingTypeOK, NEW c \in Desks, Leave(c)
  PROVE  /\ desk' \in [Desks -> Work] /\ desk'[c].op = "none"
         /\ \A d \in Desks \ {c} : desk'[d] = desk[d]
BY NoWorkWorks, OthersAtDesks DEF Leave

LEMMA Taken ==
  ASSUME OnboardingTypeOK, NEW c \in Desks, NEW work \in Work, Take(c, work)
  PROVE  /\ desk' \in [Desks -> Work] /\ desk'[c] = work /\ desk[c].op = "none"
         /\ \A d \in Desks \ {c} : desk'[d] = desk[d]
BY NoWorkWorks, OthersAtDesks DEF Take

LEMMA WentTo ==
  ASSUME OnboardingTypeOK, NEW c \in Desks, NEW op \in {"insert", "move"}, OnReview(c),
         GotoOp(c, op)
  PROVE  /\ desk' \in [Desks -> Work] /\ desk'[c].op = op
         /\ desk'[c].review = desk[c].review /\ desk'[c].step = desk[c].step
         /\ desk'[c].by = desk[c].by /\ desk'[c].verdict = desk[c].verdict
         /\ \A d \in Desks \ {c} : desk'[d] = desk[d]
<1> DEFINE work == [desk[c] EXCEPT !.op = op]
<1>1. desk[c] \in Work /\ desk[c].op \in {"check", "insert", "move"}
  BY DEF OnboardingTypeOK, OnReview
<1>2. /\ work \in Work /\ work.op = op /\ work.review = desk[c].review
      /\ work.step = desk[c].step /\ work.by = desk[c].by /\ work.verdict = desk[c].verdict
  <2>1. work = [op |-> op, review |-> desk[c].review, step |-> desk[c].step,
                by |-> desk[c].by, verdict |-> desk[c].verdict]
    BY <1>1, WorkForms
  <2>2. /\ desk[c].review \in Reviews /\ desk[c].step \in 1..MAX_STEPS
        /\ desk[c].by \in Officers /\ desk[c].verdict \in Verdicts
    BY <1>1, WorkForms
  <2> HIDE DEF work
  <2> QED  BY <2>1, <2>2 DEF Work
<1>3. desk' = [desk EXCEPT ![c] = work]
  BY DEF GotoOp
<1> HIDE DEF work
<1> QED  BY <1>2, <1>3, OthersAtDesks

(* The documents are not concerned. *)
LEMMA KycStill ==
  ASSUME KycInv, UNCHANGED kyc_documents,
         UNCHANGED <<kyc_status, kycFrom>> \/ kycFrom' # "documents",
         \A c \in Desks : IF OnDocuments(c) THEN desk'[c] = desk[c]
                          ELSE desk'[c].op \notin {"tally", "settle"}
  PROVE  KycInv'
<1>1. \A c \in Desks : /\ OnDocuments(c)' <=> OnDocuments(c)
                       /\ OnDocuments(c) => desk'[c] = desk[c]
  BY DEF OnDocuments
<1>2. \A v : Some(v)' <=> Some(v)
  BY DEF Some
<1>3. \A s : Fits(s)' <=> Fits(s)
  BY <1>2 DEF Fits
<1>4. StatusInv'
  <2> SUFFICES ASSUME kycFrom' = "documents", \A c \in Desks : ~OnDocuments(c)'
               PROVE  Fits(kyc_status)'
    BY DEF StatusInv
  <2>1. UNCHANGED <<kyc_status, kycFrom>>
    OBVIOUS
  <2>2. Fits(kyc_status)
    BY <2>1, <1>1 DEF KycInv, StatusInv
  <2> QED  BY <1>2, <2>1, <2>2 DEF Fits
<1>5. ASSUME NEW c \in Desks PROVE AloneInv(c)'
  <2> SUFFICES ASSUME OnDocuments(c)', desk'[c].alone PROVE
        /\ \A e \in Desks \ {c} : ~OnDocuments(e)'
        /\ desk'[c].op = "settle" => Fits(desk[c].status)'
    BY <1>1 DEF AloneInv
  <2>1. OnDocuments(c) /\ desk'[c] = desk[c]
    BY <1>1
  <2>2. AloneInv(c)
    BY DEF KycInv
  <2>3. desk'[c].op = "settle" => Fits(desk[c].status)
    BY <2>1, <2>2 DEF AloneInv
  <2> QED  BY <1>1, <1>2, <2>1, <2>2, <2>3 DEF AloneInv, Fits
<1> QED  BY <1>4, <1>5 DEF KycInv

(* The reviews stand still, and no decision is stored. *)
LEMMA ReviewsStill ==
  ASSUME OnboardingTypeOK, ReviewsInv,
         UNCHANGED <<approval_chain_instances, approval_chain_decisions>>,
         cutShort \subseteq cutShort',
         \A c \in Desks : desk[c].op = "move" =>
           desk'[c] = desk[c] \/ desk[c].review \in cutShort',
         \A c \in Desks : OnReview(c)' =>
           desk'[c] = desk[c] \/ (desk'[c].op # "move" /\ DecisionInv(c)')
  PROVE  ReviewsInv'
<1>1. \A i, k : /\ Decided(i, k)' <=> Decided(i, k)
                /\ Approved(i, k)' <=> Approved(i, k)
  BY DEF Decided, Approved
<1>2. ASSUME NEW i \in Reviews PROVE ByTwo(i)' /\ Standing(i)'
  <2>1. ByTwo(i)'
    BY <1>1 DEF ReviewsInv, ByTwo
  <2>2. Moving(i) => Moving(i)'
    BY DEF Moving
  <2> QED  BY <1>1, <2>1, <2>2 DEF ReviewsInv, Standing
<1>3. ASSUME NEW c \in Desks PROVE DecisionInv(c)'
  <2> SUFFICES ASSUME OnReview(c)', desk'[c] = desk[c] PROVE DecisionInv(c)'
    BY DEF DecisionInv
  <2>1. OnReview(c) /\ DecisionInv(c)
    BY DEF OnReview, ReviewsInv
  <2>2. MayDecide(c)' <=> MayDecide(c)
    BY <1>1 DEF MayDecide, Approvers
  <2>3. ASSUME NEW d \in Desks \ {c}, desk'[d].op = "move", desk'[d].review = desk[c].review,
               desk[c].op = "move"
        PROVE  FALSE
    <3>1. desk'[d] = desk[d]
      BY <2>3 DEF OnReview
    <3> QED  BY <2>1, <2>3, <3>1 DEF DecisionInv
  <2> QED  BY <1>1, <2>1, <2>2, <2>3 DEF DecisionInv, InProgress
<1> QED  BY <1>2, <1>3 DEF ReviewsInv


(* Documents *)

LEMMA UploadStep == ASSUME OnboardingInv, NEW d \in Documents, Upload(d) PROVE OnboardingInv'
<1> USE DEF OnboardingInv
<1>1. OnboardingTypeOK'
  BY DEF Upload, OnboardingTypeOK
<1>2. \A v \in Verdicts : Some(v)' <=> Some(v)
  BY DEF Upload, Some, Verdicts, OnboardingTypeOK
<1>3. \A s : Fits(s)' <=> Fits(s)
  BY <1>2 DEF Fits, Verdicts
<1>4. UNCHANGED <<kyc_status, kycFrom, desk>>
  BY DEF Upload
<1>5. StatusInv'
  BY <1>2, <1>4 DEF KycInv, StatusInv, OnDocuments, Fits, Verdicts
<1>6. ASSUME NEW c \in Desks PROVE AloneInv(c)'
  BY <1>2, <1>4 DEF KycInv, AloneInv, OnDocuments, Fits, Verdicts
<1>7. ReviewsInv'
  BY ReviewsStill DEF Upload, OnReview
<1> QED  BY <1>1, <1>5, <1>6, <1>7 DEF KycInv

LEMMA ReviewDocumentStep ==
  ASSUME OnboardingInv, NEW c \in Desks, NEW d \in Documents, NEW verdict \in Verdicts,
         ReviewDocument(c, d, verdict)
  PROVE  OnboardingInv'
<1> USE DEF OnboardingInv
<1> DEFINE others == {e \in Desks : OnDocuments(e)}
<1>1. /\ desk[c].op = "none" /\ c \notin others
      /\ desk' = [e \in Desks |->
          IF e = c THEN [op |-> "tally", alone |-> others = {}]
          ELSE IF e \in others THEN [desk[e] EXCEPT !.alone = FALSE] ELSE desk[e]]
  BY DEF ReviewDocument, NoWork, OnDocuments
<1>2. /\ desk'[c].op = "tally"
      /\ desk'[c].alone => \A e \in Desks : ~OnDocuments(e)
      /\ desk'[c] \in Work
  BY <1>1 DEF Work
<1>3. ASSUME NEW e \in Desks \ {c}
      PROVE  /\ desk'[e].op = desk[e].op /\ desk'[e] \in Work
             /\ OnDocuments(e) => ~desk'[e].alone
             /\ ~OnDocuments(e) => desk'[e] = desk[e]
  <2>1. desk[e] \in Work
    BY DEF OnboardingTypeOK
  <2>2. CASE OnDocuments(e)
    <3>1. desk'[e] = [desk[e] EXCEPT !.alone = FALSE]
      BY <1>1, <2>2
    <3> QED  BY <2>1, <2>2, <3>1, WorkForms DEF OnDocuments
  <2>3. CASE ~OnDocuments(e)
    <3>1. desk'[e] = desk[e]
      BY <1>1, <2>3
    <3> QED  BY <2>1, <2>3, <3>1
  <2> QED  BY <2>2, <2>3
<1>4. desk' \in [Desks -> Work]
  BY <1>1, <1>2, <1>3
<1>5. OnboardingTypeOK'
  BY <1>4 DEF ReviewDocument, OnboardingTypeOK, Verdicts
<1>6. OnDocuments(c)' /\ \A e \in Desks \ {c} : OnDocuments(e)' => ~desk'[e].alone
  BY <1>2, <1>3 DEF OnDocuments
<1>7. StatusInv'
  BY <1>6 DEF StatusInv
<1>8. ASSUME NEW e \in Desks PROVE AloneInv(e)'
  BY <1>2, <1>3, <1>6 DEF AloneInv, OnDocuments
<1>9. ReviewsInv'
  <2>1. \A e \in Desks : desk[e].op = "move" => desk'[e] = desk[e]
    BY <1>1, <1>3 DEF OnDocuments
  <2>2. \A e \in Desks : OnReview(e)' => desk'[e] = desk[e]
    BY <1>2, <1>3 DEF OnReview, OnDocuments
  <2>3. UNCHANGED <<approval_chain_instances, approval_chain_decisions, cutShort>>
    BY DEF ReviewDocument
  <2> HIDE DEF others
  <2> QED  BY <2>1, <2>2, <2>3, ReviewsStill
<1> QED  BY <1>5, <1>7, <1>8, <1>9 DEF KycInv

LEMMA TallyFits == ASSUME OnboardingTypeOK PROVE Fits(TallyStatus)
BY DEF Fits, TallyStatus

LEMMA TallyStep ==
  ASSUME OnboardingInv, NEW c \in Desks, TallyDocuments(c) PROVE OnboardingInv'
<1> USE DEF OnboardingInv
<1> DEFINE work == [op |-> "settle", alone |-> desk[c].alone, status |-> TallyStatus]
<1>1. /\ work \in Work /\ work.op = "settle" /\ work.alone = desk[c].alone
      /\ work.status = TallyStatus
  <2>1. desk[c] \in Work /\ desk[c].op = "tally"
    BY DEF TallyDocuments, OnboardingTypeOK
  <2>2. desk[c].alone \in BOOLEAN
    BY <2>1, WorkForms
  <2> QED  BY <2>2 DEF Work, TallyStatus
<1>2. desk' = [desk EXCEPT ![c] = work]
  BY DEF TallyDocuments
<1> HIDE DEF work
<1>3. /\ desk' \in [Desks -> Work] /\ desk'[c] = work
      /\ \A d \in Desks \ {c} : desk'[d] = desk[d]
  BY <1>1, <1>2, OthersAtDesks
<1>4. /\ desk[c].op = "tally"
      /\ UNCHANGED <<kyc_status, kyc_documents, approval_chains, approval_chain_instances,
                     approval_chain_decisions, kycFrom, cutShort, breaks>>
  BY DEF TallyDocuments
<1>5. OnboardingTypeOK'
  BY <1>3, <1>4 DEF OnboardingTypeOK
<1>6. OnDocuments(c) /\ OnDocuments(c)' /\ \A e \in Desks \ {c} : OnDocuments(e)' <=> OnDocuments(e)
  BY <1>1, <1>3, <1>4 DEF OnDocuments
<1>8. TallyStatus' = TallyStatus /\ \A v : Some(v)' <=> Some(v)
  BY <1>4 DEF TallyStatus, Some
<1>9. StatusInv'
  BY <1>6 DEF StatusInv
<1>10. ASSUME NEW e \in Desks PROVE AloneInv(e)'
  <2>1. CASE e = c
    <3>1. desk'[c].alone => \A d \in Desks \ {c} : ~OnDocuments(d)
      BY <1>1, <1>3, <1>6 DEF KycInv, AloneInv
    <3>2. Fits(desk[c].status)'
      BY <1>1, <1>3, <1>8, TallyFits DEF Fits
    <3> QED  BY <2>1, <1>6, <3>1, <3>2 DEF AloneInv
  <2>2. CASE e # c
    <3> SUFFICES ASSUME OnDocuments(e)', desk'[e].alone PROVE FALSE
      BY DEF AloneInv
    <3> QED  BY <2>2, <1>3, <1>6 DEF KycInv, AloneInv
  <2> QED  BY <2>1, <2>2
<1>11. ReviewsInv'
  <2>1. \A e \in Desks : desk[e].op = "move" => desk'[e] = desk[e]
    BY <1>3, <1>4
  <2>2. \A e \in Desks : OnReview(e)' => desk'[e] = desk[e]
    BY <1>1, <1>3 DEF OnReview
  <2> QED  BY <1>4, <2>1, <2>2, ReviewsStill
<1> QED  BY <1>5, <1>9, <1>10, <1>11 DEF KycInv

(* A document review that ends, with its status written or not. *)
LEMMA DocumentsEnd ==
  ASSUME OnboardingInv, NEW c \in Desks, OnDocuments(c), Leave(c),
         UNCHANGED <<kyc_documents, approval_chain_instances, approval_chain_decisions,
                     cutShort>>,
         kycFrom' # "documents" \/ (desk[c].op = "settle" /\ desk[c].alone /\ kyc_status' = desk[c].status)
  PROVE  KycInv' /\ ReviewsInv'
<1> USE DEF OnboardingInv
<1>1. /\ desk' \in [Desks -> Work] /\ desk'[c].op = "none"
      /\ \A d \in Desks \ {c} : desk'[d] = desk[d]
  BY NoMore
<1>2. ~OnDocuments(c)' /\ \A e \in Desks \ {c} : OnDocuments(e)' <=> OnDocuments(e)
  BY <1>1 DEF OnDocuments
<1>3. \A v : Some(v)' <=> Some(v)
  BY DEF Some
<1>4. StatusInv'
  <2> SUFFICES ASSUME kycFrom' = "documents" PROVE Fits(kyc_status)'
    BY DEF StatusInv
  <2>1. Fits(desk[c].status) /\ kyc_status' = desk[c].status
    BY DEF KycInv, AloneInv
  <2> QED  BY <1>3, <2>1 DEF Fits
<1>5. ASSUME NEW e \in Desks PROVE AloneInv(e)'
  <2> SUFFICES ASSUME OnDocuments(e)', desk'[e].alone PROVE FALSE
    BY DEF AloneInv
  <2> QED  BY <1>1, <1>2 DEF KycInv, AloneInv
<1>6. ReviewsInv'
  <2>1. \A e \in Desks : desk[e].op = "move" => desk'[e] = desk[e]
    BY <1>1 DEF OnDocuments
  <2>2. \A e \in Desks : OnReview(e)' => desk'[e] = desk[e]
    BY <1>1 DEF OnReview
  <2> QED  BY <2>1, <2>2, ReviewsStill
<1> QED  BY <1>4, <1>5, <1>6 DEF KycInv

LEMMA SettleStep ==
  ASSUME OnboardingInv, NEW c \in Desks, SettleKyc(c) PROVE OnboardingInv'
<1> USE DEF OnboardingInv
<1>1. desk[c] \in Work /\ desk[c].op = "settle"
  BY DEF SettleKyc, OnboardingTypeOK
<1>2. desk[c].alone \in BOOLEAN /\ desk[c].status \in {"pending", "approved", "rejected"}
  BY <1>1, WorkForms
<1>3. OnboardingTypeOK'
  BY <1>2, NoMore DEF SettleKyc, OnboardingTypeOK
<1>4. KycInv' /\ ReviewsInv'
  BY <1>1, DocumentsEnd DEF SettleKyc, OnDocuments
<1> QED  BY <1>3, <1>4

-----------------------------------------------------------------------------
(* Steps of requests on reviews that store no decision *)

LEMMA OverrideStep ==
  ASSUME OnboardingInv, NEW status \in {"pending", "approved", "rejected"}, OverrideKyc(status)
  PROVE  OnboardingInv'
<1> USE DEF OnboardingInv
<1>1. OnboardingTypeOK'
  BY DEF OverrideKyc, OnboardingTypeOK
<1>2. desk' = desk /\ kycFrom' = "override"
  BY DEF OverrideKyc
<1>3. KycInv'
  BY <1>2, KycStill DEF OverrideKyc, OnDocuments
<1>4. ReviewsInv'
  BY <1>2, ReviewsStill DEF OverrideKyc
<1> QED  BY <1>1, <1>3, <1>4

LEMMA CreateChainStep ==
  ASSUME OnboardingInv, NEW steps \in 1..MAX_STEPS, CreateChain(steps)
  PROVE  OnboardingInv'
<1> USE DEF OnboardingInv
<1>1. OnboardingTypeOK'
  BY DEF CreateChain, OnboardingTypeOK
<1>2. KycInv'
  BY KycStill DEF CreateChain, OnDocuments
<1>3. ReviewsInv'
  BY ReviewsStill DEF CreateChain
<1> QED  BY <1>1, <1>2, <1>3

(* A request takes up or puts down work that is no stored decision. *)
LEMMA RequestMoves ==
  ASSUME OnboardingInv, NEW c \in Desks, ~OnDocuments(c), desk[c].op # "move",
         desk' \in [Desks -> Work], \A d \in Desks \ {c} : desk'[d] = desk[d],
         desk'[c].op \notin {"tally", "settle", "move"},
         OnReview(c)' => DecisionInv(c)',
         UNCHANGED <<kyc_documents, approval_chains, approval_chain_instances,
                     approval_chain_decisions, cutShort>>,
         UNCHANGED <<kyc_status, kycFrom>> \/ (kyc_status' = "approved" /\ kycFrom' = "review")
  PROVE  OnboardingInv'
<1> USE DEF OnboardingInv
<1>1. OnboardingTypeOK'
  BY DEF OnboardingTypeOK
<1>2. KycInv'
  BY KycStill DEF OnDocuments
<1>3. ReviewsInv'
  <2>1. \A e \in Desks : desk[e].op = "move" => desk'[e] = desk[e]
    OBVIOUS
  <2>2. \A e \in Desks : OnReview(e)' =>
          desk'[e] = desk[e] \/ (desk'[e].op # "move" /\ DecisionInv(e)')
    BY DEF OnReview
  <2> QED  BY <2>1, <2>2, ReviewsStill
<1> QED  BY <1>1, <1>2, <1>3

LEMMA StartReviewStep ==
  ASSUME OnboardingInv, NEW c \in Desks, NEW steps \in 1..MAX_STEPS, StartReview(c, steps)
  PROVE  OnboardingInv'
<1> DEFINE work == [op |-> "start", steps |-> steps]
<1>1. work \in Work /\ work.op = "start"
  BY DEF Work
<1>2. Take(c, work)
  BY DEF StartReview
<1> HIDE DEF work
<1>3. /\ desk' \in [Desks -> Work] /\ desk'[c] = work /\ desk[c].op = "none"
      /\ \A d \in Desks \ {c} : desk'[d] = desk[d]
  BY <1>1, <1>2, Taken DEF OnboardingInv
<1> QED  BY <1>1, <1>3, RequestMoves DEF StartReview, OnDocuments, OnReview

LEMMA DecideStep ==
  ASSUME OnboardingInv, NEW c \in Desks, NEW i \in Reviews, NEW u \in Officers,
         NEW verdict \in Verdicts, Decide(c, i, u, verdict)
  PROVE  OnboardingInv'
<1> DEFINE work == [op |-> "check", review |-> i,
                    step |-> approval_chain_instances[i].current_step, by |-> u,
                    verdict |-> verdict]
<1>0. approval_chain_instances[i].current_step \in 1..MAX_STEPS
  BY DEF OnboardingInv, OnboardingTypeOK, Instance
<1>1. /\ work \in Work /\ work.op = "check" /\ work.review = i
      /\ work.step = approval_chain_instances[i].current_step
  BY <1>0 DEF Work
<1>2. Take(c, work)
  BY DEF Decide
<1> HIDE DEF work
<1>3. /\ desk' \in [Desks -> Work] /\ desk'[c] = work /\ desk[c].op = "none"
      /\ \A d \in Desks \ {c} : desk'[d] = desk[d]
  BY <1>1, <1>2, Taken DEF OnboardingInv
<1>4. DecisionInv(c)'
  BY <1>0, <1>1, <1>3, OnboardingAssumption DEF Decide, InProgress, DecisionInv
<1> QED  BY <1>1, <1>3, <1>4, RequestMoves DEF Decide, OnDocuments

LEMMA CheckApproverStep ==
  ASSUME OnboardingInv, NEW c \in Desks, CheckApprover(c) PROVE OnboardingInv'
<1>1. CASE ~MayDecide(c)
  <2>1. /\ desk' \in [Desks -> Work] /\ desk'[c].op = "none"
        /\ \A d \in Desks \ {c} : desk'[d] = desk[d]
    BY <1>1, NoMore DEF OnboardingInv, CheckApprover
  <2> QED  BY <2>1, RequestMoves DEF CheckApprover, OnDocuments, OnReview
<1>2. CASE MayDecide(c)
  <2>1. OnReview(c) /\ GotoOp(c, "insert")
    BY <1>2 DEF CheckApprover, OnReview
  <2>2. /\ desk' \in [Desks -> Work] /\ desk'[c].op = "insert"
        /\ desk'[c].review = desk[c].review /\ desk'[c].step = desk[c].step
        /\ desk'[c].by = desk[c].by
        /\ \A d \in Desks \ {c} : desk'[d] = desk[d]
    BY <2>1, WentTo DEF OnboardingInv
  <2>3. UNCHANGED <<approval_chain_instances, approval_chain_decisions>>
    BY DEF CheckApprover
  <2>4. MayDecide(c)'
    BY <1>2, <2>2, <2>3 DEF MayDecide, Approvers, Decided
  <2>5. DecisionInv(c)'
    BY <2>1, <2>2, <2>3, <2>4 DEF DecisionInv, OnboardingInv, ReviewsInv
  <2> QED  BY <2>2, <2>5, RequestMoves DEF CheckApprover, OnDocuments
<1> QED  BY <1>1, <1>2

LEMMA GiveUpStep ==
  ASSUME OnboardingInv, NEW c \in Desks, GiveUp(c) PROVE OnboardingInv'
<1>1. /\ desk' \in [Desks -> Work] /\ desk'[c].op = "none"
      /\ \A d \in Desks \ {c} : desk'[d] = desk[d]
  BY NoMore DEF OnboardingInv, GiveUp
<1> QED  BY <1>1, RequestMoves DEF GiveUp, OnDocuments, OnReview

LEMMA ApproveImporterStep ==
  ASSUME OnboardingInv, NEW c \in Desks, ApproveImporter(c) PROVE OnboardingInv'
<1>1. /\ desk' \in [Desks -> Work] /\ desk'[c].op = "none"
      /\ \A d \in Desks \ {c} : desk'[d] = desk[d]
  BY NoMore DEF OnboardingInv, ApproveImporter
<1> QED  BY <1>1, RequestMoves DEF ApproveImporter, OnDocuments, OnReview

LEMMA BreakStep ==
  ASSUME OnboardingInv, NEW c \in Desks, BreakDesk(c) PROVE OnboardingInv'
<1> USE DEF OnboardingInv
<1>1. /\ desk' \in [Desks -> Work] /\ desk'[c].op = "none"
      /\ \A d \in Desks \ {c} : desk'[d] = desk[d]
  BY NoMore DEF BreakDesk
<1>2. desk[c] \in Work /\ (desk[c].op = "move" => desk[c].review \in Reviews)
  BY WorkForms DEF OnboardingTypeOK
<1>3. OnboardingTypeOK'
  BY <1>1, <1>2 DEF BreakDesk, OnboardingTypeOK
<1>4. CASE OnDocuments(c)
  BY <1>3, <1>4, DocumentsEnd DEF BreakDesk, OnDocuments
<1>5. CASE ~OnDocuments(c)
  <2>1. KycInv'
    BY <1>1, <1>5, KycStill DEF BreakDesk, OnDocuments
  <2>2. \A e \in Desks : desk[e].op = "move" => desk'[e] = desk[e] \/ desk[e].review \in cutShort'
    BY <1>1 DEF BreakDesk
  <2>3. \A e \in Desks : OnReview(e)' => desk'[e] = desk[e]
    BY <1>1 DEF OnReview
  <2>4. ReviewsInv'
    BY <2>2, <2>3, ReviewsStill DEF BreakDesk
  <2> QED  BY <1>3, <2>1, <2>4
<1> QED  BY <1>4, <1>5

-----------------------------------------------------------------------------
(* Steps that move a review *)

(* A request moves one review: the others and the requests on them stay. *)
LEMMA OtherReviews ==
  ASSUME OnboardingTypeOK, ReviewsInv, NEW c \in Desks, NEW i \in Reviews,
         \A d \in Desks \ {c} : desk'[d] = desk[d],
         \A j \in Reviews \ {i} :
           /\ approval_chain_instances'[j] = approval_chain_instances[j]
           /\ approval_chain_decisions'[j] = approval_chain_decisions[j],
         UNCHANGED cutShort,
         desk[c].op = "move" => desk[c].review = i,
         desk'[c].op = "move" => desk'[c].review = i
  PROVE  /\ \A j \in Reviews \ {i} : ByTwo(j)' /\ Standing(j)'
         /\ \A d \in Desks \ {c} : OnReview(d) /\ desk[d].review # i => DecisionInv(d)'
         /\ \A d \in Desks \ {c} : OnReview(d) => desk[d].review \in Reviews
                                                  /\ desk[d].step \in 1..MAX_STEPS
<1>1. \A d \in Desks \ {c} : OnReview(d) => desk[d].review \in Reviews /\ desk[d].step \in 1..MAX_STEPS
  BY WorkForms DEF OnReview, OnboardingTypeOK
<1>2. ASSUME NEW j \in Reviews \ {i} PROVE ByTwo(j)' /\ Standing(j)'
  <2>1. \A k : /\ Decided(j, k)' <=> Decided(j, k)
               /\ Approved(j, k)' <=> Approved(j, k)
    BY DEF Decided, Approved
  <2>2. ByTwo(j) /\ Standing(j)
    BY DEF ReviewsInv
  <2>3. ByTwo(j)'
    BY <2>1, <2>2 DEF ByTwo
  <2>4. Moving(j) => Moving(j)'
    BY DEF Moving
  <2> QED  BY <2>1, <2>2, <2>3, <2>4 DEF Standing
<1>3. ASSUME NEW d \in Desks \ {c}, OnReview(d), desk[d].review # i PROVE DecisionInv(d)'
  <2>1. desk'[d] = desk[d] /\ desk[d].review \in Reviews \ {i}
    BY <1>1, <1>3
  <2> DEFINE j == desk[d].review
  <2>2. /\ approval_chain_instances'[j] = approval_chain_instances[j]
        /\ approval_chain_decisions'[j] = approval_chain_decisions[j]
    BY <2>1
  <2>3. DecisionInv(d)
    BY DEF ReviewsInv
  <2>4. MayDecide(d)' <=> MayDecide(d)
    BY <2>1, <2>2 DEF MayDecide, Approvers, Decided
  <2>5. ASSUME desk[d].op = "move", NEW e \in Desks \ {d}, desk'[e].op = "move",
               desk'[e].review = j
        PROVE  FALSE
    <3>1. e # c
      BY <2>5, <2>1
    <3> QED  BY <1>3, <2>3, <2>5, <3>1 DEF DecisionInv
  <2> QED  BY <1>3, <2>1, <2>2, <2>3, <2>4, <2>5 DEF DecisionInv, InProgress, Decided
<1> QED  BY <1>1, <1>2, <1>3

LEMMA InsertReviewStep ==
  ASSUME OnboardingInv, NEW c \in Desks, NEW i \in Reviews, InsertReview(c, i)
  PROVE  OnboardingInv'
<1> USE OnboardingAssumption DEF OnboardingInv
<1>1. /\ desk' \in [Desks -> Work] /\ desk'[c].op = "none"
      /\ \A d \in Desks \ {c} : desk'[d] = desk[d]
  BY NoMore DEF InsertReview
<1>2. desk[c].op = "start" /\ desk[c].steps \in 1..MAX_STEPS
  BY WorkForms DEF InsertReview, OnboardingTypeOK
<1> DEFINE row == [status |-> "in_progress", steps |-> desk[c].steps, current_step |-> 1]
<1>3. row \in Instance
  BY <1>2 DEF Instance
<1>4. approval_chain_instances' = [approval_chain_instances EXCEPT ![i] = row]
  BY DEF InsertReview
<1> HIDE DEF row
<1>5. /\ approval_chain_instances' \in [Reviews -> Instance]
      /\ approval_chain_instances'[i] = row
      /\ \A j \in Reviews \ {i} : approval_chain_instances'[j] = approval_chain_instances[j]
  BY <1>3, <1>4 DEF OnboardingTypeOK
<1>6. OnboardingTypeOK'
  BY <1>1, <1>5 DEF InsertReview, OnboardingTypeOK
<1>7. KycInv'
  BY <1>1, <1>2, KycStill DEF InsertReview, OnDocuments
<1>8. /\ \A j \in Reviews \ {i} : ByTwo(j)' /\ Standing(j)'
      /\ \A d \in Desks \ {c} : OnReview(d) /\ desk[d].review # i => DecisionInv(d)'
  BY <1>1, <1>2, <1>5, OtherReviews DEF InsertReview
<1>9. \A k \in 1..MAX_STEPS : ~Decided(i, k)' /\ ~Decided(i, k)
  BY DEF InsertReview, ReviewsInv, Standing, Decided
<1>10. ByTwo(i)'
  BY <1>9 DEF ByTwo
<1>11. Standing(i)'
  <2>1. row.status = "in_progress" /\ row.steps \in 1..MAX_STEPS /\ row.current_step = 1
    BY <1>2 DEF row
  <2> QED  BY <1>5, <1>9, <2>1 DEF Standing
<1>12. ASSUME NEW d \in Desks PROVE DecisionInv(d)'
  <2>1. CASE d = c
    BY <1>1, <2>1 DEF DecisionInv, OnReview
  <2>2. CASE d # c /\ ~OnReview(d)
    BY <1>1, <2>2 DEF DecisionInv, OnReview
  <2>3. CASE d # c /\ OnReview(d)
    <3>1. desk[d].review # i
      BY <2>3 DEF InsertReview, ReviewsInv, DecisionInv
    <3> QED  BY <1>8, <2>3, <3>1
  <2> QED  BY <2>1, <2>2, <2>3
<1> QED  BY <1>6, <1>7, <1>8, <1>10, <1>11, <1>12 DEF ReviewsInv

LEMMA InsertDecisionStep ==
  ASSUME OnboardingInv, NEW c \in Desks, InsertDecision(c) PROVE OnboardingInv'
<1> USE OnboardingAssumption DEF OnboardingInv
<1>0. desk[c].review \in Reviews /\ desk[c].step \in 1..MAX_STEPS
  BY WorkForms DEF OnboardingTypeOK, InsertDecision
<1> PICK i \in Reviews, s \in 1..MAX_STEPS : desk[c].review = i /\ desk[c].step = s
  BY <1>0
<1> DEFINE d0 == [verdict |-> desk[c].verdict, by |-> desk[c].by]
<1>1. /\ desk[c].op = "insert" /\ OnReview(c) /\ GotoOp(c, "move")
      /\ approval_chain_decisions' = [approval_chain_decisions EXCEPT ![i][s] = d0]
      /\ ~Decided(i, s)
      /\ UNCHANGED <<kyc_status, kyc_documents, approval_chains, approval_chain_instances,
                    kycFrom, cutShort, breaks>>
  BY DEF InsertDecision, OnReview, StepIsFree
<1>2. /\ i \in Reviews /\ s \in 1..MAX_STEPS /\ desk[c].by \in Officers /\ desk[c].verdict \in Verdicts
  BY <1>1, WorkForms DEF OnboardingTypeOK, OnReview
<1>3. /\ desk' \in [Desks -> Work] /\ desk'[c].op = "move"
      /\ desk'[c].review = i /\ desk'[c].step = s
      /\ desk'[c].by = desk[c].by /\ desk'[c].verdict = desk[c].verdict
      /\ \A d \in Desks \ {c} : desk'[d] = desk[d]
  BY <1>1, WentTo
<1>4. d0 \in Decision /\ d0 # NoDecision /\ d0.by = desk[c].by /\ d0.verdict = desk[c].verdict
  BY <1>2 DEF Decision, NoDecision, Verdicts
<1> HIDE DEF d0
<1>5. /\ approval_chain_decisions' \in [Reviews -> [1..MAX_STEPS -> Decision]]
      /\ approval_chain_decisions'[i][s] = d0
      /\ \A k \in 1..MAX_STEPS \ {s} :
           approval_chain_decisions'[i][k] = approval_chain_decisions[i][k]
      /\ \A j \in Reviews \ {i} : approval_chain_decisions'[j] = approval_chain_decisions[j]
  BY <1>1, <1>2, <1>4 DEF OnboardingTypeOK
<1>6. OnboardingTypeOK'
  BY <1>1, <1>3, <1>5 DEF OnboardingTypeOK
<1>7. KycInv'
  BY <1>1, <1>3, KycStill DEF OnDocuments
<1>8. /\ \A j \in Reviews \ {i} : ByTwo(j)' /\ Standing(j)'
      /\ \A d \in Desks \ {c} : OnReview(d) /\ desk[d].review # i => DecisionInv(d)'
      /\ \A d \in Desks \ {c} : OnReview(d) => desk[d].step \in 1..MAX_STEPS
  BY <1>1, <1>2, <1>3, <1>5, OtherReviews
<1> PICK r : approval_chain_instances[i] = r
  OBVIOUS
<1>9. /\ r.status \in {"none", "in_progress", "approved", "rejected"}
      /\ r.steps \in 0..MAX_STEPS /\ r.current_step \in 1..MAX_STEPS
  BY <1>2 DEF OnboardingTypeOK, Instance
<1>10. /\ Decided(i, s)' /\ (Approved(i, s)' <=> desk[c].verdict = "approved")
       /\ \A k \in 1..MAX_STEPS \ {s} : /\ Decided(i, k)' <=> Decided(i, k)
                                        /\ Approved(i, k)' <=> Approved(i, k)
  BY <1>4, <1>5 DEF Decided, Approved
<1>11. \A k \in 1..MAX_STEPS : Approved(i, k) => Decided(i, k)
  BY <1>2, DecisionForms DEF Approved, Decided, OnboardingTypeOK
<1>12. Standing(i) /\ DecisionInv(c)
  BY <1>2 DEF ReviewsInv
<1>13. /\ r.status # "none" /\ s <= r.current_step /\ MayDecide(c)
  BY <1>1, <1>12 DEF DecisionInv
<1>14. r.status = "in_progress" /\ s = r.current_step
  BY <1>1, <1>2, <1>9, <1>11, <1>12, <1>13 DEF Standing
<1>15. Standing(i)'
  <2>1. Moving(i)'
    BY <1>3 DEF Moving
  <2>2. approval_chain_instances'[i] = r
    BY <1>1
  <2>3. \A k \in 1..MAX_STEPS : (k < r.current_step => Approved(i, k)') /\ (k > r.current_step => ~Decided(i, k)')
    BY <1>2, <1>9, <1>10, <1>12, <1>14 DEF Standing
  <2>4. r.steps >= 1 /\ r.current_step <= r.steps
    BY <1>12, <1>14 DEF Standing
  <2> QED  BY <2>1, <2>2, <2>3, <2>4, <1>14 DEF Standing
<1>16. ByTwo(i)'
  <2>1. \A k \in 1..MAX_STEPS : Decided(i, k) => approval_chain_decisions[i][k].by # desk[c].by
    <3>1. desk[c].by \notin Approvers(i)
      BY <1>13 DEF MayDecide
    <3> QED  BY <3>1, <1>2 DEF Approvers
  <2>2. ByTwo(i)
    BY <1>2 DEF ReviewsInv
  <2>3. approval_chain_decisions'[i][s].by = desk[c].by
    BY <1>4, <1>5
  <2> QED  BY <1>2, <1>5, <1>10, <2>1, <2>2, <2>3 DEF ByTwo
<1>17. \A e \in Desks : ~(desk[e].op = "move" /\ desk[e].review = i)
  <2> SUFFICES ASSUME NEW e \in Desks, desk[e].op = "move", desk[e].review = i PROVE FALSE
    OBVIOUS
  <2>1. DecisionInv(e)
    BY DEF ReviewsInv
  <2>2. Decided(i, desk[e].step) /\ desk[e].step = r.current_step
    BY <2>1 DEF DecisionInv, OnReview
  <2> QED  BY <1>1, <1>14, <2>2
<1>18. ASSUME NEW d \in Desks PROVE DecisionInv(d)'
  <2>1. CASE d = c
    <3>1. approval_chain_decisions'[i][s].verdict = desk'[c].verdict
      BY <1>3, <1>4, <1>5
    <3>2. \A e \in Desks \ {c} : ~(desk'[e].op = "move" /\ desk'[e].review = i)
      BY <1>3, <1>17
    <3>3. approval_chain_instances'[i] = r
      BY <1>1
    <3>4. s \in Nat
      BY <1>2
    <3> QED  BY <1>3, <1>10, <1>14, <2>1, <3>1, <3>2, <3>3, <3>4 DEF DecisionInv, InProgress
  <2>2. CASE d # c /\ ~OnReview(d)
    BY <1>3, <2>2 DEF DecisionInv, OnReview
  <2>3. CASE d # c /\ OnReview(d) /\ desk[d].review # i
    BY <1>8, <2>3
  <2>4. CASE d # c /\ OnReview(d) /\ desk[d].review = i
    <3>1. desk'[d] = desk[d] /\ desk[d].op # "move" /\ approval_chain_instances'[i] = r
      BY <1>1, <1>3, <1>17, <2>4
    <3>2. DecisionInv(d)
      BY DEF ReviewsInv
    <3>3. desk[d].step \in 1..MAX_STEPS /\ desk[d].step <= r.current_step
      BY <1>8, <2>4, <3>2 DEF DecisionInv
    <3>4. Decided(i, desk[d].step)'
      <4>1. CASE desk[d].step = s
        BY <4>1, <1>10, <3>1
      <4>2. CASE desk[d].step # s
        <5>1. desk[d].step < r.current_step
          BY <1>9, <1>14, <3>3, <4>2
        <5>2. Approved(i, desk[d].step)
          BY <1>12, <1>13, <3>3, <5>1 DEF Standing
        <5> QED  BY <1>10, <1>11, <3>1, <3>3, <4>2, <5>2
      <4> QED  BY <4>1, <4>2
    <3> QED  BY <1>13, <2>4, <3>1, <3>3, <3>4 DEF DecisionInv
  <2> QED  BY <2>1, <2>2, <2>3, <2>4
<1> QED  BY <1>6, <1>7, <1>8, <1>15, <1>16, <1>18 DEF ReviewsInv

(* The request that stored a decision moves its review: what this leaves to show. *)
LEMMA MoveReview ==
  ASSUME OnboardingInv, NEW c \in Desks, NEW i \in Reviews, NEW r \in Instance,
         NEW work \in Work,
         desk[c].op = "move", desk[c].review = i, work.op \in {"none", "finalise"},
         desk' = [desk EXCEPT ![c] = work],
         approval_chain_instances' = [approval_chain_instances EXCEPT ![i] = r],
         UNCHANGED <<kyc_status, kyc_documents, approval_chains, approval_chain_decisions,
                     kycFrom, cutShort, breaks>>,
         r.status # "none",
         r.steps = approval_chain_instances[i].steps,
         r.current_step >= approval_chain_instances[i].current_step,
         (i \in Reviews /\ approval_chain_instances'[i] = r
            /\ \A k \in 1..MAX_STEPS : /\ Decided(i, k)' <=> Decided(i, k)
                                       /\ Approved(i, k)' <=> Approved(i, k)) => Standing(i)'
  PROVE  OnboardingInv'
<1> USE OnboardingAssumption DEF OnboardingInv
<1>1. /\ desk' \in [Desks -> Work] /\ desk'[c] = work
      /\ \A d \in Desks \ {c} : desk'[d] = desk[d]
  BY OthersAtDesks
<1>2. /\ approval_chain_instances' \in [Reviews -> Instance]
      /\ approval_chain_instances'[i] = r
      /\ \A j \in Reviews \ {i} : approval_chain_instances'[j] = approval_chain_instances[j]
  BY DEF OnboardingTypeOK
<1>3. OnboardingTypeOK'
  BY <1>1, <1>2 DEF OnboardingTypeOK
<1>4. KycInv'
  BY <1>1, KycStill DEF OnDocuments
<1>5. /\ \A j \in Reviews \ {i} : ByTwo(j)' /\ Standing(j)'
      /\ \A d \in Desks \ {c} : OnReview(d) /\ desk[d].review # i => DecisionInv(d)'
      /\ \A d \in Desks \ {c} : OnReview(d) => desk[d].step \in 1..MAX_STEPS
  BY <1>1, <1>2, OtherReviews
<1>6. \A j, k : /\ Decided(j, k)' <=> Decided(j, k)
                /\ Approved(j, k)' <=> Approved(j, k)
  BY DEF Decided, Approved
<1>7. Standing(i)'
  BY <1>2, <1>6
<1>8. ByTwo(i)'
  BY <1>6 DEF ByTwo, ReviewsInv
<1>9. ASSUME NEW d \in Desks PROVE DecisionInv(d)'
  <2>1. CASE d = c
    BY <1>1, <2>1 DEF DecisionInv, OnReview
  <2>2. CASE d # c /\ ~OnReview(d)
    BY <1>1, <2>2 DEF DecisionInv, OnReview
  <2>3. CASE d # c /\ OnReview(d) /\ desk[d].review # i
    BY <1>5, <2>3
  <2>4. CASE d # c /\ OnReview(d) /\ desk[d].review = i
    <3>1. desk'[d] = desk[d] /\ desk[d].step \in 1..MAX_STEPS
      BY <1>1, <1>5, <2>4
    <3>2. DecisionInv(d) /\ DecisionInv(c)
      BY DEF ReviewsInv
    <3>3. desk[d].op # "move"
      BY <2>4, <3>2 DEF DecisionInv, OnReview
    <3>4. MayDecide(d)' <=> MayDecide(d)
      BY <3>1 DEF MayDecide, Approvers, Decided
    <3>5. desk[d].step <= r.current_step
      <4>1. desk[d].step <= approval_chain_instances[i].current_step
        BY <2>4, <3>2 DEF DecisionInv
      <4>2. approval_chain_instances[i].current_step \in Nat /\ r.current_step \in Nat
        BY DEF OnboardingTypeOK, Instance
      <4> QED  BY <3>1, <4>1, <4>2
    <3>6. desk[d].op = "insert" /\ ~Decided(i, desk[d].step) => MayDecide(d)
      BY <2>4, <3>2 DEF DecisionInv
    <3> QED  BY <1>2, <1>6, <2>4, <3>1, <3>3, <3>4, <3>5, <3>6 DEF DecisionInv
  <2> QED  BY <2>1, <2>2, <2>3, <2>4
<1> QED  BY <1>3, <1>4, <1>5, <1>7, <1>8, <1>9 DEF ReviewsInv

(* Where the review of a stored decision stands. *)
LEMMA BeforeMove ==
  ASSUME OnboardingInv, NEW c \in Desks, desk[c].op = "move"
  PROVE  LET i == desk[c].review
             r == approval_chain_instances[i]
         IN /\ i \in Reviews /\ r \in Instance /\ Standing(i)
            /\ r.status = "in_progress" /\ desk[c].step = r.current_step
            /\ r.current_step \in 1..MAX_STEPS /\ r.steps \in 1..MAX_STEPS
            /\ r.current_step <= r.steps
            /\ Decided(i, r.current_step)
            /\ Approved(i, r.current_step) <=> desk[c].verdict = "approved"
            /\ desk[c].verdict \in Verdicts
<1> USE DEF OnboardingInv
<1>1. desk[c].review \in Reviews /\ desk[c].verdict \in Verdicts
  BY WorkForms DEF OnboardingTypeOK
<1> PICK i \in Reviews : desk[c].review = i
  BY <1>1
<1>2. approval_chain_instances[i] \in Instance
  BY DEF OnboardingTypeOK
<1>3. Standing(i) /\ DecisionInv(c)
  BY DEF ReviewsInv
<1>4. /\ InProgress(i) /\ Decided(i, desk[c].step)
      /\ desk[c].step = approval_chain_instances[i].current_step
      /\ approval_chain_decisions[i][desk[c].step].verdict = desk[c].verdict
  BY <1>3 DEF DecisionInv, OnReview
<1>5. /\ approval_chain_instances[i].steps >= 1
      /\ approval_chain_instances[i].current_step <= approval_chain_instances[i].steps
  BY <1>3, <1>4 DEF Standing, InProgress
<1> QED  BY <1>1, <1>2, <1>3, <1>4, <1>5, OnboardingAssumption DEF InProgress, Approved, Instance

LEMMA HaltStep == ASSUME OnboardingInv, NEW c \in Desks, HaltReview(c) PROVE OnboardingInv'
<1>1. desk[c].op = "move" /\ desk[c].verdict = "rejected"
  BY DEF HaltReview
<1> PICK i : desk[c].review = i
  OBVIOUS
<1> PICK r : approval_chain_instances[i] = r
  OBVIOUS
<1>2. /\ i \in Reviews /\ r \in Instance /\ Standing(i)
      /\ r.status = "in_progress" /\ r.current_step \in 1..MAX_STEPS
      /\ r.steps \in 1..MAX_STEPS /\ r.current_step <= r.steps
      /\ Decided(i, r.current_step) /\ ~Approved(i, r.current_step)
  BY <1>1, BeforeMove
<1> DEFINE new == [r EXCEPT !.status = "rejected"]
<1>3. new \in Instance /\ new.status = "rejected" /\ new.steps = r.steps /\ new.current_step = r.current_step
  BY <1>2 DEF Instance
<1>4. approval_chain_instances' = [approval_chain_instances EXCEPT ![i] = new]
  BY DEF HaltReview, SetReview
<1> HIDE DEF new
<1>5. ASSUME approval_chain_instances'[i] = new,
             \A k \in 1..MAX_STEPS : /\ Decided(i, k)' <=> Decided(i, k)
                                     /\ Approved(i, k)' <=> Approved(i, k)
      PROVE  Standing(i)'
  BY <1>2, <1>3, <1>5 DEF Standing
<1>6. desk' = [desk EXCEPT ![c] = NoWork]
  BY DEF HaltReview, Leave
<1>7. r.current_step >= r.current_step
  BY <1>2
<1> QED  BY <1>1, <1>2, <1>3, <1>4, <1>5, <1>6, <1>7, NoWorkWorks, MoveReview DEF HaltReview

LEMMA AdvanceStep == ASSUME OnboardingInv, NEW c \in Desks, AdvanceReview(c) PROVE OnboardingInv'
<1>1. desk[c].op = "move" /\ desk[c].verdict = "approved" /\ ~IsLastStep(c)
  BY DEF AdvanceReview
<1> PICK i : desk[c].review = i
  OBVIOUS
<1> PICK r : approval_chain_instances[i] = r
  OBVIOUS
<1>2. /\ i \in Reviews /\ r \in Instance /\ Standing(i)
      /\ r.status = "in_progress" /\ r.current_step \in 1..MAX_STEPS
      /\ r.steps \in 1..MAX_STEPS /\ r.current_step < r.steps
      /\ Approved(i, r.current_step)
  BY <1>1, BeforeMove DEF IsLastStep
<1> DEFINE new == [r EXCEPT !.current_step = r.current_step + 1]
<1>3. /\ new \in Instance /\ new.status = "in_progress" /\ new.steps = r.steps
      /\ new.current_step = r.current_step + 1
  BY <1>2, OnboardingAssumption DEF Instance
<1>4. approval_chain_instances' = [approval_chain_instances EXCEPT ![i] = new]
  BY DEF AdvanceReview
<1> HIDE DEF new
<1>5. ASSUME approval_chain_instances'[i] = new,
             \A k \in 1..MAX_STEPS : /\ Decided(i, k)' <=> Decided(i, k)
                                     /\ Approved(i, k)' <=> Approved(i, k)
      PROVE  Standing(i)'
  <2>1. \A k \in 1..MAX_STEPS : (k < r.current_step => Approved(i, k)) /\ (k > r.current_step => ~Decided(i, k))
    BY <1>2 DEF Standing
  <2>2. \A k \in 1..MAX_STEPS : (k < new.current_step => Approved(i, k)') /\ (k > new.current_step => ~Decided(i, k)')
    BY <1>2, <1>3, <1>5, <2>1
  <2>3. new.current_step \in 1..MAX_STEPS /\ ~Decided(i, new.current_step)'
    BY <1>2, <1>3, <1>5, <2>1, OnboardingAssumption
  <2>4. new.steps >= 1 /\ new.current_step <= new.steps
    BY <1>2, <1>3
  <2> QED  BY <1>3, <1>5, <2>2, <2>3, <2>4 DEF Standing
<1>6. desk' = [desk EXCEPT ![c] = NoWork]
  BY DEF AdvanceReview, Leave
<1>7. new.current_step >= r.current_step
  BY <1>2, <1>3
<1> QED  BY <1>1, <1>2, <1>3, <1>4, <1>5, <1>6, <1>7, NoWorkWorks, MoveReview DEF AdvanceReview

LEMMA ApproveReviewStep ==
  ASSUME OnboardingInv, NEW c \in Desks, ApproveReview(c) PROVE OnboardingInv'
<1>1. desk[c].op = "move" /\ desk[c].verdict = "approved" /\ IsLastStep(c)
  BY DEF ApproveReview
<1> PICK i : desk[c].review = i
  OBVIOUS
<1> PICK r : approval_chain_instances[i] = r
  OBVIOUS
<1>2. /\ i \in Reviews /\ r \in Instance /\ Standing(i)
      /\ r.status = "in_progress" /\ r.current_step \in 1..MAX_STEPS
      /\ r.steps \in 1..MAX_STEPS /\ r.current_step = r.steps
      /\ Approved(i, r.current_step)
  BY <1>1, BeforeMove DEF IsLastStep
<1> DEFINE new == [r EXCEPT !.status = "approved"]
           work == [op |-> "finalise"]
<1>3. new \in Instance /\ new.status = "approved" /\ new.steps = r.steps /\ new.current_step = r.current_step
  BY <1>2 DEF Instance
<1>4. approval_chain_instances' = [approval_chain_instances EXCEPT ![i] = new]
  BY DEF ApproveReview, SetReview
<1>5. work \in Work /\ work.op = "finalise" /\ desk' = [desk EXCEPT ![c] = work]
  BY DEF ApproveReview, Work
<1> HIDE DEF new, work
<1>6. ASSUME approval_chain_instances'[i] = new,
             \A k \in 1..MAX_STEPS : /\ Decided(i, k)' <=> Decided(i, k)
                                     /\ Approved(i, k)' <=> Approved(i, k)
      PROVE  Standing(i)'
  BY <1>2, <1>3, <1>6 DEF Standing
<1>7. new.current_step >= r.current_step
  BY <1>2, <1>3
<1> QED  BY ZenonT(40), <1>1, <1>2, <1>3, <1>4, <1>5, <1>6, <1>7, MoveReview DEF ApproveReview

LEMMA OnboardingStutter ==
  ASSUME OnboardingInv, UNCHANGED onboardingVars PROVE OnboardingInv'
<1> USE DEF OnboardingInv, onboardingVars
<1>1. OnboardingTypeOK'
  BY DEF OnboardingTypeOK
<1>2. KycInv'
  BY KycStill DEF OnDocuments
<1>3. ReviewsInv'
  BY ReviewsStill
<1> QED  BY <1>1, <1>2, <1>3

LEMMA OnboardingStep == ASSUME OnboardingInv, OnboardingNext PROVE OnboardingInv'
<1>1. ASSUME NEW c \in Desks, DocumentStep(c) PROVE OnboardingInv'
  BY <1>1, TallyStep, SettleStep, ReviewDocumentStep DEF DocumentStep
<1>2. ASSUME NEW c \in Desks, ChainStep(c) PROVE OnboardingInv'
  BY <1>2, CheckApproverStep, InsertDecisionStep, HaltStep, AdvanceStep, ApproveReviewStep,
     ApproveImporterStep, GiveUpStep, StartReviewStep, InsertReviewStep, DecideStep
  DEF ChainStep
<1> QED  BY <1>1, <1>2, BreakStep, UploadStep, CreateChainStep, OverrideStep DEF OnboardingNext

LEMMA OnboardingInvariance == OnboardingSpec => []OnboardingInv
BY OnboardingInitially, OnboardingStep, OnboardingStutter, PTL DEF OnboardingSpec

LEMMA ReviewsTell == ASSUME OnboardingInv PROVE ReviewTellsDecisions
<1> USE OnboardingAssumption DEF OnboardingInv
<1> SUFFICES ASSUME NEW i \in Reviews
             PROVE
    LET r == approval_chain_instances[i]
        moving == i \in cutShort \/ \E c \in Desks : desk[c].op = "move" /\ desk[c].review = i
        made == {k \in 1..MAX_STEPS : Decided(i, k)}
    IN /\ \A k, n \in made :
            k # n => approval_chain_decisions[i][k].by # approval_chain_decisions[i][n].by
       /\ \A k \in made, n \in 1..MAX_STEPS : n < k => Decided(i, n) /\ Approved(i, n)
       /\ r.status = "in_progress" =>
            /\ \A k \in 1..MAX_STEPS : k < r.current_step => Approved(i, k)
            /\ \A k \in made : k <= r.current_step
            /\ r.current_step \in made => moving
       /\ r.status = "approved" => \A k \in 1..r.steps : Approved(i, k)
       /\ r.status = "rejected" => \E k \in made : ~Approved(i, k)
  BY DEF ReviewTellsDecisions
<1> PICK r : approval_chain_instances[i] = r
  OBVIOUS
<1>1. /\ r.status \in {"none", "in_progress", "approved", "rejected"}
      /\ r.steps \in 0..MAX_STEPS /\ r.current_step \in 1..MAX_STEPS
  BY DEF OnboardingTypeOK, Instance
<1>2. ByTwo(i) /\ Standing(i)
  BY DEF ReviewsInv
<1>3. \A k \in 1..MAX_STEPS : Approved(i, k) => Decided(i, k)
  BY DecisionForms DEF Approved, Decided, OnboardingTypeOK
<1>4. ASSUME NEW k \in 1..MAX_STEPS, Decided(i, k)
      PROVE  /\ r.status # "none" /\ k <= r.current_step
             /\ \A n \in 1..MAX_STEPS : n < k => Decided(i, n) /\ Approved(i, n)
  BY <1>1, <1>2, <1>3, <1>4 DEF Standing
<1>5. ASSUME NEW k \in 1..MAX_STEPS, r.status # "none", k < r.current_step PROVE Approved(i, k)
  BY <1>2, <1>5 DEF Standing
<1>6. ASSUME r.status = "approved", NEW k \in 1..r.steps PROVE Approved(i, k)
  BY <1>1, <1>2, <1>6 DEF Standing
<1>7. r.status = "rejected" => Decided(i, r.current_step) /\ ~Approved(i, r.current_step)
  BY <1>2 DEF Standing
<1>8. r.status = "in_progress" /\ Decided(i, r.current_step) => Moving(i)
  BY <1>2 DEF Standing
<1>9. \A k, n \in {m \in 1..MAX_STEPS : Decided(i, m)} :
        k # n => approval_chain_decisions[i][k].by # approval_chain_decisions[i][n].by
  BY <1>2 DEF ByTwo
<1> QED  BY <1>1, <1>4, <1>5, <1>6, <1>7, <1>8, <1>9 DEF Moving

LEMMA KycTells == ASSUME OnboardingInv PROVE KycTellsDocuments
BY DEF OnboardingInv, KycInv, StatusInv, Fits, KycTellsDocuments

(* Documents, reviews, decisions and requests keep to their types. *)
THEOREM OnboardingIsTyped == OnboardingSpec => []OnboardingTypeOK
BY OnboardingInvariance, PTL DEF OnboardingInv

(* However decisions of any number of officers interleave, a review is where   *)
(* its decisions put it, and no officer decides two of its steps               *)
(* (routes/importers.ts, POST /admin/:id/review/decision).                     *)
THEOREM DecisionsInOrder == OnboardingSpec => []ReviewTellsDecisions
BY OnboardingInvariance, ReviewsTell, PTL

(* A status that came from documents alone is the one the documents give       *)
(* (routes/kyc.ts, POST /:id/kyc/:docId/review).                               *)
THEOREM StatusFromDocuments == OnboardingSpec => []KycTellsDocuments
BY OnboardingInvariance, KycTells, PTL

-----------------------------------------------------------------------------

(* An escalation that is not on record yet names who has the flag now, unless  *)
(* the flag changed hands.                                                     *)
RecordInv(j) ==
  checker[j].at = "record" =>
    \/ flags[checker[j].flag].assigned_to = checker[j].target
    \/ checker[j].disturbed

(* Escalations of a flag are on record or about to be. *)
CountInv(f) ==
  /\ IsFiniteSet(Recording(f))
  /\ f \notin lost => escalated[f] = Len(history[f]) + Cardinality(Recording(f))

RowsNameBoth(f) ==
  \A k \in 1..Len(history[f]) :
    history[f][k].previous = history[f][k].new \/ history[f][k].disturbed

EscalationInv ==
  /\ FlagsTypeOK
  /\ \A j \in Checkers : RecordInv(j)
  /\ \A f \in Flags : CountInv(f) /\ RowsNameBoth(f)

LEMMA FlagsInitially == FlagsInit => EscalationInv
<1> SUFFICES ASSUME FlagsInit PROVE EscalationInv
  OBVIOUS
<1> USE ComplianceFlagsAssumption
<1>1. FlagsTypeOK
  <2>1. DOMAIN rules \subseteq Rules /\ rules \in [DOMAIN rules -> Rule]
    BY DEF FlagsInit, Rule
  <2>2. flags \in [Flags -> Flag]
    BY DEF FlagsInit, Flag
  <2>3. checker \in [Checkers -> Checker] /\ \A j \in Checkers : checker[j].at = "rest"
    BY DEF FlagsInit, Checker, Resting
  <2>4. /\ history \in [Flags -> Seq(Row)]
        /\ \A f \in Flags : Len(history[f]) = 0
    BY DEF FlagsInit
  <2>5. /\ age \in [Flags -> 0..MAX_AGE] /\ escalated \in [Flags -> Nat]
        /\ lost \subseteq Flags /\ acts \in 0..MAX_ACTS
    BY DEF FlagsInit
  <2> QED  BY <2>1, <2>2, <2>3, <2>4, <2>5 DEF FlagsTypeOK
<1>2. \A f \in Flags : Recording(f) = {} /\ Len(history[f]) = 0 /\ escalated[f] = 0
  BY DEF FlagsInit, Recording, Resting
<1>3. \A j \in Checkers : checker[j].at = "rest"
  BY DEF FlagsInit, Resting
<1>4. ASSUME NEW f \in Flags PROVE CountInv(f) /\ RowsNameBoth(f)
  <2>1. IsFiniteSet(Recording(f)) /\ Cardinality(Recording(f)) = 0
    BY <1>2, FS_EmptySet
  <2> QED  BY <1>2, <2>1 DEF CountInv, RowsNameBoth
<1> QED  BY <1>1, <1>3, <1>4 DEF EscalationInv, RecordInv

LEMMA CheckerForms ==
  ASSUME NEW c \in Checker
  PROVE  /\ c.at \in {"rest", "rule", "flag", "record"}
         /\ c.at \in {"rule", "flag", "record"} => c.readings \in SUBSET Reading
         /\ c.at \in {"flag", "record"} =>
              c.rule \in Rules /\ c.target \in Staff /\ c.flags \in SUBSET Flags
         /\ c.at = "record" =>
              /\ c.flag \in Flags /\ c.disturbed \in BOOLEAN
              /\ [c EXCEPT !.disturbed = TRUE] \in Checker
              /\ [c EXCEPT !.disturbed = TRUE].at = "record"
              /\ [c EXCEPT !.disturbed = TRUE].flag = c.flag
              /\ [c EXCEPT !.disturbed = TRUE].disturbed
<1>1. CASE c \in [at : {"rest"}]
  BY <1>1
<1>2. CASE c \in [at : {"rule"}, readings : SUBSET Reading]
  BY <1>2
<1>3. CASE c \in [at : {"flag"}, readings : SUBSET Reading, rule : Rules, target : Staff,
                  flags : SUBSET Flags]
  BY <1>3
<1>4. CASE c \in [at : {"record"}, readings : SUBSET Reading, rule : Rules, target : Staff,
                  flags : SUBSET Flags, flag : Flags, disturbed : BOOLEAN]
  BY <1>4 DEF Checker
<1> QED  BY <1>1, <1>2, <1>3, <1>4 DEF Checker

(* The state of a run when a flag changes hands. *)
LEMMA HandsChange ==
  ASSUME FlagsTypeOK, NEW f \in Flags, NEW j \in Checkers
  PROVE  /\ Disturbed(f, j) \in Checker /\ Disturbed(f, j).at = checker[j].at
         /\ checker[j].at = "record" => Disturbed(f, j).flag = checker[j].flag
         /\ checker[j].at = "record" /\ checker[j].flag = f => Disturbed(f, j).disturbed
         /\ ~(checker[j].at = "record" /\ checker[j].flag = f) => Disturbed(f, j) = checker[j]
<1>1. checker[j] \in Checker
  BY DEF FlagsTypeOK
<1>2. CASE j \in Recording(f)
  BY <1>1, <1>2, CheckerForms DEF Disturbed, Recording
<1>3. CASE j \notin Recording(f)
  BY <1>1, <1>3 DEF Disturbed, Recording
<1> QED  BY <1>2, <1>3

LEMMA Acted == ASSUME FlagsTypeOK, Act PROVE acts' \in 0..MAX_ACTS
BY ComplianceFlagsAssumption DEF Act, FlagsTypeOK

(* What a change of the flags leaves of the types. *)
LEMMA FlagsTyped ==
  ASSUME FlagsTypeOK, flags' \in [Flags -> Flag], acts' \in 0..MAX_ACTS,
         checker' \in [Checkers -> Checker],
         \A j \in Checkers : checker'[j].at = "flag" => checker'[j].flags # {},
         escalated' \in [Flags -> Nat],
         UNCHANGED <<rules, age, history, lost>>
  PROVE  FlagsTypeOK'
BY DEF FlagsTypeOK

(* Neither runs nor history move. *)
LEMMA RunsStill ==
  ASSUME EscalationInv, FlagsTypeOK', UNCHANGED <<history, checker, escalated, lost>>,
         \A f \in Flags : flags'[f].assigned_to = flags[f].assigned_to
  PROVE  EscalationInv'
<1>1. \A f : Recording(f)' = Recording(f)
  BY DEF Recording
<1>2. \A j \in Checkers : checker[j].at = "record" => checker[j].flag \in Flags
  BY CheckerForms DEF EscalationInv, FlagsTypeOK
<1>3. ASSUME NEW f \in Flags PROVE CountInv(f)' /\ RowsNameBoth(f)'
  BY <1>1 DEF EscalationInv, CountInv, RowsNameBoth
<1>4. ASSUME NEW j \in Checkers PROVE RecordInv(j)'
  BY <1>2 DEF EscalationInv, RecordInv
<1> QED  BY <1>3, <1>4 DEF EscalationInv

LEMMA RaisedStep == ASSUME EscalationInv, NEW f \in Flags, FlagRaised(f) PROVE EscalationInv'
<1>1. flags' \in [Flags -> Flag] /\ \A g \in Flags : flags'[g].assigned_to = flags[g].assigned_to
  BY ZenonT(40) DEF FlagRaised, EscalationInv, FlagsTypeOK, Flag
<1>2. FlagsTypeOK'
  BY <1>1 DEF FlagRaised, EscalationInv, FlagsTypeOK
<1> QED  BY <1>1, <1>2, RunsStill DEF FlagRaised

LEMMA AgesStep == ASSUME EscalationInv, FlagAges PROVE EscalationInv'
<1>1. age' \in [Flags -> 0..MAX_AGE]
  BY ComplianceFlagsAssumption DEF FlagAges, EscalationInv, FlagsTypeOK
<1>2. FlagsTypeOK'
  BY <1>1 DEF FlagAges, EscalationInv, FlagsTypeOK
<1> QED  BY <1>2, RunsStill DEF FlagAges

LEMMA ResolveStep == ASSUME EscalationInv, NEW f \in Flags, ResolveFlag(f) PROVE EscalationInv'
<1>1. flags' \in [Flags -> Flag] /\ \A g \in Flags : flags'[g].assigned_to = flags[g].assigned_to
  BY DEF ResolveFlag, EscalationInv, FlagsTypeOK, Flag
<1>2. FlagsTypeOK'
  <2>1. FlagsTypeOK /\ acts' \in 0..MAX_ACTS
    BY Acted DEF ResolveFlag, EscalationInv
  <2>2. UNCHANGED <<rules, age, history, checker, escalated, lost>>
    BY DEF ResolveFlag
  <2>3. /\ checker \in [Checkers -> Checker] /\ escalated \in [Flags -> Nat]
        /\ \A j \in Checkers : checker[j].at = "flag" => checker[j].flags # {}
    BY <2>1 DEF FlagsTypeOK
  <2> QED  BY <1>1, <2>1, <2>2, <2>3, FlagsTyped
<1> QED  BY <1>1, <1>2, RunsStill DEF ResolveFlag

LEMMA SetCaseStep ==
  ASSUME EscalationInv, NEW f \in Flags,
         NEW case_status \in {"new", "investigating", "escalated", "resolved"},
         NEW priority \in 1..CRITICAL, SetCase(f, case_status, priority)
  PROVE  EscalationInv'
<1>1. flags' \in [Flags -> Flag] /\ \A g \in Flags : flags'[g].assigned_to = flags[g].assigned_to
  BY ZenonT(40) DEF SetCase, EscalationInv, FlagsTypeOK, Flag
<1>2. FlagsTypeOK'
  <2>1. FlagsTypeOK /\ acts' \in 0..MAX_ACTS
    BY Acted DEF SetCase, EscalationInv
  <2>2. UNCHANGED <<rules, age, history, checker, escalated, lost>>
    BY DEF SetCase
  <2>3. /\ checker \in [Checkers -> Checker] /\ escalated \in [Flags -> Nat]
        /\ \A j \in Checkers : checker[j].at = "flag" => checker[j].flags # {}
    BY <2>1 DEF FlagsTypeOK
  <2> QED  BY <1>1, <2>1, <2>2, <2>3, FlagsTyped
<1> QED  BY <1>1, <1>2, RunsStill DEF SetCase

LEMMA SetRuleStep ==
  ASSUME EscalationInv, NEW r \in Rules, NEW row \in Rule, SetRule(r, row)
  PROVE  EscalationInv'
<1>1. DOMAIN rules' = DOMAIN rules \cup {r} /\ rules' \in [DOMAIN rules' -> Rule]
  BY DEF SetRule, EscalationInv, FlagsTypeOK
<1>2. FlagsTypeOK'
  <2>1. acts' \in 0..MAX_ACTS /\ UNCHANGED <<flags, age, history, checker, escalated, lost>>
    BY Acted DEF SetRule, EscalationInv
  <2>2. \A f \in Flags : \A k \in 1..Len(history[f]) : history[f][k].rule \in DOMAIN rules'
    BY <1>1 DEF EscalationInv, FlagsTypeOK
  <2> QED  BY <1>1, <2>1, <2>2 DEF EscalationInv, FlagsTypeOK
<1> QED  BY <1>2, RunsStill DEF SetRule

LEMMA DeleteRuleStep ==
  ASSUME EscalationInv, NEW r \in Rules, DeleteRule(r) PROVE EscalationInv'
<1>1. DOMAIN rules' = DOMAIN rules \ {r} /\ rules' \in [DOMAIN rules' -> Rule]
  BY DEF DeleteRule, EscalationInv, FlagsTypeOK
<1>2. FlagsTypeOK'
  <2>1. acts' \in 0..MAX_ACTS
    BY Acted DEF DeleteRule, EscalationInv
  <2>2. \A f \in Flags : \A k \in 1..Len(history[f]) : history[f][k].rule \in DOMAIN rules'
    BY <1>1 DEF DeleteRule, Used, EscalationInv, FlagsTypeOK
  <2> QED  BY <1>1, <2>1, <2>2 DEF DeleteRule, EscalationInv, FlagsTypeOK
<1> QED  BY <1>2, RunsStill DEF DeleteRule

LEMMA AssignStep ==
  ASSUME EscalationInv, NEW f \in Flags, NEW u \in Staff, AssignFlag(f, u)
  PROVE  EscalationInv'
<1> USE DEF EscalationInv
<1>1. /\ flags' \in [Flags -> Flag]
      /\ \A g \in Flags \ {f} : flags'[g].assigned_to = flags[g].assigned_to
  <2>1. flags[f] \in Flag
    BY DEF FlagsTypeOK
  <2>2. flags' = [flags EXCEPT ![f].assigned_to = u, ![f].case_status = "investigating"]
    BY DEF AssignFlag
  <2> DEFINE given == [flags[f] EXCEPT !.assigned_to = u]
             new == [given EXCEPT !.case_status = "investigating"]
  <2>3. new \in Flag
    BY <2>1 DEF Flag
  <2>4. flags' = [flags EXCEPT ![f] = new]
    BY <2>2 DEF FlagsTypeOK
  <2> HIDE DEF new
  <2> QED  BY <2>3, <2>4 DEF FlagsTypeOK
<1>2. ASSUME NEW j \in Checkers
      PROVE  /\ checker'[j] \in Checker /\ checker'[j].at = checker[j].at
             /\ checker[j].at = "record" => checker'[j].flag = checker[j].flag
             /\ checker[j].at = "record" /\ checker[j].flag = f => checker'[j].disturbed
             /\ ~(checker[j].at = "record" /\ checker[j].flag = f) => checker'[j] = checker[j]
  <2>1. checker'[j] = Disturbed(f, j)
    BY DEF AssignFlag
  <2> QED  BY <2>1, HandsChange
<1>3. checker' \in [Checkers -> Checker]
  BY <1>2 DEF AssignFlag
<1>4. FlagsTypeOK'
  <2>1. acts' \in 0..MAX_ACTS
    BY Acted DEF AssignFlag
  <2>2. UNCHANGED <<rules, age, history, escalated, lost>>
    BY DEF AssignFlag
  <2>3. \A j \in Checkers : checker'[j].at = "flag" => checker'[j].flags # {}
    BY <1>2 DEF FlagsTypeOK
  <2>4. escalated \in [Flags -> Nat]
    BY DEF FlagsTypeOK
  <2> QED  BY <1>1, <1>3, <2>1, <2>2, <2>3, <2>4, FlagsTyped
<1>5. \A g \in Flags : Recording(g)' = Recording(g)
  BY <1>2 DEF Recording
<1>6. ASSUME NEW g \in Flags PROVE CountInv(g)' /\ RowsNameBoth(g)'
  BY <1>5 DEF CountInv, RowsNameBoth, AssignFlag
<1>7. ASSUME NEW j \in Checkers PROVE RecordInv(j)'
  <2>1. checker[j].at = "record" => checker[j].flag \in Flags
    BY CheckerForms DEF FlagsTypeOK
  <2> QED  BY <1>1, <1>2, <2>1 DEF RecordInv
<1> QED  BY <1>4, <1>6, <1>7

(* A run goes on, with its row of history written, refused or not due. *)
LEMMA RunStep ==
  ASSUME EscalationInv, NEW j \in Checkers, NEW c \in Checker,
         c.at # "record", c.at = "flag" => c.flags # {}, SetChecker(j, c),
         UNCHANGED <<rules, flags, age, escalated>>, acts' \in 0..MAX_ACTS,
         \/ checker[j].at # "record" /\ UNCHANGED <<history, lost>>
         \/ checker[j].at = "record" /\ history' = history /\ lost' = lost \cup {checker[j].flag}
  PROVE  EscalationInv'
<1> USE DEF EscalationInv
<1>1. /\ checker' \in [Checkers -> Checker] /\ checker'[j] = c
      /\ \A k \in Checkers \ {j} : checker'[k] = checker[k]
  BY DEF SetChecker, FlagsTypeOK
<1>2. checker[j].at = "record" => checker[j].flag \in Flags
  BY CheckerForms DEF FlagsTypeOK
<1>3. FlagsTypeOK'
  BY <1>1, <1>2 DEF FlagsTypeOK
<1>4. ASSUME NEW k \in Checkers PROVE RecordInv(k)'
  BY <1>1 DEF RecordInv
<1>5. ASSUME NEW f \in Flags PROVE CountInv(f)' /\ RowsNameBoth(f)'
  <2>1. RowsNameBoth(f)'
    BY DEF RowsNameBoth
  <2>2. Recording(f)' \subseteq Recording(f) /\ IsFiniteSet(Recording(f)')
    <3>1. Recording(f)' \subseteq Recording(f)
      BY <1>1 DEF Recording
    <3>2. IsFiniteSet(Recording(f))
      BY DEF CountInv
    <3> QED  BY <3>1, <3>2, FS_Subset
  <2>3. f \notin lost' => Recording(f)' = Recording(f) /\ f \notin lost
    BY <1>1 DEF Recording
  <2> QED  BY <2>1, <2>2, <2>3 DEF CountInv
<1> QED  BY <1>3, <1>4, <1>5

LEMMA RestingRests == Resting \in Checker /\ Resting.at = "rest"
BY DEF Resting, Checker

LEMMA NextRuleForms ==
  ASSUME NEW rest \in SUBSET Reading
  PROVE  NextRule(rest) \in Checker /\ NextRule(rest).at \in {"rest", "rule"}
BY RestingRests DEF NextRule, Checker

LEMMA NextFlagForms ==
  ASSUME FlagsTypeOK, NEW j \in Checkers, checker[j].at \in {"flag", "record"},
         NEW rest \in SUBSET Flags
  PROVE  /\ NextFlag(j, rest) \in Checker
         /\ NextFlag(j, rest).at # "record"
         /\ NextFlag(j, rest).at = "flag" => NextFlag(j, rest).flags # {}
<1>1. /\ checker[j].readings \in SUBSET Reading /\ checker[j].rule \in Rules
      /\ checker[j].target \in Staff
  BY CheckerForms DEF FlagsTypeOK
<1>2. CASE rest = {}
  BY <1>1, <1>2, NextRuleForms DEF NextFlag
<1>3. CASE rest # {}
  BY <1>1, <1>3 DEF NextFlag, Checker
<1> QED  BY <1>2, <1>3

LEMMA StartCheckStep ==
  ASSUME EscalationInv, NEW j \in Checkers, StartCheck(j) PROVE EscalationInv'
<1> DEFINE reading(r) == [rule |-> r, target |-> rules[r].target, after |-> rules[r].after]
           read == {reading(r) : r \in {s \in DOMAIN rules : rules[s].is_active}}
           c == [at |-> "rule", readings |-> read]
<1>1. ASSUME NEW r \in DOMAIN rules PROVE reading(r) \in Reading
  <2>1. r \in Rules /\ rules[r] \in Rule
    BY DEF EscalationInv, FlagsTypeOK
  <2> QED  BY <2>1 DEF Rule, Reading
<1>2. read \in SUBSET Reading
  BY <1>1
<1>3. SetChecker(j, c) /\ checker[j].at # "record"
  BY DEF StartCheck, Resting
<1> HIDE DEF read
<1>4. c \in Checker /\ c.at = "rule"
  BY <1>2 DEF Checker
<1> HIDE DEF c
<1> QED  BY <1>3, <1>4, RunStep DEF StartCheck, EscalationInv, FlagsTypeOK

LEMMA SelectStep ==
  ASSUME EscalationInv, NEW j \in Checkers, checker[j].at = "rule",
         NEW reading \in checker[j].readings, SelectFlags(j, reading)
  PROVE  EscalationInv'
<1> DEFINE due == ToEscalate(reading.after)
           rest == checker[j].readings \ {reading}
           c == IF due = {} \/ reading.target = "nobody" THEN NextRule(rest)
                ELSE [at |-> "flag", readings |-> rest, rule |-> reading.rule,
                      target |-> reading.target, flags |-> due]
<1>1. checker[j].readings \in SUBSET Reading
  BY CheckerForms DEF EscalationInv, FlagsTypeOK
<1>2. rest \in SUBSET Reading /\ reading \in Reading
  BY <1>1
<1>3. reading.rule \in Rules /\ reading.target \in Staff \cup {"nobody"}
  BY <1>2 DEF Reading
<1>4. due \in SUBSET Flags
  BY DEF ToEscalate
<1>5. SetChecker(j, c)
  BY DEF SelectFlags
<1>6. c \in Checker /\ c.at # "record" /\ (c.at = "flag" => c.flags # {})
  <2> HIDE DEF rest, due
  <2>1. CASE due = {} \/ reading.target = "nobody"
    BY <1>2, <2>1, NextRuleForms
  <2>2. CASE ~(due = {} \/ reading.target = "nobody")
    BY <1>2, <1>3, <1>4, <2>2 DEF Checker
  <2> QED  BY <2>1, <2>2
<1> HIDE DEF c
<1> QED  BY <1>5, <1>6, RunStep DEF SelectFlags, EscalationInv, FlagsTypeOK

LEMMA RecordFailsStep ==
  ASSUME EscalationInv, NEW j \in Checkers, RecordFails(j) PROVE EscalationInv'
<1>1. checker[j].at = "record" /\ checker[j].flags \in SUBSET Flags
  BY CheckerForms DEF RecordFails, EscalationInv, FlagsTypeOK
<1> PICK c : c = NextFlag(j, checker[j].flags)
  OBVIOUS
<1>2. c \in Checker /\ c.at # "record" /\ (c.at = "flag" => c.flags # {})
  BY <1>1, NextFlagForms DEF EscalationInv
<1>3. acts' \in 0..MAX_ACTS
  BY Acted DEF RecordFails, EscalationInv, FlagsTypeOK
<1> QED  BY <1>1, <1>2, <1>3, RunStep DEF RecordFails

LEMMA FlagFailsStep ==
  ASSUME EscalationInv, NEW j \in Checkers, NEW f \in Flags, FlagFails(j, f)
  PROVE  EscalationInv'
<1>1. checker[j].at = "flag" /\ checker[j].flags \ {f} \in SUBSET Flags
  BY CheckerForms DEF FlagFails, EscalationInv, FlagsTypeOK
<1> PICK c : c = NextFlag(j, checker[j].flags \ {f})
  OBVIOUS
<1>2. c \in Checker /\ c.at # "record" /\ (c.at = "flag" => c.flags # {})
  BY <1>1, NextFlagForms DEF EscalationInv
<1>3. acts' \in 0..MAX_ACTS
  BY Acted DEF FlagFails, EscalationInv
<1> QED  BY <1>1, <1>2, <1>3, RunStep DEF FlagFails

LEMMA CheckBreaksStep ==
  ASSUME EscalationInv, NEW j \in Checkers, CheckBreaks(j) PROVE EscalationInv'
<1>1. acts' \in 0..MAX_ACTS
  BY ComplianceFlagsAssumption DEF CheckBreaks, Act, EscalationInv, FlagsTypeOK
<1> QED  BY <1>1, RestingRests, RunStep DEF CheckBreaks

LEMMA RecordStep ==
  ASSUME EscalationInv, NEW j \in Checkers, RecordEscalation(j) PROVE EscalationInv'
<1> USE DEF EscalationInv
<1>1. checker[j] \in Checker /\ checker[j].at = "record" /\ checker[j].rule \in DOMAIN rules
  BY DEF RecordEscalation, FlagsTypeOK
<1>2. /\ checker[j].flags \in SUBSET Flags /\ checker[j].flag \in Flags /\ checker[j].rule \in Rules
      /\ checker[j].disturbed \in BOOLEAN /\ checker[j].target \in Staff
  BY <1>1, CheckerForms
<1> PICK f \in Flags : checker[j].flag = f
  BY <1>2
<1> PICK c : c = NextFlag(j, checker[j].flags)
  OBVIOUS
<1> PICK row : row = [rule |-> checker[j].rule, previous |-> PreviousAssignee(f),
                      new |-> checker[j].target, disturbed |-> checker[j].disturbed]
  OBVIOUS
<1>3. c \in Checker /\ c.at # "record" /\ (c.at = "flag" => c.flags # {})
  BY <1>1, <1>2, NextFlagForms
<1>4. /\ row \in Row /\ row.rule \in DOMAIN rules
      /\ row.previous = row.new \/ row.disturbed
  <2>1. flags[f].assigned_to \in Staff \cup {"nobody"}
    BY DEF FlagsTypeOK, Flag
  <2>2. row \in Row
    BY <1>2, <2>1 DEF Row, PreviousAssignee
  <2>3. flags[f].assigned_to = checker[j].target \/ checker[j].disturbed
    BY <1>1 DEF RecordInv
  <2> QED  BY <1>1, <2>2, <2>3 DEF PreviousAssignee
<1>5. /\ checker' \in [Checkers -> Checker] /\ checker'[j] = c
      /\ \A k \in Checkers \ {j} : checker'[k] = checker[k]
  BY <1>3 DEF RecordEscalation, SetChecker, FlagsTypeOK
<1>6. /\ history' = [history EXCEPT ![f] = Append(@, row)]
      /\ UNCHANGED <<rules, flags, age, escalated, lost, acts>>
  BY DEF RecordEscalation
<1>7. /\ history' \in [Flags -> Seq(Row)]
      /\ history'[f] = Append(history[f], row)
      /\ \A g \in Flags \ {f} : history'[g] = history[g]
  BY <1>4, <1>6 DEF FlagsTypeOK
<1>8. /\ Len(history'[f]) = Len(history[f]) + 1
      /\ \A k \in 1..Len(history[f]) : history'[f][k] = history[f][k]
      /\ history'[f][Len(history[f]) + 1] = row
      /\ Len(history[f]) \in Nat
  <2>1. history[f] \in Seq(Row) /\ row \in Row /\ history'[f] = Append(history[f], row)
    BY <1>4, <1>7 DEF FlagsTypeOK
  <2> QED  BY <2>1
<1>9. FlagsTypeOK'
  <2>1. ASSUME NEW g \in Flags, NEW k \in 1..Len(history'[g]) PROVE history'[g][k].rule \in DOMAIN rules
    <3>1. CASE g = f
      <4>1. \A i \in 1..Len(history[f]) : history[f][i].rule \in DOMAIN rules
        BY DEF FlagsTypeOK
      <4>2. k \in 1..Len(history[f]) \/ k = Len(history[f]) + 1
        BY <1>8, <3>1
      <4> QED  BY <1>4, <1>8, <3>1, <4>1, <4>2
    <3>2. CASE g # f
      BY <1>7, <3>2 DEF FlagsTypeOK
    <3> QED  BY <3>1, <3>2
  <2> QED  BY <1>3, <1>5, <1>6, <1>7, <2>1 DEF FlagsTypeOK
<1>10. ASSUME NEW k \in Checkers PROVE RecordInv(k)'
  BY <1>3, <1>5, <1>6 DEF RecordInv
<1>11. ASSUME NEW g \in Flags PROVE CountInv(g)' /\ RowsNameBoth(g)'
  <2>1. CASE g # f
    <3>1. Recording(g)' = Recording(g)
      BY <1>3, <1>5, <2>1 DEF Recording
    <3> QED  BY <1>6, <1>7, <2>1, <3>1 DEF CountInv, RowsNameBoth
  <2>2. CASE g = f
    <3>1. RowsNameBoth(f)'
      <4>1. ASSUME NEW k \in 1..(Len(history[f]) + 1)
            PROVE  k \in 1..Len(history[f]) \/ k = Len(history[f]) + 1
        BY <1>8
      <4>2. ASSUME NEW k \in 1..(Len(history[f]) + 1)
            PROVE  history'[f][k].previous = history'[f][k].new \/ history'[f][k].disturbed
        BY <1>4, <1>8, <4>1 DEF RowsNameBoth
      <4> QED  BY <1>8, <4>2 DEF RowsNameBoth
    <3>2. j \in Recording(f) /\ Recording(f)' = Recording(f) \ {j}
      BY <1>1, <1>3, <1>5 DEF Recording
    <3>3. IsFiniteSet(Recording(f))
      BY DEF CountInv
    <3>4. /\ IsFiniteSet(Recording(f)')
          /\ Cardinality(Recording(f)') = Cardinality(Recording(f)) - 1
          /\ Cardinality(Recording(f)) \in Nat
      BY <3>2, <3>3, FS_RemoveElement, FS_CardinalityType
    <3>5. f \notin lost => escalated[f] = Len(history[f]) + Cardinality(Recording(f))
      BY DEF CountInv
    <3> QED  BY <1>6, <1>8, <2>2, <3>1, <3>4, <3>5 DEF CountInv
  <2> QED  BY <2>1, <2>2
<1> QED  BY <1>9, <1>10, <1>11

LEMMA EscalateStep ==
  ASSUME EscalationInv, NEW j \in Checkers, NEW f \in Flags, EscalateFlag(j, f)
  PROVE  EscalationInv'
<1> USE DEF EscalationInv
<1>1. checker[j] \in Checker /\ checker[j].at = "flag" /\ f \in checker[j].flags
  BY DEF EscalateFlag, FlagsTypeOK
<1>2. /\ checker[j].readings \in SUBSET Reading /\ checker[j].rule \in Rules
      /\ checker[j].target \in Staff /\ checker[j].flags \in SUBSET Flags
  BY <1>1, CheckerForms
<1> PICK u \in Staff : checker[j].target = u
  BY <1>2
<1> PICK c : c = [at |-> "record", readings |-> checker[j].readings, rule |-> checker[j].rule,
                  target |-> u, flags |-> checker[j].flags \ {f}, flag |-> f,
                  disturbed |-> FALSE]
  OBVIOUS
<1>3. c \in Checker /\ c.at = "record" /\ c.flag = f /\ c.target = u
  BY <1>2 DEF Checker
<1>4. checker'[j] = c
  BY DEF EscalateFlag
<1>5. ASSUME NEW k \in Checkers \ {j}
      PROVE  /\ checker'[k] \in Checker /\ checker'[k].at = checker[k].at
             /\ checker[k].at = "record" => checker'[k].flag = checker[k].flag
             /\ checker[k].at = "record" /\ checker[k].flag = f => checker'[k].disturbed
             /\ ~(checker[k].at = "record" /\ checker[k].flag = f) => checker'[k] = checker[k]
  <2>1. checker'[k] = Disturbed(f, k)
    BY DEF EscalateFlag
  <2> QED  BY <2>1, HandsChange
<1>6. checker' \in [Checkers -> Checker]
  BY <1>3, <1>4, <1>5 DEF EscalateFlag
<1>7. /\ flags' \in [Flags -> Flag] /\ flags'[f].assigned_to = u
      /\ \A g \in Flags \ {f} : flags'[g] = flags[g]
  <2>1. flags[f] \in Flag /\ Bumped(flags[f].priority) \in 1..CRITICAL
    BY ComplianceFlagsAssumption DEF FlagsTypeOK, Flag, Bumped
  <2>2. flags' = [flags EXCEPT ![f].case_status = "escalated", ![f].assigned_to = u,
                               ![f].priority = Bumped(@)]
    BY DEF EscalateFlag
  <2> DEFINE stated == [flags[f] EXCEPT !.case_status = "escalated"]
             given == [stated EXCEPT !.assigned_to = u]
             new == [given EXCEPT !.priority = Bumped(flags[f].priority)]
  <2>3. given \in Flag /\ given.priority = flags[f].priority
    BY <2>1 DEF Flag
  <2>4. new \in Flag /\ new.assigned_to = u
    BY <2>1, <2>3 DEF Flag
  <2>5. flags' = [flags EXCEPT ![f] = new]
    BY <2>2 DEF FlagsTypeOK
  <2> HIDE DEF new
  <2> QED  BY <2>4, <2>5 DEF FlagsTypeOK
<1>8. /\ escalated' = [escalated EXCEPT ![f] = @ + 1]
      /\ UNCHANGED <<rules, age, history, lost, acts>>
  BY DEF EscalateFlag
<1>9. /\ escalated' \in [Flags -> Nat] /\ escalated'[f] = escalated[f] + 1
      /\ \A g \in Flags \ {f} : escalated'[g] = escalated[g]
  BY <1>8 DEF FlagsTypeOK
<1>10. FlagsTypeOK'
  <2>1. \A k \in Checkers : checker'[k].at = "flag" => checker'[k].flags # {}
    BY <1>3, <1>4, <1>5 DEF FlagsTypeOK
  <2>2. acts \in 0..MAX_ACTS
    BY DEF FlagsTypeOK
  <2> QED  BY <1>6, <1>7, <1>8, <1>9, <2>1, <2>2, FlagsTyped
<1>11. ASSUME NEW k \in Checkers PROVE RecordInv(k)'
  <2>1. CASE k = j
    BY <1>3, <1>4, <1>7, <2>1 DEF RecordInv
  <2>2. CASE k # j
    <3>1. checker[k].at = "record" => checker[k].flag \in Flags
      BY CheckerForms DEF FlagsTypeOK
    <3> QED  BY <1>5, <1>7, <2>2, <3>1 DEF RecordInv
  <2> QED  BY <2>1, <2>2
<1>12. ASSUME NEW g \in Flags PROVE CountInv(g)' /\ RowsNameBoth(g)'
  <2>0. RowsNameBoth(g)'
    BY <1>8 DEF RowsNameBoth
  <2>1. CASE g # f
    <3>1. Recording(g)' = Recording(g)
      BY <1>1, <1>3, <1>4, <1>5, <2>1 DEF Recording
    <3> QED  BY <1>8, <1>9, <2>0, <2>1, <3>1 DEF CountInv
  <2>2. CASE g = f
    <3>1. j \notin Recording(f) /\ Recording(f)' = Recording(f) \cup {j}
      BY <1>1, <1>3, <1>4, <1>5 DEF Recording
    <3>2. IsFiniteSet(Recording(f))
      BY DEF CountInv
    <3>3. /\ IsFiniteSet(Recording(f)')
          /\ Cardinality(Recording(f)') = Cardinality(Recording(f)) + 1
          /\ Cardinality(Recording(f)) \in Nat
      BY <3>1, <3>2, FS_AddElement, FS_CardinalityType
    <3>4. f \notin lost => escalated[f] = Len(history[f]) + Cardinality(Recording(f))
      BY DEF CountInv
    <3>5. Len(history[f]) \in Nat
      BY DEF FlagsTypeOK
    <3>6. lost' = lost /\ history' = history /\ escalated'[f] = escalated[f] + 1
      BY <1>8, <1>9
    <3>7. f \notin lost' => escalated'[f] = Len(history'[f]) + Cardinality(Recording(f)')
      BY <3>3, <3>4, <3>5, <3>6
    <3> QED  BY <2>0, <2>2, <3>3, <3>7 DEF CountInv
  <2> QED  BY <2>1, <2>2
<1> QED  BY <1>10, <1>11, <1>12

LEMMA FlagsStutter == ASSUME EscalationInv, UNCHANGED flagVars PROVE EscalationInv'
<1>1. FlagsTypeOK'
  BY DEF EscalationInv, FlagsTypeOK, flagVars
<1> QED  BY <1>1, RunsStill DEF flagVars

LEMMA FlagsStep == ASSUME EscalationInv, FlagsNext PROVE EscalationInv'
BY AgesStep, RaisedStep, ResolveStep, AssignStep, SetCaseStep, DeleteRuleStep, SetRuleStep,
   StartCheckStep, RecordStep, RecordFailsStep, FlagFailsStep, CheckBreaksStep, SelectStep,
   EscalateStep
DEF FlagsNext

LEMMA EscalationInvariance == FlagsSpec => []EscalationInv
BY FlagsInitially, FlagsStep, FlagsStutter, PTL DEF FlagsSpec

(* Flags, rules, rows and runs keep to their types. *)
THEOREM FlagsAreTyped == FlagsSpec => []FlagsTypeOK
BY EscalationInvariance, PTL DEF EscalationInv

(* However many runs of the job overlap, each escalation has one row of        *)
(* history, and the row does not name who had the flag before                  *)
(* (jobs/compliance-escalation.ts, checkAndEscalate).                          *)
THEOREM EscalationsOnRecord == FlagsSpec => []HistoryOfEscalations
<1>1. ASSUME EscalationInv PROVE HistoryOfEscalations
  BY <1>1 DEF EscalationInv, CountInv, RowsNameBoth, HistoryOfEscalations
<1> QED  BY <1>1, EscalationInvariance, PTL

-----------------------------------------------------------------------------

(* A step of one table is none, or a step of their own, for the others.      *)
LEMMA OfficeStep ==
  [OfficeNext]_officeVars =>
    /\ [OnboardingNext]_onboardingVars /\ [BondsNext]_bondVars
    /\ [RotationNext]_rotationVars /\ [FlagsNext]_flagVars
    /\ [HooksNext]_hookVars /\ [CacheNext]_cacheVars /\ [DripNext]_dripVars
<1>1. CASE OnOnboarding /\ OnboardingNext
  BY <1>1 DEF OnOnboarding
<1>2. CASE OnBonds /\ BondsNext
  BY <1>2 DEF OnBonds
<1>3. CASE OnRotation /\ RotationNext
  BY <1>3 DEF OnRotation
<1>4. CASE OnFlags /\ FlagsNext
  BY <1>4 DEF OnFlags
<1>5. CASE OnHooks /\ HooksNext
  BY <1>5 DEF OnHooks
<1>6. CASE OnCache /\ CacheNext
  BY <1>6 DEF OnCache
<1>7. CASE OnDrip /\ DripNext
  BY <1>7 DEF OnDrip
<1>8. CASE UNCHANGED officeVars
  BY <1>8 DEF officeVars
<1> QED
  BY <1>1, <1>2, <1>3, <1>4, <1>5, <1>6, <1>7, <1>8 DEF OfficeNext

(* The tables and requests of the office side by side, as the run checks      *)
(* them, stay typed.                                                         *)
THEOREM OfficeIsTyped == OfficeSpec => []OfficeTypeOK
<1> DEFINE Office == /\ OnboardingInv /\ BondsInv /\ RotationInv /\ EscalationInv
                     /\ HooksInv /\ CacheInv /\ DripTypeOK
<1>1. OfficeInit => Office
  BY OnboardingInitially, BondsInitially, RotationInitially, FlagsInitially, HooksInitially,
     CacheInitially, DripTypedInitially
  DEF OfficeInit
<1>2. Office /\ [OfficeNext]_officeVars => Office'
  <2> SUFFICES ASSUME Office, [OfficeNext]_officeVars PROVE Office'
    OBVIOUS
  <2>1. OnboardingInv' /\ BondsInv'
    BY OfficeStep, OnboardingStep, OnboardingStutter, BondsStep, BondsStutter
  <2>2. RotationInv' /\ EscalationInv'
    BY OfficeStep, RotationStep, FlagsStep, FlagsStutter
  <2>3. HooksInv' /\ CacheInv' /\ DripTypeOK'
    BY OfficeStep, HooksStep, HooksStutter, CacheStep, CacheStutter, DripTyped
  <2> QED
    BY <2>1, <2>2, <2>3
<1>3. Office => OfficeTypeOK
  BY DEF OfficeTypeOK, OnboardingInv, BondsInv, RotationInv, EscalationInv, HooksInv, CacheInv
<1> QED
  BY <1>1, <1>2, <1>3, PTL DEF OfficeSpec

=============================================================================
