---------------------------- MODULE OnboardingDrip ----------------------------
(***************************************************************************)
(* The onboarding drip of one importer: a sequence of steps that a         *)
(* scheduler walks on every instance, telling the importer of one step at  *)
(* a time or skipping it when he has done already what it is about         *)
(* (apps/api/src/services/onboarding-drip.ts, routes/onboarding.ts).  The  *)
(* loop over the other importers comes in between the statements of one.   *)
(***************************************************************************)
EXTENDS Naturals

CONSTANTS
  STEPS,        \* length of the sequence, by position: 3
  Delays,       \* delay_hours a step may have
  Walkers,      \* passes that may overlap, on one or more instances
  MAX_HOURS,    \* bound of the model: hours since the enrollment
  MAX_EDITS,    \* bound of the model: edits of the sequence
  MAX_SLIPS     \* bound of the model: errors of the database, ends of a process

ASSUME OnboardingDripAssumption ==
  /\ STEPS \in Nat \ {0} /\ Delays # {} /\ Delays \subseteq Nat
  /\ MAX_HOURS \in Nat /\ MAX_EDITS \in Nat /\ MAX_SLIPS \in Nat

VARIABLES
  onboarding_drip_steps,   \* table: delay_hours and is_active of each step
  enrollment,              \* row of onboarding_drip_enrollments
  hours,                   \* since it was made
  onboarding_drip_sends,   \* table: status of each step, or none
  told,                    \* notifications of each step that the importer has
  walker,                  \* what each pass has read and is doing
  benched,                 \* history: steps that have been inactive
  doubled,                 \* history: steps two passes had in hand at once, or that a
                           \* pass told of and broke off before it stored so
  edits, slips             \* bounds of the model

dripVars == <<onboarding_drip_steps, enrollment, hours, onboarding_drip_sends, told, walker,
              benched, doubled, edits, slips>>

-----------------------------------------------------------------------------

DripSteps == 1..STEPS

DripStep == [delay_hours : Delays, is_active : BOOLEAN]

Enrollment == [enrolled : BOOLEAN, completed : BOOLEAN, unsubscribed : BOOLEAN]

Home == [at |-> "home"]

(* steps is the sequence as the pass has read it: the delay of each active step. *)
Walker ==
  LET Sequences == UNION {[S -> Delays] : S \in SUBSET DripSteps}
  IN [at : {"home"}]
     \cup [at : {"list", "read", "complete"}, steps : Sequences]
     \cup [at : {"tell"}, step : DripSteps]
     \cup [at : {"record"}, step : DripSteps, status : {"sent", "skipped"}]

Goes(w, state) == walker' = [walker EXCEPT ![w] = state]

InHand(s) == {w \in Walkers : walker[w].at \in {"tell", "record"} /\ walker[w].step = s}

ToldAndRecording(s) ==
  \E w \in InHand(s) : walker[w].at = "record" /\ walker[w].status = "sent"

Resolved(s) == onboarding_drip_sends[s] # "none"

-----------------------------------------------------------------------------
(* Routes *)

(* enrollInOnboardingDrip, at sign-up *)
Enroll ==
  /\ ~enrollment.enrolled
  /\ enrollment' = [enrollment EXCEPT !.enrolled = TRUE]
  /\ UNCHANGED <<onboarding_drip_steps, hours, onboarding_drip_sends, told, walker, benched,
                 doubled, edits, slips>>

(* POST /onboarding/drip/unsubscribe, also of a sequence that is completed *)
UnsubscribeDrip ==
  /\ enrollment.enrolled /\ ~enrollment.unsubscribed
  /\ enrollment' = [enrollment EXCEPT !.unsubscribed = TRUE]
  /\ UNCHANGED <<onboarding_drip_steps, hours, onboarding_drip_sends, told, walker, benched,
                 doubled, edits, slips>>

(* PUT /onboarding/drip/steps/:stepKey *)
EditStep(s, row) ==
  /\ edits < MAX_EDITS /\ row # onboarding_drip_steps[s]
  /\ onboarding_drip_steps' = [onboarding_drip_steps EXCEPT ![s] = row]
  /\ benched' = IF row.is_active THEN benched ELSE benched \cup {s}
  /\ edits' = edits + 1
  /\ UNCHANGED <<enrollment, hours, onboarding_drip_sends, told, walker, doubled, slips>>

-----------------------------------------------------------------------------
(* processOnboardingDrip *)

ReadSteps(w) ==
  LET active == {s \in DripSteps : onboarding_drip_steps[s].is_active}
  IN /\ walker[w] = Home /\ active # {}
     /\ Goes(w, [at |-> "list",
                 steps |-> [s \in active |-> onboarding_drip_steps[s].delay_hours]])
     /\ UNCHANGED <<onboarding_drip_steps, enrollment, hours, onboarding_drip_sends, told,
                    benched, doubled, edits, slips>>

(* Enrollments that are open *)
ReadEnrollments(w) ==
  LET open == enrollment.enrolled /\ ~enrollment.completed /\ ~enrollment.unsubscribed
  IN /\ walker[w].at = "list"
     /\ Goes(w, IF open THEN [at |-> "read", steps |-> walker[w].steps] ELSE Home)
     /\ UNCHANGED <<onboarding_drip_steps, enrollment, hours, onboarding_drip_sends, told,
                    benched, doubled, edits, slips>>

(* Mutant of StepToTake: a step that is not due yet does not hold up the next. *)
AnyStepDue(steps, open) == {s \in open : hours >= steps[s]}

(* Steps are sequential: the first that is open, once it is due. *)
StepToTake(steps, open) ==
  {s \in open : hours >= steps[s] /\ \A other \in open : s <= other}

(* The rows are read, and what to do follows. *)
ReadSends(w) ==
  LET steps == walker[w].steps
      open == {s \in DOMAIN steps : ~Resolved(s)}
      take == StepToTake(steps, open)
  IN /\ walker[w].at = "read"
     /\ \/ open = {} /\ Goes(w, [at |-> "complete", steps |-> steps]) /\ UNCHANGED doubled
        \/ open # {} /\ take = {} /\ Goes(w, Home) /\ UNCHANGED doubled
        \/ \E s \in take :
             /\ Goes(w, [at |-> "tell", step |-> s])
             /\ doubled' = IF InHand(s) = {} THEN doubled ELSE doubled \cup {s}
     /\ UNCHANGED <<onboarding_drip_steps, enrollment, hours, onboarding_drip_sends, told,
                    benched, edits, slips>>

CompleteDrip(w) ==
  /\ walker[w].at = "complete"
  /\ enrollment' = [enrollment EXCEPT !.completed = TRUE]
  /\ Goes(w, Home)
  /\ UNCHANGED <<onboarding_drip_steps, hours, onboarding_drip_sends, told, benched, doubled,
                 edits, slips>>

(* hasCompletedAction: what the step is about is done; *)
SkipStep(w) ==
  /\ walker[w].at = "tell"
  /\ Goes(w, [at |-> "record", step |-> walker[w].step, status |-> "skipped"])
  /\ UNCHANGED <<onboarding_drip_steps, enrollment, hours, onboarding_drip_sends, told,
                 benched, doubled, edits, slips>>

(* ... or it is not, and the importer is told of it. *)
TellStep(w) ==
  /\ walker[w].at = "tell"
  /\ told' = [told EXCEPT ![walker[w].step] = @ + 1]
  /\ Goes(w, [at |-> "record", step |-> walker[w].step, status |-> "sent"])
  /\ UNCHANGED <<onboarding_drip_steps, enrollment, hours, onboarding_drip_sends, benched,
                 doubled, edits, slips>>

(* INSERT ... ON CONFLICT DO NOTHING *)
Kept(old, new) == IF old = "none" THEN new ELSE old

RecordSend(w) ==
  /\ walker[w].at = "record"
  /\ onboarding_drip_sends' =
       [onboarding_drip_sends EXCEPT ![walker[w].step] = Kept(@, walker[w].status)]
  /\ Goes(w, Home)
  /\ UNCHANGED <<onboarding_drip_steps, enrollment, hours, told, benched, doubled, edits,
                 slips>>

(* A statement fails and the next enrollment comes, or the process ends. *)
WalkBreaks(w) ==
  /\ walker[w] # Home
  /\ slips < MAX_SLIPS /\ slips' = slips + 1
  /\ doubled' = IF walker[w].at = "record" THEN doubled \cup {walker[w].step} ELSE doubled
  /\ Goes(w, Home)
  /\ UNCHANGED <<onboarding_drip_steps, enrollment, hours, onboarding_drip_sends, told,
                 benched, edits>>

HoursPass ==
  /\ enrollment.enrolled /\ hours < MAX_HOURS
  /\ hours' = hours + 1
  /\ UNCHANGED <<onboarding_drip_steps, enrollment, onboarding_drip_sends, told, walker,
                 benched, doubled, edits, slips>>

-----------------------------------------------------------------------------

DripInit ==
  /\ onboarding_drip_steps \in [DripSteps -> [delay_hours : Delays, is_active : {TRUE}]]
  /\ enrollment = [enrolled |-> FALSE, completed |-> FALSE, unsubscribed |-> FALSE]
  /\ hours = 0
  /\ onboarding_drip_sends = [s \in DripSteps |-> "none"]
  /\ told = [s \in DripSteps |-> 0]
  /\ walker = [w \in Walkers |-> Home]
  /\ benched = {} /\ doubled = {} /\ edits = 0 /\ slips = 0

Walk(w) ==
  \/ ReadSteps(w) \/ ReadEnrollments(w) \/ ReadSends(w) \/ CompleteDrip(w)
  \/ SkipStep(w) \/ TellStep(w) \/ RecordSend(w)

DripNext ==
  \/ Enroll \/ UnsubscribeDrip \/ HoursPass
  \/ \E s \in DripSteps, row \in DripStep : EditStep(s, row)
  \/ \E w \in Walkers : Walk(w) \/ WalkBreaks(w)

DripSpec == DripInit /\ [][DripNext]_dripVars

-----------------------------------------------------------------------------

DripTypeOK ==
  /\ onboarding_drip_steps \in [DripSteps -> DripStep]
  /\ enrollment \in Enrollment /\ hours \in 0..MAX_HOURS
  /\ onboarding_drip_sends \in [DripSteps -> {"none", "sent", "skipped"}]
  /\ told \in [DripSteps -> Nat] /\ walker \in [Walkers -> Walker]
  /\ benched \subseteq DripSteps /\ doubled \subseteq DripSteps

(* What the importer was told of follows from the rows and from the sequence.  *)
(* A step that is sent was told, and one that no two passes had in hand at     *)
(* once, nor any broke off, was told once if it is sent and never otherwise.   *)
(* Steps come in their order, and a sequence that is completed left none out,  *)
(* but for steps that were inactive for a while: delays may be edited and      *)
(* passes overlap as they like.                                               *)
DripTellsRows ==
  /\ \A s \in DripSteps :
       /\ onboarding_drip_sends[s] = "sent" => told[s] > 0
       /\ s \notin doubled =>
            told[s] = IF onboarding_drip_sends[s] = "sent" \/ ToldAndRecording(s)
                      THEN 1 ELSE 0
  /\ \A s \in DripSteps \ benched :
       /\ enrollment.completed => Resolved(s)
       /\ \A later \in DripSteps :
            later > s /\ (Resolved(later) \/ told[later] > 0) => Resolved(s)

=============================================================================
