---------------------------- MODULE ReportDelivery ----------------------------
(***************************************************************************)
(* Scheduled compliance reports of one surety: the routes that keep a      *)
(* schedule (apps/api/src/routes/compliance.ts), the run that makes the    *)
(* report of a period that closed, and the passes that mail a link to it   *)
(* (jobs/scheduled-compliance-reports.ts).  A pass claims deliveries for   *)
(* the length of a lease and may take longer, or die, at every await.      *)
(* Slots of the cadence are numbered; minutes are counted down in ticks.   *)
(***************************************************************************)
EXTENDS Naturals, Sequences

CONSTANTS
  Puts,                   \* edits of the schedule that may be in progress at once
  Passes,                 \* passes that may overlap, on one or more instances
  RECIPIENTS,             \* how many a report is mailed to
  MAX_DELIVERY_ATTEMPTS,  \* 5
  LEASE,                  \* ticks that a claim lasts: 10 minutes
  RETRY,                  \* retryDelayMs: ticks after each attempt, 5 minutes times 3^n
  MAX_SLOTS,              \* bound of the model: slots that pass
  MAX_REPORTS,            \* bound of the model: reports
  MAX_MISHAPS             \* bound of the model: errors of the database, ends of a process,
                          \* ticks that end the lease of a claim in use

ASSUME ReportDeliveryAssumption ==
  /\ RECIPIENTS \in Nat \ {0} /\ MAX_DELIVERY_ATTEMPTS \in Nat \ {0} /\ LEASE \in Nat \ {0}
  /\ RETRY \in [1..MAX_DELIVERY_ATTEMPTS -> Nat \ {0}]
  /\ MAX_SLOTS \in Nat /\ MAX_REPORTS \in Nat /\ MAX_MISHAPS \in Nat

VARIABLES
  slot,        \* slots of the cadence that have passed
  report_schedule,                \* row of compliance_report_schedules
  put,                            \* what each edit in progress has computed
  compliance_reports,             \* table: the slot each report is for, the newest last
  compliance_report_deliveries,   \* table: a row of each report and recipient
  links,                          \* links made for each delivery
  mailed,                         \* links that the recipient of each delivery has had
  pass,                           \* what each pass is doing
  strained,    \* history: deliveries whose claim outlived its lease, or whose
               \* pass broke off or was told of a failure after the mail was out
  slept,       \* history: slots that passed while the schedule was paused
  mishaps      \* bound of the model

reportVars == <<slot, report_schedule, put, compliance_reports, compliance_report_deliveries,
                links, mailed, pass, strained, slept, mishaps>>

-----------------------------------------------------------------------------

ReportSchedule == [status : {"none", "stored", "deleted"}, is_paused : BOOLEAN,
             next_run_at : 1..(MAX_SLOTS + 1)]

NoPut == [op |-> "none", next |-> 0]

(* next is 0 when the edit leaves next_run_at alone. *)
Put == [op : {"none", "pause", "resume", "cadence"}, next : 0..(MAX_SLOTS + 1)]

Delivery == [status : {"pending", "sent", "failed", "deleted"},
             attempts : 0..MAX_DELIVERY_ATTEMPTS, wait : Nat, link : Nat]

NewDelivery == [status |-> "pending", attempts |-> 0, wait |-> 0, link |-> 0]

NoPass == [at |-> "idle", todo |-> {}]

Deliveries == DOMAIN compliance_report_deliveries

Row(d) == compliance_report_deliveries[d]

Pending(d) == d \in Deliveries /\ Row(d).status = "pending"

PassAt(x, place) == pass[x].at = place

GotoStep(x, place) == pass' = [pass EXCEPT ![x].at = place]

LowestId(rows) == CHOOSE row \in rows : \A other \in rows : row.id <= other.id

(* The row a pass is at, with the attempts it has read. *)
AtHand(x) == LowestId(pass[x].todo)

LeaveDelivery(x) ==
  LET rest == pass[x].todo \ {AtHand(x)}
  IN pass' = [pass EXCEPT ![x] = IF rest = {} THEN NoPass ELSE [at |-> "link", todo |-> rest]]

Held(d) == \E x \in Passes : \E row \in pass[x].todo : row.id = d

Mishap == mishaps < MAX_MISHAPS /\ mishaps' = mishaps + 1

(* An UPDATE of a delivery finds nothing once the schedule is deleted. *)
UpdateDelivery(d, row) ==
  compliance_report_deliveries' =
    IF Row(d).status = "deleted" THEN compliance_report_deliveries
    ELSE [compliance_report_deliveries EXCEPT ![d] = row]

-----------------------------------------------------------------------------
(* Routes *)

(* computeNextRunAt: strictly after now *)
NextSlot == slot + 1

(* POST /report-schedules *)
CreateReportSchedule ==
  /\ report_schedule.status = "none"
  /\ report_schedule' = [status |-> "stored", is_paused |-> FALSE, next_run_at |-> NextSlot]
  /\ UNCHANGED <<slot, put, compliance_reports, compliance_report_deliveries, links, mailed,
                 pass, strained, slept, mishaps>>

(* Mutant of Reanchored: a schedule that is resumed keeps its date. *)
ReanchoredByCadence(op) == IF op = "cadence" THEN NextSlot ELSE 0

(* A new cadence, or a schedule whose slot passed while it was paused *)
Reanchored(op) ==
  LET resuming == report_schedule.is_paused /\ op = "resume"
      slotPassed == report_schedule.next_run_at <= slot
  IN IF op = "cadence" \/ (resuming /\ slotPassed) THEN NextSlot ELSE 0

(* PUT /report-schedules/:id: the row is read, *)
AskPut(e, op) ==
  /\ put[e] = NoPut /\ report_schedule.status = "stored"
  /\ put' = [put EXCEPT ![e] = [op |-> op, next |-> Reanchored(op)]]
  /\ UNCHANGED <<slot, report_schedule, compliance_reports, compliance_report_deliveries,
                 links, mailed, pass, strained, slept, mishaps>>

(* ... and what is given written over it as it is then. *)
WritePut(e) ==
  LET op == put[e].op
  IN /\ put[e] # NoPut
     /\ report_schedule' =
          [report_schedule EXCEPT
             !.is_paused = IF op = "cadence" THEN @ ELSE op = "pause",
             !.next_run_at = IF put[e].next = 0 THEN @ ELSE put[e].next]
     /\ put' = [put EXCEPT ![e] = NoPut]
     /\ UNCHANGED <<slot, compliance_reports, compliance_report_deliveries, links, mailed,
                    pass, strained, slept, mishaps>>

(* DELETE /report-schedules/:id: the deliveries go with it, reports stay. *)
DeleteReportSchedule ==
  /\ report_schedule.status = "stored"
  /\ report_schedule' = [report_schedule EXCEPT !.status = "deleted"]
  /\ compliance_report_deliveries' =
       [d \in Deliveries |-> [Row(d) EXCEPT !.status = "deleted"]]
  /\ UNCHANGED <<slot, put, compliance_reports, links, mailed, pass, strained, slept, mishaps>>

-----------------------------------------------------------------------------
(* runDueSchedules *)

(* runSchedule: one transaction with the row locked, so that it happens or, *)
(* when the report cannot be made, does not.                                *)
RunSchedule ==
  /\ report_schedule.status = "stored" /\ ~report_schedule.is_paused
  /\ report_schedule.next_run_at <= slot
  /\ Len(compliance_reports) < MAX_REPORTS
  /\ compliance_reports' = Append(compliance_reports, report_schedule.next_run_at)
  /\ compliance_report_deliveries' =
       compliance_report_deliveries \o [i \in 1..RECIPIENTS |-> NewDelivery]
  /\ links' = links \o [i \in 1..RECIPIENTS |-> 0]
  /\ mailed' = mailed \o [i \in 1..RECIPIENTS |-> {}]
  /\ report_schedule' = [report_schedule EXCEPT !.next_run_at = NextSlot]
  /\ UNCHANGED <<slot, put, pass, strained, slept, mishaps>>

-----------------------------------------------------------------------------
(* processPendingDeliveries *)

(* Mutant of IsDueDelivery: the link tells that a pass sees to a delivery. *)
DueWithoutLink(d) ==
  /\ Row(d).status = "pending" /\ Row(d).wait = 0 /\ Row(d).link = 0
  /\ ~report_schedule.is_paused

IsDueDelivery(d) ==
  Row(d).status = "pending" /\ Row(d).wait = 0 /\ ~report_schedule.is_paused

(* Mutant of Leased: a claim leaves the date of the next attempt. *)
NotLeased(row) == row

Leased(row) == [row EXCEPT !.wait = LEASE]

(* One UPDATE claims all that are due and not being claimed. *)
Claim(x) ==
  LET due == {d \in Deliveries : IsDueDelivery(d)}
  IN /\ pass[x] = NoPass /\ due # {}
     /\ compliance_report_deliveries' =
          [d \in Deliveries |-> IF d \in due THEN Leased(Row(d)) ELSE Row(d)]
     /\ pass' = [pass EXCEPT ![x] =
          [at |-> "link", todo |-> {[id |-> d, attempts |-> Row(d).attempts] : d \in due}]]
     /\ UNCHANGED <<slot, report_schedule, put, compliance_reports, links, mailed, strained,
                    slept, mishaps>>

(* A fresh token for each attempt *)
StoreLink(x) ==
  LET d == AtHand(x).id
  IN /\ PassAt(x, "link")
     /\ links' = [links EXCEPT ![d] = @ + 1]
     /\ UpdateDelivery(d, [Row(d) EXCEPT !.link = links[d] + 1])
     /\ pass' = [pass EXCEPT ![x] = [at |-> "mail", todo |-> @.todo, link |-> links[d] + 1]]
     /\ UNCHANGED <<slot, report_schedule, put, compliance_reports, mailed, strained, slept,
                    mishaps>>

(* sendEmail: the mail is out or not, and the answer that it is comes or not. *)
SendEmail(x) ==
  LET d == AtHand(x).id
  IN /\ PassAt(x, "mail")
     /\ \E out, ok \in BOOLEAN :
          /\ ok => out
          /\ mailed' = IF out THEN [mailed EXCEPT ![d] = @ \cup {pass[x].link}] ELSE mailed
          /\ strained' = IF out /\ ~ok THEN strained \cup {d} ELSE strained
          /\ pass' = [pass EXCEPT ![x] = [at |-> IF ok THEN "mark" ELSE "catch",
                                          todo |-> @.todo]]
     /\ UNCHANGED <<slot, report_schedule, put, compliance_reports,
                    compliance_report_deliveries, links, slept, mishaps>>

MarkSent(x) ==
  LET d == AtHand(x).id
  IN /\ PassAt(x, "mark")
     /\ UpdateDelivery(d, [Row(d) EXCEPT !.status = "sent",
                                         !.attempts = AtHand(x).attempts + 1])
     /\ LeaveDelivery(x)
     /\ UNCHANGED <<slot, report_schedule, put, compliance_reports, links, mailed, strained,
                    slept, mishaps>>

(* An error of the database where a mail is tried: the catch takes it for one *)
(* of the mail.                                                              *)
TryBreaks(x) ==
  /\ PassAt(x, "link") \/ PassAt(x, "mark")
  /\ Mishap
  /\ strained' = IF PassAt(x, "mark") THEN strained \cup {AtHand(x).id} ELSE strained
  /\ GotoStep(x, "catch")
  /\ UNCHANGED <<slot, report_schedule, put, compliance_reports, compliance_report_deliveries,
                 links, mailed, slept>>

AfterFailure(attempts) ==
  IF attempts >= MAX_DELIVERY_ATTEMPTS THEN "failed" ELSE "pending"

(* The catch: the link is void, the next attempt has its date. *)
RecordFailure(x) ==
  LET d == AtHand(x).id
      attempts == AtHand(x).attempts + 1
  IN /\ PassAt(x, "catch")
     /\ UpdateDelivery(d, [status |-> AfterFailure(attempts), attempts |-> attempts,
                           wait |-> RETRY[attempts], link |-> 0])
     /\ LeaveDelivery(x)
     /\ UNCHANGED <<slot, report_schedule, put, compliance_reports, links, mailed, strained,
                    slept, mishaps>>

(* The process ends, or the catch itself fails, which ends the pass. *)
PassDies(x) ==
  /\ pass[x] # NoPass
  /\ Mishap
  /\ strained' = IF PassAt(x, "mark") THEN strained \cup {AtHand(x).id} ELSE strained
  /\ pass' = [pass EXCEPT ![x] = NoPass]
  /\ UNCHANGED <<slot, report_schedule, put, compliance_reports, compliance_report_deliveries,
                 links, mailed, slept>>

-----------------------------------------------------------------------------

(* Leases end while their pass goes on. *)
Outlives(late) ==
  /\ IF late = {} THEN UNCHANGED mishaps ELSE Mishap
  /\ strained' = strained \cup late

(* A slot passes: longer than any lease or retry. *)
SlotPasses ==
  /\ slot < MAX_SLOTS
  /\ slot' = slot + 1
  /\ compliance_report_deliveries' = [d \in Deliveries |-> [Row(d) EXCEPT !.wait = 0]]
  /\ Outlives({d \in Deliveries : Pending(d) /\ Row(d).wait > 0 /\ Held(d)})
  /\ slept' = IF report_schedule.is_paused /\ \A e \in Puts : put[e] = NoPut
              THEN slept \cup {slot + 1} ELSE slept
  /\ UNCHANGED <<report_schedule, put, compliance_reports, links, mailed, pass>>

MinutesPass ==
  LET waiting == {d \in Deliveries : Pending(d) /\ Row(d).wait > 0}
  IN /\ waiting # {}
     /\ compliance_report_deliveries' =
          [d \in Deliveries |-> IF d \in waiting THEN [Row(d) EXCEPT !.wait = @ - 1]
                                ELSE Row(d)]
     /\ Outlives({d \in waiting : Row(d).wait = 1 /\ Held(d)})
     /\ UNCHANGED <<slot, report_schedule, put, compliance_reports, links, mailed, pass,
                    slept>>

ReportsInit ==
  /\ slot = 0
  /\ report_schedule = [status |-> "none", is_paused |-> FALSE, next_run_at |-> 1]
  /\ put = [e \in Puts |-> NoPut]
  /\ compliance_reports = <<>> /\ compliance_report_deliveries = <<>>
  /\ links = <<>> /\ mailed = <<>>
  /\ pass = [x \in Passes |-> NoPass]
  /\ strained = {} /\ slept = {} /\ mishaps = 0

PassWorks(x) ==
  Claim(x) \/ StoreLink(x) \/ SendEmail(x) \/ MarkSent(x) \/ RecordFailure(x)

ReportsNext ==
  \/ CreateReportSchedule \/ DeleteReportSchedule \/ RunSchedule \/ SlotPasses \/ MinutesPass
  \/ \E e \in Puts : WritePut(e) \/ \E op \in {"pause", "resume", "cadence"} : AskPut(e, op)
  \/ \E x \in Passes : PassWorks(x) \/ TryBreaks(x) \/ PassDies(x)

(* Time goes on, and one of the instances lives: it starts a pass every 15    *)
(* minutes and goes on with it.                                              *)
ReportsSpec ==
  /\ ReportsInit /\ [][ReportsNext]_reportVars
  /\ WF_reportVars(MinutesPass) /\ WF_reportVars(\E x \in Passes : PassWorks(x))

-----------------------------------------------------------------------------

ReportsTypeOK ==
  /\ slot \in 0..MAX_SLOTS /\ report_schedule \in ReportSchedule /\ put \in [Puts -> Put]
  /\ compliance_reports \in Seq(1..MAX_SLOTS)
  /\ compliance_report_deliveries \in Seq(Delivery)
  /\ Len(compliance_report_deliveries) = RECIPIENTS * Len(compliance_reports)
  /\ links \in [Deliveries -> Nat] /\ \A d \in Deliveries : mailed[d] \subseteq 1..links[d]
  /\ \A x \in Passes : /\ pass[x].at \in {"idle", "link", "mail", "mark", "catch"}
                       /\ PassAt(x, "idle") <=> pass[x].todo = {}
                       /\ \A row \in pass[x].todo : row.id \in Deliveries
  /\ strained \subseteq Deliveries /\ slept \subseteq 1..MAX_SLOTS

(* The row of a delivery tells what its recipient has.  One that is sent was  *)
(* mailed, whatever happened.  While claims keep to their lease, one that is  *)
(* sent was mailed once and the link in the mail is the one that opens the    *)
(* report, and one that failed, or waits and is not being marked, was not     *)
(* mailed.                                                                   *)
RowTellsMail ==
  \A d \in Deliveries :
    /\ Row(d).status = "sent" => mailed[d] # {}
    /\ d \notin strained =>
         CASE Row(d).status = "sent" -> mailed[d] = {Row(d).link}
           [] Row(d).status = "failed" -> mailed[d] = {}
           [] Row(d).status = "pending" ->
                mailed[d] = {} \/ \E x \in Passes : PassAt(x, "mark") /\ AtHand(x).id = d
           [] OTHER -> TRUE

(* No report is made of a slot that passed while the schedule was paused:     *)
(* resuming goes on with the next one.                                       *)
SleptSlotsStay ==
  \A i \in DOMAIN compliance_reports : compliance_reports[i] \notin slept

(* Every delivery ends, sent or failed, unless the schedule is paused or      *)
(* deleted: no claim, retry or crash leaves one behind.                       *)
DeliveriesEnd ==
  \A d \in 1..(RECIPIENTS * MAX_REPORTS) :
    LET waits == Pending(d) /\ ~report_schedule.is_paused
    IN waits ~> ~waits

=============================================================================
