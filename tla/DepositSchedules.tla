--------------------------- MODULE DepositSchedules ---------------------------
(***************************************************************************)
(* Recurring deposits of one importer: the routes that keep the schedules  *)
(* (apps/api/src/routes/importers.ts) and the job that queues what is due  *)
(* (services/deposit-schedules.ts), interleaved at every await between two *)
(* accesses of shared state.  Amount and bucket only travel along.         *)
(***************************************************************************)
EXTENDS Integers

CONSTANTS
  Schedules,    \* ids of deposit_schedules
  Cadences,     \* weekly, monthly
  PERIOD,       \* ticks from a deposit to the next one, by cadence: 7 and 30 days
  Edits,        \* HTTP requests that may be in progress at once
  Sweeps,       \* runs of the job that may overlap, on one or more instances
  MAX_CLOCK,    \* bound of the model: clock
  MAX_EVENTS    \* bound of the model: errors, crashes, decisions on KYC and edits

ASSUME DepositSchedulesAssumption ==
  /\ Cadences # {} /\ PERIOD \in [Cadences -> Nat \ {0}]
  /\ MAX_CLOCK \in Nat /\ MAX_EVENTS \in Nat

VARIABLES
  clock,
  kycOk,                        \* importers.kyc_status = 'approved'
  deposit_schedules,            \* table
  deposit_schedule_executions,  \* table: rows of each schedule, by status
  edit,                         \* what each HTTP request in progress has read
  sweep,                        \* what each run of the job is doing
  deposits,                     \* deposit jobs queued for each schedule: how many,
                                \* and when the period of the last one is over
  mixed,                        \* history: schedules that two runs, or a run and a
                                \* resume, had in hand at once, or whose run broke
                                \* off between the queue and the update
  events                        \* bound of the model

scheduleVars == <<clock, kycOk, deposit_schedules, deposit_schedule_executions, edit,
                  sweep, deposits, mixed, events>>

-----------------------------------------------------------------------------

Schedule == [status : {"none", "active", "paused", "cancelled"},
             cadence : Cadences, next_run_at : Nat]

Executions == [success : Nat, failed : Nat, skipped : BOOLEAN]

NoEdit == [op |-> "none"]

Edit == [op : {"none", "create"}]
  \cup [op : {"resume"}, id : Schedules, next : Nat]
  \cup [op : {"patch"}, id : Schedules, cadence : Cadences,
        status : {"active", "paused", "cancelled"}]

DueRow == [id : Schedules, cadence : Cadences, due : Nat]

NoSweep == [at |-> "idle", todo |-> {}, kyc |-> FALSE, next |-> 0]

Sweep == [at : {"idle", "next", "insert", "advance", "notify"}, todo : SUBSET DueRow,
          kyc : BOOLEAN, next : Nat]

InSweeps == {row.id : row \in UNION {sweep[w].todo : w \in Sweeps}}

InResumes == {edit[e].id : e \in {f \in Edits : edit[f].op = "resume"}}

Stored(s) == deposit_schedules[s].status # "none"

(* Mutant of NextRunAt: always a week. *)
NextWeek(cadence, from) ==
  from + PERIOD[CHOOSE c \in Cadences : \A d \in Cadences : PERIOD[c] <= PERIOD[d]]

(* computeNextRunAt *)
NextRunAt(cadence, from) == from + PERIOD[cadence]

BeginEdit(e, op) == edit[e] = NoEdit /\ edit' = [edit EXCEPT ![e] = op]

EndEdit(e) == edit' = [edit EXCEPT ![e] = NoEdit]

Event == events < MAX_EVENTS /\ events' = events + 1

-----------------------------------------------------------------------------
(* Routes *)

(* POST /:id/deposit-schedule: the importer row is read, the wallet screened *)
CreateSchedule(e) ==
  /\ kycOk
  /\ BeginEdit(e, [op |-> "create"])
  /\ UNCHANGED <<clock, kycOk, deposit_schedules, deposit_schedule_executions, sweep,
                 deposits, mixed, events>>

(* ... and the schedule stored, to begin at a date to come or in a period. *)
StoreSchedule(e, s, cadence, start) ==
  /\ edit[e].op = "create"
  /\ ~Stored(s)
  /\ start > clock \/ start = NextRunAt(cadence, clock)
  /\ deposit_schedules' = [deposit_schedules EXCEPT
       ![s] = [status |-> "active", cadence |-> cadence, next_run_at |-> start]]
  /\ EndEdit(e)
  /\ UNCHANGED <<clock, kycOk, deposit_schedule_executions, sweep, deposits, mixed, events>>

(* POST .../pause and .../cancel: one update, whatever the status was. *)
SetSchedule(s, status) ==
  /\ Stored(s) /\ Event
  /\ deposit_schedules' = [deposit_schedules EXCEPT ![s].status = status]
  /\ UNCHANGED <<clock, kycOk, deposit_schedule_executions, edit, sweep, deposits, mixed>>

PauseSchedule(s) == SetSchedule(s, "paused")

CancelSchedule(s) == SetSchedule(s, "cancelled")

(* A date that has passed is moved, one that is to come is kept. *)
ResumedAt(row) ==
  IF row.next_run_at <= clock THEN NextRunAt(row.cadence, clock) ELSE row.next_run_at

(* POST .../resume: reads the row, whatever its status, and has its date. *)
ResumeSchedule(e, s) ==
  /\ Stored(s) /\ Event
  /\ BeginEdit(e, [op |-> "resume", id |-> s, next |-> ResumedAt(deposit_schedules[s])])
  /\ mixed' = mixed \cup ({s} \cap InSweeps)
  /\ UNCHANGED <<clock, kycOk, deposit_schedules, deposit_schedule_executions, sweep,
                 deposits>>

ResumeWritten(e) ==
  /\ edit[e].op = "resume"
  /\ deposit_schedules' = [deposit_schedules EXCEPT
       ![edit[e].id].status = "active", ![edit[e].id].next_run_at = edit[e].next]
  /\ EndEdit(e)
  /\ UNCHANGED <<clock, kycOk, deposit_schedule_executions, sweep, deposits, mixed, events>>

(* PATCH: fields that are not given are read and written back. *)
PatchSchedule(e, s, cadence, status) ==
  /\ Stored(s) /\ Event
  /\ BeginEdit(e, [op |-> "patch", id |-> s, cadence |-> cadence, status |-> status])
  /\ UNCHANGED <<clock, kycOk, deposit_schedules, deposit_schedule_executions, sweep,
                 deposits, mixed>>

PatchWritten(e) ==
  /\ edit[e].op = "patch"
  /\ deposit_schedules' = [deposit_schedules EXCEPT
       ![edit[e].id].status = edit[e].status, ![edit[e].id].cadence = edit[e].cadence]
  /\ EndEdit(e)
  /\ UNCHANGED <<clock, kycOk, deposit_schedule_executions, sweep, deposits, mixed, events>>

(* Validation, screening, an error or a crash ends the request. *)
EditBreaks(e) ==
  /\ edit[e] # NoEdit
  /\ EndEdit(e)
  /\ UNCHANGED <<clock, kycOk, deposit_schedules, deposit_schedule_executions, sweep,
                 deposits, mixed, events>>

-----------------------------------------------------------------------------
(* processScheduledDeposits, started every minute *)

(* Mutant of IsDue: at the exact date only. *)
IsDueToday(s) ==
  deposit_schedules[s].status = "active" /\ deposit_schedules[s].next_run_at = clock

IsDue(s) ==
  deposit_schedules[s].status = "active" /\ deposit_schedules[s].next_run_at <= clock

StartSweep(w) ==
  LET due == {s \in Schedules : IsDue(s)}
  IN /\ sweep[w] = NoSweep /\ due # {}
     /\ sweep' = [sweep EXCEPT ![w] =
          [at |-> "next", kyc |-> kycOk, next |-> 0,
           todo |-> {[id |-> s, cadence |-> deposit_schedules[s].cadence,
                      due |-> deposit_schedules[s].next_run_at] : s \in due}]]
     /\ mixed' = mixed \cup (due \cap (InSweeps \cup InResumes))
     /\ UNCHANGED <<clock, kycOk, deposit_schedules, deposit_schedule_executions, edit,
                    deposits, events>>

(* ORDER BY next_run_at *)
FirstDue(rows) == CHOOSE row \in rows : \A other \in rows : row.due <= other.due

(* The row the run is at. *)
DueFirst(w) == FirstDue(sweep[w].todo)

AtRow(w, place) == sweep[w].at = place

GotoRow(w, place) == sweep' = [sweep EXCEPT ![w].at = place]

LeaveRow(w) ==
  LET rest == sweep[w].todo \ {DueFirst(w)}
  IN sweep' = [sweep EXCEPT ![w] = IF rest = {} THEN NoSweep
                                     ELSE [@ EXCEPT !.at = "next", !.todo = rest, !.next = 0]]

(* KYC is not approved: the date stays, so does the schedule's turn. *)
SkipRow(w) ==
  /\ AtRow(w, "next") /\ ~sweep[w].kyc
  /\ deposit_schedule_executions' =
       [deposit_schedule_executions EXCEPT ![DueFirst(w).id].skipped = TRUE]
  /\ LeaveRow(w)
  /\ UNCHANGED <<clock, kycOk, deposit_schedules, edit, deposits, mixed, events>>

(* enqueueTxSubmit, then the next date from now on *)
QueueDeposit(w) ==
  LET row == DueFirst(w)
  IN /\ AtRow(w, "next") /\ sweep[w].kyc
     /\ deposits' = [deposits EXCEPT
          ![row.id] = [count |-> @.count + 1, until |-> clock + PERIOD[row.cadence]]]
     /\ sweep' = [sweep EXCEPT ![w].at = "insert",
                               ![w].next = NextRunAt(row.cadence, clock)]
     /\ UNCHANGED <<clock, kycOk, deposit_schedules, deposit_schedule_executions, edit,
                    mixed, events>>

InsertExecution(w) ==
  /\ AtRow(w, "insert")
  /\ deposit_schedule_executions' =
       [deposit_schedule_executions EXCEPT ![DueFirst(w).id].success = @ + 1]
  /\ GotoRow(w, "advance")
  /\ UNCHANGED <<clock, kycOk, deposit_schedules, edit, deposits, mixed, events>>

AdvanceSchedule(w) ==
  /\ AtRow(w, "advance")
  /\ deposit_schedules' =
       [deposit_schedules EXCEPT ![DueFirst(w).id].next_run_at = sweep[w].next]
  /\ GotoRow(w, "notify")
  /\ UNCHANGED <<clock, kycOk, deposit_schedule_executions, edit, deposits, mixed, events>>

NotifyDeposit(w) ==
  /\ AtRow(w, "notify")
  /\ LeaveRow(w)
  /\ UNCHANGED <<clock, kycOk, deposit_schedules, deposit_schedule_executions, edit,
                 deposits, mixed, events>>

BreakOff(w) ==
  mixed' = IF sweep[w].at \in {"insert", "advance"} THEN mixed \cup {DueFirst(w).id}
           ELSE mixed

(* Mutant of RowFails: the catch inserts the same row as a run that went well. *)
RowFailsAsSuccess(w) ==
  /\ sweep[w].at # "idle" /\ (AtRow(w, "next") => sweep[w].kyc)
  /\ Event
  /\ BreakOff(w)
  /\ deposit_schedule_executions' =
       [deposit_schedule_executions EXCEPT ![DueFirst(w).id].success = @ + 1]
  /\ LeaveRow(w)
  /\ UNCHANGED <<clock, kycOk, deposit_schedules, edit, deposits>>

(* An error in the try block: the catch inserts a row and leaves the date. *)
RowFails(w) ==
  /\ sweep[w].at # "idle" /\ (AtRow(w, "next") => sweep[w].kyc)
  /\ Event
  /\ BreakOff(w)
  /\ deposit_schedule_executions' =
       [deposit_schedule_executions EXCEPT ![DueFirst(w).id].failed = @ + 1]
  /\ LeaveRow(w)
  /\ UNCHANGED <<clock, kycOk, deposit_schedules, edit, deposits>>

(* An error outside it, or the end of the process. *)
SweepDies(w) ==
  /\ sweep[w].at # "idle"
  /\ Event
  /\ BreakOff(w)
  /\ sweep' = [sweep EXCEPT ![w] = NoSweep]
  /\ UNCHANGED <<clock, kycOk, deposit_schedules, deposit_schedule_executions, edit, deposits>>

-----------------------------------------------------------------------------

(* A review decision, a day *)
KycChanges ==
  /\ Event
  /\ kycOk' = ~kycOk
  /\ UNCHANGED <<clock, deposit_schedules, deposit_schedule_executions, edit, sweep,
                 deposits, mixed>>

ClockTicks ==
  /\ clock < MAX_CLOCK
  /\ clock' = clock + 1
  /\ UNCHANGED <<kycOk, deposit_schedules, deposit_schedule_executions, edit, sweep,
                 deposits, mixed, events>>

DepositsInit ==
  /\ clock = 0 /\ kycOk = TRUE
  /\ deposit_schedules = [s \in Schedules |->
       [status |-> "none", cadence |-> CHOOSE c \in Cadences : TRUE, next_run_at |-> 0]]
  /\ deposits = [s \in Schedules |-> [count |-> 0, until |-> 0]]
  /\ deposit_schedule_executions =
       [s \in Schedules |-> [success |-> 0, failed |-> 0, skipped |-> FALSE]]
  /\ edit = [e \in Edits |-> NoEdit] /\ sweep = [w \in Sweeps |-> NoSweep]
  /\ mixed = {} /\ events = 0

EditStep(e) ==
  \/ CreateSchedule(e) \/ ResumeWritten(e) \/ PatchWritten(e) \/ EditBreaks(e)
  \/ \E s \in Schedules, c \in Cadences :
       \/ \E start \in 1..MAX_CLOCK \cup {NextRunAt(c, clock)} : StoreSchedule(e, s, c, start)
       \/ \E status \in {"active", "paused", "cancelled"} : PatchSchedule(e, s, c, status)
  \/ \E s \in Schedules : ResumeSchedule(e, s)

SweepWorks(w) ==
  \/ StartSweep(w) \/ SkipRow(w) \/ QueueDeposit(w) \/ InsertExecution(w)
  \/ AdvanceSchedule(w) \/ NotifyDeposit(w)

DepositsNext ==
  \/ KycChanges \/ ClockTicks
  \/ \E s \in Schedules : PauseSchedule(s) \/ CancelSchedule(s)
  \/ \E e \in Edits : EditStep(e)
  \/ \E w \in Sweeps : SweepWorks(w) \/ RowFails(w) \/ SweepDies(w)

(* One of the instances lives: it starts runs and goes on with them. *)
DepositsSpec ==
  /\ DepositsInit /\ [][DepositsNext]_scheduleVars
  /\ WF_scheduleVars(\E w \in Sweeps : SweepWorks(w))

-----------------------------------------------------------------------------

(* A run is at a row while it runs, and holds each schedule once. *)
DepositsTypeOK ==
  /\ clock \in 0..MAX_CLOCK /\ kycOk \in BOOLEAN /\ events \in 0..MAX_EVENTS
  /\ deposit_schedules \in [Schedules -> Schedule]
  /\ deposit_schedule_executions \in [Schedules -> Executions]
  /\ edit \in [Edits -> Edit] /\ sweep \in [Sweeps -> Sweep]
  /\ \A w \in Sweeps : /\ AtRow(w, "idle") <=> sweep[w].todo = {}
                       /\ \A row, other \in sweep[w].todo : row.id = other.id => row = other
  /\ deposits \in [Schedules -> [count : Nat, until : Nat]]
  /\ mixed \subseteq Schedules

(* The history of executions agrees with the queue: each deposit that was     *)
(* queued has its row, once the run is past the insert, unless the run broke  *)
(* off in between.  Failed rows may stand beside it.                          *)
ExecutionsTellQueue ==
  \A s \in Schedules \ mixed :
    deposits[s].count = deposit_schedule_executions[s].success
      + (IF \E w \in Sweeps : AtRow(w, "insert") /\ DueFirst(w).id = s THEN 1 ELSE 0)

(* Two deposits of a schedule are at least the period apart that the first    *)
(* was made under, whatever is paused, resumed or edited in between.          *)
DepositsSpaced ==
  [][\A s \in Schedules \ mixed' :
       deposits'[s].count > deposits[s].count => clock >= deposits[s].until]_scheduleVars

(* A schedule that is due does not stay so, while KYC is approved. *)
DueIsServed ==
  \A s \in Schedules :
    LET waits == /\ deposit_schedules[s].status = "active"
                 /\ deposit_schedules[s].next_run_at <= clock /\ kycOk
    IN waits ~> ~waits

=============================================================================
