----------------------------- MODULE Withdrawals -----------------------------
(***************************************************************************)
(* Withdrawals of one importer, from the routes that accept them           *)
(* (apps/api/src/routes/importers.ts) and the job that executes scheduled  *)
(* ones (services/scheduled-withdrawals.ts) to the contract.               *)
(*                                                                         *)
(* Routes and scheduler runs are interleaved at every await that reads or  *)
(* writes shared state.  A call holds what it has read until it ends.      *)
(* The transaction queue is reduced to jobs that wait, are paid or are     *)
(* refused; TxPipeline has its retries.                                    *)
(***************************************************************************)
EXTENDS Integers

CONSTANTS
  Users,        \* owner and team members with write access, surety admins
  Admins,       \* users with the role surety_admin
  Requests,     \* ids of withdrawal_requests
  Staged,       \* ids of scheduled_withdrawals
  Callers,      \* HTTP requests that may be in progress at once
  Runs,         \* runs of the scheduler that may overlap, on one or more instances
  Amounts,      \* amounts asked for
  Required,     \* requirements the oracle may set
  Thresholds,   \* dual approval thresholds the owner may set
  COLLATERAL,   \* collateral at the start
  MAX_TIME,     \* bound of the model: clock
  MAX_DIRECT,   \* bound of the model: direct withdrawals
  MAX_DISTURBANCES  \* bound of the model: errors, crashes, and changes of the dual
                    \* approval setting, of KYC and of the account on chain

ASSUME WithdrawalsAssumption ==
  /\ Admins \subseteq Users /\ Users # {}
  /\ Amounts \subseteq Nat \ {0} /\ Required \subseteq Nat /\ Thresholds \subseteq Nat
  /\ COLLATERAL \in Nat /\ MAX_TIME \in Nat /\ MAX_DIRECT \in Nat /\ MAX_DISTURBANCES \in Nat
  /\ Requests \cap Staged = {} /\ "direct" \notin Requests \cup Staged

VARIABLES
  now,                    \* wall clock
  kyc_approved,           \* importers.kyc_status = 'approved'
  dual,                   \* importers.dual_approval_enabled and its threshold
  withdrawal_requests,    \* table: status, by (who asked), amount
  scheduled_withdrawals,  \* table: status, amount, target (the date)
  call,                   \* each HTTP request in progress: op, and what it has read
  run,                    \* each scheduler run: where it is (at), the rows it still
                          \* has (todo), and the KYC status of the row in hand (kyc)
  job,                    \* withdraw jobs of each row, and of direct withdrawals
  chain,                  \* the account as the contract has it
  torn,                   \* history: rows that two calls held at once, or whose
                          \* call broke off between the queue and the update
  checked,                \* history: scheduled rows whose last check of the
                          \* account still describes it
  disturbances                  \* bound of the model

vars == <<now, kyc_approved, dual, withdrawal_requests, scheduled_withdrawals,
          call, run, job, chain, torn, checked, disturbances>>

-----------------------------------------------------------------------------

Sources == Requests \cup Staged \cup {"direct"}

Dual == [enabled : BOOLEAN, threshold : Thresholds]

Idle == [op |-> "idle"]

NoRun == [at |-> "idle", todo |-> {}, kyc |-> FALSE]

Due == {s \in Staged : /\ scheduled_withdrawals[s].status = "pending"
                       /\ scheduled_withdrawals[s].target <= now}

(* Rows that calls and runs hold. *)
HeldByCalls == {call[c].row : c \in {d \in Callers :
                  call[d].op \in {"approve", "record", "reject", "cancel", "unschedule"}}}

HeldByRuns == UNION {run[r].todo : r \in Runs}

Held == HeldByCalls \cup HeldByRuns

Begin(c, op) == call[c] = Idle /\ call' = [call EXCEPT ![c] = op]

End(c) == call' = [call EXCEPT ![c] = Idle]

Hold(rows) == torn' = torn \cup (rows \cap Held)

Disturb == disturbances < MAX_DISTURBANCES /\ disturbances' = disturbances + 1

QueueJob(src) == job' = [job EXCEPT ![src].waiting = @ + 1]

-----------------------------------------------------------------------------
(* Routes.  Each begins with loadImporterFor; AML screening and validation  *)
(* may end it (Refuse).                                                     *)

(* PUT /:id/dual-approval *)
ConfigureDual(setting) ==
  /\ dual # setting
  /\ Disturb
  /\ dual' = setting
  /\ UNCHANGED <<now, kyc_approved, withdrawal_requests, scheduled_withdrawals,
                 call, run, job, chain, torn, checked>>

(* POST /:id/withdraw, up to the AML screening: the importer row is read. *)
Withdraw(c, u, amount) ==
  /\ kyc_approved
  /\ Begin(c, [op |-> "withdraw", user |-> u, amount |-> amount, dual |-> dual])
  /\ UNCHANGED <<now, kyc_approved, dual, withdrawal_requests, scheduled_withdrawals,
                 run, job, chain, torn, checked, disturbances>>

(* INSERT INTO scheduled_withdrawals *)
InsertStaged(c, s, target) ==
  /\ scheduled_withdrawals[s].status = "none"
  /\ scheduled_withdrawals' = [scheduled_withdrawals EXCEPT
       ![s] = [status |-> "pending", amount |-> call[c].amount, target |-> target]]
  /\ End(c)
  /\ UNCHANGED <<now, kyc_approved, dual, withdrawal_requests, run, job, chain, torn,
                 checked, disturbances>>

(* ... with a target date: the row is stored before the threshold is looked at. *)
WithdrawLater(c, s, target) ==
  call[c].op = "withdraw" /\ target > now /\ InsertStaged(c, s, target)

(* Mutant of NeedsSignOff: an amount at the threshold passes. *)
NeedsSignOffAbove(setting, amount) ==
  setting.enabled /\ setting.threshold > 0 /\ amount > setting.threshold

NeedsSignOff(setting, amount) ==
  setting.enabled /\ setting.threshold > 0 /\ amount >= setting.threshold

(* ... at or above the threshold *)
WithdrawOnRequest(c, q) ==
  /\ call[c].op = "withdraw"
  /\ NeedsSignOff(call[c].dual, call[c].amount)
  /\ withdrawal_requests[q].status = "none"
  /\ withdrawal_requests' = [withdrawal_requests EXCEPT
       ![q] = [status |-> "pending", by |-> call[c].user, amount |-> call[c].amount]]
  /\ End(c)
  /\ UNCHANGED <<now, kyc_approved, dual, scheduled_withdrawals, run, job, chain, torn,
                 checked, disturbances>>

(* ... else at once *)
WithdrawNow(c) ==
  /\ call[c].op = "withdraw"
  /\ ~NeedsSignOff(call[c].dual, call[c].amount)
  /\ job["direct"].waiting + job["direct"].paid + job["direct"].refused < MAX_DIRECT
  /\ QueueJob("direct")
  /\ End(c)
  /\ UNCHANGED <<now, kyc_approved, dual, withdrawal_requests, scheduled_withdrawals,
                 run, chain, torn, checked, disturbances>>

(* POST /:id/scheduled-withdrawals, up to the AML screening: the date is in the *)
(* future when the call begins, and may have passed when the row is stored.     *)
Schedule(c, amount, target) ==
  /\ kyc_approved /\ target > now
  /\ Begin(c, [op |-> "schedule", amount |-> amount, target |-> target])
  /\ UNCHANGED <<now, kyc_approved, dual, withdrawal_requests, scheduled_withdrawals,
                 run, job, chain, torn, checked, disturbances>>

ScheduleStored(c, s) ==
  call[c].op = "schedule" /\ InsertStaged(c, s, call[c].target)

(* Mutant of Undecided: refuses only what was declined. *)
NotDeclined(q) == withdrawal_requests[q].status \in {"pending", "approved"}

Undecided(q) == withdrawal_requests[q].status = "pending"

(* The routes on a withdrawal request read it, look at its status and write *)
(* it later, without looking again.                                         *)
ReadRequest(c, u, q, op) ==
  /\ Undecided(q)
  /\ Begin(c, [op |-> op, user |-> u, row |-> q])
  /\ Hold({q})
  /\ UNCHANGED <<now, kyc_approved, dual, withdrawal_requests, scheduled_withdrawals,
                 run, job, chain, checked, disturbances>>

WriteRequest(c, status) ==
  /\ withdrawal_requests' = [withdrawal_requests EXCEPT ![call[c].row].status = status]
  /\ End(c)
  /\ UNCHANGED <<now, kyc_approved, dual, scheduled_withdrawals, run, job, chain, torn,
                 checked, disturbances>>

(* Mutant of MayApprove: anyone who has access. *)
AnyoneApproves(u, q) == u \in Users

MayApprove(u, q) == withdrawal_requests[q].by # u \/ u \in Admins

(* POST .../approve *)
Approve(c, u, q) == MayApprove(u, q) /\ ReadRequest(c, u, q, "approve")

ApproveQueued(c) ==
  /\ call[c].op = "approve"
  /\ QueueJob(call[c].row)
  /\ call' = [call EXCEPT ![c].op = "record"]
  /\ UNCHANGED <<now, kyc_approved, dual, withdrawal_requests, scheduled_withdrawals,
                 run, chain, torn, checked, disturbances>>

ApproveRecorded(c) == call[c].op = "record" /\ WriteRequest(c, "approved")

(* POST .../reject *)
Reject(c, u, q) == ReadRequest(c, u, q, "reject")

RejectWritten(c) == call[c].op = "reject" /\ WriteRequest(c, "rejected")

(* POST .../cancel *)
Cancel(c, u, q) ==
  /\ withdrawal_requests[q].by = u \/ u \in Admins
  /\ ReadRequest(c, u, q, "cancel")

CancelWritten(c) == call[c].op = "cancel" /\ WriteRequest(c, "cancelled")

(* handleCancelScheduledWithdrawal *)
CancelScheduled(c, s) ==
  /\ scheduled_withdrawals[s].status = "pending"
  /\ scheduled_withdrawals[s].target > now
  /\ Begin(c, [op |-> "unschedule", row |-> s])
  /\ Hold({s})
  /\ UNCHANGED <<now, kyc_approved, dual, withdrawal_requests, scheduled_withdrawals,
                 run, job, chain, checked, disturbances>>

CancelScheduledWritten(c) ==
  /\ call[c].op = "unschedule"
  /\ scheduled_withdrawals' =
       [scheduled_withdrawals EXCEPT ![call[c].row].status = "cancelled"]
  /\ End(c)
  /\ UNCHANGED <<now, kyc_approved, dual, withdrawal_requests, run, job, chain, torn,
                 checked, disturbances>>

(* A check of the route refuses the call before it has any effect. *)
Refuse(c) ==
  /\ call[c].op \in {"withdraw", "schedule", "approve"}
  /\ End(c)
  /\ UNCHANGED <<now, kyc_approved, dual, withdrawal_requests, scheduled_withdrawals,
                 run, job, chain, torn, checked, disturbances>>

(* Redis or Postgres fails, or the process dies: the call ends where it is. *)
CallBreaks(c) ==
  /\ call[c].op \in {"record", "reject", "cancel", "unschedule"}
  /\ Disturb
  /\ torn' = IF call[c].op = "record" THEN torn \cup {call[c].row} ELSE torn
  /\ End(c)
  /\ UNCHANGED <<now, kyc_approved, dual, withdrawal_requests, scheduled_withdrawals,
                 run, job, chain, checked>>

-----------------------------------------------------------------------------
(* processDueScheduledWithdrawals, started every minute whether or not the  *)
(* last one has ended.                                                      *)

DueNow(s) == s \in Due

StartRun(r) ==
  LET due == {s \in Staged : DueNow(s)}
  IN /\ run[r].at = "idle" /\ due # {}
     /\ run' = [run EXCEPT ![r] = [at |-> "next", todo |-> due, kyc |-> kyc_approved]]
     /\ Hold(due)
     /\ UNCHANGED <<now, kyc_approved, dual, withdrawal_requests, scheduled_withdrawals,
                    call, job, chain, checked, disturbances>>

(* The row a run is at: the earliest it has left (ORDER BY target_date). *)
Earliest(dates) ==
  CHOOSE s \in DOMAIN dates : \A t \in DOMAIN dates : dates[s] <= dates[t]

RowOf(r) == Earliest([s \in run[r].todo |-> scheduled_withdrawals[s].target])

(* The run has the row's fate settled and goes to the next one. *)
NextRow(r) ==
  LET rest == run[r].todo \ {RowOf(r)}
  IN run' = [run EXCEPT ![r] = IF rest = {} THEN NoRun
                                 ELSE [at |-> "next", todo |-> rest, kyc |-> @.kyc]]

SetStaged(s, status) ==
  scheduled_withdrawals' = [scheduled_withdrawals EXCEPT ![s].status = status]

(* Mutant of Covered: the balance alone. *)
CoveredByBalance(s) == chain.collateral >= scheduled_withdrawals[s].amount

(* The run compares with required_collateral, whether or not it is disputed. *)
Covered(s) == chain.collateral - scheduled_withdrawals[s].amount >= chain.required

(* getAccount, and the comparison *)
RunChecks(r) ==
  LET s == RowOf(r)
  IN /\ run[r].at = "next" /\ run[r].kyc
     /\ run' = [run EXCEPT ![r].at = IF Covered(s) THEN "queue" ELSE "block"]
     /\ checked' = IF Covered(s) THEN checked \cup {s} ELSE checked
     /\ UNCHANGED <<now, kyc_approved, dual, withdrawal_requests, scheduled_withdrawals,
                    call, job, chain, torn, disturbances>>

(* Mutant of RunBlocks: the row is skipped and stays as it is. *)
RunSkips(r) ==
  /\ run[r].at = "block" \/ (run[r].at = "next" /\ ~run[r].kyc)
  /\ NextRow(r)
  /\ UNCHANGED <<now, kyc_approved, dual, withdrawal_requests, scheduled_withdrawals,
                 call, job, chain, torn, checked, disturbances>>

(* Blocked: KYC was not approved when the run began, or cover is short. *)
RunBlocks(r) ==
  /\ run[r].at = "block" \/ (run[r].at = "next" /\ ~run[r].kyc)
  /\ SetStaged(RowOf(r), "blocked")
  /\ NextRow(r)
  /\ UNCHANGED <<now, kyc_approved, dual, withdrawal_requests, call, job, chain, torn,
                 checked, disturbances>>

(* enqueueTxSubmit *)
RunQueues(r) ==
  /\ run[r].at = "queue"
  /\ QueueJob(RowOf(r))
  /\ run' = [run EXCEPT ![r].at = "record"]
  /\ UNCHANGED <<now, kyc_approved, dual, withdrawal_requests, scheduled_withdrawals,
                 call, chain, torn, checked, disturbances>>

RunRecords(r) ==
  /\ run[r].at = "record"
  /\ SetStaged(RowOf(r), "executed")
  /\ NextRow(r)
  /\ UNCHANGED <<now, kyc_approved, dual, withdrawal_requests, call, job, chain, torn,
                 checked, disturbances>>

Tear(r) == torn' = IF run[r].at = "record" THEN torn \cup {RowOf(r)} ELSE torn

(* An error inside the try block: the catch leaves the status as it is. *)
RunFails(r) ==
  /\ run[r].at # "idle" /\ (run[r].at = "next" => run[r].kyc)
  /\ Disturb
  /\ Tear(r)
  /\ NextRow(r)
  /\ UNCHANGED <<now, kyc_approved, dual, withdrawal_requests, scheduled_withdrawals,
                 call, job, chain, checked>>

(* An error outside it ends the run, as does the death of the process. *)
RunDies(r) ==
  /\ run[r].at # "idle"
  /\ Disturb
  /\ Tear(r)
  /\ run' = [run EXCEPT ![r] = NoRun]
  /\ UNCHANGED <<now, kyc_approved, dual, withdrawal_requests, scheduled_withdrawals,
                 call, job, chain, checked>>

-----------------------------------------------------------------------------

AmountOf(src) == IF src \in Requests THEN withdrawal_requests[src].amount
                 ELSE scheduled_withdrawals[src].amount

(* A job reaches the contract, whose withdraw_collateral pays or refuses by  *)
(* the requirement in force.  Direct ones may be of any amount.              *)
Settle(src) ==
  /\ job[src].waiting > 0
  /\ \E amount \in IF src = "direct" THEN Amounts ELSE {AmountOf(src)} :
       IF chain.open /\ chain.collateral - amount >= chain.inForce
         THEN /\ chain' = [chain EXCEPT !.collateral = @ - amount]
              /\ job' = [job EXCEPT ![src].waiting = @ - 1, ![src].paid = @ + 1]
              /\ checked' = {}
         ELSE /\ job' = [job EXCEPT ![src].waiting = @ - 1, ![src].refused = @ + 1]
              /\ UNCHANGED <<chain, checked>>
  /\ UNCHANGED <<now, kyc_approved, dual, withdrawal_requests, scheduled_withdrawals,
                 call, run, torn, disturbances>>

(* The oracle, a dispute or its resolution changes the requirement, and under *)
(* a dispute another one is in force; a seizure or a year without an update   *)
(* closes the account.                                                        *)
Reassess(required, inForce, open) ==
  /\ Disturb
  /\ chain' = [chain EXCEPT !.required = required, !.inForce = inForce,
                              !.open = open]
  /\ chain' # chain
  /\ checked' = {}
  /\ UNCHANGED <<now, kyc_approved, dual, withdrawal_requests, scheduled_withdrawals,
                 call, run, job, torn>>

(* The reviewer's decision. *)
DecideKyc ==
  /\ Disturb
  /\ kyc_approved' = ~kyc_approved
  /\ UNCHANGED <<now, dual, withdrawal_requests, scheduled_withdrawals, call, run, job,
                 chain, torn, checked>>

Tick ==
  /\ now < MAX_TIME
  /\ now' = now + 1
  /\ UNCHANGED <<kyc_approved, dual, withdrawal_requests, scheduled_withdrawals, call,
                 run, job, chain, torn, checked, disturbances>>

-----------------------------------------------------------------------------

Init ==
  /\ now = 0 /\ kyc_approved = TRUE
  /\ dual \in Dual
  /\ withdrawal_requests = [q \in Requests |->
       [status |-> "none", by |-> CHOOSE u \in Users : TRUE, amount |-> 0]]
  /\ scheduled_withdrawals = [s \in Staged |->
       [status |-> "none", amount |-> 0, target |-> 0]]
  /\ call = [c \in Callers |-> Idle]
  /\ run = [r \in Runs |-> NoRun]
  /\ job = [src \in Sources |-> [waiting |-> 0, paid |-> 0, refused |-> 0]]
  /\ \E required \in Required :
       chain = [collateral |-> COLLATERAL, required |-> required, inForce |-> required,
                open |-> TRUE]
  /\ torn = {} /\ checked = {} /\ disturbances = 0

RouteStep(c) ==
  \/ WithdrawNow(c) \/ ApproveQueued(c) \/ ApproveRecorded(c) \/ RejectWritten(c)
  \/ CancelWritten(c) \/ CancelScheduledWritten(c) \/ Refuse(c) \/ CallBreaks(c)
  \/ \E u \in Users, amount \in Amounts : Withdraw(c, u, amount)
  \/ \E amount \in Amounts, target \in 1..MAX_TIME : Schedule(c, amount, target)
  \/ \E s \in Staged : \/ CancelScheduled(c, s) \/ ScheduleStored(c, s)
                       \/ \E target \in 1..MAX_TIME : WithdrawLater(c, s, target)
  \/ \E q \in Requests : \/ WithdrawOnRequest(c, q)
                         \/ \E u \in Users : Approve(c, u, q) \/ Reject(c, u, q)
                                            \/ Cancel(c, u, q)

RunWorks(r) ==
  StartRun(r) \/ RunChecks(r) \/ RunBlocks(r) \/ RunQueues(r) \/ RunRecords(r)

RunBreaks(r) == RunFails(r) \/ RunDies(r)

Outside ==
  \/ Tick \/ DecideKyc
  \/ \E setting \in Dual : ConfigureDual(setting)
  \/ \E src \in Sources : Settle(src)
  \/ \E required, inForce \in Required, open \in BOOLEAN : Reassess(required, inForce, open)

Next ==
  \/ Outside
  \/ \E c \in Callers : RouteStep(c)
  \/ \E r \in Runs : RunWorks(r) \/ RunBreaks(r)

(* The interval timer keeps starting runs and a run goes on while its process *)
(* lives.  Nobody has to make a request, and time need not pass.              *)
Fairness == \A r \in Runs : WF_vars(RunWorks(r))

Spec == Init /\ [][Next]_vars /\ Fairness

-----------------------------------------------------------------------------

Queued(src) == job[src].waiting + job[src].paid + job[src].refused

(* A row that no two calls ever held at once, and that nobody holds now, tells *)
(* the truth about the queue: one job if it is approved or executed, none if it *)
(* is pending, rejected, cancelled or blocked.                                  *)
RowTellsQueue ==
  /\ \A q \in Requests \ (torn \cup Held) :
       Queued(q) = IF withdrawal_requests[q].status = "approved" THEN 1 ELSE 0
  /\ \A s \in Staged \ (torn \cup Held) :
       Queued(s) = IF scheduled_withdrawals[s].status = "executed" THEN 1 ELSE 0

(* Signing off: a direct withdrawal reaches the threshold only if the setting *)
(* was changed while the call was screened, and a request is paid only if     *)
(* someone else than its requester, or an administrator, approved it.         *)
SignOff ==
  [][\A c \in Callers :
       /\ Queued("direct")' > Queued("direct") /\ call'[c] # call[c]
            => (dual.enabled /\ dual.threshold > 0 /\ call[c].amount >= dual.threshold
                  => call[c].dual # dual)
       /\ \A q \in Requests :
            Queued(q)' > Queued(q) /\ call'[c] # call[c]
              => call[c].user # withdrawal_requests[q].by \/ call[c].user \in Admins]_vars

(* The scheduler's look at the account is as good as the contract's own: what *)
(* it lets pass is refused only if the account changed in between, or a       *)
(* dispute puts another requirement in force than the one it looks at.        *)
CheckForesees ==
  [][\A s \in checked :
       job'[s].refused > job[s].refused => chain.required # chain.inForce \/ ~chain.open]_vars

(* A scheduled withdrawal that is due is executed, blocked or cancelled in the *)
(* end, whatever fails on the way, as long as not everything always fails.     *)
DueIsResolved ==
  \A s \in Staged : s \in Due ~> scheduled_withdrawals[s].status # "pending"

=============================================================================
