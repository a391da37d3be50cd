----------------------------- MODULE MCServices -----------------------------
(***************************************************************************)
(* The services of the API that have to go on by themselves, each on a     *)
(* small instance of its own: recurring deposits, the oracle listener, the *)
(* transaction queue and the delivery of reports.  They share no state     *)
(* here, so that a behaviour is about the one that has the focus; reports  *)
(* have two, as passes that race need no edits of the schedule.            *)
(***************************************************************************)
EXTENDS DepositSchedules, OracleListener, ReportDelivery, TxPipeline

CONSTANTS
  weekly, monthly, s1, e1, w1, w2,     \* deposits
  o1, o2, p1, p2,                      \* listener
  j1, j2, k,                           \* queue
  q1, x1, x2                           \* reports

VARIABLE focus

Periods == [c \in {weekly, monthly} |-> IF c = weekly THEN 1 ELSE 2]
SameKey == [j \in {j1, j2} |-> k]

SetOfCadences == {weekly, monthly}
SetOfSchedules == {s1}
SetOfEdits == {e1}
SetOfSweeps == {w1, w2}
SetOfEvents == {o1, o2}
SetOfUnreadable == {o2}
SetOfPolls == {p1, p2}
SetOfJobs == {j1, j2}
SetOfKeys == {k}
SetOfPuts == {q1}
SetOfPasses == {x1, x2}
Delays == [n \in 1..2 |-> IF n = 1 THEN 1 ELSE 3]

servicesVars == <<focus, scheduleVars, listenerVars, reportVars, vars>>

(* Bound of this instance: a PATCH changes the cadence or the status, not both. *)
OneField ==
  edit' # edit /\ edit'[e1].op = "patch" =>
    \/ edit'[e1].cadence = deposit_schedules[s1].cadence
    \/ edit'[e1].status = deposit_schedules[s1].status

OnDeposits ==
  focus = "deposits" /\ UNCHANGED <<focus, listenerVars, reportVars, vars>>
OnListener ==
  focus = "listener" /\ UNCHANGED <<focus, scheduleVars, reportVars, vars>>
OnReports ==
  focus \in {"slots", "mails"} /\ UNCHANGED <<focus, scheduleVars, listenerVars, vars>>
OnQueue ==
  focus = "queue" /\ UNCHANGED <<focus, scheduleVars, listenerVars, reportVars>>

ServicesInit ==
  /\ focus \in {"deposits", "listener", "slots", "mails", "queue"}
  /\ DepositsInit /\ ListenerInit /\ ReportsInit /\ Init

ServicesNext ==
  \/ OnDeposits /\ DepositsNext /\ OneField
  \/ OnListener /\ ListenerNext
  \/ /\ OnReports /\ ReportsNext
     /\ focus = "slots" => /\ pass'[x2] = NoPass /\ UNCHANGED mishaps
                           /\ Len(compliance_reports') <= 1
     /\ focus = "mails" => UNCHANGED put /\ report_schedule'.status # "deleted"
  \/ OnQueue /\ Next

(* The fairness of each service's own specification, while it has the focus. *)
ServicesFairness ==
  /\ WF_scheduleVars(focus = "deposits" /\ \E w \in Sweeps : SweepWorks(w))
  /\ WF_listenerVars(focus = "listener" /\ \E p \in Polls : PollWorks(p))
  /\ WF_reportVars(focus \in {"slots", "mails"} /\ MinutesPass)
  /\ WF_reportVars(focus = "slots" /\ PassWorks(x1))
  /\ WF_reportVars(focus = "mails" /\ \E x \in Passes : PassWorks(x))
  /\ WF_vars(focus = "queue" /\ Tick)
  /\ \A j \in Jobs : WF_vars(focus = "queue" /\ Work(j))

ServicesSpec == ServicesInit /\ [][ServicesNext]_servicesVars /\ ServicesFairness

(* Every service keeps to its types. *)
ServicesTypeOK ==
  DepositsTypeOK /\ ListenerTypeOK /\ ReportsTypeOK /\ TypeOK

=============================================================================
