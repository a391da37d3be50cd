--------------------------- MODULE PipelineProofs ---------------------------
(***************************************************************************)
(* The queue of the API and its transactions: module TxPipeline for any    *)
(* number of jobs and keys, any number of attempts and any bounds.         *)
(***************************************************************************)
EXTENDS TxPipeline, SumProofs

(* The number of job j's present run. *)
RunOf(j) == job[j].attemptsMade + job[j].stalled + 1

Status(j, r) == tx[<<j, r>>].status

(* Runs of j that have an effect, or may still have one. *)
Live(j) == {r \in Runs : Status(j, r) \in {"success", "pending"}}

(* Later runs have nothing yet and earlier ones are not about to send. *)
OneRun(j) ==
  \A r \in Runs : /\ r > RunOf(j) => Status(j, r) = "none"
                  /\ r < RunOf(j) => Status(j, r) # "signed"

(* What the transaction of the present run can be, by where the processor is. *)
Stage(j) ==
  /\ job[j].status = "none" => job[j].attemptsMade = 0 /\ job[j].stalled = 0
  /\ job[j].status \in {"none", "waiting", "failed"} \/ worker[j].at = "build" =>
       (RunOf(j) \in Runs => Status(j, RunOf(j)) = "none")
  /\ worker[j].at = "send" => Status(j, RunOf(j)) \in {"none", "signed"}
  /\ worker[j].at = "poll" =>
       /\ Status(j, RunOf(j)) # "signed"
       /\ Status(j, RunOf(j)) = "pending" => worker[j].waited <= tx[<<j, RunOf(j)>>].age
  /\ worker[j].at \in {"record", "finish"} \/ job[j].status = "completed" =>
       RunOf(j) \in Runs /\ Status(j, RunOf(j)) = "success"
  /\ worker[j].at = "finish" \/ job[j].status = "completed" =>
       <<j, RunOf(j)>> \in contract_events

(* All effects but that of the present run are of runs that ended blind. *)
Blamed(j) == Cardinality(Live(j) \ {RunOf(j)}) <= blind[j]

JobInv(j) == OneRun(j) /\ Stage(j) /\ Blamed(j)

(* A transaction that may still be sent or applied has not expired, ... *)
Valid == \A id \in TxIds :
           tx[id].status \in {"signed", "pending"} => tx[id].age < VALIDITY

(* ... and a row is of a transaction that the contract accepted. *)
RowsAreTrue == \A id \in contract_events : tx[id].status = "success"

PipelineInv == TypeOK /\ Valid /\ RowsAreTrue /\ \A j \in Jobs : JobInv(j)

-----------------------------------------------------------------------------

LEMMA RunsFinite == IsFiniteSet(Runs) /\ Runs \subseteq Nat
<1>1. ATTEMPTS + MAX_STALLED \in Nat
  BY PipelineAssumption
<1> QED
  BY <1>1, FS_Interval DEF Runs

(* Fewer runs to explain, or one more and one more that ended blind. *)
LEMMA StillBlamed ==
  ASSUME NEW A \in SUBSET Runs, NEW B \in SUBSET Runs, NEW m \in Nat, NEW n \in Nat,
         Cardinality(A) <= m,
         \/ B \subseteq A /\ n = m
         \/ \E r \in Runs : B \subseteq A \cup {r} /\ n = m + 1
  PROVE  Cardinality(B) <= n
<1>1. IsFiniteSet(A) /\ IsFiniteSet(B) /\ Cardinality(A) \in Nat /\ Cardinality(B) \in Nat
  BY RunsFinite, FS_Subset, FS_CardinalityType
<1>2. CASE B \subseteq A /\ n = m
  <2>1. Cardinality(B) <= Cardinality(A)
    BY <1>1, <1>2, FS_Subset
  <2> QED
    BY <2>1, <1>1, <1>2
<1>3. ASSUME NEW r \in Runs, B \subseteq A \cup {r}, n = m + 1 PROVE Cardinality(B) <= n
  <2>1. IsFiniteSet(A \cup {r}) /\ Cardinality(A \cup {r}) \in Nat
        /\ Cardinality(A \cup {r}) <= Cardinality(A) + 1
    BY SMTT(20), <1>1, FS_AddElement
  <2>2. Cardinality(B) <= Cardinality(A \cup {r})
    BY <2>1, <1>3, FS_Subset
  <2> QED
    BY <2>1, <2>2, <1>1, <1>3
<1> QED
  BY <1>2, <1>3

(* A step of job j leaves the others alone. *)
Untouched(i) ==
  /\ job'[i] = job[i] /\ worker'[i] = worker[i] /\ blind'[i] = blind[i]
  /\ \A r \in Runs : /\ tx'[<<i, r>>] = tx[<<i, r>>]
                     /\ <<i, r>> \in contract_events => <<i, r>> \in contract_events'

LEMMA UntouchedInv ==
  ASSUME NEW i \in Jobs, TypeOK, JobInv(i), Untouched(i)
  PROVE  JobInv(i)'
<1>1. RunOf(i)' = RunOf(i) /\ \A r \in Runs : Status(i, r)' = Status(i, r)
  BY DEF Untouched, RunOf, Status
<1>2. Live(i)' = Live(i)
  BY <1>1 DEF Live
<1>3. OneRun(i)' /\ Blamed(i)'
  BY <1>1, <1>2 DEF JobInv, OneRun, Blamed, Untouched
<1>4. worker[i].at \in {"build", "send", "poll", "record", "finish"} => RunOf(i) \in Runs
  BY DEF TypeOK, RunOf, Current, TxIds, JobState, WorkerState
<1>5. Stage(i)'
  BY <1>1, <1>4 DEF JobInv, Stage, Untouched
<1> QED
  BY <1>3, <1>5 DEF JobInv

LEMMA PipelineInitially == Init => PipelineInv
<1> SUFFICES ASSUME Init PROVE PipelineInv
  OBVIOUS
<1>1. TypeOK
  BY PipelineAssumption DEF Init, TypeOK, JobState, WorkerState, Transaction, InFlight
<1>2. ASSUME NEW j \in Jobs PROVE JobInv(j)
  <2>1. RunOf(j) = 1 /\ \A r \in Runs : Status(j, r) = "none"
    BY DEF Init, RunOf, Status, TxIds
  <2>2. Live(j) \ {RunOf(j)} = {}
    BY <2>1 DEF Live
  <2>3. Blamed(j)
    <3>1. Cardinality({}) = 0 /\ blind[j] = 0
      BY FS_EmptySet DEF Init
    <3> QED
      BY <2>2, <3>1 DEF Blamed
  <2>4. OneRun(j) /\ Stage(j)
    BY <2>1 DEF OneRun, Stage, Init
  <2> QED
    BY <2>3, <2>4 DEF JobInv
<1>3. Valid /\ RowsAreTrue
  BY DEF Init, Valid, RowsAreTrue, InFlight
<1> QED
  BY <1>1, <1>2, <1>3 DEF PipelineInv

-----------------------------------------------------------------------------

(* The types, step by step. *)
LEMMA CurrentRun ==
  ASSUME TypeOK, NEW j \in Jobs
  PROVE  /\ RunOf(j) \in Nat \ {0} /\ Current(j) = <<j, RunOf(j)>>
         /\ job[j].status \in {"waiting", "active"} =>
              RunOf(j) \in Runs /\ Current(j) \in TxIds
         /\ worker[j].at # "idle" <=> job[j].status = "active"
         /\ KeyOf[j] \in Keys
<1>1. job[j] \in JobState
  BY DEF TypeOK
<1>2. RunOf(j) \in Nat \ {0} /\ Current(j) = <<j, RunOf(j)>>
  BY <1>1, PipelineAssumption DEF RunOf, Current, JobState
<1>3. job[j].status \in {"waiting", "active"} => RunOf(j) \in Runs /\ Current(j) \in TxIds
  BY <1>2 DEF TypeOK, TxIds
<1>4. worker[j].at # "idle" <=> job[j].status = "active"
  BY DEF TypeOK
<1> QED
  BY <1>2, <1>3, <1>4, PipelineAssumption

(* Settled transactions and thrown jobs keep their types. *)
LEMMA SettleTyped ==
  ASSUME TypeOK, NEW id \in TxIds, NEW s \in {"none", "success", "failed"}, Settle(id, s)
  PROVE  /\ tx' \in [TxIds -> Transaction] /\ tx'[id] = Settled(s)
         /\ \A o \in TxIds : /\ o # id => tx'[o] = tx[o]
                             /\ InFlight(o)' => tx'[o].seq > 0
<1>1. Settled(s) \in Transaction /\ Settled(s).status = s
  BY PipelineAssumption DEF Settled, Transaction
<1>2. tx' \in [TxIds -> Transaction] /\ tx'[id] = Settled(s)
      /\ \A o \in TxIds : o # id => tx'[o] = tx[o]
  BY <1>1 DEF TypeOK, Settle
<1> QED
  BY <1>1, <1>2 DEF TypeOK, InFlight

(* The processor moves on within its run. *)
LEMMA GotoTyped ==
  ASSUME TypeOK, NEW j \in Jobs, job[j].status = "active", job' = job,
         NEW place \in {"build", "send", "poll", "record", "finish"}, Goto(j, place)
  PROVE  /\ worker' \in [Jobs -> WorkerState] /\ worker'[j] = [at |-> place, waited |-> 0]
         /\ \A i \in Jobs : i # j => worker'[i] = worker[i]
         /\ \A i \in Jobs :
              /\ job'[i].status = "active" <=> worker'[i].at # "idle"
              /\ job'[i].status \in {"waiting", "active"} =>
                   /\ job'[i].attemptsMade < ATTEMPTS /\ job'[i].stalled <= MAX_STALLED
                   /\ Current(i)' \in TxIds
<1>1. [at |-> place, waited |-> 0] \in WorkerState
  BY PipelineAssumption DEF WorkerState
<1>2. worker' \in [Jobs -> WorkerState] /\ worker'[j] = [at |-> place, waited |-> 0]
      /\ \A i \in Jobs : i # j => worker'[i] = worker[i]
  BY <1>1 DEF TypeOK, Goto
<1>3. \A i \in Jobs : Current(i)' = Current(i)
  BY DEF Current
<1> QED
  BY <1>2, <1>3 DEF TypeOK

(* A run ends, by a throw or by a crash: the next run has the next number. *)
LEMMA AttemptEnds ==
  ASSUME TypeOK, NEW j \in Jobs, job[j].status = "active",
         \/ Throw(j)
         \/ /\ job' = [job EXCEPT ![j].stalled = @ + 1,
                        ![j].status = IF Forgiven(j) THEN "waiting" ELSE "failed"]
            /\ Goto(j, "idle")
  PROVE  /\ job' \in [Jobs -> JobState] /\ worker' \in [Jobs -> WorkerState]
         /\ \A i \in Jobs \ {j} : job'[i] = job[i] /\ worker'[i] = worker[i]
         /\ job'[j].status \in {"waiting", "failed"} /\ worker'[j].at = "idle"
         /\ RunOf(j)' = RunOf(j) + 1
         /\ job'[j].status = "waiting" =>
              /\ job'[j].attemptsMade < ATTEMPTS /\ job'[j].stalled <= MAX_STALLED
              /\ RunOf(j)' \in Runs
<1>1. /\ job[j] \in JobState /\ job[j].attemptsMade < ATTEMPTS
      /\ job[j].stalled <= MAX_STALLED
      /\ job[j].attemptsMade \in Nat /\ job[j].stalled \in Nat
  BY PipelineAssumption DEF TypeOK, JobState
<1>2. [at |-> "idle", waited |-> 0] \in WorkerState
  BY PipelineAssumption DEF WorkerState
<1>3. /\ worker' \in [Jobs -> WorkerState] /\ worker'[j].at = "idle"
      /\ \A i \in Jobs \ {j} : worker'[i] = worker[i]
  BY <1>2 DEF TypeOK, Throw, Goto
<1>4. CASE Throw(j)
  <2>1. /\ job' \in [Jobs -> JobState] /\ \A i \in Jobs \ {j} : job'[i] = job[i]
        /\ job'[j].attemptsMade = job[j].attemptsMade + 1
        /\ job'[j].stalled = job[j].stalled
        /\ job'[j].status = IF job[j].attemptsMade + 1 < ATTEMPTS
                              THEN "waiting" ELSE "failed"
    BY <1>1, <1>4, PipelineAssumption DEF TypeOK, Throw, JobState
  <2> QED
    BY <2>1, <1>1, <1>3, PipelineAssumption DEF RunOf, Runs
<1>5. CASE job' = [job EXCEPT ![j].stalled = @ + 1,
                    ![j].status = IF Forgiven(j) THEN "waiting" ELSE "failed"]
  <2>1. /\ job' \in [Jobs -> JobState] /\ \A i \in Jobs \ {j} : job'[i] = job[i]
        /\ job'[j].attemptsMade = job[j].attemptsMade
        /\ job'[j].stalled = job[j].stalled + 1
        /\ job'[j].status = IF job[j].stalled < MAX_STALLED THEN "waiting" ELSE "failed"
    BY <1>1, <1>5, PipelineAssumption DEF TypeOK, Forgiven, JobState
  <2> QED
    BY <2>1, <1>1, <1>3, PipelineAssumption DEF RunOf, Runs
<1> QED
  BY <1>4, <1>5

(* What TypeOK says of jobs and their processors. *)
JobsTyped ==
  /\ job \in [Jobs -> JobState] /\ worker \in [Jobs -> WorkerState]
  /\ \A j \in Jobs :
       /\ job[j].status = "active" <=> worker[j].at # "idle"
       /\ job[j].status \in {"waiting", "active"} =>
            /\ job[j].attemptsMade < ATTEMPTS /\ job[j].stalled <= MAX_STALLED
            /\ Current(j) \in TxIds

LedgerTyped ==
  /\ tx \in [TxIds -> Transaction]
  /\ \A id \in TxIds : InFlight(id) => tx[id].seq > 0
  /\ sequence \in [Keys -> Nat]
  /\ contract_events \subseteq TxIds
  /\ blind \in [Jobs -> Nat]

(* Jobs stay typed when a run ends. *)
LEMMA AttemptEndsTyped ==
  ASSUME TypeOK, NEW j \in Jobs, job[j].status = "active",
         \/ Throw(j)
         \/ /\ job' = [job EXCEPT ![j].stalled = @ + 1,
                        ![j].status = IF Forgiven(j) THEN "waiting" ELSE "failed"]
            /\ Goto(j, "idle")
  PROVE  JobsTyped'
<1>1. /\ job' \in [Jobs -> JobState] /\ worker' \in [Jobs -> WorkerState]
      /\ \A i \in Jobs \ {j} : job'[i] = job[i] /\ worker'[i] = worker[i]
      /\ job'[j].status \in {"waiting", "failed"} /\ worker'[j].at = "idle"
      /\ job'[j].status = "waiting" =>
           /\ job'[j].attemptsMade < ATTEMPTS /\ job'[j].stalled <= MAX_STALLED
           /\ RunOf(j)' \in Runs
  BY AttemptEnds
<1>2. \A i \in Jobs : Current(i)' = <<i, RunOf(i)'>>
  BY DEF Current, RunOf
<1>3. \A i \in Jobs \ {j} : Current(i)' = Current(i)
  BY <1>1 DEF Current
<1> QED
  BY <1>1, <1>2, <1>3 DEF TypeOK, JobsTyped, TxIds

(* Every step of a job keeps the types. *)
LEMMA JobStepTyped ==
  ASSUME TypeOK, NEW j \in Jobs, Stage(j), Enqueue(j) \/ Work(j) \/ Fault(j)
  PROVE  TypeOK'
<1> USE CurrentRun
<1>1. ASSUME UNCHANGED tx \/ \E s \in {"none", "success", "failed"} : Settle(Current(j), s),
             job[j].status = "active", UNCHANGED sequence
      PROVE  /\ tx' \in [TxIds -> Transaction] /\ sequence' \in [Keys -> Nat]
             /\ \A id \in TxIds : InFlight(id)' => tx'[id].seq > 0
  BY <1>1, SettleTyped DEF TypeOK, InFlight
<1>2. ASSUME UNCHANGED blind \/ blind' = [blind EXCEPT ![j] = @ + 1]
      PROVE  blind' \in [Jobs -> Nat]
  BY <1>2 DEF TypeOK
<1>3. (JobsTyped' /\ LedgerTyped' => TypeOK') /\ (TypeOK => JobsTyped /\ LedgerTyped)
  BY DEF TypeOK, JobsTyped, LedgerTyped
<1>4. ASSUME job' = job, job[j].status = "active",
             NEW place \in {"build", "send", "poll", "record", "finish"}, Goto(j, place)
      PROVE  JobsTyped'
  <2>1. job' \in [Jobs -> JobState]
    BY <1>4 DEF TypeOK
  <2> QED
    BY <2>1, <1>4, GotoTyped DEF JobsTyped
<1>5. CASE Enqueue(j)
  <2>1. /\ job' \in [Jobs -> JobState] /\ job'[j].status = "waiting"
        /\ job'[j].attemptsMade = 0 /\ job'[j].stalled = 0
        /\ \A i \in Jobs \ {j} : job'[i] = job[i]
    BY <1>5 DEF Enqueue, TypeOK, JobState, Stage
  <2>2. worker[j].at = "idle"
    BY <1>5 DEF Enqueue
  <2>3. Current(j)' = <<j, 1>> /\ 1 \in Runs
    BY <2>1, PipelineAssumption DEF Current, Runs
  <2>4. \A i \in Jobs \ {j} : Current(i)' = Current(i)
    BY <2>1 DEF Current
  <2>5. JobsTyped'
    BY <2>1, <2>2, <2>3, <2>4, <1>5, PipelineAssumption
       DEF Enqueue, JobsTyped, TypeOK, TxIds
  <2> QED
    BY <2>5, <1>3, <1>5 DEF Enqueue, LedgerTyped, InFlight
<1>6. CASE Start(j)
  <2>1. /\ job' \in [Jobs -> JobState] /\ job'[j].status = "active"
        /\ job'[j].attemptsMade = job[j].attemptsMade /\ job'[j].stalled = job[j].stalled
        /\ \A i \in Jobs \ {j} : job'[i] = job[i]
    BY <1>6 DEF Start, TypeOK, JobState
  <2>2. [at |-> "build", waited |-> 0] \in WorkerState
    BY PipelineAssumption DEF WorkerState
  <2>3. /\ worker' \in [Jobs -> WorkerState] /\ worker'[j].at = "build"
        /\ \A i \in Jobs \ {j} : worker'[i] = worker[i]
    BY <2>2, <1>6 DEF Start, Goto, TypeOK
  <2>4. \A i \in Jobs : Current(i)' = Current(i)
    BY <2>1 DEF Current
  <2>5. JobsTyped'
    BY <2>1, <2>3, <2>4, <1>6 DEF Start, JobsTyped, TypeOK
  <2> QED
    BY <2>5, <1>3, <1>6 DEF Start, LedgerTyped, InFlight
<1>7. CASE Build(j)
  <2>1. job[j].status = "active" /\ job' = job /\ Goto(j, "send")
    BY <1>7 DEF Build, At
  <2>2. [status |-> "signed", seq |-> sequence[KeyOf[j]] + 1, age |-> 0] \in Transaction
    BY PipelineAssumption DEF TypeOK, Transaction
  <2>3. /\ tx' \in [TxIds -> Transaction] /\ tx'[Current(j)].status = "signed"
        /\ \A id \in TxIds : id # Current(j) => tx'[id] = tx[id]
    BY <2>1, <2>2, <1>7 DEF Build, TypeOK
  <2>4. JobsTyped'
    BY <2>1, <1>4
  <2> QED
    BY <2>3, <2>4, <1>3, <1>7 DEF Build, LedgerTyped, InFlight
<1>8. CASE NotSent(j)
  <2>1. job[j].status = "active" /\ Throw(j) /\ Settle(Current(j), "none")
    BY <1>8 DEF NotSent, At
  <2>2. JobsTyped'
    BY <2>1, AttemptEndsTyped
  <2> QED
    BY <2>1, <2>2, <1>1, <1>3, <1>8 DEF NotSent, LedgerTyped, InFlight
<1>9. CASE Send(j)
  <2>1. job[j].status = "active" /\ job' = job /\ Goto(j, "poll")
    BY <1>9 DEF Send, At
  <2>2. tx[Current(j)] \in Transaction /\ tx[Current(j)].seq > 0
    BY <2>1, <1>9 DEF Send, TypeOK
  <2>3. /\ tx' \in [TxIds -> Transaction] /\ tx'[Current(j)].seq > 0
        /\ \A id \in TxIds : id # Current(j) => tx'[id] = tx[id]
    BY <2>1, <2>2, <1>9 DEF Send, TypeOK, Transaction
  <2>4. JobsTyped'
    BY <2>1, <1>4
  <2> QED
    BY <2>3, <2>4, <1>3, <1>9 DEF Send, LedgerTyped, InFlight
<1>10. CASE SentInVain(j)
  <2>1. /\ job[j].status = "active" /\ job' = job /\ Goto(j, "poll")
        /\ Settle(Current(j), "none")
    BY <1>10 DEF SentInVain, At
  <2>2. JobsTyped'
    BY <2>1, <1>4
  <2> QED
    BY <2>1, <2>2, <1>1, <1>3, <1>10 DEF SentInVain, LedgerTyped, InFlight
<1>11. CASE SeeSuccess(j)
  <2>1. job[j].status = "active" /\ job' = job /\ Goto(j, "record")
    BY <1>11 DEF SeeSuccess, At
  <2>2. JobsTyped'
    BY <2>1, <1>4
  <2> QED
    BY <2>2, <1>3, <1>11 DEF SeeSuccess, LedgerTyped, InFlight
<1>12. CASE SeeFailure(j) \/ GiveUp(j) \/ PollFails(j) \/ RecordFails(j)
  <2>1. /\ job[j].status = "active" /\ Throw(j)
        /\ UNCHANGED <<tx, sequence, contract_events>>
        /\ UNCHANGED blind \/ blind' = [blind EXCEPT ![j] = @ + 1]
    BY <1>12 DEF SeeFailure, GiveUp, PollFails, RecordFails, At
  <2>2. JobsTyped'
    BY <2>1, AttemptEndsTyped
  <2> QED
    BY <2>1, <2>2, <1>2, <1>3 DEF LedgerTyped, InFlight
<1>13. CASE RecordEvent(j)
  <2>1. job[j].status = "active" /\ job' = job /\ Goto(j, "finish")
    BY <1>13 DEF RecordEvent, At
  <2>2. JobsTyped'
    BY <2>1, <1>4
  <2> QED
    BY <2>1, <2>2, <1>3, <1>13 DEF RecordEvent, LedgerTyped, InFlight
<1>14. CASE Complete(j)
  <2>1. /\ job' \in [Jobs -> JobState] /\ job'[j].status = "completed"
        /\ \A i \in Jobs \ {j} : job'[i] = job[i]
    BY <1>14 DEF Complete, TypeOK, JobState
  <2>2. [at |-> "idle", waited |-> 0] \in WorkerState
    BY PipelineAssumption DEF WorkerState
  <2>3. /\ worker' \in [Jobs -> WorkerState] /\ worker'[j].at = "idle"
        /\ \A i \in Jobs \ {j} : worker'[i] = worker[i]
    BY <2>2, <1>14 DEF Complete, Goto, TypeOK
  <2>4. \A i \in Jobs \ {j} : Current(i)' = Current(i)
    BY <2>1 DEF Current
  <2>5. JobsTyped'
    BY <2>1, <2>3, <2>4 DEF JobsTyped, TypeOK
  <2> QED
    BY <2>5, <1>3, <1>14 DEF Complete, LedgerTyped, InFlight
<1>15. CASE Crash(j)
  <2>1. /\ job[j].status = "active" /\ JobsTyped'
    BY <1>15, AttemptEndsTyped DEF Crash
  <2>2. UNCHANGED tx \/ Settle(Current(j), "none")
    BY <2>1, <1>15 DEF Crash, Settle, TypeOK
  <2>3. UNCHANGED blind \/ blind' = [blind EXCEPT ![j] = @ + 1]
    <3>1. CASE worker[j].at \in {"poll", "record", "finish"}
      BY <3>1, <1>15 DEF Crash
    <3>2. CASE worker[j].at \notin {"poll", "record", "finish"}
      BY <3>2, <1>15 DEF Crash, TypeOK
    <3> QED
      BY <3>1, <3>2
  <2> QED
    BY <2>1, <2>2, <2>3, <1>1, <1>2, <1>3, <1>15 DEF Crash, LedgerTyped, InFlight
<1> QED
  BY <1>5, <1>6, <1>7, <1>8, <1>9, <1>10, <1>11, <1>12, <1>13, <1>14, <1>15 DEF Work, Fault

(* A transaction one tick later: it keeps its type, and what became of it *)
(* stays; one that was not refused by then is still valid.                *)
LEMMA AgedTransaction ==
  ASSUME NEW t \in Transaction
  PROVE  /\ Aged(t) \in Transaction
         /\ t.status \notin {"signed", "pending"} => Aged(t) = t
         /\ Aged(t).status \in {t.status, "none"}
         /\ Aged(t).status = "pending" =>
              t.status = "pending" /\ Aged(t).age = t.age + 1 /\ Aged(t).seq = t.seq
         /\ Aged(t).status \in {"signed", "pending"} => Aged(t).age < VALIDITY
<1>1. CASE t.status \notin {"signed", "pending"}
  BY <1>1 DEF Aged
<1>2. CASE t.status \in {"signed", "pending"} /\ t.age + 1 >= VALIDITY
  <2>1. Aged(t) = Settled("none")
    BY <1>2 DEF Aged
  <2> QED
    BY <2>1, <1>2, PipelineAssumption DEF Settled, Transaction
<1>3. CASE t.status \in {"signed", "pending"} /\ ~ (t.age + 1 >= VALIDITY)
  <2>1. Aged(t) = [t EXCEPT !.age = @ + 1]
    BY <1>3 DEF Aged
  <2> QED
    BY <2>1, <1>3, PipelineAssumption DEF Transaction
<1> QED
  BY <1>1, <1>2, <1>3

LEMMA TickTyped == TypeOK /\ Tick => TypeOK'
<1> SUFFICES ASSUME TypeOK, Tick PROVE TypeOK'
  OBVIOUS
<1>1. /\ tx' \in [TxIds -> Transaction]
      /\ \A id \in TxIds : InFlight(id)' => tx'[id].seq > 0
  BY AgedTransaction DEF Tick, TypeOK, InFlight
<1>2. /\ worker' \in [Jobs -> WorkerState]
      /\ \A j \in Jobs : worker'[j].at = worker[j].at
  BY PipelineAssumption DEF Tick, TypeOK, WorkerState
<1>3. \A j \in Jobs : Current(j)' = Current(j)
  BY DEF Tick, Current
<1> QED
  BY <1>1, <1>2, <1>3 DEF Tick, TypeOK

LEMMA ApplyTyped ==
  ASSUME TypeOK, NEW id \in TxIds, Apply(id)
  PROVE  TypeOK'
<1>1. PICK s \in {"success", "failed"} : Settle(id, s)
  BY DEF Apply
<1>2. /\ tx' \in [TxIds -> Transaction]
      /\ \A o \in TxIds : InFlight(o)' => tx'[o].seq > 0
  BY <1>1, SettleTyped
<1>3. id[1] \in Jobs /\ KeyOf[id[1]] \in Keys
  BY PipelineAssumption DEF TxIds
<1>4. sequence' \in [Keys -> Nat]
  BY <1>3 DEF Apply, TypeOK
<1>5. \A j \in Jobs : Current(j)' = Current(j)
  BY DEF Apply, Current
<1> QED
  BY <1>2, <1>4, <1>5 DEF Apply, TypeOK

-----------------------------------------------------------------------------

(* A step of one job leaves the others alone. *)
LEMMA OthersUntouched ==
  ASSUME TypeOK, NEW j \in Jobs, Enqueue(j) \/ Work(j) \/ Fault(j), NEW i \in Jobs \ {j}
  PROVE  Untouched(i)
<1>1. job'[i] = job[i] /\ worker'[i] = worker[i] /\ blind'[i] = blind[i]
  BY DEF Enqueue, Work, Fault, Start, Build, NotSent, Send, SentInVain, SeeSuccess,
         SeeFailure, GiveUp, RecordEvent, Complete, PollFails, RecordFails, Crash,
         Throw, Goto, TypeOK
<1>2. \A r \in Runs : tx'[<<i, r>>] = tx[<<i, r>>]
  <2>1. \A r \in Runs : <<i, r>> \in TxIds /\ <<i, r>> # Current(j)
    BY DEF Current, TxIds
  <2> QED
    BY <2>1 DEF Enqueue, Work, Fault, Start, Build, NotSent, Send, SentInVain, SeeSuccess,
         SeeFailure, GiveUp, RecordEvent, Complete, PollFails, RecordFails, Crash,
         Settle, TypeOK
<1>3. contract_events \subseteq contract_events'
  BY DEF Enqueue, Work, Fault, Start, Build, NotSent, Send, SentInVain, SeeSuccess,
         SeeFailure, GiveUp, RecordEvent, Complete, PollFails, RecordFails, Crash
<1> QED
  BY <1>1, <1>2, <1>3 DEF Untouched

(* The runs to blame are no more, or one more and one more ended blind. *)
LEMMA BlameKept ==
  ASSUME NEW j \in Jobs, blind[j] \in Nat, Blamed(j), RunOf(j) \in Nat,
         \/ /\ Live(j)' \ {RunOf(j)'} \subseteq Live(j) \ {RunOf(j)}
            /\ blind'[j] = blind[j]
         \/ /\ RunOf(j) \in Runs
            /\ Live(j)' \ {RunOf(j)'} \subseteq Live(j)
            /\ blind'[j] = blind[j] + 1
  PROVE  Blamed(j)'
<1> DEFINE A == Live(j) \ {RunOf(j)}
           B == Live(j)' \ {RunOf(j)'}
<1>1. A \in SUBSET Runs /\ B \in SUBSET Runs /\ Cardinality(A) <= blind[j]
      /\ blind'[j] \in Nat
  BY DEF Live, Blamed
<1>2. \/ B \subseteq A /\ blind'[j] = blind[j]
      \/ \E r \in Runs : B \subseteq A \cup {r} /\ blind'[j] = blind[j] + 1
  <2>1. CASE RunOf(j) \in Runs /\ Live(j)' \ {RunOf(j)'} \subseteq Live(j)
             /\ blind'[j] = blind[j] + 1
    <3>1. B \subseteq A \cup {RunOf(j)}
      BY <2>1
    <3> QED
      BY <3>1, <2>1
  <2> QED
    BY <2>1
<1> HIDE DEF A, B
<1>3. Cardinality(B) <= blind'[j]
  BY <1>1, <1>2, StillBlamed
<1> QED
  BY <1>3 DEF Blamed, B

(* A run goes on: only its own transaction may have changed. *)
LEMMA RunGoesOn ==
  ASSUME TypeOK, NEW j \in Jobs, JobInv(j), RunOf(j)' = RunOf(j), blind'[j] = blind[j],
         \A r \in Runs \ {RunOf(j)} : Status(j, r)' = Status(j, r), Stage(j)'
  PROVE  JobInv(j)'
<1>1. OneRun(j)'
  BY CurrentRun, RunsFinite DEF JobInv, OneRun
<1>2. Live(j)' \ {RunOf(j)'} \subseteq Live(j) \ {RunOf(j)}
  BY DEF Live
<1>3. Blamed(j)'
  BY <1>2, CurrentRun, BlameKept DEF JobInv, TypeOK
<1> QED
  BY <1>1, <1>3 DEF JobInv

(* A run ends: it leaves no effect, or it ended blind. *)
LEMMA AttemptEndsExplained ==
  ASSUME TypeOK, NEW j \in Jobs, NEW c \in Runs, c = RunOf(j),
         JobInv(j), job[j].status = "active",
         \/ Throw(j)
         \/ /\ job' = [job EXCEPT ![j].stalled = @ + 1,
                        ![j].status = IF Forgiven(j) THEN "waiting" ELSE "failed"]
            /\ Goto(j, "idle"),
         \A r \in Runs \ {c} : Status(j, r)' = Status(j, r),
         Status(j, c)' # "signed",
         \/ blind'[j] = blind[j] /\ Status(j, c)' \notin {"success", "pending"}
         \/ blind'[j] = blind[j] + 1 /\ Status(j, c)' \in {Status(j, c), "none"}
  PROVE  JobInv(j)'
<1>1. /\ job'[j].status \in {"waiting", "failed"} /\ worker'[j].at = "idle"
      /\ RunOf(j)' = RunOf(j) + 1
  BY AttemptEnds
<1>2. c \in Nat /\ Runs \subseteq Nat
  BY RunsFinite
<1>3. OneRun(j)'
  <2>1. ASSUME NEW r \in Runs, r > c + 1 PROVE Status(j, r)' = "none"
    BY <2>1, <1>2 DEF JobInv, OneRun
  <2>2. ASSUME NEW r \in Runs, r < c + 1 PROVE Status(j, r)' # "signed"
    BY <2>2, <1>2 DEF JobInv, OneRun
  <2> QED
    BY <2>1, <2>2, <1>1 DEF OneRun
<1>4. ASSUME c + 1 \in Runs PROVE Status(j, c + 1)' = "none"
  BY <1>4, <1>2 DEF JobInv, OneRun
<1>5. Stage(j)'
  <2>1. RunOf(j)' = c + 1
    BY <1>1
  <2> QED
    BY <2>1, <1>1, <1>4 DEF Stage
<1>6. \/ /\ Live(j)' \ {RunOf(j)'} \subseteq Live(j) \ {RunOf(j)}
         /\ blind'[j] = blind[j]
      \/ /\ Live(j)' \ {RunOf(j)'} \subseteq Live(j)
         /\ blind'[j] = blind[j] + 1
  <2>1. CASE blind'[j] = blind[j] /\ Status(j, c)' \notin {"success", "pending"}
    <3>1. \A r \in Runs : Status(j, r)' \in {"success", "pending"} =>
             r # c /\ Status(j, r) \in {"success", "pending"}
      BY <2>1
    <3> QED
      BY <3>1, <2>1 DEF Live
  <2>2. CASE blind'[j] = blind[j] + 1 /\ Status(j, c)' \in {Status(j, c), "none"}
    <3>1. \A r \in Runs : Status(j, r)' \in {"success", "pending"} =>
             Status(j, r) \in {"success", "pending"}
      BY <2>2
    <3> QED
      BY <3>1, <2>2 DEF Live
  <2> QED
    BY <2>1, <2>2
<1>7. Blamed(j)'
  BY <1>2, <1>6, BlameKept DEF JobInv, TypeOK
<1> QED
  BY <1>3, <1>5, <1>7 DEF JobInv

(* A step of a job keeps what is said of its runs. *)
LEMMA OwnStep ==
  ASSUME TypeOK, Valid, NEW j \in Jobs, JobInv(j), Enqueue(j) \/ Work(j) \/ Fault(j)
  PROVE  JobInv(j)'
<1>1. CASE Enqueue(j) \/ Start(j)
  <2>1. /\ job'[j].attemptsMade = job[j].attemptsMade /\ job'[j].stalled = job[j].stalled
        /\ job[j].status \in {"none", "waiting"} /\ worker[j].at = "idle"
        /\ job'[j].status \in {"waiting", "active"} /\ worker'[j].at \in {"idle", "build"}
        /\ tx' = tx /\ blind' = blind
    BY <1>1, CurrentRun DEF Enqueue, Start, Goto, TypeOK, JobState
  <2>2. RunOf(j)' = RunOf(j) /\ \A r \in Runs : Status(j, r)' = Status(j, r)
    BY <2>1 DEF RunOf, Status
  <2>3. Stage(j)'
    BY <2>1, <2>2 DEF JobInv, Stage
  <2> QED
    BY <2>1, <2>2, <2>3, RunGoesOn
<1>2. ASSUME job[j].status = "active"
      PROVE  /\ RunOf(j) \in Runs /\ Current(j) = <<j, RunOf(j)>> /\ Current(j) \in TxIds
             /\ worker[j].at # "idle"
  BY <1>2, CurrentRun
<1>3. ASSUME job[j].status = "active", UNCHANGED job,
             \A id \in TxIds \ {Current(j)} : tx'[id] = tx[id]
      PROVE  /\ RunOf(j)' = RunOf(j)
             /\ \A r \in Runs \ {RunOf(j)} : Status(j, r)' = Status(j, r)
  BY <1>2, <1>3 DEF RunOf, Status, TxIds
<1>4. CASE Build(j) \/ Send(j) \/ SentInVain(j)
  <2>1. /\ job[j].status = "active" /\ UNCHANGED <<job, blind>>
        /\ \A id \in TxIds \ {Current(j)} : tx'[id] = tx[id]
    BY <1>4 DEF Build, Send, SentInVain, At, Settle, TypeOK
  <2>2. \/ worker'[j].at = "send" /\ tx'[Current(j)].status = "signed"
        \/ /\ worker'[j].at = "poll" /\ worker'[j].waited = 0
           /\ tx'[Current(j)] \in Transaction
           /\ tx'[Current(j)].status \in {"pending", "none"}
    <3>1. tx[Current(j)] \in Transaction
      BY <1>2, <2>1 DEF TypeOK
    <3>2. CASE Build(j)
      BY <3>2, <1>2, <2>1 DEF Build, Goto, TypeOK
    <3>3. CASE Send(j)
      BY <3>1, <3>3, <1>2, <2>1 DEF Send, Goto, TypeOK, Transaction
    <3>4. CASE SentInVain(j)
      <4>1. Settle(Current(j), "none") /\ worker'[j] = [at |-> "poll", waited |-> 0]
        BY <3>4 DEF SentInVain, Goto, TypeOK
      <4>2. tx'[Current(j)] = Settled("none") /\ tx'[Current(j)] \in Transaction
        BY <4>1, <1>2, <2>1, SettleTyped
      <4> QED
        BY <4>1, <4>2 DEF Settled
    <3> QED
      BY <1>4, <3>2, <3>3, <3>4
  <2>3. Stage(j)'
    <3>1. Current(j)' = Current(j) /\ Current(j) = <<j, RunOf(j)>> /\ RunOf(j)' = RunOf(j)
      BY <1>2, <1>3, <2>1 DEF Current
    <3>2. tx'[Current(j)] = tx'[<<j, RunOf(j)'>>] /\ job'[j].status = "active"
      BY <3>1, <2>1
    <3>3. tx'[Current(j)].age \in Nat \/ worker'[j].at = "send"
      BY <2>2, PipelineAssumption DEF Transaction
    <3> QED
      BY <2>2, <3>2, <3>3 DEF Stage, Status
  <2> QED
    BY <1>3, <2>1, <2>3, RunGoesOn
<1>5. CASE SeeSuccess(j) \/ RecordEvent(j) \/ Complete(j)
  <2>1. /\ job[j].status = "active" /\ UNCHANGED <<tx, blind>>
        /\ job'[j].attemptsMade = job[j].attemptsMade /\ job'[j].stalled = job[j].stalled
        /\ contract_events \subseteq contract_events'
        /\ job'[j].status \in {"active", "completed"}
    BY <1>5 DEF SeeSuccess, RecordEvent, Complete, At, TypeOK, JobState
  <2>2. RunOf(j)' = RunOf(j) /\ \A r \in Runs : Status(j, r)' = Status(j, r)
    BY <2>1 DEF RunOf, Status
  <2>3. Status(j, RunOf(j)) = "success"
    BY <1>2, <1>5, <2>1
       DEF SeeSuccess, RecordEvent, Complete, Confirmed, At, Status, JobInv, Stage
  <2>4. worker'[j].at \in {"record", "finish", "idle"}
    BY <1>5 DEF SeeSuccess, RecordEvent, Complete, Goto, TypeOK
  <2>5. worker'[j].at = "finish" \/ job'[j].status = "completed" =>
          <<j, RunOf(j)>> \in contract_events'
    <3>1. CASE SeeSuccess(j)
      BY <3>1 DEF SeeSuccess, Goto, TypeOK, At
    <3>2. CASE RecordEvent(j)
      BY <3>2, <1>2, <2>1 DEF RecordEvent
    <3>3. CASE Complete(j)
      BY <3>3 DEF Complete, At, JobInv, Stage
    <3> QED
      BY <1>5, <3>1, <3>2, <3>3
  <2>6. Stage(j)'
    <3>1. PICK c \in Runs : c = RunOf(j)
      BY <1>2, <2>1
    <3>2. RunOf(j)' = c /\ Status(j, c)' = "success"
      BY <2>2, <2>3, <3>1
    <3> QED
      BY <2>1, <2>4, <2>5, <3>1, <3>2 DEF Stage
  <2> QED
    BY <2>1, <2>2, <2>6, RunGoesOn
<1>6. CASE NotSent(j) \/ SeeFailure(j) \/ GiveUp(j) \/ PollFails(j) \/ RecordFails(j) \/ Crash(j)
  <2>1. /\ job[j].status = "active"
        /\ \/ Throw(j)
           \/ /\ job' = [job EXCEPT ![j].stalled = @ + 1,
                        ![j].status = IF Forgiven(j) THEN "waiting" ELSE "failed"]
              /\ Goto(j, "idle")
        /\ \A id \in TxIds \ {Current(j)} : tx'[id] = tx[id]
    BY <1>6 DEF NotSent, SeeFailure, GiveUp, PollFails, RecordFails, Crash, At, Settle, TypeOK
  <2>2. PICK c \in Runs : c = RunOf(j) /\ Current(j) = <<j, c>> /\ <<j, c>> \in TxIds
    BY <1>2, <2>1
  <2>3. \A r \in Runs \ {c} : Status(j, r)' = Status(j, r)
    BY <2>1, <2>2 DEF Status, TxIds
  <2>4. CASE NotSent(j)
    <3>1. tx'[<<j, c>>] = Settled("none")
      BY <2>2, <2>4, SettleTyped DEF NotSent
    <3>2. blind'[j] = blind[j]
      BY <2>4 DEF NotSent
    <3>3. Status(j, c)' = "none"
      BY <3>1 DEF Status, Settled
    <3> QED
      BY <2>1, <2>2, <2>3, <3>2, <3>3, AttemptEndsExplained
  <2>5. CASE SeeFailure(j)
    <3>1. Status(j, c)' = "failed" /\ blind'[j] = blind[j]
      BY <2>2, <2>5 DEF SeeFailure, Status
    <3> QED
      BY <2>1, <2>2, <2>3, <3>1, AttemptEndsExplained
  <2>6. CASE GiveUp(j)
    <3>1. /\ tx' = tx /\ blind'[j] = blind[j] /\ worker[j].at = "poll"
          /\ tx[<<j, c>>].status \notin {"success", "failed", "signed"}
          /\ worker[j].waited >= DEADLINE
      BY <2>2, <2>6 DEF GiveUp, At, PollEnded, JobInv, Stage, Status
    <3>2. tx[<<j, c>>].status # "pending"
      <4> SUFFICES ASSUME tx[<<j, c>>].status = "pending" PROVE FALSE
        OBVIOUS
      <4>1. worker[j].waited <= tx[<<j, c>>].age
        BY <2>2, <3>1 DEF JobInv, Stage, Status
      <4>2. tx[<<j, c>>].age < VALIDITY
        BY <2>2 DEF Valid, InFlight
      <4>3. worker[j].waited \in Int /\ tx[<<j, c>>].age \in Int
        BY <2>2, PipelineAssumption DEF TypeOK, WorkerState, Transaction
      <4> QED
        BY <3>1, <4>1, <4>2, <4>3, PipelineAssumption
    <3>3. Status(j, c)' \notin {"success", "pending", "signed"}
      BY <3>1, <3>2 DEF Status
    <3> QED
      BY <2>1, <2>2, <2>3, <3>1, <3>3, AttemptEndsExplained
  <2>7. CASE PollFails(j) \/ RecordFails(j)
    <3>1. tx' = tx /\ blind'[j] = blind[j] + 1 /\ worker[j].at \in {"poll", "record"}
      BY <2>7 DEF PollFails, RecordFails, At, TypeOK
    <3>2. Status(j, c)' = Status(j, c) /\ Status(j, c) # "signed"
      BY <2>2, <3>1 DEF Status, JobInv, Stage
    <3> QED
      BY <2>1, <2>2, <2>3, <3>1, <3>2, AttemptEndsExplained
  <2>8. CASE Crash(j)
    <3>1. tx'[<<j, c>>] = IF tx[<<j, c>>].status = "signed" THEN Settled("none")
                                                            ELSE tx[<<j, c>>]
      BY <2>2, <2>8 DEF Crash, TypeOK
    <3>2. Status(j, c)' \in {Status(j, c), "none"} /\ Status(j, c)' # "signed"
      BY <3>1 DEF Status, Settled
    <3>3. CASE worker[j].at \in {"poll", "record", "finish"}
      <4>1. blind'[j] = blind[j] + 1
        BY <2>8, <3>3 DEF Crash, TypeOK
      <4> QED
        BY <2>1, <2>2, <2>3, <3>2, <4>1, AttemptEndsExplained
    <3>4. CASE worker[j].at \in {"build", "send"}
      <4>1. blind'[j] = blind[j]
        BY <2>8, <3>4 DEF Crash, TypeOK
      <4>2. Status(j, c) \in {"none", "signed"}
        BY <2>2, <3>4 DEF JobInv, Stage
      <4> QED
        BY <2>1, <2>2, <2>3, <3>2, <4>1, <4>2, AttemptEndsExplained
    <3>5. worker[j].at \in {"build", "send", "poll", "record", "finish"}
      BY <1>2, <2>1 DEF TypeOK, WorkerState
    <3> QED
      BY <3>3, <3>4, <3>5
  <2> QED
    BY <1>6, <2>4, <2>5, <2>6, <2>7, <2>8
<1> QED
  BY <1>1, <1>4, <1>5, <1>6 DEF Work, Fault

(* A step of a job sends what is valid and records what is on the ledger. *)
LEMMA JobStepTrue ==
  ASSUME TypeOK, Valid, RowsAreTrue, NEW j \in Jobs, JobInv(j),
         Enqueue(j) \/ Work(j) \/ Fault(j)
  PROVE  Valid' /\ RowsAreTrue'
<1>1. PICK n \in Nat \ {0} : n = RunOf(j) /\ Current(j) = <<j, n>>
  BY CurrentRun
<1>2. ASSUME NEW id \in TxIds
      PROVE  /\ tx[id].status = "success" => tx'[id].status = "success"
             /\ tx'[id].status \in {"signed", "pending"} =>
                  \/ tx'[id].age = 0
                  \/ /\ tx[id].status \in {"signed", "pending"}
                     /\ tx'[id].age = tx[id].age
  <2>1. CASE id # Current(j)
    BY <2>1 DEF Enqueue, Work, Fault, Start, Build, NotSent, Send, SentInVain, SeeSuccess,
         SeeFailure, GiveUp, RecordEvent, Complete, PollFails, RecordFails, Crash,
         Settle, TypeOK
  <2>2. CASE id = Current(j) /\ (Build(j) \/ NotSent(j) \/ Send(j) \/ SentInVain(j))
    <3>1. n \in Runs /\ Status(j, n) \in {"none", "signed"}
      BY <1>1, <2>2, CurrentRun
         DEF Build, NotSent, Send, SentInVain, At, JobInv, Stage
    <3>2. tx[id].status \in {"none", "signed"}
      BY <1>1, <2>2, <3>1 DEF Status
    <3>3. /\ Build(j) => tx'[id].age = 0
          /\ NotSent(j) \/ SentInVain(j) => tx'[id].status = "none"
          /\ Send(j) => tx'[id].age = tx[id].age /\ tx[id].status = "signed"
      <4>1. tx \in [TxIds -> Transaction] /\ tx[id] \in Transaction
        BY DEF TypeOK
      <4> QED
        BY <4>1, <2>2 DEF Build, NotSent, SentInVain, Send, Settle, Settled, Transaction
    <3> QED
      BY <2>2, <3>2, <3>3
  <2>3. CASE id = Current(j) /\ Crash(j)
    BY <2>3 DEF Crash, TypeOK, Settled
  <2>4. CASE UNCHANGED tx
    BY <2>4
  <2> QED
    BY <2>1, <2>2, <2>3, <2>4
       DEF Enqueue, Work, Fault, Start, SeeSuccess, SeeFailure, GiveUp, RecordEvent,
           Complete, PollFails, RecordFails
<1>3. \A id \in contract_events' \ contract_events :
        tx[id].status = "success" /\ id \in TxIds
  <2>1. CASE RecordEvent(j)
    <3>1. Status(j, n) = "success"
      BY <1>1, <2>1 DEF RecordEvent, At, JobInv, Stage
    <3>2. contract_events' = contract_events \cup {<<j, n>>} /\ <<j, n>> \in TxIds
      BY <1>1, <2>1, CurrentRun DEF RecordEvent, At
    <3> QED
      BY <3>1, <3>2 DEF Status
  <2>2. CASE contract_events' = contract_events
    BY <2>2
  <2> QED
    BY <2>1, <2>2
       DEF Enqueue, Work, Fault, Start, Build, NotSent, Send, SentInVain, SeeSuccess,
           SeeFailure, GiveUp, Complete, PollFails, RecordFails, Crash
<1>4. RowsAreTrue'
  BY <1>2, <1>3 DEF RowsAreTrue, TypeOK
<1>5. Valid'
  BY <1>2, PipelineAssumption DEF Valid
<1> QED
  BY <1>4, <1>5

(* A ledger closes with a pending transaction in it. *)
LEMMA ApplyKept ==
  ASSUME PipelineInv, NEW id \in TxIds, Apply(id)
  PROVE  PipelineInv'
<1>1. PICK s \in {"success", "failed"} : Settle(id, s)
  BY DEF Apply
<1>2. /\ tx'[id].status = s /\ tx[id].status = "pending"
      /\ \A o \in TxIds \ {id} : tx'[o] = tx[o]
  BY <1>1, SettleTyped DEF Apply, InFlight, Settled, PipelineInv
<1>3. UNCHANGED <<job, worker, contract_events, blind>>
  BY DEF Apply
<1>4. TypeOK' /\ TypeOK
  BY ApplyTyped DEF PipelineInv
<1>5. Valid' /\ RowsAreTrue'
  BY <1>2, <1>3, <1>4 DEF PipelineInv, Valid, RowsAreTrue, TypeOK
<1>6. ASSUME NEW j \in Jobs PROVE JobInv(j)'
  <2>1. JobInv(j)
    BY DEF PipelineInv
  <2>2. /\ RunOf(j)' = RunOf(j)
        /\ \A r \in Runs : \/ Status(j, r)' = Status(j, r)
                           \/ /\ Status(j, r) = "pending"
                              /\ Status(j, r)' \in {"success", "failed"}
    BY <1>2, <1>3 DEF RunOf, Status, TxIds
  <2>3. \A r \in Runs : tx'[<<j, r>>] = tx[<<j, r>>] \/ Status(j, r)' \in {"success", "failed"}
    BY <1>2 DEF Status, TxIds
  <2>4. OneRun(j)'
    BY <2>1, <2>2 DEF JobInv, OneRun
  <2>5. Live(j)' \ {RunOf(j)'} \subseteq Live(j) \ {RunOf(j)}
    BY <2>2 DEF Live
  <2>6. Blamed(j)'
    BY <1>3, <1>4, <2>1, <2>5, CurrentRun, BlameKept DEF JobInv, TypeOK
  <2>7. worker[j].at \in {"build", "send", "poll", "record", "finish"} => RunOf(j) \in Runs
    BY <1>4, CurrentRun
  <2>8. Stage(j)'
    BY <1>3, <2>1, <2>2, <2>3, <2>7 DEF JobInv, Stage
  <2> QED
    BY <2>4, <2>6, <2>8 DEF JobInv
<1> QED
  BY <1>4, <1>5, <1>6 DEF PipelineInv

(* Time passes: what is not applied in time never is. *)
LEMMA TickKept == PipelineInv /\ Tick => PipelineInv'
<1> SUFFICES ASSUME PipelineInv, Tick PROVE PipelineInv'
  OBVIOUS
<1>1. TypeOK' /\ TypeOK
  BY TickTyped DEF PipelineInv
<1>2. UNCHANGED <<job, contract_events, blind>>
  BY DEF Tick
<1>3. \A id \in TxIds :
        /\ tx[id].status \notin {"signed", "pending"} => tx'[id] = tx[id]
        /\ tx'[id].status \in {tx[id].status, "none"}
        /\ tx'[id].status = "pending" =>
             tx[id].status = "pending" /\ tx'[id].age = tx[id].age + 1
        /\ tx'[id].status \in {"signed", "pending"} => tx'[id].age < VALIDITY
  <2> SUFFICES ASSUME NEW id \in TxIds
               PROVE  /\ tx[id].status \notin {"signed", "pending"} => tx'[id] = tx[id]
                      /\ tx'[id].status \in {tx[id].status, "none"}
                      /\ tx'[id].status = "pending" =>
                           tx[id].status = "pending" /\ tx'[id].age = tx[id].age + 1
                      /\ tx'[id].status \in {"signed", "pending"} => tx'[id].age < VALIDITY
    OBVIOUS
  <2>1. tx[id] \in Transaction /\ tx'[id] = Aged(tx[id])
    BY <1>1 DEF Tick, TypeOK
  <2> QED
    BY <2>1, AgedTransaction
<1>4. Valid' /\ RowsAreTrue'
  BY <1>1, <1>2, <1>3 DEF PipelineInv, Valid, RowsAreTrue, TypeOK
<1>5. ASSUME NEW j \in Jobs PROVE JobInv(j)'
  <2>1. JobInv(j)
    BY DEF PipelineInv
  <2>2. \A r \in Runs : <<j, r>> \in TxIds
    BY DEF TxIds
  <2>3. /\ RunOf(j)' = RunOf(j)
        /\ \A r \in Runs : /\ Status(j, r)' \in {Status(j, r), "none"}
                           /\ Status(j, r) = "success" => Status(j, r)' = "success"
    BY <1>2, <1>3, <2>2 DEF RunOf, Status
  <2>4. worker'[j].at = worker[j].at
        /\ worker[j].waited \in Int
        /\ worker'[j].waited \in {worker[j].waited, worker[j].waited + 1}
    BY <1>1, PipelineAssumption DEF Tick, TypeOK, WorkerState
  <2>5. OneRun(j)'
    BY <2>1, <2>3 DEF JobInv, OneRun
  <2>6. Live(j)' \ {RunOf(j)'} \subseteq Live(j) \ {RunOf(j)}
    BY <2>3 DEF Live
  <2>7. Blamed(j)'
    BY <1>1, <1>2, <2>1, <2>6, CurrentRun, BlameKept DEF JobInv, TypeOK
  <2>8. worker[j].at \in {"build", "send", "poll", "record", "finish"} => RunOf(j) \in Runs
    BY <1>1, CurrentRun
  <2>9. ASSUME NEW c \in Runs, c = RunOf(j), worker[j].at = "poll",
               tx'[<<j, c>>].status = "pending"
        PROVE  worker'[j].waited <= tx'[<<j, c>>].age
    <3>1. tx[<<j, c>>].status = "pending" /\ tx'[<<j, c>>].age = tx[<<j, c>>].age + 1
      BY <1>3, <2>2, <2>9
    <3>2. worker[j].waited <= tx[<<j, c>>].age
      BY <2>1, <2>9, <3>1 DEF JobInv, Stage, Status
    <3>3. tx[<<j, c>>].age \in Nat
      BY <1>1, <2>2, PipelineAssumption DEF TypeOK, Transaction
    <3> QED
      BY <2>4, <3>1, <3>2, <3>3
  <2>10. Stage(j)'
    <3>1. worker[j].at = "poll" =>
            /\ Status(j, RunOf(j))' # "signed"
            /\ Status(j, RunOf(j))' = "pending" =>
                 worker'[j].waited <= tx'[<<j, RunOf(j)'>>].age
      <4> SUFFICES ASSUME worker[j].at = "poll"
                   PROVE  /\ Status(j, RunOf(j))' # "signed"
                          /\ Status(j, RunOf(j))' = "pending" =>
                               worker'[j].waited <= tx'[<<j, RunOf(j)'>>].age
        OBVIOUS
      <4>1. worker[j].at = "poll"
        OBVIOUS
      <4>2. PICK c \in Runs : c = RunOf(j)
        BY <2>8, <4>1
      <4>3. RunOf(j)' = c /\ Status(j, c) # "signed" /\ Status(j, c)' = tx'[<<j, c>>].status
        BY <2>1, <2>3, <4>1, <4>2 DEF JobInv, Stage, Status
      <4>4. Status(j, c)' # "signed"
        BY <2>3, <4>3
      <4> QED
        BY <2>9, <4>1, <4>2, <4>3, <4>4
    <3>2. /\ worker[j].at \in {"record", "finish"} \/ job[j].status = "completed" =>
               RunOf(j)' \in Runs /\ Status(j, RunOf(j))' = "success"
          /\ worker[j].at = "finish" \/ job[j].status = "completed" =>
               <<j, RunOf(j)'>> \in contract_events
      BY <2>1, <2>3 DEF JobInv, Stage
    <3>3. /\ job[j].status = "none" => job[j].attemptsMade = 0 /\ job[j].stalled = 0
          /\ job[j].status \in {"none", "waiting", "failed"} \/ worker[j].at = "build" =>
               (RunOf(j)' \in Runs => Status(j, RunOf(j))' = "none")
          /\ worker[j].at = "send" => Status(j, RunOf(j))' \in {"none", "signed"}
      BY <2>1, <2>3, <2>8 DEF JobInv, Stage
    <3> QED
      BY <1>2, <2>4, <3>1, <3>2, <3>3 DEF Stage
  <2> QED
    BY <2>5, <2>7, <2>10 DEF JobInv
<1> QED
  BY <1>1, <1>4, <1>5 DEF PipelineInv

LEMMA PipelineKept == PipelineInv /\ [Next]_vars => PipelineInv'
<1> SUFFICES ASSUME PipelineInv, [Next]_vars PROVE PipelineInv'
  OBVIOUS
<1>1. ASSUME NEW j \in Jobs, Enqueue(j) \/ Work(j) \/ Fault(j) PROVE PipelineInv'
  <2>1. /\ TypeOK /\ Valid /\ RowsAreTrue /\ JobInv(j) /\ Stage(j)
        /\ \A i \in Jobs : JobInv(i)
    BY DEF PipelineInv, JobInv
  <2>2. TypeOK'
    BY <1>1, <2>1, JobStepTyped
  <2>3. Valid' /\ RowsAreTrue'
    BY <1>1, <2>1, JobStepTrue
  <2>4. JobInv(j)'
    BY <1>1, <2>1, OwnStep
  <2>5. ASSUME NEW i \in Jobs \ {j} PROVE JobInv(i)'
    BY <1>1, <2>1, OthersUntouched, UntouchedInv
  <2> QED
    BY <2>2, <2>3, <2>4, <2>5 DEF PipelineInv
<1>2. CASE UNCHANGED vars
  <2>1. /\ TypeOK' /\ Valid' /\ RowsAreTrue' /\ TypeOK
        /\ \A j \in Jobs : JobInv(j) /\ Untouched(j)
    BY <1>2 DEF vars, PipelineInv, TypeOK, Current, InFlight, Valid, RowsAreTrue, Untouched
  <2> QED
    BY <2>1, UntouchedInv DEF PipelineInv
<1> QED
  BY <1>1, <1>2, ApplyKept, TickKept DEF Next

LEMMA PipelineInvariant == Spec => []PipelineInv
  BY PipelineInitially, PipelineKept, PTL DEF Spec

(* Jobs, transactions and rows keep to their types: no job is tried more    *)
(* often than its attempts and stalls allow, and each try has a transaction *)
(* of its own to sign.                                                      *)
THEOREM PipelineTyped == Spec => []TypeOK
<1>1. PipelineInv => TypeOK
  BY DEF PipelineInv
<1> QED
  BY <1>1, PipelineInvariant, PTL

(* Every effect of a job, on the ledger or still to come, has its reason:   *)
(* the completed or the present run, or a run that ended without an answer. *)
THEOREM EffectsHaveReasons == Spec => []EffectsExplained
<1>1. ASSUME PipelineInv PROVE EffectsExplained
  <2> SUFFICES ASSUME NEW j \in Jobs
               PROVE  Cardinality({r \in Runs : r \in Effects(j) \/ InFlight(<<j, r>>)})
                        <= blind[j] + (IF job[j].status \in {"active", "completed"}
                                         THEN 1 ELSE 0)
    BY DEF EffectsExplained
  <2>1. /\ TypeOK /\ Stage(j) /\ Blamed(j) /\ blind[j] \in Nat
        /\ job[j].status \in {"none", "waiting", "active", "completed", "failed"}
    BY <1>1 DEF PipelineInv, JobInv, TypeOK, JobState
  <2>2. {r \in Runs : r \in Effects(j) \/ InFlight(<<j, r>>)} = Live(j)
    BY DEF Effects, InFlight, Live, Status
  <2>3. IsFiniteSet(Live(j)) /\ Cardinality(Live(j)) \in Nat /\ Live(j) \subseteq Runs
    BY RunsFinite, FS_Subset, FS_CardinalityType DEF Live
  <2>4. CASE job[j].status \in {"active", "completed"}
    <3>1. RunOf(j) \in Runs
      BY <2>1, <2>4, CurrentRun DEF Stage
    <3>2. Cardinality(Live(j)) <= blind[j] + 1
      BY <2>1, <2>3, <3>1, StillBlamed DEF Blamed
    <3> QED
      BY <2>2, <2>4, <3>2
  <2>5. CASE job[j].status \in {"none", "waiting", "failed"}
    <3>1. RunOf(j) \notin Live(j)
      BY <2>1, <2>5 DEF Stage, Live
    <3>2. Live(j) \ {RunOf(j)} = Live(j)
      BY <3>1
    <3>3. Cardinality(Live(j)) <= blind[j]
      BY <2>1, <3>2 DEF Blamed
    <3>4. blind[j] + (IF job[j].status \in {"active", "completed"} THEN 1 ELSE 0) = blind[j]
      BY <2>1, <2>5
    <3> QED
      BY <2>2, <3>3, <3>4
  <2> QED
    BY <2>1, <2>4, <2>5
<1> QED
  BY <1>1, PipelineInvariant, PTL

(* contract_events shows only what the contract accepted, and the effect of *)
(* every job that is reported as completed.                                 *)
THEOREM EventsMirrorLedger == Spec => []MirrorOfLedger
<1>1. ASSUME PipelineInv PROVE MirrorOfLedger
  BY <1>1, CurrentRun DEF PipelineInv, JobInv, Stage, RowsAreTrue, MirrorOfLedger
<1> QED
  BY <1>1, PipelineInvariant, PTL

=============================================================================
