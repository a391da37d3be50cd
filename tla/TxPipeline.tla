----------------------------- MODULE TxPipeline -----------------------------
(***************************************************************************)
(* How a call of the API reaches the contract: a job of the tx-submit      *)
(* queue (BullMQ, apps/api/src/queue.ts), the worker that runs it, the     *)
(* SDK's build, send and poll (packages/sdk, invokeAndSubmit), the ledger  *)
(* with one sequence number per signing key, and the contract_events row.  *)
(*                                                                         *)
(* A run of a job is one try of the worker: it ends when the job           *)
(* completes, when the processor throws, or when the worker dies and the   *)
(* queue finds the job stalled.  Every run signs a transaction of its own. *)
(***************************************************************************)
EXTENDS Integers, FiniteSets

CONSTANTS
  Jobs,         \* jobs that may be enqueued
  Keys,         \* signing keys: importers', platform's, surety's
  KeyOf,        \* key that signs a job's transaction
  ATTEMPTS,     \* attempts of a job: 2
  MAX_STALLED,  \* stalls the queue forgives, BullMQ's default: 1
  CONCURRENCY,  \* TX_SUBMIT_WORKER_CONCURRENCY: 8
  VALIDITY,     \* ticks a built transaction stays valid: 30 s
  DEADLINE      \* ticks the SDK polls for: 60 s

ASSUME PipelineAssumption ==
  /\ IsFiniteSet(Jobs) /\ KeyOf \in [Jobs -> Keys]
  /\ ATTEMPTS \in Nat \ {0} /\ MAX_STALLED \in Nat
  /\ CONCURRENCY \in Nat \ {0}
  /\ VALIDITY \in Nat \ {0} /\ DEADLINE \in Nat
  /\ VALIDITY <= DEADLINE

Runs == 1..(ATTEMPTS + MAX_STALLED)
TxIds == Jobs \X Runs

VARIABLES
  job,              \* the job in Redis: status, failed attempts, stalls
  worker,           \* where its processor is, and for how long it has polled
  tx,               \* the transaction of each run, in the network or on the ledger
  sequence,         \* ledger: last sequence number each key has used
  contract_events,  \* transactions with a row in contract_events
  blind             \* history variable: runs of a job that ended after its
                    \* transaction was sent and before the job completed, for
                    \* another reason than the transaction's own end

vars == <<job, worker, tx, sequence, contract_events, blind>>

-----------------------------------------------------------------------------

JobState == [status : {"none", "waiting", "active", "completed", "failed"},
             attemptsMade : 0..ATTEMPTS, stalled : 0..(MAX_STALLED + 1)]

WorkerState == [at : {"idle", "build", "send", "poll", "record", "finish"},
                waited : 0..DEADLINE]

Transaction == [status : {"none", "signed", "pending", "success", "failed"},
                seq : Nat, age : 0..VALIDITY]

(* The transaction of job j's present run. *)
Current(j) == <<j, job[j].attemptsMade + job[j].stalled + 1>>

Active == {j \in Jobs : job[j].status = "active"}

At(j, place) == job[j].status = "active" /\ worker[j].at = place

Goto(j, place) == worker' = [worker EXCEPT ![j] = [at |-> place, waited |-> 0]]

(* What became of a transaction; its number and age no longer matter then. *)
Settled(status) == [status |-> status, seq |-> 0, age |-> 0]

Settle(id, status) == tx' = [tx EXCEPT ![id] = Settled(status)]

(* The network may still apply it. *)
InFlight(id) == tx[id].status = "pending"

Effects(j) == {r \in Runs : tx[<<j, r>>].status = "success"}

-----------------------------------------------------------------------------

(* enqueueTxSubmit *)
Enqueue(j) ==
  /\ job[j].status = "none"
  /\ job' = [job EXCEPT ![j].status = "waiting"]
  /\ UNCHANGED <<worker, tx, sequence, contract_events, blind>>

(* The worker takes a job, one of at most CONCURRENCY at a time. *)
Start(j) ==
  /\ job[j].status = "waiting"
  /\ Cardinality(Active) < CONCURRENCY
  /\ job' = [job EXCEPT ![j].status = "active"]
  /\ Goto(j, "build")
  /\ UNCHANGED <<tx, sequence, contract_events, blind>>

(* The processor throws: another attempt after the backoff, or the job fails. *)
Throw(j) ==
  /\ job' = [job EXCEPT ![j].attemptsMade = @ + 1,
                        ![j].status = IF job[j].attemptsMade + 1 < ATTEMPTS
                                        THEN "waiting" ELSE "failed"]
  /\ Goto(j, "idle")

(* getAccount and the builder: the next sequence number as the ledger has it *)
(* now, and a transaction that is valid from now on for VALIDITY.            *)
Build(j) ==
  /\ At(j, "build")
  /\ tx' = [tx EXCEPT ![Current(j)] =
              [status |-> "signed", seq |-> sequence[KeyOf[j]] + 1, age |-> 0]]
  /\ Goto(j, "send")
  /\ UNCHANGED <<job, sequence, contract_events, blind>>

(* Nothing was sent: the importer's row, getAccount or prepareTransaction *)
(* fails, or sendTransaction answers ERROR.                               *)
NotSent(j) ==
  /\ At(j, "build") \/ At(j, "send")
  /\ Settle(Current(j), "none")
  /\ Throw(j)
  /\ UNCHANGED <<sequence, contract_events, blind>>

(* The network takes the next transaction of a key, while it is valid and no *)
(* other one of that key is pending.                                         *)
Send(j) ==
  LET t == tx[Current(j)]
  IN /\ At(j, "send")
     /\ t.status = "signed" /\ t.seq = sequence[KeyOf[j]] + 1
     /\ ~ \E id \in TxIds : KeyOf[id[1]] = KeyOf[j] /\ InFlight(id)
     /\ tx' = [tx EXCEPT ![Current(j)].status = "pending"]
     /\ Goto(j, "poll")
     /\ UNCHANGED <<job, sequence, contract_events, blind>>

(* sendTransaction answers TRY_AGAIN_LATER: it did not take the transaction, *)
(* but the SDK, which looks for ERROR only, polls for it.                    *)
SentInVain(j) ==
  /\ At(j, "send")
  /\ Settle(Current(j), "none")
  /\ Goto(j, "poll")
  /\ UNCHANGED <<job, sequence, contract_events, blind>>

(* Mutants of Confirmed: any answer will do; of PollEnded: the SDK stops *)
(* polling while the transaction is valid, or never.                     *)
Answered(id) == tx[id].status \in {"success", "failed"}
PollEndsEarly(j) == worker[j].waited >= VALIDITY - 1
PollNeverEnds(j) == FALSE

(* getTransaction answers SUCCESS. *)
Confirmed(id) == tx[id].status = "success"

(* The deadline has passed. *)
PollEnded(j) == worker[j].waited >= DEADLINE

SeeSuccess(j) ==
  /\ At(j, "poll")
  /\ Confirmed(Current(j))
  /\ Goto(j, "record")
  /\ UNCHANGED <<job, tx, sequence, contract_events, blind>>

SeeFailure(j) ==
  /\ At(j, "poll")
  /\ tx[Current(j)].status = "failed"
  /\ Throw(j)
  /\ UNCHANGED <<tx, sequence, contract_events, blind>>

(* Still NOT_FOUND at the deadline. *)
GiveUp(j) ==
  /\ At(j, "poll")
  /\ tx[Current(j)].status \notin {"success", "failed"}
  /\ PollEnded(j)
  /\ Throw(j)
  /\ UNCHANGED <<tx, sequence, contract_events, blind>>

(* The poll itself fails: one RPC error and the processor throws. An answer *)
(* to sendTransaction that gets lost is Send followed by this.              *)
PollFails(j) ==
  /\ At(j, "poll")
  /\ blind' = [blind EXCEPT ![j] = @ + 1]
  /\ Throw(j)
  /\ UNCHANGED <<tx, sequence, contract_events>>

(* INSERT INTO contract_events ... ON CONFLICT DO NOTHING *)
RecordEvent(j) ==
  /\ At(j, "record")
  /\ contract_events' = contract_events \cup {Current(j)}
  /\ Goto(j, "finish")
  /\ UNCHANGED <<job, tx, sequence, blind>>

RecordFails(j) ==
  /\ At(j, "record")
  /\ blind' = [blind EXCEPT ![j] = @ + 1]
  /\ Throw(j)
  /\ UNCHANGED <<tx, sequence, contract_events>>

(* The processor returns; what it does before that cannot fail the job. *)
Complete(j) ==
  /\ At(j, "finish")
  /\ job' = [job EXCEPT ![j].status = "completed"]
  /\ Goto(j, "idle")
  /\ UNCHANGED <<tx, sequence, contract_events, blind>>

(* Mutant of Forgiven: once too often. *)
ForgivenOnceMore(j) == job[j].stalled <= MAX_STALLED

(* The queue gives a stalled job to a worker again. *)
Forgiven(j) == job[j].stalled < MAX_STALLED

(* The worker dies.  The queue finds the job without a lock and gives it to *)
(* a worker again, from the start, unless it has stalled too often.         *)
Crash(j) ==
  /\ job[j].status = "active"
  /\ job' = [job EXCEPT ![j].stalled = @ + 1,
                        ![j].status = IF Forgiven(j) THEN "waiting" ELSE "failed"]
  /\ blind' = [blind EXCEPT ![j] =
                 @ + (IF worker[j].at \in {"poll", "record", "finish"} THEN 1 ELSE 0)]
  /\ tx' = [tx EXCEPT ![Current(j)] = IF @.status = "signed" THEN Settled("none") ELSE @]
  /\ Goto(j, "idle")
  /\ UNCHANGED <<sequence, contract_events>>

-----------------------------------------------------------------------------

(* A ledger closes with the transaction in it, which the contract accepts or *)
(* refuses: the sequence number is used up either way.                       *)
Apply(id) ==
  /\ InFlight(id)
  /\ tx[id].seq = sequence[KeyOf[id[1]]] + 1
  /\ sequence' = [sequence EXCEPT ![KeyOf[id[1]]] = @ + 1]
  /\ \E result \in {"success", "failed"} : Settle(id, result)
  /\ UNCHANGED <<job, worker, contract_events, blind>>

(* A transaction one tick later: it expires when VALIDITY has passed. *)
Aged(t) ==
  IF t.status \notin {"signed", "pending"} THEN t
  ELSE IF t.age + 1 >= VALIDITY THEN Settled("none")
  ELSE [t EXCEPT !.age = @ + 1]

(* Time passes for the transactions and for the SDK's polls. *)
Tick ==
  /\ tx' = [id \in TxIds |-> Aged(tx[id])]
  /\ worker' = [j \in Jobs |->
                  IF worker[j].at = "poll" /\ worker[j].waited < DEADLINE
                    THEN [worker[j] EXCEPT !.waited = @ + 1] ELSE worker[j]]
  /\ <<tx, worker>>' # <<tx, worker>>
  /\ UNCHANGED <<job, sequence, contract_events, blind>>

-----------------------------------------------------------------------------

Init ==
  /\ job = [j \in Jobs |-> [status |-> "none", attemptsMade |-> 0, stalled |-> 0]]
  /\ worker = [j \in Jobs |-> [at |-> "idle", waited |-> 0]]
  /\ tx = [id \in TxIds |-> [status |-> "none", seq |-> 0, age |-> 0]]
  /\ sequence = [k \in Keys |-> 0]
  /\ contract_events = {}
  /\ blind = [j \in Jobs |-> 0]

(* What the worker does as long as it lives. *)
Work(j) ==
  \/ Start(j) \/ Build(j) \/ NotSent(j) \/ Send(j) \/ SentInVain(j)
  \/ SeeSuccess(j) \/ SeeFailure(j) \/ GiveUp(j) \/ RecordEvent(j) \/ Complete(j)

(* What may go wrong. *)
Fault(j) == PollFails(j) \/ RecordFails(j) \/ Crash(j)

Next ==
  \/ Tick
  \/ \E j \in Jobs : Enqueue(j) \/ Work(j) \/ Fault(j)
  \/ \E id \in TxIds : Apply(id)

(* The worker runs, the clock too; the network owes nobody to include a *)
(* transaction, and nobody has to enqueue a job.                        *)
Fairness == WF_vars(Tick) /\ \A j \in Jobs : WF_vars(Work(j))

Spec == Init /\ [][Next]_vars /\ Fairness

-----------------------------------------------------------------------------

(* The processor is somewhere exactly when the job is active, no job is tried *)
(* more often than the queue allows, and what is sent was signed.             *)
TypeOK ==
  /\ job \in [Jobs -> JobState]
  /\ worker \in [Jobs -> WorkerState]
  /\ \A j \in Jobs :
       /\ job[j].status = "active" <=> worker[j].at # "idle"
       /\ job[j].status \in {"waiting", "active"} =>
            /\ job[j].attemptsMade < ATTEMPTS /\ job[j].stalled <= MAX_STALLED
            /\ Current(j) \in TxIds
  /\ tx \in [TxIds -> Transaction]
  /\ \A id \in TxIds : InFlight(id) => tx[id].seq > 0
  /\ sequence \in [Keys -> Nat]
  /\ contract_events \subseteq TxIds
  /\ blind \in [Jobs -> Nat]

(* Every effect of a job on the ledger, or one that may still come, has its   *)
(* reason: the job's completion, its present run, or a run that ended blind.  *)
(* So a job whose polls are answered, whose inserts succeed and whose worker  *)
(* lives takes effect at most once, and not at all if it fails: when the SDK  *)
(* gives up polling, the transaction cannot land any more.                    *)
EffectsExplained ==
  \A j \in Jobs :
    Cardinality({r \in Runs : r \in Effects(j) \/ InFlight(<<j, r>>)})
      <= blind[j] + (IF job[j].status \in {"active", "completed"} THEN 1 ELSE 0)

(* The contract_events table never shows what did not happen, and shows the   *)
(* effect of every job that is reported as completed.                         *)
MirrorOfLedger ==
  /\ \A id \in contract_events : tx[id].status = "success"
  /\ \A j \in Jobs : job[j].status = "completed" => Current(j) \in contract_events

(* Every job ends, however often the network ignores its transactions.        *)
EveryJobEnds ==
  \A j \in Jobs :
    job[j].status = "waiting" ~> job[j].status \in {"completed", "failed"}

=============================================================================
