----------------------------- MODULE AccountCache -----------------------------
(***************************************************************************)
(* The Redis entry that holds an importer's on-chain account for 30 s      *)
(* (apps/api/src/cache.ts), the reads that fill it (GET /importers/:id)    *)
(* and the routes and jobs that delete it, interleaved at every call of    *)
(* Redis, of the RPC node and of the database.  The account is the number  *)
(* of transactions that have changed it.                                   *)
(***************************************************************************)
EXTENDS Integers

CONSTANTS
  Readers,      \* GET requests that may be in progress at once
  TxJobs,       \* jobs of the tx-submit queue for this importer
  Methods,      \* methods of those jobs
  Invalidating, \* those whose job deletes the entry: deposit, withdraw, clawback
  AtRoute,      \* those whose route deletes it too: the same three
  TTL,          \* ticks an entry lives: 30 s
  MAX_READS,    \* bound of the model: reads that miss
  MAX_OUTAGES   \* bound of the model: calls of Redis that fail

ASSUME AccountCacheAssumption ==
  /\ Methods # {} /\ Invalidating \subseteq Methods /\ AtRoute \subseteq Methods
  /\ TTL \in Nat \ {0} /\ MAX_READS \in Nat /\ MAX_OUTAGES \in Nat

VARIABLES
  onChain,  \* version of the account in the contract
  entry,    \* the entry in Redis: the version it holds, and how long it lives
  reader,   \* GET requests: where they are, and the version they fetched
  txJob,    \* jobs: where they are, their method, the version they made
  spoilt,   \* history: jobs whose invalidation failed, or found a reader with an
            \* older version in hand
  reads,    \* bound of the model
  outages   \* bound of the model

cacheVars == <<onChain, entry, reader, txJob, spoilt, reads, outages>>

-----------------------------------------------------------------------------

NoEntry == [version |-> -1, ttl |-> 0]

Cached == entry # NoEntry

Reader == [at : {"none", "fetch", "set"}, version : Nat]

TxJob == [at : {"none", "queued", "landed", "recorded", "done", "failed"},
          method : Methods, version : Nat, route : BOOLEAN]

(* Readers that will store an older version than this one. *)
Behind(version) == \E r \in Readers : reader[r].at = "set" /\ reader[r].version < version

Outage == outages < MAX_OUTAGES /\ outages' = outages + 1

-----------------------------------------------------------------------------
(* GET /importers/:id *)

(* getCachedOnChainAccount: a miss, or an error of Redis; a hit ends the read. *)
Miss(r) ==
  /\ reader[r].at = "none" /\ reads < MAX_READS
  /\ IF Cached THEN Outage ELSE UNCHANGED outages
  /\ reader' = [reader EXCEPT ![r].at = "fetch"]
  /\ reads' = reads + 1
  /\ UNCHANGED <<onChain, entry, txJob, spoilt>>

(* contractClient.getAccount *)
FetchAccount(r) ==
  /\ reader[r].at = "fetch"
  /\ reader' = [reader EXCEPT ![r] = [at |-> "set", version |-> onChain]]
  /\ UNCHANGED <<onChain, entry, txJob, spoilt, reads, outages>>

LeaveReader(r) == reader' = [reader EXCEPT ![r] = [at |-> "none", version |-> 0]]

(* setCachedOnChainAccount *)
StoreEntry(r) ==
  /\ reader[r].at = "set"
  /\ entry' = [version |-> reader[r].version, ttl |-> TTL]
  /\ LeaveReader(r)
  /\ UNCHANGED <<onChain, txJob, spoilt, reads, outages>>

(* The RPC node, Redis or the process fails: nothing is stored. *)
ReadFails(r) ==
  /\ reader[r].at # "none"
  /\ LeaveReader(r)
  /\ UNCHANGED <<onChain, entry, txJob, spoilt, reads, outages>>

-----------------------------------------------------------------------------
(* Routes and jobs that change the account *)

(* The route queues the job, which may run before the route has ended ... *)
QueueTx(j, method) ==
  /\ txJob[j].at = "none"
  /\ txJob' = [txJob EXCEPT ![j] = [at |-> "queued", method |-> method, version |-> 0,
                                    route |-> method \in AtRoute]]
  /\ UNCHANGED <<onChain, entry, reader, spoilt, reads, outages>>

(* ... and deletes the entry, or ends without: an error of Redis is swallowed, *)
(* one of the audit log is not.                                                *)
RouteInvalidates(j) ==
  /\ txJob[j].route
  /\ txJob' = [txJob EXCEPT ![j].route = FALSE]
  /\ entry' \in {NoEntry, entry}
  /\ UNCHANGED <<onChain, reader, spoilt, reads, outages>>

(* The transaction changes the account. *)
Land(j) ==
  /\ txJob[j].at = "queued"
  /\ onChain' = onChain + 1
  /\ txJob' = [txJob EXCEPT ![j].at = "landed", ![j].version = onChain + 1]
  /\ UNCHANGED <<entry, reader, spoilt, reads, outages>>

(* The contract refuses it. *)
NotLanded(j) ==
  /\ txJob[j].at = "queued"
  /\ txJob' = [txJob EXCEPT ![j].at = "failed"]
  /\ UNCHANGED <<onChain, entry, reader, spoilt, reads, outages>>

(* INSERT INTO contract_events; if it fails, the attempt ends there, and the *)
(* next one counts as another job.                                           *)
RecordTx(j) ==
  /\ txJob[j].at = "landed"
  /\ \E at \in {"recorded", "failed"} : txJob' = [txJob EXCEPT ![j].at = at]
  /\ UNCHANGED <<onChain, entry, reader, spoilt, reads, outages>>

(* Mutant of Deletes: no job does, the route is enough. *)
DeletesNever(j) == FALSE

Deletes(j) == txJob[j].method \in Invalidating

(* The job deletes the entry, if its method is one of three. *)
JobInvalidates(j) ==
  /\ txJob[j].at = "recorded"
  /\ txJob' = [txJob EXCEPT ![j].at = "done"]
  /\ \/ /\ Deletes(j)
        /\ entry' = NoEntry /\ UNCHANGED outages
        /\ spoilt' = IF Behind(txJob[j].version) THEN spoilt \cup {j} ELSE spoilt
     \/ Deletes(j) /\ Outage /\ UNCHANGED entry /\ spoilt' = spoilt \cup {j}
     \/ ~Deletes(j) /\ UNCHANGED <<entry, spoilt, outages>>
  /\ UNCHANGED <<onChain, reader, reads>>

(* EX 30 *)
Expire ==
  /\ entry.ttl > 0
  /\ entry' = IF entry.ttl = 1 THEN NoEntry ELSE [entry EXCEPT !.ttl = @ - 1]
  /\ UNCHANGED <<onChain, reader, txJob, spoilt, reads, outages>>

-----------------------------------------------------------------------------

CacheInit ==
  /\ onChain = 0 /\ entry = NoEntry
  /\ reader = [r \in Readers |-> [at |-> "none", version |-> 0]]
  /\ txJob = [j \in TxJobs |-> [at |-> "none", method |-> CHOOSE m \in Methods : TRUE,
                                version |-> 0, route |-> FALSE]]
  /\ spoilt = {} /\ reads = 0 /\ outages = 0

CacheNext ==
  \/ Expire
  \/ \E r \in Readers : Miss(r) \/ FetchAccount(r) \/ StoreEntry(r) \/ ReadFails(r)
  \/ \E j \in TxJobs : \/ \E m \in Methods : QueueTx(j, m)
                       \/ RouteInvalidates(j) \/ Land(j) \/ NotLanded(j) \/ RecordTx(j)
                       \/ JobInvalidates(j)

CacheSpec == CacheInit /\ [][CacheNext]_cacheVars

-----------------------------------------------------------------------------

CacheTypeOK ==
  /\ onChain \in Nat
  /\ Cached => entry.version \in 0..onChain /\ entry.ttl \in 1..TTL
  /\ reader \in [Readers -> Reader] /\ txJob \in [TxJobs -> TxJob]
  /\ \A r \in Readers : reader[r].version <= onChain
  /\ \A j \in TxJobs : txJob[j].version <= onChain
  /\ spoilt \subseteq TxJobs

(* Once a job that invalidates is done, no read is served an older state of   *)
(* the account than the one it made, unless its invalidation failed or a read *)
(* had fetched the older state before and stores it afterwards.               *)
FreshAfterJob ==
  \A j \in TxJobs \ spoilt :
    txJob[j].at = "done" /\ txJob[j].method \in Invalidating /\ Cached
      => entry.version >= txJob[j].version

=============================================================================
