----------------------------- MODULE Requirements -----------------------------
(***************************************************************************)
(* The requirement of one importer: tariff uploads that set it on chain    *)
(* and then record it, disputes raised by the importer and resolved by an  *)
(* administrator, and the reconciliation that compares the newest upload   *)
(* with the contract and raises an alarm (apps/api/src/routes/importers.ts *)
(* and admin.ts, lib.rs).  The row keeps the duty to the cent, while the   *)
(* contract gets the requirement computed before that, and registration,   *)
(* the emergency key and scripts set a requirement without a row.  Every   *)
(* await is a step; a tick is 24 h, and the transactions are numbered in   *)
(* the order in which they land.                                           *)
(***************************************************************************)
EXTENDS Integers, FiniteSets, Sequences

CONSTANTS
  Uploads,     \* requests that upload a tariff file
  Verifiers,   \* requests that verify the oracle's data
  Resolvers,   \* requests that resolve a dispute
  Disputes,    \* rows of collateral_disputes
  Values,      \* requirements computed from a file
  Initial,     \* requirements an importer may be registered with
  CENT,        \* what one cent of duty adds to the requirement: 5000 stroops
  Rates,       \* prices of the collateral token, in percent
  COOLDOWN,    \* ticks between two updates of the oracle: 24 h
  WINDOW,      \* ticks a new requirement may be disputed: 72 h
  CAP,         \* a requirement grows to at most so many times its value: 5
  MAX_DAY,     \* bound of the model: the last tick
  MAX_ALERTS,  \* bound of the model: alarms after which nobody verifies again
  MAX_OVERRIDES \* bound of the model: requirements set without a row

ASSUME RequirementsAssumption ==
  /\ Values \subseteq Nat /\ Initial \subseteq Nat /\ CENT \in Nat \ {0} /\ Rates \subseteq Nat \ {0}
  /\ COOLDOWN \in Nat \ {0} /\ WINDOW \in Nat /\ CAP \in Nat /\ MAX_DAY \in Nat \ {0}
  /\ MAX_ALERTS \in Nat /\ MAX_OVERRIDES \in Nat

VARIABLES
  day,                  \* time of the ledger, in ticks
  account,              \* the importer's account in the contract
  txs,                  \* history: the transactions that landed, and what they did
  upload,               \* upload requests: where they are, value, transaction
  tariff_uploads,       \* the table, by created_at: the transaction and what the
                        \* duty of the row, to the cent, gives for a requirement
  collateral_disputes,  \* the table: status, transaction that resolved it
  resolve,              \* resolve requests: where they are, row, verdict, transaction
  verify,               \* verify requests: where they are, and the row they read
  oracle_alerts         \* alarms: number of the row, and what explains the difference

requirementVars == <<day, account, txs, upload, tariff_uploads, collateral_disputes, resolve,
                     verify, oracle_alerts>>

-----------------------------------------------------------------------------

Account == [required_collateral : Nat, pre_dispute_required : Nat, dispute_expires_at : Nat,
            dispute_raised : BOOLEAN, oracle_last_updated : Nat]

Tx == [kind : {"set"}, asked : Values, rate : Rates]
  \cup [kind : {"override", "accept", "reject"}]

UploadRequest == [at : {"none", "submit", "landed", "done", "refused", "lost"},
           value : Values \cup {0}, tx : Nat]

Dispute == [status : {"none", "open", "resolved_accepted", "resolved_rejected"}, tx : Nat]

ResolveRequest == [at : {"none", "submit", "landed", "done", "refused", "lost"},
            row : SUBSET Disputes, accept : BOOLEAN, tx : Nat]

Causes == {"newer upload", "unrecorded upload", "dispute rejected", "resolved twice",
           "token price", "duty to the cent", "set without a row"}

Rows == Len(tariff_uploads)

Lands(tx) == txs' = Append(txs, tx)

-----------------------------------------------------------------------------
(* The contract *)

(* Mutant of CooledDown: updates are not spaced. *)
CooledDownAlways == TRUE

CooledDown ==
  account.oracle_last_updated > 0 => day >= account.oracle_last_updated + COOLDOWN

Adjusted(required, rate) == (required * 100) \div rate

Capped(required, rate) ==
  /\ account.required_collateral > 0
  /\ Adjusted(required, rate) > CAP * account.required_collateral

(* set_required_collateral, past the checks of the key and of the cooldown. *)
SetRequiredCollateral(required, rate) ==
  /\ ~Capped(required, rate)
  /\ account' = [required_collateral  |-> Adjusted(required, rate),
                 pre_dispute_required |-> account.required_collateral,
                 dispute_expires_at   |-> day + WINDOW,
                 dispute_raised       |-> FALSE,
                 oracle_last_updated  |-> day]

Overrides == {n \in 1..Len(txs) : txs[n].kind = "override"}

(* emergencySetRequiredCollateral, which the cooldown does not hold up, and the *)
(* set-required command of scripts/admin.ts: neither stores a row.              *)
Override(required, rate) ==
  /\ Cardinality(Overrides) < MAX_OVERRIDES
  /\ SetRequiredCollateral(required, rate) /\ Lands([kind |-> "override"])
  /\ UNCHANGED <<day, upload, tariff_uploads, collateral_disputes, resolve, verify,
                 oracle_alerts>>

(* raise_dispute, by the importer's own wallet; no code here stores a row. *)
RaiseDispute ==
  /\ account.dispute_expires_at # 0 /\ day < account.dispute_expires_at
  /\ ~account.dispute_raised
  /\ account' = [account EXCEPT !.dispute_raised = TRUE]
  /\ UNCHANGED <<day, txs, upload, tariff_uploads, collateral_disputes, resolve,
                 verify, oracle_alerts>>

(* resolve_dispute *)
ResolveDispute(accept) ==
  /\ account.dispute_raised
  /\ account' = [account EXCEPT
       !.required_collateral = IF accept THEN @ ELSE account.pre_dispute_required,
       !.dispute_raised = FALSE, !.dispute_expires_at = 0]
  /\ Lands([kind |-> IF accept THEN "accept" ELSE "reject"])

-----------------------------------------------------------------------------
(* POST /importers/:id/upload-tariff-csv *)

(* The checks of the KYC status, the items and their rates pass, and give a *)
(* value; an upload that they refuse changes nothing.                       *)
Compute(u) ==
  /\ upload[u].at = "none"
  /\ \E value \in Values : upload' = [upload EXCEPT ![u].at = "submit", ![u].value = value]
  /\ UNCHANGED <<day, account, txs, tariff_uploads, collateral_disputes, resolve,
                 verify, oracle_alerts>>

(* The transaction lands; the caller may not live to see it, or see a timeout. *)
UploadLands(u) ==
  /\ upload[u].at = "submit" /\ CooledDown
  /\ \E rate \in Rates, at \in {"landed", "lost"} :
       /\ SetRequiredCollateral(upload[u].value, rate)
       /\ Lands([kind |-> "set", asked |-> upload[u].value, rate |-> rate])
       /\ upload' = [upload EXCEPT ![u].at = at, ![u].tx = Len(txs')]
  /\ UNCHANGED <<day, tariff_uploads, collateral_disputes, resolve, verify,
                 oracle_alerts>>

(* The contract refuses it (the answer is 429 or an error), or it never lands. *)
UploadRefused(u) ==
  /\ upload[u].at = "submit"
  /\ upload' = [upload EXCEPT ![u] = [at |-> "refused", value |-> 0, tx |-> 0]]
  /\ UNCHANGED <<day, account, txs, tariff_uploads, collateral_disputes, resolve,
                 verify, oracle_alerts>>

Gap(x, y) == IF x > y THEN x - y ELSE y - x

(* annual_duty_total is NUMERIC(20, 2): what verify-oracle-data will compute   *)
(* from it is the value of the nearest cent.                                   *)
ToTheCent(value) ==
  {v \in {CENT * (value \div CENT), CENT * (value \div CENT) + CENT} : 2 * Gap(v, value) <= CENT}

(* INSERT INTO tariff_uploads. The event row, the audit row, the deleted cache *)
(* entry and the refreshed view, which follow, have no bearing on what is here. *)
RecordUpload(u) ==
  /\ upload[u].at = "landed"
  /\ \E v \in ToTheCent(upload[u].value) :
       tariff_uploads' = Append(tariff_uploads, [tx |-> upload[u].tx, value |-> v])
  /\ upload' = [upload EXCEPT ![u].at = "done"]
  /\ UNCHANGED <<day, account, txs, collateral_disputes, resolve, verify,
                 oracle_alerts>>

(* The database or the process fails before the row is stored. *)
UploadBreaks(u) ==
  /\ upload[u].at = "landed"
  /\ upload' = [upload EXCEPT ![u].at = "lost"]
  /\ UNCHANGED <<day, account, txs, tariff_uploads, collateral_disputes, resolve,
                 verify, oracle_alerts>>

-----------------------------------------------------------------------------
(* POST /admin/disputes/:id/resolve *)

(* Whoever stores disputes does so while one is raised. *)
StoreDispute(d) ==
  /\ account.dispute_raised /\ collateral_disputes[d].status = "none"
  /\ collateral_disputes' = [collateral_disputes EXCEPT ![d].status = "open"]
  /\ UNCHANGED <<day, account, txs, upload, tariff_uploads, resolve, verify,
                 oracle_alerts>>

(* The SELECT finds the row open. *)
AskResolve(r, d, accept) ==
  /\ resolve[r].at = "none" /\ collateral_disputes[d].status = "open"
  /\ resolve' = [resolve EXCEPT ![r] = [at |-> "submit", row |-> {d}, accept |-> accept,
                                        tx |-> 0]]
  /\ UNCHANGED <<day, account, txs, upload, tariff_uploads, collateral_disputes,
                 verify, oracle_alerts>>

ResolveLands(r) ==
  /\ resolve[r].at = "submit"
  /\ ResolveDispute(resolve[r].accept)
  /\ \E at \in {"landed", "lost"} :
       resolve' = [resolve EXCEPT ![r].at = at, ![r].tx = Len(txs')]
  /\ UNCHANGED <<day, upload, tariff_uploads, collateral_disputes, verify,
                 oracle_alerts>>

ResolveRefused(r) ==
  /\ resolve[r].at = "submit"
  /\ resolve' = [resolve EXCEPT ![r].at = "refused"]
  /\ UNCHANGED <<day, account, txs, upload, tariff_uploads, collateral_disputes,
                 verify, oracle_alerts>>

(* The UPDATE does not look at the status again. *)
RecordResolve(r) ==
  /\ resolve[r].at = "landed"
  /\ collateral_disputes' = [d \in Disputes |->
       IF d \in resolve[r].row
       THEN [status |-> IF resolve[r].accept THEN "resolved_accepted" ELSE "resolved_rejected",
             tx |-> resolve[r].tx]
       ELSE collateral_disputes[d]]
  /\ resolve' = [resolve EXCEPT ![r].at = "done"]
  /\ UNCHANGED <<day, account, txs, upload, tariff_uploads, verify,
                 oracle_alerts>>

ResolveBreaks(r) ==
  /\ resolve[r].at = "landed"
  /\ resolve' = [resolve EXCEPT ![r].at = "lost"]
  /\ UNCHANGED <<day, account, txs, upload, tariff_uploads, collateral_disputes,
                 verify, oracle_alerts>>

-----------------------------------------------------------------------------
(* POST /importers/:id/verify-oracle-data *)

(* The newest row, or the newest as of a date of the caller's choice. *)
ReadUpload(v) ==
  /\ verify[v].at = "none" /\ Cardinality(oracle_alerts) < MAX_ALERTS
  /\ \E k \in 1..Rows : verify' = [verify EXCEPT ![v] = [at |-> "chain", row |-> k]]
  /\ UNCHANGED <<day, account, txs, upload, tariff_uploads, collateral_disputes, resolve,
                 oracle_alerts>>

(* deviationPct <= 1.0 *)
Matches(computed, onChain) ==
  IF onChain = 0 THEN computed = 0 ELSE 100 * Gap(computed, onChain) <= onChain

(* pct_change is NUMERIC(5, 2): from 1000 % on, the row is refused. *)
FitsColumn(computed, onChain) == onChain = 0 \/ Gap(computed, onChain) < 10 * onChain

(* What the tables and the requests say of a difference from row k. *)
Explanations(k) ==
  LET tx == tariff_uploads[k].tx
      computed == tariff_uploads[k].value
      Pending(req) == req.at \in {"landed", "lost"} /\ req.tx > tx
  IN  {c \in Causes :
        CASE c = "newer upload"      -> Rows > k
          [] c = "unrecorded upload" -> \E u \in Uploads : Pending(upload[u])
          [] c = "token price"       -> txs[tx].rate # 100
          [] c = "set without a row" -> \E n \in Overrides : n > tx
          [] c = "duty to the cent"  -> /\ ~Matches(computed, txs[tx].asked)
                                        /\ 2 * Gap(computed, txs[tx].asked) <= CENT
          [] c = "resolved twice"    ->
               \E r, s \in Resolvers : /\ r # s /\ resolve[r].row = resolve[s].row
                                       /\ resolve[r].at = "done" /\ resolve[s].at = "done"
          [] OTHER -> \/ \E r \in Resolvers : Pending(resolve[r]) /\ ~resolve[r].accept
                      \/ \E d \in Disputes : /\ collateral_disputes[d].status = "resolved_rejected"
                                             /\ collateral_disputes[d].tx > tx}

(* The contract is read, and the alarm is stored if the two differ and it fits. *)
Compare(v) ==
  LET chosen   == verify[v].row
      computed == tariff_uploads[chosen].value
      onChain  == account.required_collateral
      Alarms   == ~Matches(computed, onChain) /\ FitsColumn(computed, onChain)
  IN  /\ verify[v].at = "chain"
      /\ verify' = [verify EXCEPT ![v] = [at |-> "none", row |-> 0]]
      /\ oracle_alerts' = IF Alarms THEN oracle_alerts \cup {[row |-> chosen, why |-> Explanations(chosen)]}
                          ELSE oracle_alerts
      /\ UNCHANGED <<day, account, txs, upload, tariff_uploads, collateral_disputes, resolve>>

-----------------------------------------------------------------------------

(* Requests take seconds, a tick is a day: none is under way when it ends. *)
DayEnds ==
  /\ day < MAX_DAY
  /\ \A u \in Uploads : upload[u].at \notin {"submit", "landed"}
  /\ \A r \in Resolvers : resolve[r].at \notin {"submit", "landed"}
  /\ \A v \in Verifiers : verify[v].at = "none"
  /\ day' = day + 1
  /\ UNCHANGED <<account, txs, upload, tariff_uploads, collateral_disputes, resolve,
                 verify, oracle_alerts>>

RequirementsInit ==
  /\ day = 1 /\ txs = <<>> /\ tariff_uploads = <<>>
  /\ oracle_alerts = {}
  /\ \E initial \in Initial :
       account = [required_collateral |-> initial, pre_dispute_required |-> initial,
                  dispute_expires_at |-> 0, dispute_raised |-> FALSE,
                  oracle_last_updated |-> 0]
  /\ upload = [u \in Uploads |-> [at |-> "none", value |-> 0, tx |-> 0]]
  /\ collateral_disputes = [d \in Disputes |-> [status |-> "none", tx |-> 0]]
  /\ resolve = [r \in Resolvers |-> [at |-> "none", row |-> {}, accept |-> FALSE, tx |-> 0]]
  /\ verify = [v \in Verifiers |-> [at |-> "none", row |-> 0]]

RequirementsNext ==
  \/ DayEnds \/ RaiseDispute
  \/ \E required \in Values, rate \in Rates : Override(required, rate)
  \/ \E u \in Uploads : \/ Compute(u) \/ UploadLands(u) \/ UploadRefused(u)
                        \/ RecordUpload(u) \/ UploadBreaks(u)
  \/ \E d \in Disputes : StoreDispute(d)
  \/ \E r \in Resolvers :
       \/ \E d \in Disputes, accept \in BOOLEAN : AskResolve(r, d, accept)
       \/ ResolveLands(r) \/ ResolveRefused(r)
       \/ RecordResolve(r) \/ ResolveBreaks(r)
  \/ \E v \in Verifiers : ReadUpload(v) \/ Compare(v)

RequirementsSpec == RequirementsInit /\ [][RequirementsNext]_requirementVars

-----------------------------------------------------------------------------

RequirementsTypeOK ==
  /\ day \in 1..MAX_DAY /\ account \in Account /\ txs \in Seq(Tx)
  /\ upload \in [Uploads -> UploadRequest] /\ resolve \in [Resolvers -> ResolveRequest]
  /\ collateral_disputes \in [Disputes -> Dispute]
  /\ tariff_uploads \in Seq([tx : 1..Len(txs), value : Nat])
  /\ verify \in [Verifiers -> [at : {"none", "chain"}, row : 0..Rows]]
  /\ oracle_alerts \subseteq [row : 1..Rows, why : SUBSET Causes]

(* No statement of the API keeps the rows of tariff_uploads in the order of   *)
(* their transactions, yet the reconciliation takes the newest row for the    *)
(* requirement in force.  An alarm has a cause all the same: an upload that   *)
(* was recorded meanwhile, or not yet, or never; a dispute rejected since;    *)
(* two resolutions of one row; a price of the token other than one; a         *)
(* requirement set without a row; or a duty so small that the half cent its   *)
(* row may lose is more than the tolerance.  What keeps the order is that the *)
(* contract takes one update a day.                                           *)
AlarmHasCause == \A a \in oracle_alerts : a.why # {}

=============================================================================
