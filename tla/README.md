# TariffShield in TLA+

TariffShield holds importers' customs-bond collateral in a Soroban contract. An
oracle key sets how much each importer must post, a surety may seize an account,
and an API with a job queue drives the contract on behalf of the importers. This
directory models the parts in which money can be lost or a rule can be bypassed,
checks them with TLC and proves the main properties with TLAPS.

## 1. The system

### Inventory

| component | state | operations | what is hard | what makes it correct |
| --- | --- | --- | --- | --- |
| escrow accounts, `contracts/tariff-shield/src/lib.rs` | one `Account` per importer in persistent storage, SAC token balances, ledger clock | `register_importer`, `register_sandbox_importer`, `deposit_collateral`, `deposit_reserve`, `auto_top_up`, `withdraw_collateral`, `convert_sandbox_to_live`, `accrue_yield`, `clawback`, `set_required_collateral`, `raise_dispute`, `resolve_dispute`, `migrate_account` | calls by importer, oracle, admin, surety and anyone in any order; disputes that an oracle update overtakes; windows, cooldowns and staleness on one clock; simulated and real money in one contract | balances backed by tokens; outflow only above the requirement in force; reserve spent on cover only; a seizure is final; a history that explains the requirement |
| governance, same file | admin list, oracle keys, price oracle, signer set, proposals, ledger sequence, installed code | `initialize`, `propose_upgrade`, `approve_upgrade`, `cancel_upgrade`, `upgrade`, `transfer_admin`, `rotate_oracle_admin`, `set_price_oracle`, `update_oracle_signers` | a proposal outlives the admin list that approved it; a second way to upgrade; a signer set that must approve its own successor | two different approvals per installed proposal, one execution, ids never reused |
| transaction queue and SDK, `apps/api/src/queue.ts`, `worker.ts`, `packages/sdk/src/index.ts` | BullMQ jobs, ledger sequence number of each key, `contract_events` mirror | enqueue, build, sign, send, poll, record, retry, stalled-job recovery | retry after an unknown outcome, concurrent jobs of one key, worker crash, late confirmations | one effect per job, mirror agrees with the ledger, every job ends |
| account cache, `apps/api/src/cache.ts` | Redis entry with a 30 s TTL | read, fill, invalidate | a fill that started before the write lands after the invalidation | a job that is done is not followed by an older state |
| withdrawals, `routes/importers.ts`, `services/scheduled-withdrawals.ts` | `withdrawal_requests`, `scheduled_withdrawals`, the dual approval setting | request, approve, reject, cancel, schedule, execute | read-then-write over two statements, two job runs, an approval racing a cancellation | rows tell what the queue was given, sign-off above the threshold, what is due is resolved |
| recurring deposits, `services/deposit-schedules.ts` | `deposit_schedules` and executions | create, pause, resume, edit, cancel, run what is due | the job is queued before `next_run_at` moves; an edit writes back what it read | one deposit per period, each on record, none forgotten |
| oracle listener and indexer, `services/oracle-event-listener.ts`, `indexer.ts` | checkpoint, `oracle_price_feed` | poll, insert, advance; the indexer only measures how far the service lags | insert failures, page limit, overlapping polls, crashes | no event below the checkpoint is missing, every event arrives |
| tariff uploads, disputes, reconciliation, `routes/importers.ts`, `routes/admin.ts` | `tariff_uploads`, `collateral_disputes`, `oracle_alerts`, the account on chain | upload, raise, resolve, override, verify | rows written after the transaction they record, in another order, to the cent; values set without a row | an alarm has a cause |
| credit lines, `services/credit-lines.ts`, `jobs/credit-line-monitor.ts` | `credit_lines`, audit rows and notices | grant, revoke, warn, expire, health check | rows claimed before they are told of; monitors on several instances; two reads at once | every event told once, only lines in force counted as cover |
| signer rotation workflow, `routes/admin.ts` | `oracle_signer_rotations` row with an approvals array | propose, approve, execute | lost update of the array, execution in two systems | no approval made up, none lost but to a race |
| webhooks, `services/webhooks.ts` | subscriptions, delivery rows, timers in the process | dispatch, retry with backoff | restart loses the timers, a subscription removed during a delivery | a log that is true, one late request at most |
| onboarding, KYC, review chain, `routes/kyc.ts`, `routes/importers.ts` | importers, documents, chains, reviews, decisions | upload, review, override, start, decide | statements without a transaction, two officers at once | status that follows from documents and decisions |
| onboarding drip, `services/onboarding-drip.ts`, `routes/onboarding.ts` | `onboarding_drip_steps`, one enrollment and rows of sends per importer | enroll, unsubscribe, edit a step, walk the sequence | the importer is told before the row says so, instances overlap, the sequence changes under a pass | told once, in order, none left out |
| bond signatures, `routes/bond-signatures.ts` | bond status, one row per envelope | send, webhook of the provider | outcome before the row, repeated and late calls, calls that are not the provider's | tables tell what was reported, and what the provider knows if no report was false |
| compliance, `routes/compliance.ts`, `jobs/compliance-escalation.ts` and the other jobs | flags, rules, history | resolve, assign, escalate | runs on several instances, rules that change meanwhile | one history row per escalation |
| scheduled compliance reports, `routes/compliance.ts`, `jobs/scheduled-compliance-reports.ts` | `compliance_report_schedules`, `compliance_reports`, `compliance_report_deliveries` | create, edit, pause, resume, delete, make the report of a slot, mail a link to it | claims with a lease, passes that overlap or die, a mail that went out before its row says so | a row that tells what was mailed, a paused slot stays out, every delivery ends |
| authentication, API keys, operations scripts, web front end | sessions, counters, none | | | not part of the custody logic |

Interactions: the web front end calls the API. A route writes Postgres, queues a
job, and the worker calls the contract through the SDK with the importer's, the
platform's or the surety's key, then mirrors the result into `contract_events` and
invalidates the cache. The listener reads the oracle's events back, the indexer watches how far the
service is behind the chain. The schedulers run in the API process and queue the same jobs as the routes.

### Hazards

`PROJECT.json` lists each hazard at its line with the properties that watch it. Where a property
excuses the very race a hazard is about (a history variable marks it), the hazard's note says so: such a property
does not promise that the race is harmless, but that nothing else has its effect. The
contract is atomic per invocation, so its hazards are orders of calls and boundaries of
the clock and of arithmetic; the API's are steps that interleave or fail half-way.

## 2. Modules

| module | models | depends on |
| --- | --- | --- |
| `SuretyEscrow` | abstract specification: what the contract promises about an importer's money | |
| `TariffShield` | the account entrypoints, one action each, with the SAC token and the clock | `SuretyEscrow` (refinement) |
| `Governance` | the entrypoints on admins, oracle keys, signers, proposals and code | |
| `TxPipeline` | a contract call on its way: queue job, worker, SDK, ledger, `contract_events` | |
| `Withdrawals` | requests with sign-off, staged withdrawals, the scheduler | queue and contract reduced to jobs paid or refused |
| `DepositSchedules` | recurring deposits and the job that runs them | queue reduced to a count |
| `OracleListener` | the checkpointed poller of oracle events | |
| `Onboarding` | KYC documents, review chains | |
| `BondSignatures` | envelopes of bonds and the provider's webhook | |
| `SignerRotation` | the off-chain workflow before `update_oracle_signers` | what `Governance` says of that call |
| `ComplianceFlags` | flags, escalation rules, the escalation job | |
| `ReportDelivery` | scheduled compliance reports: the schedule, the run that makes a report, the passes that mail it | |
| `Webhooks` | subscriptions, deliveries, attempts, restarts | |
| `OnboardingDrip` | one importer's enrollment, the sequence, the scheduler's passes | |
| `AccountCache` | the cached account, readers and jobs | |
| `CreditLines` | credit lines, their monitor, the health check | |
| `Requirements` | uploads, disputes, reconciliation over the part of the account they change | |
| `MCEscrow`, `MCOracle`, `MCGovernance`, `MCTxPipeline`, `MCWithdrawals`, `MCServices`, `MCOffice` | instances for TLC and the statements of docs that a run refutes | the modules above |
| `CustodyProofs`, `GovernanceProofs`, `PipelineProofs`, `LedgerProofs`, `WithdrawalsProofs`, `ServicesProofs`, `OfficeProofs` | theorems | custody: `MCEscrow`; pipeline: `TxPipeline`; ledger, services and office: the MC module with their components; governance and withdrawals: the module of that name |
| `SumProofs` | lemmas on sums over finite sets and on least numbers | |

Three MC modules hold several components that share no state, so that their product would
say nothing more: a variable `focus`, chosen at the start, says which of them moves, and the
others stand still. `MCTxPipeline` has jobs, credit lines and requirements, `MCServices` the
deposit schedules, the listener, the queue and the delivery of reports, `MCOffice` seven components of the back office.

### How the model corresponds to the contract

An invocation is one action: Soroban rolls a panicking call back, so a refusal is a
false guard and leaves no trace. `acct` is `DataKey::Account`, a partial map whose domain
is the registered importers; the record has the fields of `Account` but for `bond_id`,
which is only ever copied. `token` is the SAC token's balance sheet; `Transfer` is its
`transfer`, from how the contract uses it. `now` is the ledger timestamp. `escrow[i]` is
a history variable: the tokens that came in for `i`, less those that left in his name.
It appears in no guard.

Who may sign is abstracted in `TariffShield`: every entrypoint may be called at any
moment with any of the arguments, as if its rightful caller chose to. `Governance` holds
the keys, and `initialized` is whether `DataKey::Admins` is there: the list may be empty, as `initialize` does
not ask for a first admin. Amounts passed to deposits, withdrawals and yield are positive and
requirements are not negative, as the code refuses the others. `bypass_rate_limit` and
`emergency` are arguments of the caller. The oracle's answers are positive rates. The
release profile checks overflow, so an addition above `I128_MAX` is a refused call.

In `Governance` `proposals` is `DataKey::Proposal`, `installed` is a history variable
with the code each proposal installed and the keys that approved it. `update_oracle_signers`
is modelled with its refusals, as a call that leaves the set alone, since no call
succeeds. An approval of an expired proposal removes it and then panics; the removal is
rolled back, so the model has no such step.

### How the model corresponds to the queue and the SDK

`job` is what Redis keeps: status, failed attempts, stalls; a job that waits for its
backoff is `waiting`. `worker` says at which `await` of the processor a run of the job is:
`build` (importer row, `getAccount`, the builder), `send` (`prepareTransaction` and
`sendTransaction`), `poll` (the loop on `getTransaction`), `record` (the insert), `finish`.
Actions of other jobs, the ledger and the clock come in between. `tx` has one transaction for each run of
a job, with its sequence number and age; one that was never sent, was refused or has expired is `none`.
`sequence` is the ledger's sequence number of each key. `blind` is a history variable: how many runs
of a job ended between sending and completion by a fault (an RPC error, a failed insert, a
dead worker), that is, without having learned or kept what became of the transaction.

The queue and the network are external and modelled as the code uses them: an attempt that
throws is tried again while attempts are left; a stalled job starts over, once, which is BullMQ's
default; the network takes one transaction of a key at a time, with the next sequence
number, within its validity, and may ignore any of them. `TRY_AGAIN_LATER` is
`SentInVain`: the SDK looks for `ERROR` only. Jobs carry no payload: which entrypoint they
call does not matter here, nor does whether the contract accepts the call (`failed`) or not.

### How the model corresponds to the routes and jobs of the API

These modules share a convention. Postgres executes one statement at a time, and nearly no
handler opens a transaction, so a statement is an atomic step and each `await` of a read or a
write of shared state is a place where others come in. A request, a run of a job or a delivery
is a record that says where it is (`at`, `op`) and what it has read; what it read may be stale
when it writes. Its ways to end early are actions: a statement fails (`...Breaks`, `...Fails`), or the
process dies, which in these handlers leaves the same rows. Tables are functions from ids to
records of the columns that guards read. History variables (`torn`, `checked`, `overlapped`,
`spoilt`, `forgotten`, `unwritten`, `received`, ...) appear in no guard; they say which race a
property excuses, so that a property names every way in which the code falls short of it.

- `Withdrawals`: `call` is a request from loading the importer to its last statement, `run` a
  run of the scheduler. The queue is `job`, with the number of jobs of each row that wait, were
  paid or were refused; `chain` is balance, requirement and dispute of the one account.
- `DepositSchedules`: `edit` is a request that has read the schedule and has not written it,
  `sweep` a run of the job with the row in hand. A month is two ticks, a week one.
- `OracleListener`: `poll` is one `pollOracleEvents` with the checkpoint it read and its page;
  `listener_state` is the checkpoint, -1 before the first. `origin` is where listening began.
- `Onboarding`: `desk` is an officer's request. Documents and reviews of one importer; the
  unique key on (instance, step) is the guard `StepIsFree` of the insertion.
- `BondSignatures`: one bond; `provider` is what DocuSign knows of each envelope. A call of the webhook may
  report any outcome of any envelope at any time, whoever makes it, and the handler writes what it says; `reported`
  is history. No middleware sets `rawBody`, so the route never compares a signature, header or not.
- `SignerRotation`: `window` is a request of an admin; `accepted` is what admins were told.
- `ComplianceFlags`: `checker` is a run of `checkAndEscalate`, with the rules as it read them and the rule and
  flags in hand; the staff may change every column of a rule meanwhile. An error ends one flag (`FlagFails`,
  `RecordFails`) or the run (`CheckBreaks`).
- `ReportDelivery`: `put` is a request that has read the schedule and not written it, `pass` a run of
  `processPendingDeliveries` with the rows it has claimed, each with the attempts the claim read. Slots of
  the cadence are numbered, so that `next_run_at` is a number; the lease and the retry delays are ticks of
  five minutes. `strained` and `slept` are history. A mail server is configured: without one `sendEmail`
  returns and every delivery is marked sent, so the rows tell nothing.
- `Webhooks`: `hook` is the chain of attempts of one event and one subscription in one process.
- `OnboardingDrip`: `walker` is a run of `processOnboardingDrip` with the sequence it has read and the step in
  hand; `told` counts the notifications of each step. `benched` and `doubled` are history.
- `AccountCache`: the account is a version number; `entry` is the Redis key with its time to live. A job's method
  says whether its route and its end delete the entry.
- `CreditLines`: `monitor` is a tick of the hourly job on one instance, `check` a health check with its
  two reads in either order, `owed` the audit row and notice a route has still to write.
- `Requirements`: transactions are numbered as they land (`txs`); a table row carries the number
  of the transaction it records and the requirement its duty gives. The transaction has the unrounded one,
  `annual_duty_total` is kept to the cent (`ToTheCent`), and half a cent is worth 2500 stroops; values count
  in a unit of the model, of which `CENT` make a cent. Registration with a requirement (`Initial`), the
  emergency setter and the operator's script set the chain without a row (`Override`). A tick is a day; requests take seconds, so no request spans
  the end of a day (`DayEnds`). Nothing in the repository stores disputes, `StoreDispute` stands for whoever does.

### The abstract specification

`SuretyEscrow` knows an importer's `standing` (absent, trial, live, seized), what is
`posted`, what is `spare` and the `floor` in force. Money enters by `Post` and `Save`,
moves from spare to posted by `Cover` up to the floor, leaves by `Release` down to the
floor, by `GoLive` when a trial ends, and by `Seize`; `Reassess` is all the oracle, the
dispute and its resolution may do. `TariffShield` maps onto it field by field
(`Standing`, `Posted`, `Spare`, `Floor`); the floor is `effective_required`. Yield,
history, ticks and token balances map to stuttering.

## 3. Runs

| run | instance | question and result |
| --- | --- | --- |
| `escrow` | two importers, each live or sandbox, amounts of 1, requirements 0 and 2, limit 2 | `LiveBacked`, `SolventUnlessSandboxSeized` and the refinement `ImplementsCustody` hold |
| `oracle` | one importer, requirements 1, 2 and 5, two rates, cooldown 2, window 3, staleness 3, history 2, clock to 5 | `AuditTrail`, `DisputedOnce` and `DisputeStands` hold |
| `governance` | three keys, three admins, one or none, two builds, two proposals, three ledgers | `QuorumOfTwo`, `ExecutedOnce`, `SignersNeverAppointed` and `EmptyListLocksOut` hold |
| `sandbox_clawback` | as `escrow` | refutes `Solvency`: seizing a sandbox account pays its simulated balance with other importers' tokens |
| `tx_pipeline` | two jobs of one key, two attempts, one stall; two credit lines, two monitors, one check; two uploads, one override, one dispute, two resolutions, one verification | `EffectsExplained` and `MirrorOfLedger` hold: the SDK's giving up is safe, since it polls longer than a transaction stays valid, and each extra effect of a job goes with a run that ended blind. `EveryLineIsTold`: monitors that overlap tell nothing twice, and lose only what a run broke off before. `CoverIsInForce`: no answer counts a line that had ended. `AlarmHasCause`: what keeps rows in the order of their transactions is the contract's cooldown alone; the causes of an alarm include a duty kept to the cent and a value set without a row |
| `withdrawals` | a request and direct withdrawals of three users with two calls at once; two staged withdrawals, two runs | `RowTellsQueue`, `SignOff`, `CheckForesees`, `DueIsResolved` hold, each with the races it excuses spelt out |
| `services` | one schedule, two runs of its job and an edit; two oracle events, two polls; two jobs of the queue; a report schedule, an edit, two passes, two reports | `ExecutionsTellQueue`, `DepositsSpaced`, `DueIsServed`; `FeedHasNoGap`, `UpdatesArrive`; `RowTellsMail`, `SleptSlotsStay`, `DeliveriesEnd`; `EveryJobEnds`, also when the network ignores everything |
| `office` | two officers, desks and documents or reviews; two envelopes, two calls, one false report; three proposers, two rotations; a flag, two rules, two runs; two deliveries of a subscription; two readers and two jobs at the cache; a sequence of two steps, two passes | `ReviewTellsDecisions`, `KycTellsDocuments`, `BondTellsReports`, `ApprovalsKept`, `HistoryOfEscalations`, `LogIsTrue`, `OneLatePost`, `FreshAfterJob`, `DripTellsRows` hold |
| `dual_sign_off` | `Withdrawals`, without errors | refutes the documentation's sentence that an amount at the threshold needs a second approver: with a target date it does not |
| `disputed_value` | as `oracle` | refutes the guide's sentence that a dispute falls back to the value that was in effect |
| `oracle_key` | as `oracle` | refutes the security model's sentence that the oracle key is held to one update in 24 hours |
| `upgrade_key` | as `governance` | refutes the runbook's sentence that code needs two admins |

**Bounds.** `escrow`: two importers are what it takes for one to spend the other's
tokens, and a third would only add a bystander; amounts of 1 with balances up to 2 reach
an account below, at and above its requirement, an empty and a short reserve. Its
clock stands still: time is the subject of `oracle`, and the theorems hold for every clock. `oracle`: five seconds with a
cooldown of 2, a window of 3 and staleness after 3 put every boundary in the run, and a
history of 2 overflows after three updates. Requirements 1, 2, 5 with a cap of 2 give an
accepted and a refused raise, rates of 2 (par) and 4 convert a requirement down. `governance`: two
proposals let one be cancelled or executed while the other is open, and validity of one
ledger out of three lets both expire. `MAX_TIME`, `MAX_YIELD`, `MAX_LEDGER` and
`MAX_PROPOSALS` are bounds of the model, the other constants are values of the code
scaled down. Importers are symmetric in `escrow`. `tx_pipeline`: a second job of the same key is what it takes for a
sequence number to be used up under a signed transaction; attempts and stalls are the
code's and BullMQ's; validity and deadline keep their order (30 s, 60 s), in units
of one and two ticks. Attempts bound the runs of a job, so no counter needs a bound
of the model. Two lines let one lapse while another is claimed, two monitors overlap, durations
of one and two ticks put one line past its end and one within the warning when the clock
stands at its last tick. Two uploads on two days, with values 51 and 300 at prices of 100 and 125
percent, are refused by the cooldown and by the cap, are stored in either order, and with a cent of 4 the value 51 is
stored as 52, which is more than one percent off, and 300 as it is; two resolutions of one dispute race, and one
override (`MAX_OVERRIDES`) may come at any point. Of two uploads or two resolutions the second starts after
the first, as they are alike. The focus "notices" leaves the
checks alone and "health" has one line, as notices and checks meet only in the rows. Jobs are symmetric.
`withdrawals`: amounts 1 and 2 with the threshold at 2 lie below and at it; collateral of 2 over a
requirement of 0 or 1 lets one due withdrawal invalidate the check of another; one disturbance (an
error, a death, a change of setting, KYC or account) at every point; a clock of two moments, before and
at the target. `services`: a weekly schedule of period 1 and a monthly one of 2, two ticks and two
events of the model; a PATCH changes the cadence or the status (`OneField`); pages of one event,
windows of one ledger and a look-back of one make a page too small, a window that falls behind and a
ledger too late; three ticks of polling and one worker slot, so that a job also waits for
another's end, no forgiven stall. Reports have two focuses: with "slots" the schedule is edited, paused and
deleted while one pass mails one report; with "mails" two passes overlap over two reports and the
schedule is left alone. Two attempts give a retry and a last one; two slots let one pass while the schedule is
paused and one be reported; `MAX_MISHAPS` is one error, one death or one tick that ends leases in use, at every point. `office`: two of each actor, as every race in these handlers is between
two; one break-off (`MAX_BREAKS`, `MAX_ACTS`, `MAX_MISHAPS`, `MAX_OUTAGES`, `MAX_SLIPS`) at every point; one false
report at a time (`MAX_UNTRUE`), which may become true later and make room for another; envelopes and webhook calls
are symmetric; chains of
two steps, the least that has a first and a last; a threshold of two approvals out of three
proposers, a severity ladder that starts one below its top and one rule that takes over from
another, with thresholds of one and two ticks; all five delays of the webhooks; an entry that lives two ticks, and
the methods `deposit`, which stands for the three whose route and job delete it (deposit, withdraw, clawback), and
`auto_top_up`; a drip sequence that starts in order, as migration 0008 seeds it, with steps due at once and after
an hour, and one edit that may change that. Deadlock is not checked in
these runs: requests are bounded, and the system stops when all have been made.

**Fairness.** None is assumed of the contract: its properties are safety properties, and nothing
obliges anyone to call it. A pending dispute, for one, ends only when the
admin or the oracle chooses to. `TxPipeline` assumes weak fairness of the clock and of each
job's next step in the worker, which BullMQ's loop and the `await`s of a living process
provide; a worker that dies is `Crash`, and the queue's stalled check hands the job on. `Withdrawals`,
`DepositSchedules`, `OracleListener` and `ReportDelivery` assume that their interval timers go on starting runs and that a
run goes on while its process lives: per run for withdrawals, for some run in the other
three, as only one has to get through. `ReportDelivery` also assumes that minutes pass. Nothing is assumed of the network, of users who make requests,
of the clock otherwise, or of faults, which the bounds keep finite: "as long as not everything always fails".

**Mutants.** Operators called "Mutant of ..." are plausible mistakes in the code: a
dropped `require_active`, a flag that is not reset, a trimmed wrong end, an id used
twice, a status condition left out of a WHERE clause, a comparison that is off by one. Each property of a passing run is shown to fail under one of them.

## 4. What is proved

The theorems hold for any importers, amounts, rates, requirements, keys and bounds that
meet the assumptions in the modules: addresses are different (`AddressAssumption`),
amounts are positive and requirements not negative (`AmountAssumption`), rates are
positive (`OracleAssumption`), times are positive (`TimeAssumption`), the quorum is above one and the threshold above zero (`GovernanceAssumption`);
for the modules of the API, that sets are not empty and bounds are natural numbers, as each `ASSUME` says.

| theorem | property |
| --- | --- |
| `TypeCorrect` | `TypeOK` |
| `SeizedStaysEmpty`, `SeizureIsFinal` | `FrozenIsEmpty`, `FrozenForever` |
| `BooksAreBacked` | `LiveBacked` |
| `HistoryExplainsRequirement`, `UpdatesDisputedOnce` | `AuditTrail`, `DisputedOnce` |
| `WithdrawalsStayCovered`, `ReserveIsCover`, `OpenDisputeStands` | `NoUncoveredOutflow`, `ReserveOnlyCovers`, `DisputeStands` |
| `CustodyImplemented` | `ImplementsCustody`, the refinement |
| `SolventTogether` | `SolventUnlessSandboxSeized`, a sum over importers |
| `GovernanceTypeCorrect` | `TypeOK` of governance |
| `NoProposalWithoutQuorum`, `OneExecution`, `NobodySignsForTheOracle`, `LockOutIsFinal`, `IdsAreNotReused` | the properties of `governance`, and `IdNamesOneProposal` |
| `EffectsHaveReasons`, `EventsMirrorLedger` | `EffectsExplained`, `MirrorOfLedger` |
| `LinesToldOnce`, `CoverHoldsTrue` | `EveryLineIsTold`, `CoverIsInForce` |
| `AlarmsExplained` | `AlarmHasCause` |
| `RowsTell`, `PaidWithSignOff`, `ChecksForesee` | `RowTellsQueue`, `SignOff`, `CheckForesees` |
| `HistoryTellsDeposits`, `PeriodsAreKept` | `ExecutionsTellQueue`, `DepositsSpaced` |
| `ListenerIsTyped`, `NoGap` | `ListenerTypeOK`, `FeedHasNoGap` |
| `RowsTellMail`, `SleptIsSkipped` | `RowTellsMail`, `SleptSlotsStay` |
| `DecisionsInOrder`, `StatusFromDocuments` | `ReviewTellsDecisions`, `KycTellsDocuments` |
| `BondsAreTyped`, `BondsTell` | `BondsTypeOK`, `BondTellsReports` |
| `RotationIsTyped`, `NoApprovalMadeUp` | `RotationTypeOK`, `ApprovalsKept` |
| `EscalationsOnRecord` | `HistoryOfEscalations` |
| `HooksAreTyped`, `DeliveryLog`, `LastWord` | `HooksTypeOK`, `LogIsTrue`, `OneLatePost` |
| `CacheIsTyped`, `NoOlderState` | `CacheTypeOK`, `FreshAfterJob` |
| `ToldInOrder` | `DripTellsRows` |
| `LedgerIsTyped`, `ServicesIsTyped`, `OfficeIsTyped` | `LedgerTypeOK`, `ServicesTypeOK`, `OfficeTypeOK`: the components of an MC module side by side |

Every invariant and every action property that a run checks is stated by one of these.
`TypeOK` of the accounts and of governance, `FrozenIsEmpty`, `FrozenForever`, `NoUncoveredOutflow` (which
`ImplementsCustody` implies), `ReserveOnlyCovers` and `IdNamesOneProposal` are in no run: the proofs hold for every instance.

*Accounts.* Each entrypoint gets a lemma that says what it does to the one account it
saves (`Deposited`, `Withdrew`, `ToppedUp`, `Rewritten`, ...), and `StepKinds` says that a
step is a tick, a registration or one of these. Every invariant and action property is
then proved over the kinds, not over the actions. `TypeOK` is inductive as it stands: a
withdrawal cannot drive a balance below zero because the excess is measured against a
requirement that is a natural number, which is why `EffectiveRequired` must be one.
`LiveBacked` is not inductive: it says nothing of importers that are not registered, so
`Backed` adds that their `escrow` is not negative. `AuditTrail` and
`DisputeOfLastUpdate`, the invariant in `DisputedOnce`, are proved together: resolving a dispute to the old value restores
the newest entry's value, and that is within the cap only because the dispute is about
the newest update. The rest of `DisputedOnce` is about steps: the kinds that raise a dispute need an open window
and leave it, the one that resolves a dispute closes it, and only an update opens one. The refinement maps each kind to one action of `SuretyEscrow`.

*Governance.* The inductive invariant `Ruled` adds to `TypeOK` that the approvals of an
open proposal are distinct keys (`OneVoteEach`) and that the ids of open and executed
proposals are disjoint and have been handed out (`IdsInUse`). Without the first a quorum
by length would not be a quorum of keys; without the second an executed id could
be proposed again. `LockOutIsFinal` rests on the guards of every entrypoint at once: each asks for an admin or a
signer, and with an empty list there is neither.

*Solvency.* A live account that is backed has cost the contract at most what it brought in, so the sum of
the recorded balances is at most the sum of `escrow`, and that is what the contract holds (`BooksAddUp`:
each transfer moves the token and the importer's `escrow` by the same amount). Sums are folds over a set; how one
changes with a summand or with the set is proved in `SumProofs` without induction over data: among
the sets for which a fact fails there would be a minimal one.

*Pipeline* (`PipelineInv`, one part per job). A transaction that can still be applied is within its validity
(`Valid`). Later runs of a job have no transaction yet and earlier ones none that is about to be sent
(`OneRun`), where the worker stands says what is known of the present one (`Stage`), and every other
effect is of a run that ended blind (`Blamed`). That a job which gives up waiting does not count as blind rests on `Stage`:
the worker has waited no longer than the transaction is old, and the deadline is later than the validity.

*Credit lines* (`CreditInv`). Each audit row or notice a line calls for is in exactly one place: written,
owed by the route, owed by one run of the monitor, or broken off (`OnePlace`). `RowInHand` and `GrantInOrder`
tie what a run holds to the status it has set; `ChecksTrue` says what a check may hold of lines it has read.

*Reconciliation* (`ReqInv`). The property compares the newest row with the newest transaction, so the invariant
orders all of them: a transaction has its request (`TxsHaveRequests`) unless it is an override, a row is that of its
request's value to the cent, rows are stored in the order of
transactions (`RowsInOrder`), as the contract's cooldown keeps two of them a day apart, a resolution shows in its dispute unless
another one wrote over it (`ResolutionsShow`), and a verification has a row in hand (`RowRead`).

*Withdrawals* (`WithdrawalsInv`). For a row that no two calls held at once there is one holder at most, and the jobs
queued for it are those the row tells and one that its holder has not recorded (`RowInv`). A check is true of the account
until the account changes (`ChecksHold`). The order in which a run takes its rows is `Earliest`, which
picks a least date: that there is one is a lemma (`LeastNat`).

*Deposits* (`DepositsInv`). A schedule that no two runs had in hand is in the hand of one at most, and its next date is not before
the end of the period that was paid for, but while a run has still to move it (`ScheduleInv`); a run or an
edit that has computed a date has computed one that is late enough (`SweepInv`, `EditInv`).

*Reports* (`ReportsInv`). The slots (`SlotsInv`): a slot that was slept through is not the next one of a schedule that
runs, nor will an edit in progress make it so. The mails: a delivery whose claim kept to its lease is in one pass,
and what that pass is about to do says how its mails, link and row differ (`PassInv`, `MailInv`, `RowInv`).

*Onboarding* (`OnboardingInv`). With no document review under way the status is the one the documents give (`StatusInv`), and a review of
documents that is alone is about to write it (`AloneInv`). No officer decides two steps of a review
(`ByTwo`), and its decisions end where it stands (`Standing`). A decision on its way is for a step the review has
reached, and one request at most moves the review on, as the unique key on decisions lets one of them in (`DecisionInv`).

*Flags* (`EscalationInv`). Escalations are counted by rows and by the runs that have still to write theirs
(`CountInv`); when a run is to write its row, the flag has its new assignee already, unless it changed hands
once more (`RecordInv`), which is why the row names him twice.

*Side by side.* `LedgerIsTyped`, `ServicesIsTyped` and `OfficeIsTyped`: a step of the composition is a step of one component and leaves the variables of
the others alone, so that the conjunction of the components' invariants is inductive.

*Rotation* (`RotationInv`). What a request has read is a part of what was accepted (`ReadsAccepted`),
and all of it if nobody else approves the same rotation (`ReadsLatest`); a rotation that is not there
has no approvals (`NothingBefore`). Without what the requests hold the property says nothing of the
array that is about to be written.

*Webhooks* (`HooksInv`, one part per delivery). The attempts made are those up to the one in hand
(`Underway`), rows stop where the attempts do and a promised retry is the next row, attempt or timer
(`RowsSoFar`), and a request to a removed subscription ended the delivery (`LateOnce`). A step of another
delivery leaves the part alone (`HookUntouched`).

*Cache* (`CacheInv`). The entry is one the account has had (`EntryOK`); behind a job that has deleted the
entry there is no older state in the cache nor on its way there (`NothingOlder`), which is the part a
state of the cache alone does not show.

*Listener* (`ListenerInv`). For each poll (`Holds`): what is below its window is in the feed or given up,
and its page has all of the window that is not. Overlapping polls move the checkpoint forward and back,
and the invariant holds at each of these places, so the checkpoint may take any of them. `Known`: the
feed has nothing that has not happened.

*Bonds* (`BondsInv`). A request that is to store a row has an envelope nobody else stores and the provider knows
(`SenderInv`); a webhook call that has gone past a table has updated it, unless its row was not there
(`CallInv`); the tables know no more than was reported (`EnvelopeInv`, `BondCompleted`), and of an envelope with
true reports only, what the provider knows. No part rests on who calls: a false report is allowed in any state.

*Drip* (`DripInv`). A pass knows every step that has always been active, and a step it has in hand comes
after steps that are resolved (`WalkerInv`); a step that no two passes had in hand is in hand of one at
most and open as long as it is (`StepInv`). The property speaks of rows and notifications; that a second
one cannot follow depends on what the pass still holds.

*What the proofs changed in the model.* Two arms of a `CASE` overlapped (`Aged`); the dates of a new credit line are one
operator (`InTurn`); `Earliest`, `FirstDue` and `LowestId` choose from a value instead of a state;
and assumptions had been left unsaid: there are users and cadences, and credit lines are finitely many.

*Only model-checked.* Liveness (`EveryJobEnds`, `DueIsResolved`, `DueIsServed`, `UpdatesArrive`, `DeliveriesEnd`), which
is beyond the prover. The statements a run refutes are counterexamples and are not proved.

## 5. Findings

The refuted statements are listed with their lines in `PROJECT.json`: `sandbox_clawback`,
`disputed_value`, `oracle_key`, `upgrade_key` and `dual_sign_off`. Five more are properties that hold and
show a defect:

- `SignersNeverAppointed`: the documented rotation of oracle signers cannot work, since `initialize` stores no
  signer and `update_oracle_signers` asks two of the stored ones to sign.
- `EmptyListLocksOut`: `lib.rs:120` says that at least one admin is required; `initialize` takes an empty list, and the
  contract has nobody for good.
- `BondTellsReports`: the comment at `bond-signatures.ts:166` calls the webhook HMAC-verified. The comparison is
  left out without the key, the header or the raw body (`:171-173`), and no middleware keeps the raw body, so the
  handler does not know who calls: a bond counts as signed because a call said so. What the provider knows it tells
  only of envelopes that nothing false was reported of.
- `HistoryOfEscalations`: the history of an escalation names the new assignee as the previous one too.
- `EveryLineIsTold`: an expiry of a credit line whose audit row fails is never audited, nor are those after it
  in the same run; `services/credit-lines.ts:8` says every one is.

Differences that no run is about:

- `docs/security-model.md:149` asks for `admins[0]` to rotate the oracle admin where the code accepts
  any admin; `docs/guides/dispute-resolution.md` gives `preDisputeRequired` the value in effect.
- `scripts/migrate-storage.ts` calls `migrate_account` with two arguments and the contract takes three;
  `scripts/deploy-contracts.ts` passes `--admin` where `initialize` takes `--admins` and two oracle
  keys; `scripts/admin.ts` passes `set-required` a key pair where the SDK takes an array of them.
- `oracle-event-listener.ts:13-14` promises that a failed insert is retried from the same checkpoint; lines
  256-268 log it and move on.
- `deposit-schedules.ts:27` says that fund capability is validated again before a deposit; only KYC is. The last
  of the five delays in `webhooks.ts:48` is never waited for.
- `cache.ts:117-118` says that every write that changes the account invalidates its entry; a job does so after
  a deposit, a withdrawal or a clawback only (`queue.ts:182-184`).
- The warning before a credit line ends does not come for a line shorter than the time to the next hourly tick.
- `jobs/sla-breach-checker.ts:21-35`: `RETURNING` leaves out the surety, so no notice of a breach is sent.
- A chain's final approval sets the importer's KYC status (`importers.ts:686`) whatever its documents
  say, and a document review (`kyc.ts:410`) overrides a chain.
- A withdrawal request stores no target address, so one that named an address is paid without it.
- `verify-oracle-data` computes the requirement again from `annual_duty_total NUMERIC(20, 2)`
  (`importers.ts:3161-3162`, `db.ts:246`), the upload sends the one of the unrounded duty (`:1423-1451`): a duty of less
  than half a cent is stored as 0.00 and alarms, and so do other small ones. A requirement set at registration, by
  `emergencySetRequiredCollateral` (`stellar.ts:218`) or by `scripts/admin.ts` has no row at all. `AlarmHasCause`
  names both causes.
- `oracle_alerts.pct_change` is `NUMERIC(5, 2)`: a deviation of 1000 % or more makes the insertion fail, so
  the largest mismatches raise no alarm.
- `POST /importers` validates the bond without the surety's name and FEIN and without an effective date
  (`importers.ts:104-109`), which `validateBondForm301` requires: every registration is answered 422. The
  registration of an importer through the API is therefore no action of any module.
- The monthly report (`jobs/compliance-report.ts:185-189`) supersedes by surety and month, a schedule's
  report of the month included, though migration 0011 keeps uniqueness per source.
- `dispute-recommendation.ts` counts a balance it cannot read as 0 and a tie of past outcomes as accepted.
- A pass claims a hundred deliveries for ten minutes and each may take ten seconds, so the lease of the
  last ones can run out under it (`RowTellsMail` names it: `strained`).
- Nothing creates the tables of bond reminders (`bond-signatures.ts:251`, `:287`), `hts_rate_cache` and `alerts`, and nothing
  inserts into `collateral_disputes`. `notifications` and the escalation tables are created by
  `apps/api/migrations/009_*.sql` only, which the migration runner does not execute; the models take them to be there.
- `hts-rate-validator.ts:205` keeps a failed look-up in its cache for seven days, as long as a rate.

## 6. Not modelled

- `migrate_account`: an admin writes any `Account`. Every invariant fails under it by
  construction, so the model describes accounts that were never migrated.
- Events, logging and `bond_id`; read-only entrypoints.
- In `TxPipeline`: a job taken for stalled whose first worker still runs, the SDK's calls with
  several signers (they send and poll the same way), Redis outages. An RPC node that
  reports a transaction later than the 30 s between expiry and deadline.
- Answers of a price oracle that are zero or negative, and storage expiry (TTL).
- The indexer, which measures the lag of the service behind the chain and copies nothing; the monthly report, SLA,
  retention and balance jobs, each of which is one guarded statement per row or only reads; reminders for
  bonds, which fail for want of their tables; deletion and expiry of KYC documents; bulk import of importers; the registration of an importer on chain.
- Evidence and recommendation of disputes, and the checks of a tariff file, which only refuse it. In
  `Requirements` nobody has read a row a day ago when he writes (`DayEnds`).
- Authentication, sessions and API keys, the operations scripts, the web front end, the OpenAPI
  description: no state that the properties concern. They are more than half of the TypeScript.

## 7. Plan

1. `SuretyEscrow`, `TariffShield`, `Governance`, their proofs: done.
2. `TxPipeline`, `AccountCache`, their proofs: done. Left: an abstract specification of a job (submitted, then done at
   most once, or in doubt) that the pipeline refines.
3. `Withdrawals`, `DepositSchedules`, `OracleListener`, `SignerRotation`, `Webhooks`, `Onboarding`,
   `BondSignatures`, `ComplianceFlags`, `CreditLines`, `Requirements`, `ReportDelivery`, `OnboardingDrip`, their proofs:
   done. Left: the components above that are "partly".
