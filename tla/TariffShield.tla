---------------------------- MODULE TariffShield ----------------------------
(***************************************************************************)
(* The Soroban customs-bond escrow contract: contracts/tariff-shield.      *)
(*                                                                         *)
(* One action per state-changing entrypoint on an importer's account.  An  *)
(* invocation is atomic and a panic rolls all of it back, so a call that   *)
(* the contract refuses is a call whose guard is false.  Who may sign is   *)
(* the subject of module Governance; here every entrypoint is taken by     *)
(* whoever it requires, at any moment and with any of the arguments below. *)
(*                                                                         *)
(* Amounts are i128 stroops checked for overflow (Cargo.toml, release      *)
(* profile), times are ledger timestamps in seconds.                       *)
(***************************************************************************)
EXTENDS Integers, Sequences

CONSTANTS
  Importers,       \* addresses that may be registered
  Surety,          \* DataKey::Surety, receiver of a clawback
  Contract,        \* the contract's own address, holder of the escrowed tokens
  Endowment,       \* SAC tokens each importer owns at the start
  Amounts,         \* amounts passed to deposits, withdrawals and accruals
  Requirements,    \* requirements passed to registration and to the oracle
  Rates,           \* answers of the external price oracle
  EmergencyFlags,  \* values of set_required_collateral's emergency argument
  SandboxFlags,    \* kinds of registration that are used
  PAR,             \* rate that means one USDC is one USD: 10000
  CAP,             \* largest factor of one oracle increase: 5
  COOLDOWN,        \* seconds between two oracle updates: 86400
  DISPUTE_WINDOW,  \* seconds an update stays open to dispute: 72 * 3600
  STALE_AFTER,     \* seconds after which collateral data is stale: 365 * 86400
  HISTORY_LEN,     \* entries kept in the on-chain history: 12
  I128_MAX,        \* largest amount the contract can represent
  MAX_YIELD,       \* bound of the model on the accrued yield
  MAX_TIME         \* bound of the model on the ledger clock

Payers  == Importers \cup {Surety}
Holders == Payers \cup {Contract}

ASSUME AddressAssumption == Surety # Contract /\ {Surety, Contract} \cap Importers = {}

ASSUME AmountAssumption ==
  /\ I128_MAX \in Nat /\ Endowment \in 0..I128_MAX
  /\ Amounts \subseteq 1..I128_MAX
  /\ Requirements \subseteq 0..I128_MAX
  /\ MAX_YIELD \in 0..I128_MAX

ASSUME OracleAssumption ==
  /\ PAR \in Nat \ {0} /\ Rates \subseteq Nat \ {0}
  /\ CAP \in Nat \ {0} /\ HISTORY_LEN \in Nat \ {0}
  /\ EmergencyFlags \subseteq BOOLEAN /\ SandboxFlags \subseteq BOOLEAN

ASSUME TimeAssumption ==
  /\ COOLDOWN \in Nat \ {0} /\ DISPUTE_WINDOW \in Nat \ {0}
  /\ STALE_AFTER \in Nat \ {0} /\ MAX_TIME \in Nat \ {0}

VARIABLES
  acct,    \* persistent storage: DataKey::Account(importer) -> Account
  token,   \* balances in the SAC token contract
  now,     \* ledger timestamp
  escrow   \* history variable: tokens that entered the contract for an importer
           \* less the tokens that left it in his name

vars == <<acct, token, now, escrow>>

-----------------------------------------------------------------------------

HistoryEntry == [value : Nat, timestamp : Nat]

Account ==
  [collateral_balance      : Nat,
   required_collateral     : Nat,
   reserve_balance         : Nat,
   yield_accrued           : Nat,
   is_clawbacked           : BOOLEAN,
   collateral_last_updated : Nat,
   collateral_history      : Seq(HistoryEntry),
   dispute_expires_at      : Nat,
   pre_dispute_required    : Nat,
   dispute_raised          : BOOLEAN,
   oracle_last_updated     : Nat,
   is_sandbox              : BOOLEAN]

Registered == DOMAIN acct

(* The requirement currently in force: the old one while it is disputed. *)
EffectiveRequired(a) ==
  IF a.dispute_raised THEN a.pre_dispute_required ELSE a.required_collateral

Balance(a) == a.collateral_balance + a.reserve_balance

(* Mutant of Excess: the reserve counts as cover. *)
ExcessOfBalance(a) == Balance(a) - EffectiveRequired(a)

(* What a withdrawal may take. *)
Excess(a) == a.collateral_balance - EffectiveRequired(a)

(* Mutant of TopUpAmount: sweeps the whole reserve. *)
TopUpEverything(a) ==
  IF a.collateral_balance < EffectiveRequired(a) THEN a.reserve_balance ELSE 0

(* What auto_top_up moves: the shortfall, or all the reserve if that is less. *)
TopUpAmount(a) ==
  LET shortfall == EffectiveRequired(a) - a.collateral_balance
  IN IF shortfall < a.reserve_balance THEN shortfall ELSE a.reserve_balance

(* Mutant of Active: require_active is forgotten. *)
ActiveOrFrozen(i) == i \in Registered

Active(i) == i \in Registered /\ ~acct[i].is_clawbacked

Fresh(a) == now <= a.collateral_last_updated + STALE_AFTER

SaveAccount(i, a) == acct' = [acct EXCEPT ![i] = a]

(* The SAC transfer: it panics when the holder does not own the amount. *)
Transfer(from, to, n) ==
  /\ n <= token[from]
  /\ token' = [h \in Holders |->
       token[h] - (IF h = from THEN n ELSE 0) + (IF h = to THEN n ELSE 0)]

-----------------------------------------------------------------------------

NewAccount(required, sandbox) ==
  [collateral_balance      |-> 0,
   required_collateral     |-> required,
   reserve_balance         |-> 0,
   yield_accrued           |-> 0,
   is_clawbacked           |-> FALSE,
   collateral_last_updated |-> now,
   collateral_history      |-> << >>,
   dispute_expires_at      |-> 0,
   pre_dispute_required    |-> required,
   dispute_raised          |-> FALSE,
   oracle_last_updated     |-> 0,
   is_sandbox              |-> sandbox]

(* register_importer and register_sandbox_importer *)
Register(i, required, sandbox) ==
  /\ i \notin Registered
  /\ acct' = [j \in Registered \cup {i} |->
                IF j = i THEN NewAccount(required, sandbox) ELSE acct[j]]
  /\ UNCHANGED <<token, now, escrow>>

(* What both deposits do before they credit the account: a sandbox account *)
(* is credited without any token moving.                                   *)
ReceiveDeposit(i, from, n) ==
  /\ Active(i) /\ Fresh(acct[i])
  /\ IF acct[i].is_sandbox
       THEN UNCHANGED <<token, escrow>>
       ELSE /\ Transfer(from, Contract, n)
            /\ escrow' = [escrow EXCEPT ![i] = @ + n]
  /\ UNCHANGED now

DepositCollateral(i, from, n) ==
  /\ ReceiveDeposit(i, from, n)
  /\ acct[i].collateral_balance + n <= I128_MAX
  /\ SaveAccount(i, [acct[i] EXCEPT !.collateral_balance = @ + n])

DepositReserve(i, from, n) ==
  /\ ReceiveDeposit(i, from, n)
  /\ acct[i].reserve_balance + n <= I128_MAX
  /\ SaveAccount(i, [acct[i] EXCEPT !.reserve_balance = @ + n])

(* auto_top_up, open to anyone.  With no shortfall or no reserve it returns *)
(* 0 and writes nothing.                                                    *)
AutoTopUp(i) ==
  /\ Active(i)
  /\ TopUpAmount(acct[i]) > 0
  /\ SaveAccount(i, [acct[i] EXCEPT !.collateral_balance = @ + TopUpAmount(acct[i]),
                                    !.reserve_balance = @ - TopUpAmount(acct[i])])
  /\ UNCHANGED <<token, now, escrow>>

WithdrawCollateral(i, to, n) ==
  /\ Active(i) /\ Fresh(acct[i])
  /\ n <= Excess(acct[i])
  /\ IF acct[i].is_sandbox
       THEN UNCHANGED <<token, escrow>>
       ELSE /\ Transfer(Contract, to, n)
            /\ escrow' = [escrow EXCEPT ![i] = @ - (IF to = Contract THEN 0 ELSE n)]
  /\ SaveAccount(i, [acct[i] EXCEPT !.collateral_balance = @ - n])
  /\ UNCHANGED now

(* Mutant of ConvertSandboxToLive: the simulated balances survive. *)
ConvertKeepsBalances(i) ==
  /\ i \in Registered /\ acct[i].is_sandbox
  /\ SaveAccount(i, [acct[i] EXCEPT !.is_sandbox = FALSE])
  /\ UNCHANGED <<token, now, escrow>>

(* On an account that is already live the call returns without a write. *)
ConvertSandboxToLive(i) ==
  /\ i \in Registered /\ acct[i].is_sandbox
  /\ SaveAccount(i, [acct[i] EXCEPT !.is_sandbox = FALSE,
                                    !.collateral_balance = 0,
                                    !.reserve_balance = 0])
  /\ UNCHANGED <<token, now, escrow>>

AccrueYield(i, n) ==
  /\ Active(i)
  /\ acct[i].yield_accrued + n <= MAX_YIELD
  /\ SaveAccount(i, [acct[i] EXCEPT !.yield_accrued = @ + n])
  /\ UNCHANGED <<token, now, escrow>>

(* clawback pays the whole recorded balance out of the contract's tokens.  *)
(* Unlike deposits and withdrawals it does not ask whether the account is  *)
(* a sandbox.  With nothing recorded it only freezes the account.          *)
Clawback(i) ==
  /\ i \in Registered
  /\ LET a == acct[i]
     IN \/ /\ Balance(a) = 0
           /\ SaveAccount(i, [a EXCEPT !.is_clawbacked = TRUE])
           /\ UNCHANGED <<token, escrow>>
        \/ /\ Balance(a) \in 1..I128_MAX
           /\ Transfer(Contract, Surety, Balance(a))
           /\ escrow' = [escrow EXCEPT ![i] = @ - Balance(a)]
           /\ SaveAccount(i, [a EXCEPT !.collateral_balance = 0,
                                       !.reserve_balance = 0,
                                       !.is_clawbacked = TRUE])
  /\ UNCHANGED now

-----------------------------------------------------------------------------

(* A requirement in USD, converted at the oracle's rate. *)
Adjusted(required, rate) ==
  IF rate = PAR THEN required ELSE (required * PAR) \div rate

(* Mutants of Record: nothing is trimmed, or the newest entry is. *)
RecordUntrimmed(history, entry) == Append(history, entry)

RecordKeepsOldest(history, entry) ==
  IF Len(history) < HISTORY_LEN THEN Append(history, entry) ELSE history

(* push_back, then the loop that keeps the newest HISTORY_LEN entries. *)
Record(history, entry) ==
  LET h == Append(history, entry)
  IN IF Len(h) > HISTORY_LEN THEN SubSeq(h, Len(h) - HISTORY_LEN + 1, Len(h)) ELSE h

RateLimited(a) ==
  a.oracle_last_updated > 0 /\ now < a.oracle_last_updated + COOLDOWN

(* No cap on an increase from zero.  That the code's product saturates makes *)
(* no difference: new is never above I128_MAX.                               *)
WithinCap(old, new) == old = 0 \/ new <= CAP * old

(* Mutant of Updated: an open dispute survives the new value. *)
UpdatedKeepsDispute(a, new) ==
  [a EXCEPT !.collateral_history =
              Record(@, [value |-> a.required_collateral, timestamp |-> now]),
            !.pre_dispute_required = a.required_collateral,
            !.dispute_expires_at = now + DISPUTE_WINDOW,
            !.required_collateral = new,
            !.collateral_last_updated = now,
            !.oracle_last_updated = now]

(* The account after an oracle update: the old value goes to the history and *)
(* becomes the one a dispute would enforce, and a new window opens.          *)
Updated(a, new) ==
  [a EXCEPT !.collateral_history =
              Record(@, [value |-> a.required_collateral, timestamp |-> now]),
            !.pre_dispute_required = a.required_collateral,
            !.dispute_expires_at = now + DISPUTE_WINDOW,
            !.dispute_raised = FALSE,
            !.required_collateral = new,
            !.collateral_last_updated = now,
            !.oracle_last_updated = now]

SetRequiredCollateral(i, required, rate, bypass, emergency) ==
  /\ i \in Registered
  /\ bypass \/ emergency \/ ~RateLimited(acct[i])
  /\ rate # PAR => required * PAR <= I128_MAX
  /\ WithinCap(acct[i].required_collateral, Adjusted(required, rate))
  /\ SaveAccount(i, Updated(acct[i], Adjusted(required, rate)))
  /\ UNCHANGED <<token, now, escrow>>

RaiseDispute(i) ==
  /\ Active(i)
  /\ acct[i].dispute_expires_at # 0 /\ now < acct[i].dispute_expires_at
  /\ ~acct[i].dispute_raised
  /\ SaveAccount(i, [acct[i] EXCEPT !.dispute_raised = TRUE])
  /\ UNCHANGED <<token, now, escrow>>

(* Mutant of Resolved: the dispute flag is not reset. *)
ResolvedStillRaised(a, accept) ==
  [a EXCEPT !.required_collateral = IF accept THEN @ ELSE a.pre_dispute_required,
            !.dispute_expires_at = 0]

(* Mutant of Resolved: the window stays open. *)
ResolvedStillOpen(a, accept) ==
  [a EXCEPT !.required_collateral = IF accept THEN @ ELSE a.pre_dispute_required,
            !.dispute_raised = FALSE]

Resolved(a, accept) ==
  [a EXCEPT !.required_collateral = IF accept THEN @ ELSE a.pre_dispute_required,
            !.dispute_raised = FALSE,
            !.dispute_expires_at = 0]

(* resolve_dispute works on a frozen account too. *)
ResolveDispute(i, accept) ==
  /\ i \in Registered /\ acct[i].dispute_raised
  /\ SaveAccount(i, Resolved(acct[i], accept))
  /\ UNCHANGED <<token, now, escrow>>

(* The next ledger closes. *)
Tick ==
  /\ now < MAX_TIME
  /\ now' = now + 1
  /\ UNCHANGED <<acct, token, escrow>>

-----------------------------------------------------------------------------

Init ==
  /\ acct = [i \in {} |-> << >>]
  /\ token = [h \in Holders |-> IF h \in Importers THEN Endowment ELSE 0]
  /\ now = 1
  /\ escrow = [i \in Importers |-> 0]

Funds(i) ==
  \E n \in Amounts :
    \/ \E from \in Payers : DepositCollateral(i, from, n) \/ DepositReserve(i, from, n)
    \/ \E to \in Holders : WithdrawCollateral(i, to, n)
    \/ AccrueYield(i, n)

Administration(i) ==
  \/ \E r \in Requirements, s \in SandboxFlags : Register(i, r, s)
  \/ ConvertSandboxToLive(i)
  \/ Clawback(i)
  \/ AutoTopUp(i)

Oracle(i) ==
  \E r \in Requirements, rate \in Rates, b \in BOOLEAN, e \in EmergencyFlags :
    SetRequiredCollateral(i, r, rate, b, e)

Dispute(i) == RaiseDispute(i) \/ \E accept \in BOOLEAN : ResolveDispute(i, accept)

Next ==
  \/ Tick
  \/ \E i \in Importers : Funds(i) \/ Administration(i) \/ Oracle(i) \/ Dispute(i)

Spec == Init /\ [][Next]_vars

-----------------------------------------------------------------------------

(* Every stored account is well formed, balances and timestamps are naturals, *)
(* and the history never outgrows its cap (lib.rs keeps the newest 12).       *)
TypeOK ==
  /\ Registered \subseteq Importers
  /\ acct \in [Registered -> Account]
  /\ \A i \in Registered : Len(acct[i].collateral_history) <= HISTORY_LEN
  /\ token \in [Holders -> Nat]
  /\ now \in Nat \ {0}
  /\ escrow \in [Importers -> Int]

(* A live account never records more than the tokens that came in for it and *)
(* did not leave in its name, and a trial account never cost the contract a  *)
(* token, up to the seizure of either: deposits, withdrawals, top-ups and    *)
(* the conversion of a sandbox account keep the two books together.          *)
LiveBacked ==
  \A i \in Registered : ~acct[i].is_clawbacked =>
    escrow[i] >= IF acct[i].is_sandbox THEN 0 ELSE Balance(acct[i])

(* clawback leaves nothing behind and no later call (deposit, top-up, oracle *)
(* update, dispute, conversion) puts funds back into the frozen account.     *)
FrozenIsEmpty ==
  \A i \in Registered : acct[i].is_clawbacked => Balance(acct[i]) = 0

(* A seizure is final: no entrypoint thaws the account or moves its funds. *)
FrozenForever ==
  [][\A i \in Registered : acct[i].is_clawbacked =>
       /\ acct'[i].is_clawbacked
       /\ Balance(acct'[i]) = 0
       /\ acct'[i].yield_accrued = acct[i].yield_accrued]_vars

(* The importer's money only leaves while the requirement in force stays met: *)
(* whatever was disputed, reverted or topped up before, a step that lowers    *)
(* the posted collateral leaves it above the requirement, unless the surety   *)
(* seizes the account or a sandbox is wiped to go live.                       *)
NoUncoveredOutflow ==
  [][\A i \in Registered :
       acct'[i].collateral_balance < acct[i].collateral_balance =>
         \/ acct'[i].collateral_balance >= EffectiveRequired(acct'[i])
         \/ acct'[i].is_clawbacked
         \/ acct[i].is_sandbox /\ ~acct'[i].is_sandbox]_vars

(* Reserve is spent on cover only: what leaves the reserve is posted as       *)
(* collateral, never beyond the requirement in force, and never pays anybody, *)
(* but for a seizure and for the wipe of a sandbox.                           *)
ReserveOnlyCovers ==
  [][\A i \in Registered :
       acct'[i].reserve_balance < acct[i].reserve_balance =>
         \/ /\ Balance(acct'[i]) = Balance(acct[i])
            /\ acct'[i].collateral_balance <= EffectiveRequired(acct'[i])
            /\ token' = token
         \/ acct'[i].is_clawbacked
         \/ acct[i].is_sandbox /\ ~acct'[i].is_sandbox]_vars

(* The on-chain audit trail explains the requirement: it never outgrows its   *)
(* cap, its entries are ordered in time, the newest one is of the last oracle *)
(* update and holds the value that update replaced, and no two neighbours,    *)
(* nor the newest and the requirement of today, are more than the cap apart,  *)
(* however many disputes reverted a value in between.                         *)
AuditTrail ==
  \A i \in Registered :
    LET a == acct[i]
        h == a.collateral_history
    IN /\ Len(h) <= HISTORY_LEN
       /\ \A k \in 1..(Len(h) - 1) :
            /\ h[k].timestamp <= h[k+1].timestamp
            /\ WithinCap(h[k].value, h[k+1].value)
       /\ (h # << >>) <=> (a.oracle_last_updated > 0)
       /\ h # << >> =>
            /\ h[Len(h)].timestamp = a.oracle_last_updated
            /\ h[Len(h)].value = a.pre_dispute_required
            /\ WithinCap(h[Len(h)].value, a.required_collateral)

(* An open dispute, or an open window, is the one the newest oracle update    *)
(* opened: half of DisputedOnce.                                              *)
DisputeOfLastUpdate ==
  \A i \in Registered :
    LET a == acct[i]
    IN /\ a.dispute_raised => a.dispute_expires_at # 0
       /\ a.dispute_expires_at # 0 =>
            /\ a.oracle_last_updated > 0
            /\ a.dispute_expires_at = a.oracle_last_updated + DISPUTE_WINDOW
       /\ a.oracle_last_updated <= a.collateral_last_updated
       /\ a.collateral_last_updated <= now

(* The step from account a to account b is an oracle update: the value it *)
(* replaces goes to the audit trail with the time of the update.          *)
Replaces(a, b) ==
  /\ b.oracle_last_updated = now
  /\ b.collateral_history =
       Record(a.collateral_history, [value |-> a.required_collateral, timestamp |-> now])

(* Each update can be disputed at most once (raise_dispute, resolve_dispute): *)
(* a dispute is always about the newest update and takes an open window; it   *)
(* ends with that window closed or in a new update; and a window never opens, *)
(* or moves, but by a new update.                                             *)
DisputedOnce ==
  /\ []DisputeOfLastUpdate
  /\ [][\A i \in Registered :
         LET a == acct[i]
             b == acct'[i]
         IN /\ ~a.dispute_raised /\ b.dispute_raised =>
                 /\ now < a.dispute_expires_at
                 /\ b.dispute_expires_at = a.dispute_expires_at
            /\ a.dispute_raised /\ ~b.dispute_raised =>
                 b.dispute_expires_at = 0 \/ Replaces(a, b)
            /\ b.dispute_expires_at \notin {0, a.dispute_expires_at} => Replaces(a, b)]_vars

(* A dispute stands until the admin resolves it or the oracle issues a new    *)
(* value; meanwhile neither the contested nor the enforced requirement moves, *)
(* and resolving it leaves one of the two in force and the window closed.     *)
DisputeStands ==
  [][\A i \in Registered : acct[i].dispute_raised =>
       LET a == acct[i]
           b == acct'[i]
       IN \/ /\ b.dispute_raised
             /\ b.required_collateral = a.required_collateral
             /\ b.pre_dispute_required = a.pre_dispute_required
          \/ /\ ~b.dispute_raised /\ b.dispute_expires_at = 0
             /\ b.required_collateral \in {a.required_collateral, a.pre_dispute_required}
             /\ b.collateral_history = a.collateral_history
          \/ /\ ~b.dispute_raised /\ b.oracle_last_updated = now
             /\ b.pre_dispute_required = a.required_collateral]_vars

-----------------------------------------------------------------------------

(* What the contract promises about custody, read off an importer's account. *)
Standing ==
  [i \in Importers |->
     IF i \notin Registered THEN "absent"
     ELSE IF acct[i].is_clawbacked THEN "seized"
     ELSE IF acct[i].is_sandbox THEN "trial" ELSE "live"]

Posted == [i \in Importers |-> IF i \in Registered THEN acct[i].collateral_balance ELSE 0]
Spare  == [i \in Importers |-> IF i \in Registered THEN acct[i].reserve_balance ELSE 0]
Floor  == [i \in Importers |-> IF i \in Registered THEN EffectiveRequired(acct[i]) ELSE 0]

Custody == INSTANCE SuretyEscrow
             WITH standing <- Standing, posted <- Posted, spare <- Spare, floor <- Floor

(* The contract implements the custody promise of module SuretyEscrow: oracle  *)
(* updates, disputes, history, yield and time only ever move the floor.        *)
ImplementsCustody == Custody!Spec

=============================================================================
