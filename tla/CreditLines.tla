------------------------------ MODULE CreditLines ------------------------------
(***************************************************************************)
(* Credit lines of one importer (apps/api/src/services/credit-lines.ts):   *)
(* granted and revoked by an administrator, warned of and expired by the   *)
(* hourly monitor of every API process, and counted by the health check,   *)
(* which reads the account and the lines at once.  Every await is a step.  *)
(***************************************************************************)
EXTENDS Integers, FiniteSets, Functions

CONSTANTS
  Lines,       \* rows of credit_lines
  Monitors,    \* runs of the monitor that may overlap: one per API process
  Checks,      \* requests of the health check
  Amounts,     \* amounts an administrator grants
  Durations,   \* ticks a line lasts: at least an hour, or a minute with expiresAt
  Accounts,    \* states of the account: [balance, required]
  LEAD,        \* ticks before expiry from which a warning is due: 48 h
  MAX_NOW,     \* bound of the model: the last tick
  MAX_CUTS     \* bound of the model: runs and routes that break off

ASSUME CreditLinesAssumption ==
  /\ IsFiniteSet(Lines)
  /\ Amounts \subseteq Nat \ {0} /\ Durations \subseteq Nat \ {0}
  /\ Accounts \subseteq [balance : Nat, required : Nat] /\ Accounts # {}
  /\ LEAD \in Nat /\ MAX_NOW \in Nat /\ MAX_CUTS \in Nat

VARIABLES
  now,           \* now() of the database
  credit_lines,  \* the table
  written,       \* rows of audit_log and notifications about each line: how many
  monitor,       \* runs: the loop they are in, its rows that are left, the row in hand
  balances,      \* the account in the contract
  check,         \* health checks: what they have read, and their answer
  unwritten,     \* history: entries that a run or route broke off before
  cuts           \* bound of the model

creditVars == <<now, credit_lines, written, monitor, balances, check, unwritten, cuts>>

-----------------------------------------------------------------------------

Entries == {"audit_granted", "notice_granted", "audit_revoked", "notice_expiring",
            "notice_expired", "audit_expired"}

Line == [status : {"none", "active", "expired", "revoked"}, amount : Amounts \cup {0},
         expires_at : Nat, notified_expiring : BOOLEAN, owed : SUBSET Entries]

Monitor == [at : {"idle", "warn", "expire", "audit"}, todo : SUBSET Lines, row : SUBSET Lines]

Check == [at : {"none", "reading", "answered"}, over : SUBSET Lines,
          account : SUBSET Accounts, lines : SUBSET SUBSET Lines]

ActiveLines == {l \in Lines : credit_lines[l].status = "active"}

(* Mutant of InForce: lines count until the monitor has expired them. *)
InForceByStatus == ActiveLines

(* Lines that have ended, whether or not a monitor has seen to it. *)
Over == {l \in Lines : \/ credit_lines[l].status \in {"expired", "revoked"}
                       \/ l \in ActiveLines /\ credit_lines[l].expires_at <= now}

(* getActiveCreditLines *)
InForce == {l \in ActiveLines : credit_lines[l].expires_at > now}

Write(l, e) == written' = [written EXCEPT ![l][e] = @ + 1]

CutOff(entries) ==
  /\ cuts < MAX_CUTS /\ cuts' = cuts + 1
  /\ unwritten' = unwritten \cup entries

-----------------------------------------------------------------------------
(* POST /admin/credit-lines and /admin/credit-lines/:id/revoke *)

(* The insertion; the audit row and the notice follow. *)
Grant(l) ==
  /\ credit_lines[l].status = "none"
  /\ \E amount \in Amounts, duration \in Durations :
       credit_lines' = [credit_lines EXCEPT ![l] =
         [status |-> "active", amount |-> amount, expires_at |-> now + duration,
          notified_expiring |-> FALSE, owed |-> {"audit_granted", "notice_granted"}]]
  /\ UNCHANGED <<now, written, monitor, balances, check, unwritten, cuts>>

(* A line may be revoked after its expiry, as long as no run has expired it. *)
Revoke(l) ==
  /\ credit_lines[l].status = "active"
  /\ credit_lines' = [credit_lines EXCEPT ![l].status = "revoked",
                                          ![l].owed = @ \cup {"audit_revoked"}]
  /\ UNCHANGED <<now, written, monitor, balances, check, unwritten, cuts>>

(* The route writes the audit row first; the notice waits for it. *)
InTurn(l, e) ==
  /\ e \in credit_lines[l].owed
  /\ e = "notice_granted" => "audit_granted" \notin credit_lines[l].owed

RouteWrites(l, e) ==
  /\ InTurn(l, e)
  /\ Write(l, e)
  /\ credit_lines' = [credit_lines EXCEPT ![l].owed = @ \ {e}]
  /\ UNCHANGED <<now, monitor, balances, check, unwritten, cuts>>

(* An audit row or a notice fails, or the process ends; the line stays. *)
RouteBreaks(l, e) ==
  /\ InTurn(l, e)
  /\ LET with == IF e = "audit_granted" THEN {e, "notice_granted"} ELSE {e}
     IN /\ credit_lines' = [credit_lines EXCEPT ![l].owed = @ \ with]
        /\ CutOff({<<l, x>> : x \in with})
  /\ UNCHANGED <<now, written, monitor, balances, check>>

-----------------------------------------------------------------------------
(* The monitor's tick: notifyExpiringCreditLines, then expireDueCreditLines *)

(* One UPDATE ... RETURNING claims the rows; each is then warned of. *)
MarkExpiring(m) ==
  LET due == {l \in InForce : ~credit_lines[l].notified_expiring
                              /\ credit_lines[l].expires_at <= now + LEAD}
  IN /\ monitor[m].at = "idle"
     /\ credit_lines' = [l \in Lines |-> [credit_lines[l] EXCEPT
                           !.notified_expiring = @ \/ l \in due]]
     /\ monitor' = [monitor EXCEPT ![m] = [at |-> "warn", todo |-> due, row |-> {}]]
     /\ UNCHANGED <<now, written, balances, check, unwritten, cuts>>

Warn(m, l) ==
  /\ monitor[m].at = "warn" /\ l \in monitor[m].todo
  /\ Write(l, "notice_expiring")
  /\ monitor' = [monitor EXCEPT ![m].todo = @ \ {l}]
  /\ UNCHANGED <<now, credit_lines, balances, check, unwritten, cuts>>

(* Mutant of Lapsed: a line that was revoked lapses too. *)
LapsedInAnyStatus == {l \in Lines : credit_lines[l].status # "none"
                                    /\ credit_lines[l].expires_at <= now}

Lapsed == {l \in ActiveLines : credit_lines[l].expires_at <= now}

MarkExpired(m) ==
  /\ monitor[m].at = "warn" /\ monitor[m].todo = {}
  /\ credit_lines' = [l \in Lines |-> [credit_lines[l] EXCEPT
                        !.status = IF l \in Lapsed THEN "expired" ELSE @]]
  /\ monitor' = [monitor EXCEPT ![m] = [at |-> "expire", todo |-> Lapsed, row |-> {}]]
  /\ UNCHANGED <<now, written, balances, check, unwritten, cuts>>

TellExpired(m, l) ==
  /\ monitor[m].at = "expire" /\ l \in monitor[m].todo
  /\ Write(l, "notice_expired")
  /\ monitor' = [monitor EXCEPT ![m] = [at |-> "audit", todo |-> @.todo \ {l}, row |-> {l}]]
  /\ UNCHANGED <<now, credit_lines, balances, check, unwritten, cuts>>

AuditExpired(m, l) ==
  /\ monitor[m].at = "audit" /\ l \in monitor[m].row
  /\ Write(l, "audit_expired")
  /\ monitor' = [monitor EXCEPT ![m].at = "expire", ![m].row = {}]
  /\ UNCHANGED <<now, credit_lines, balances, check, unwritten, cuts>>

RunEnds(m) ==
  /\ monitor[m].at = "expire" /\ monitor[m].todo = {}
  /\ monitor' = [monitor EXCEPT ![m].at = "idle"]
  /\ UNCHANGED <<now, credit_lines, written, balances, check, unwritten, cuts>>

(* What a run still has to write. *)
OwedBy(m) ==
  LET left == monitor[m].todo
  IN  CASE monitor[m].at = "warn"   -> left \X {"notice_expiring"}
        [] monitor[m].at = "expire" -> left \X {"notice_expired", "audit_expired"}
        [] monitor[m].at = "audit"  -> (left \X {"notice_expired", "audit_expired"})
                                       \cup (monitor[m].row \X {"audit_expired"})
        [] OTHER -> {}

(* The first failure ends the run in its catch: the rows it has claimed are *)
(* not claimed again.                                                       *)
RunBreaks(m) ==
  /\ monitor[m].at # "idle"
  /\ CutOff(OwedBy(m))
  /\ monitor' = [monitor EXCEPT ![m] = [at |-> "idle", todo |-> {}, row |-> {}]]
  /\ UNCHANGED <<now, credit_lines, written, balances, check>>

-----------------------------------------------------------------------------
(* GET /importers/:id/collateral-health *)

(* evaluateCollateralHealth; the sum leaves out what it was not given. *)
Shortfall(account) ==
  IF account.required > account.balance THEN account.required - account.balance ELSE 0

AmountOf == [l \in Lines |-> credit_lines[l].amount]

Total(lines) == SumFunctionOnSet(AmountOf, lines)

Health(account, lines) ==
  CASE Shortfall(account) = 0 -> "healthy"
    [] Shortfall(account) > 0 /\ Shortfall(account) <= Total(lines) -> "covered_by_credit_line"
    [] OTHER -> "shortfall"

Ask(k) ==
  /\ check[k].at = "none"
  /\ check' = [check EXCEPT ![k] = [at |-> "reading", account |-> {}, lines |-> {},
                 over |-> Over]]
  /\ UNCHANGED <<now, credit_lines, written, monitor, balances, unwritten, cuts>>

(* Promise.all: the two reads in either order. *)
ReadAccount(k) ==
  /\ check[k].at = "reading" /\ check[k].account = {}
  /\ check' = [check EXCEPT ![k].account = {balances}]
  /\ UNCHANGED <<now, credit_lines, written, monitor, balances, unwritten, cuts>>

ReadLines(k) ==
  /\ check[k].at = "reading" /\ check[k].lines = {}
  /\ check' = [check EXCEPT ![k].lines = {InForce}]
  /\ UNCHANGED <<now, credit_lines, written, monitor, balances, unwritten, cuts>>

AnswerHealth(k) ==
  /\ check[k].at = "reading" /\ check[k].account # {} /\ check[k].lines # {}
  /\ check' = [check EXCEPT ![k].at = "answered"]
  /\ UNCHANGED <<now, credit_lines, written, monitor, balances, unwritten, cuts>>

-----------------------------------------------------------------------------

(* Deposits, withdrawals and new requirements, by transactions of others. *)
AccountMoves ==
  /\ balances' \in Accounts
  /\ UNCHANGED <<now, credit_lines, written, monitor, check, unwritten, cuts>>

TimePasses ==
  /\ now < MAX_NOW
  /\ now' = now + 1
  /\ UNCHANGED <<credit_lines, written, monitor, balances, check, unwritten, cuts>>

CreditInit ==
  /\ now = 0 /\ balances \in Accounts
  /\ credit_lines = [l \in Lines |-> [status |-> "none", amount |-> 0, expires_at |-> 0,
                                      notified_expiring |-> FALSE, owed |-> {}]]
  /\ written = [l \in Lines |-> [e \in Entries |-> 0]]
  /\ monitor = [m \in Monitors |-> [at |-> "idle", todo |-> {}, row |-> {}]]
  /\ check = [k \in Checks |-> [at |-> "none", over |-> {}, account |-> {}, lines |-> {}]]
  /\ unwritten = {} /\ cuts = 0

CreditNext ==
  \/ AccountMoves \/ TimePasses
  \/ \E l \in Lines :
       \/ Grant(l) \/ Revoke(l)
       \/ \E e \in Entries : RouteWrites(l, e) \/ RouteBreaks(l, e)
  \/ \E m \in Monitors :
       \/ MarkExpiring(m) \/ MarkExpired(m) \/ RunEnds(m) \/ RunBreaks(m)
       \/ \E l \in Lines : Warn(m, l) \/ TellExpired(m, l) \/ AuditExpired(m, l)
  \/ \E k \in Checks : Ask(k) \/ ReadAccount(k) \/ ReadLines(k) \/ AnswerHealth(k)

CreditSpec == CreditInit /\ [][CreditNext]_creditVars

-----------------------------------------------------------------------------

CreditTypeOK ==
  /\ now \in 0..MAX_NOW /\ balances \in Accounts /\ cuts \in 0..MAX_CUTS
  /\ credit_lines \in [Lines -> Line] /\ monitor \in [Monitors -> Monitor]
  /\ check \in [Checks -> Check] /\ unwritten \subseteq Lines \X Entries
  /\ written \in [Lines -> [Entries -> Nat]]

(* What the table says should have been written about a line. *)
Called(l, e) ==
  CASE e \in {"audit_granted", "notice_granted"} -> credit_lines[l].status # "none"
    [] e = "audit_revoked"   -> credit_lines[l].status = "revoked"
    [] e = "notice_expiring" -> credit_lines[l].notified_expiring
    [] OTHER                 -> credit_lines[l].status = "expired"

StillOwed(l, e) == e \in credit_lines[l].owed \/ \E m \in Monitors : <<l, e>> \in OwedBy(m)

(* However the monitors overlap with each other and with revocations, every  *)
(* grant, revocation, warning and expiry is told exactly once, and nothing   *)
(* else is, except what a run or a route broke off before: claimed rows are  *)
(* not told a second time, so that the entry is missing for good.            *)
EveryLineIsTold ==
  \A l \in Lines, e \in Entries :
    written[l][e] = IF Called(l, e) /\ ~StillOwed(l, e) /\ <<l, e>> \notin unwritten THEN 1 ELSE 0

(* An answer other than "shortfall" rests on the account as it was read and  *)
(* on lines that were in force when the request came or were granted since:  *)
(* what had lapsed or been revoked before is not counted, whether or not a   *)
(* monitor works.                                                            *)
CoverIsInForce ==
  \A k \in Checks : check[k].at = "answered" =>
    \A account \in check[k].account, lines \in check[k].lines :
      Health(account, lines) # "shortfall"
        => account.balance + Total(Lines \ check[k].over) >= account.required

=============================================================================
