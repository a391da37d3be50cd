--------------------------- MODULE CustodyProofs ----------------------------
(***************************************************************************)
(* Theorems about the escrow contract, for any importers, amounts, rates   *)
(* and time constants: its invariants, what it may do to an importer's     *)
(* money and to a dispute in one step, and that it implements the custody  *)
(* promise SuretyEscrow.                                                   *)
(***************************************************************************)
EXTENDS MCEscrow, SequenceTheorems, SumProofs

(* A requirement converted at a positive rate is a natural number. *)
LEMMA AdjustedNat ==
  ASSUME NEW r \in Requirements, NEW rate \in Rates
  PROVE  Adjusted(r, rate) \in Nat
<1>1. r \in Nat /\ rate \in Nat /\ rate > 0 /\ PAR \in Nat
  BY AmountAssumption, OracleAssumption
<1>2. r * PAR \in Nat
  BY <1>1
<1>3. \A x \in Nat : (x \div rate) \in Nat
  BY <1>1
<1> QED
  BY <1>1, <1>2, <1>3 DEF Adjusted

(* The history after a push: bounded, ending in the new entry, and made of   *)
(* neighbours that were neighbours before or of the old end and the new one. *)
LEMMA RecordProperties ==
  ASSUME NEW h \in Seq(HistoryEntry), Len(h) <= HISTORY_LEN, NEW e \in HistoryEntry
  PROVE  LET r == Record(h, e)
         IN /\ r \in Seq(HistoryEntry)
            /\ Len(r) <= HISTORY_LEN
            /\ Len(r) > 0
            /\ r[Len(r)] = e
            /\ \A k \in 1..(Len(r) - 1) :
                 \/ \E j \in 1..(Len(h) - 1) : r[k] = h[j] /\ r[k+1] = h[j+1]
                 \/ Len(h) > 0 /\ r[k] = h[Len(h)] /\ r[k+1] = e
<1> DEFINE g == Append(h, e)
<1>1. /\ g \in Seq(HistoryEntry)
      /\ Len(g) = Len(h) + 1
      /\ \A k \in 1..Len(h) : g[k] = h[k]
      /\ g[Len(h) + 1] = e
  BY AppendProperties
<1>2. Len(h) \in Nat /\ HISTORY_LEN \in Nat \ {0}
  BY OracleAssumption
<1>3. CASE Len(g) <= HISTORY_LEN
  <2>1. Record(h, e) = g
    BY <1>1, <1>2, <1>3 DEF Record
  <2> QED
    BY <2>1, <1>1, <1>2, <1>3
<1>4. CASE Len(g) > HISTORY_LEN
  <2> DEFINE m == Len(g) - HISTORY_LEN + 1
             r == SubSeq(g, m, Len(g))
  <2>1. m = 2 /\ Len(g) = HISTORY_LEN + 1 /\ Len(h) = HISTORY_LEN
    BY <1>1, <1>2, <1>4
  <2>2. /\ r \in Seq(HistoryEntry)
        /\ Len(r) = HISTORY_LEN
        /\ \A k \in 1..HISTORY_LEN : r[k] = g[k + 1]
    <3>1. \A k \in m..Len(g) : g[k] \in HistoryEntry
      BY <1>1, <1>2, <2>1, ElementOfSeq
    <3>2. m \in Int /\ Len(g) \in Int
      BY <2>1, <1>2
    <3> HIDE DEF g, m
    <3> QED
      BY <3>1, <3>2, <2>1, <1>2, SubSeqProperties
  <2>3. Record(h, e) = r
    BY <1>4 DEF Record
  <2> HIDE DEF r, g
  <2> QED
    BY <2>1, <2>2, <2>3, <1>1, <1>2
<1> QED
  BY <1>1, <1>2, <1>3, <1>4

-----------------------------------------------------------------------------
(* The steps of the contract, as changes of one account field by field.      *)

(* The part of TypeOK that is about one stored account. *)
WellFormed(a) == a \in Account /\ Len(a.collateral_history) <= HISTORY_LEN

(* The call rewrites importer i's account and no other. *)
OnlyChanges(i) ==
  /\ i \in Registered
  /\ Registered' = Registered
  /\ acct' \in [Registered' -> Account]
  /\ \A j \in Registered' : WellFormed(acct'[j])
  /\ \A j \in Registered : j # i => acct'[j] = acct[j]

(* Nothing about the requirement or a dispute changes from a to b. *)
SameTerms(a, b) ==
  /\ b.required_collateral = a.required_collateral
  /\ b.pre_dispute_required = a.pre_dispute_required
  /\ b.dispute_raised = a.dispute_raised
  /\ b.dispute_expires_at = a.dispute_expires_at
  /\ b.collateral_history = a.collateral_history
  /\ b.oracle_last_updated = a.oracle_last_updated
  /\ b.collateral_last_updated = a.collateral_last_updated

(* The account's standing does not change from a to b. *)
SameStanding(a, b) ==
  /\ b.is_clawbacked = a.is_clawbacked
  /\ b.is_sandbox = a.is_sandbox
  /\ b.yield_accrued = a.yield_accrued

SameFunds(a, b) ==
  /\ SameStanding(a, b)
  /\ b.collateral_balance = a.collateral_balance
  /\ b.reserve_balance = a.reserve_balance

(* The kinds of change, one per group of entrypoints. *)
Deposited(i, n) ==
  LET a == acct[i]
      b == acct'[i]
  IN /\ SameTerms(a, b) /\ SameStanding(a, b) /\ ~a.is_clawbacked
     /\ \/ /\ b.collateral_balance = a.collateral_balance + n
           /\ b.reserve_balance = a.reserve_balance
        \/ /\ b.collateral_balance = a.collateral_balance
           /\ b.reserve_balance = a.reserve_balance + n
     /\ escrow' = [escrow EXCEPT ![i] = @ + (IF a.is_sandbox THEN 0 ELSE n)]

ToppedUp(i) ==
  LET a == acct[i]
      b == acct'[i]
  IN /\ SameTerms(a, b) /\ SameStanding(a, b) /\ ~a.is_clawbacked
     /\ b.collateral_balance > a.collateral_balance
     /\ b.collateral_balance <= EffectiveRequired(a)
     /\ b.collateral_balance + b.reserve_balance = a.collateral_balance + a.reserve_balance
     /\ escrow' = escrow /\ token' = token

Withdrew(i, n) ==
  LET a == acct[i]
      b == acct'[i]
  IN /\ SameTerms(a, b) /\ SameStanding(a, b) /\ ~a.is_clawbacked
     /\ b.collateral_balance = a.collateral_balance - n
     /\ b.collateral_balance >= EffectiveRequired(a)
     /\ b.reserve_balance = a.reserve_balance
     /\ escrow' \in [Importers -> Int]
     /\ \A j \in Importers : escrow'[j] >= escrow[j] - (IF j = i /\ ~a.is_sandbox THEN n ELSE 0)

Accrued(i) ==
  LET a == acct[i]
      b == acct'[i]
  IN /\ SameTerms(a, b) /\ ~a.is_clawbacked /\ ~b.is_clawbacked
     /\ b.is_sandbox = a.is_sandbox
     /\ b.collateral_balance = a.collateral_balance
     /\ b.reserve_balance = a.reserve_balance
     /\ escrow' = escrow

WentLive(i) ==
  LET a == acct[i]
      b == acct'[i]
  IN /\ SameTerms(a, b) /\ a.is_sandbox /\ ~b.is_sandbox
     /\ b.is_clawbacked = a.is_clawbacked /\ b.yield_accrued = a.yield_accrued
     /\ b.collateral_balance = 0 /\ b.reserve_balance = 0
     /\ escrow' = escrow

Seized(i) ==
  LET a == acct[i]
      b == acct'[i]
  IN /\ SameTerms(a, b) /\ b.is_clawbacked
     /\ b.is_sandbox = a.is_sandbox /\ b.yield_accrued = a.yield_accrued
     /\ b.collateral_balance = 0 /\ b.reserve_balance = 0
     /\ escrow' \in [Importers -> Int]
     /\ \A j \in Importers : j # i => escrow'[j] = escrow[j]

Reassessed(i) ==
  LET a == acct[i]
      b == acct'[i]
  IN /\ SameFunds(a, b) /\ escrow' = escrow
     /\ WithinCap(a.required_collateral, b.required_collateral)
     /\ b.collateral_history = Record(a.collateral_history,
                                 [value |-> a.required_collateral, timestamp |-> now])
     /\ b.pre_dispute_required = a.required_collateral
     /\ b.dispute_expires_at = now + DISPUTE_WINDOW
     /\ ~b.dispute_raised
     /\ b.collateral_last_updated = now
     /\ b.oracle_last_updated = now

Disputed(i) ==
  LET a == acct[i]
      b == acct'[i]
  IN /\ SameFunds(a, b) /\ escrow' = escrow
     /\ SameTerms([a EXCEPT !.dispute_raised = TRUE], b)
     /\ ~a.dispute_raised /\ a.dispute_expires_at # 0 /\ now < a.dispute_expires_at

Closed(i) ==
  LET a == acct[i]
      b == acct'[i]
  IN /\ SameFunds(a, b) /\ escrow' = escrow
     /\ a.dispute_raised /\ ~b.dispute_raised /\ b.dispute_expires_at = 0
     /\ b.required_collateral \in {a.required_collateral, a.pre_dispute_required}
     /\ b.pre_dispute_required = a.pre_dispute_required
     /\ b.collateral_history = a.collateral_history
     /\ b.oracle_last_updated = a.oracle_last_updated
     /\ b.collateral_last_updated = a.collateral_last_updated

Enrolled(i) ==
  /\ i \in Importers \ Registered
  /\ Registered' = Registered \cup {i}
  /\ acct' \in [Registered' -> Account]
  /\ \A j \in Registered' : WellFormed(acct'[j])
  /\ \A j \in Registered : acct'[j] = acct[j]
  /\ \E r \in Requirements, s \in SandboxFlags : acct'[i] = NewAccount(r, s)
  /\ escrow' = escrow

(* Every step of the contract that writes storage, with now unchanged. *)
Kinds(i) ==
  /\ now' = now
  /\ \/ Enrolled(i)
     \/ /\ OnlyChanges(i)
        /\ \/ \E n \in Amounts : Deposited(i, n) \/ Withdrew(i, n)
           \/ ToppedUp(i) \/ Accrued(i) \/ WentLive(i) \/ Seized(i)
           \/ Reassessed(i) \/ Disputed(i) \/ Closed(i)

-----------------------------------------------------------------------------

(* Saving a well-formed account rewrites one entry of the storage map. *)
LEMMA SaveChanges ==
  ASSUME TypeOK, NEW i \in Registered, NEW b, WellFormed(b), SaveAccount(i, b)
  PROVE  OnlyChanges(i) /\ acct'[i] = b
BY DEF TypeOK, WellFormed, SaveAccount, Registered, OnlyChanges

(* TypeOK, read one stored account at a time. *)
LEMMA StoredWellFormed ==
  ASSUME TypeOK, NEW i \in Registered
  PROVE  /\ i \in Importers
         /\ WellFormed(acct[i])
         /\ acct[i] \in Account
         /\ acct[i].collateral_balance \in Nat
         /\ acct[i].reserve_balance \in Nat
         /\ acct[i].yield_accrued \in Nat
         /\ acct[i].required_collateral \in Nat
         /\ acct[i].pre_dispute_required \in Nat
         /\ EffectiveRequired(acct[i]) \in Nat
BY DEF TypeOK, WellFormed, Account, EffectiveRequired

(* A transfer keeps every token balance a natural number. *)
LEMMA TransferType ==
  ASSUME token \in [Holders -> Nat], NEW from \in Holders, NEW to \in Holders,
         NEW n \in Nat, Transfer(from, to, n)
  PROVE  token' \in [Holders -> Nat]
BY DEF Transfer

(* No call passes a zero or a negative amount. *)
LEMMA AmountPositive == \A n \in Amounts : n \in Nat /\ n > 0
BY AmountAssumption

(* Both deposits leave the token books typed, and credit no more than came in. *)
LEMMA ReceiveDepositEffect ==
  ASSUME TypeOK, NEW i \in Importers, NEW from \in Payers, NEW n \in Amounts,
         ReceiveDeposit(i, from, n)
  PROVE  /\ i \in Registered /\ ~acct[i].is_clawbacked
         /\ now' = now
         /\ token' \in [Holders -> Nat]
         /\ escrow' = [escrow EXCEPT ![i] = @ + (IF acct[i].is_sandbox THEN 0 ELSE n)]
<1>1. i \in Registered /\ ~acct[i].is_clawbacked /\ now' = now
  BY DEF ReceiveDeposit, Active
<1>2. n \in Nat /\ from \in Holders /\ Contract \in Holders
  BY AmountPositive DEF Holders
<1>3. token \in [Holders -> Nat] /\ escrow \in [Importers -> Int]
  BY DEF TypeOK
<1>4. CASE acct[i].is_sandbox
  BY <1>1, <1>3, <1>4 DEF ReceiveDeposit
<1>5. CASE ~acct[i].is_sandbox
  BY <1>1, <1>2, <1>3, <1>5, TransferType DEF ReceiveDeposit
<1> QED
  BY <1>1, <1>4, <1>5

(* A deposit changes one account, by what ReceiveDeposit let in. *)
LEMMA DepositEffect ==
  ASSUME TypeOK, NEW i \in Importers, NEW from \in Payers, NEW n \in Amounts,
         DepositCollateral(i, from, n) \/ DepositReserve(i, from, n)
  PROVE  OnlyChanges(i) /\ Deposited(i, n) /\ now' = now /\ token' \in [Holders -> Nat]
<1>1. ReceiveDeposit(i, from, n)
  BY DEF DepositCollateral, DepositReserve
<1>2. /\ i \in Registered /\ ~acct[i].is_clawbacked /\ now' = now
      /\ token' \in [Holders -> Nat]
      /\ escrow' = [escrow EXCEPT ![i] = @ + (IF acct[i].is_sandbox THEN 0 ELSE n)]
  BY <1>1, ReceiveDepositEffect
<1> DEFINE a == acct[i]
           x == a.collateral_balance + n
           y == a.reserve_balance + n
<1>3. a \in Account /\ WellFormed(a) /\ x \in Nat /\ y \in Nat
  BY <1>2, StoredWellFormed, AmountPositive
<1>4. ASSUME SaveAccount(i, [a EXCEPT !.collateral_balance = x])
      PROVE  OnlyChanges(i) /\ Deposited(i, n)
  <2>1. WellFormed([a EXCEPT !.collateral_balance = x])
    BY <1>3 DEF WellFormed, Account
  <2>2. OnlyChanges(i) /\ acct'[i] = [a EXCEPT !.collateral_balance = x]
    BY <2>1, <1>2, <1>4, SaveChanges
  <2> QED
    BY <2>2, <1>2, <1>3 DEF Deposited, SameTerms, SameStanding, Account
<1>5. ASSUME SaveAccount(i, [a EXCEPT !.reserve_balance = y])
      PROVE  OnlyChanges(i) /\ Deposited(i, n)
  <2>1. WellFormed([a EXCEPT !.reserve_balance = y])
    BY <1>3 DEF WellFormed, Account
  <2>2. OnlyChanges(i) /\ acct'[i] = [a EXCEPT !.reserve_balance = y]
    BY <2>1, <1>2, <1>5, SaveChanges
  <2> QED
    BY <2>2, <1>2, <1>3 DEF Deposited, SameTerms, SameStanding, Account
<1> QED
  BY <1>2, <1>4, <1>5 DEF DepositCollateral, DepositReserve

(* A withdrawal lowers one account's collateral, down to its requirement. *)
LEMMA WithdrawEffect ==
  ASSUME TypeOK, NEW i \in Importers, NEW to \in Holders, NEW n \in Amounts,
         WithdrawCollateral(i, to, n)
  PROVE  OnlyChanges(i) /\ Withdrew(i, n) /\ now' = now /\ token' \in [Holders -> Nat]
<1> DEFINE a == acct[i]
           x == a.collateral_balance - n
<1>1. /\ i \in Registered /\ ~a.is_clawbacked /\ now' = now
      /\ n <= Excess(a)
      /\ SaveAccount(i, [a EXCEPT !.collateral_balance = x])
  BY DEF WithdrawCollateral, Active
<1>2. n \in Nat /\ n > 0 /\ Contract \in Holders
  BY AmountPositive DEF Holders
<1>3. /\ a \in Account /\ WellFormed(a)
      /\ a.collateral_balance \in Nat /\ EffectiveRequired(a) \in Nat
  BY <1>1, StoredWellFormed
<1>4. x \in Nat /\ x >= EffectiveRequired(a)
  BY <1>1, <1>2, <1>3 DEF Excess
<1>5. WellFormed([a EXCEPT !.collateral_balance = x])
  BY <1>3, <1>4 DEF WellFormed, Account
<1>6. OnlyChanges(i) /\ acct'[i] = [a EXCEPT !.collateral_balance = x]
  BY <1>1, <1>5, SaveChanges
<1>7. /\ token' \in [Holders -> Nat]
      /\ escrow' \in [Importers -> Int]
      /\ \A j \in Importers : escrow'[j] >= escrow[j] - (IF j = i /\ ~a.is_sandbox THEN n ELSE 0)
  <2>1. token \in [Holders -> Nat] /\ escrow \in [Importers -> Int]
    BY DEF TypeOK
  <2>2. CASE a.is_sandbox
    BY <2>1, <2>2, <1>2 DEF WithdrawCollateral
  <2>3. CASE ~a.is_sandbox
    <3>1. Transfer(Contract, to, n)
          /\ escrow' = [escrow EXCEPT ![i] = @ - (IF to = Contract THEN 0 ELSE n)]
      BY <2>3 DEF WithdrawCollateral
    <3>2. token' \in [Holders -> Nat]
      BY <3>1, <2>1, <1>2, TransferType
    <3> QED
      BY <3>1, <3>2, <2>1, <2>3, <1>2
  <2> QED
    BY <2>2, <2>3
<1> QED
  BY <1>1, <1>3, <1>4, <1>6, <1>7 DEF Withdrew, SameTerms, SameStanding, Account

(* Yield is a counter of its own: it touches neither funds nor terms. *)
LEMMA AccrueEffect ==
  ASSUME TypeOK, NEW i \in Importers, NEW n \in Amounts, AccrueYield(i, n)
  PROVE  OnlyChanges(i) /\ Accrued(i) /\ now' = now /\ token' = token
<1> DEFINE a == acct[i]
           x == a.yield_accrued + n
<1>1. /\ i \in Registered /\ ~a.is_clawbacked /\ UNCHANGED <<token, now, escrow>>
      /\ SaveAccount(i, [a EXCEPT !.yield_accrued = x])
  BY DEF AccrueYield, Active
<1>2. a \in Account /\ WellFormed(a) /\ x \in Nat
  BY <1>1, StoredWellFormed, AmountPositive
<1>3. WellFormed([a EXCEPT !.yield_accrued = x])
  BY <1>2 DEF WellFormed, Account
<1>4. OnlyChanges(i) /\ acct'[i] = [a EXCEPT !.yield_accrued = x]
  BY <1>1, <1>3, SaveChanges
<1> QED
  BY <1>1, <1>2, <1>4 DEF Accrued, SameTerms, Account

(* Registration adds one empty account and leaves the others alone. *)
LEMMA RegisterEffect ==
  ASSUME TypeOK, NEW i \in Importers, NEW r \in Requirements, NEW s \in SandboxFlags,
         Register(i, r, s)
  PROVE  Enrolled(i) /\ now' = now /\ token' = token
<1>1. r \in Nat /\ s \in BOOLEAN /\ now \in Nat
  BY AmountAssumption, OracleAssumption DEF TypeOK
<1>2. WellFormed(NewAccount(r, s))
  BY <1>1, OracleAssumption DEF WellFormed, NewAccount, Account
<1>3. /\ i \notin Registered /\ UNCHANGED <<token, now, escrow>>
      /\ acct' = [j \in Registered \cup {i} |-> IF j = i THEN NewAccount(r, s) ELSE acct[j]]
  BY DEF Register
<1>4. /\ Registered' = Registered \cup {i}
      /\ \A j \in Registered' : acct'[j] = IF j = i THEN NewAccount(r, s) ELSE acct[j]
  BY <1>3 DEF Registered
<1>5. \A j \in Registered' : WellFormed(acct'[j])
  BY <1>2, <1>4, StoredWellFormed
<1>6. acct' \in [Registered' -> Account]
  BY <1>3, <1>4, <1>5 DEF WellFormed
<1> QED
  BY <1>3, <1>4, <1>5, <1>6 DEF Enrolled

(* Going live empties one account and leaves its terms alone. *)
LEMMA ConvertEffect ==
  ASSUME TypeOK, NEW i \in Importers, ConvertSandboxToLive(i)
  PROVE  OnlyChanges(i) /\ WentLive(i) /\ now' = now /\ token' = token
<1> DEFINE a == acct[i]
           b == [a EXCEPT !.is_sandbox = FALSE, !.collateral_balance = 0, !.reserve_balance = 0]
<1>1. /\ i \in Registered /\ a.is_sandbox /\ UNCHANGED <<token, now, escrow>>
      /\ SaveAccount(i, b)
  BY DEF ConvertSandboxToLive
<1>2. a \in Account /\ WellFormed(a)
  BY <1>1, StoredWellFormed
<1>3. WellFormed(b)
  BY <1>2 DEF WellFormed, Account
<1>4. OnlyChanges(i) /\ acct'[i] = b
  BY <1>1, <1>3, SaveChanges
<1> QED
  BY <1>1, <1>2, <1>4 DEF WentLive, SameTerms, Account

(* A clawback empties and freezes one account. *)
LEMMA ClawbackEffect ==
  ASSUME TypeOK, NEW i \in Importers, Clawback(i)
  PROVE  OnlyChanges(i) /\ Seized(i) /\ now' = now /\ token' \in [Holders -> Nat]
<1> DEFINE a == acct[i]
           frozen == [a EXCEPT !.is_clawbacked = TRUE]
           paid == [a EXCEPT !.collateral_balance = 0, !.reserve_balance = 0,
                             !.is_clawbacked = TRUE]
<1>1. i \in Registered /\ now' = now
  BY DEF Clawback
<1>2. /\ a \in Account /\ WellFormed(a)
      /\ a.collateral_balance \in Nat /\ a.reserve_balance \in Nat
  BY <1>1, StoredWellFormed
<1>3. token \in [Holders -> Nat] /\ escrow \in [Importers -> Int]
  BY DEF TypeOK
<1>4. CASE Balance(a) = 0 /\ SaveAccount(i, frozen) /\ UNCHANGED <<token, escrow>>
  <2>1. a.collateral_balance = 0 /\ a.reserve_balance = 0
    BY <1>2, <1>4 DEF Balance
  <2>2. WellFormed(frozen)
    BY <1>2 DEF WellFormed, Account
  <2>3. OnlyChanges(i) /\ acct'[i] = frozen
    BY <1>1, <1>4, <2>2, SaveChanges
  <2> QED
    BY <1>1, <1>2, <1>3, <1>4, <2>1, <2>3 DEF Seized, SameTerms, Account
<1>5. CASE /\ Balance(a) \in 1..I128_MAX
           /\ Transfer(Contract, Surety, Balance(a))
           /\ escrow' = [escrow EXCEPT ![i] = @ - Balance(a)]
           /\ SaveAccount(i, paid)
  <2>1. WellFormed(paid)
    BY <1>2 DEF WellFormed, Account
  <2>2. OnlyChanges(i) /\ acct'[i] = paid
    BY <1>1, <1>5, <2>1, SaveChanges
  <2>3. Balance(a) \in Nat
    BY <1>2 DEF Balance
  <2>4. token' \in [Holders -> Nat]
    BY <1>3, <1>5, <2>3, TransferType DEF Holders, Payers
  <2>5. escrow' \in [Importers -> Int] /\ \A j \in Importers : j # i => escrow'[j] = escrow[j]
    BY <1>3, <1>5, <2>3
  <2>6. Seized(i)
    BY <1>2, <2>2, <2>5 DEF Seized, SameTerms, Account
  <2> QED
    BY <1>1, <2>2, <2>4, <2>6
<1> QED
  BY <1>4, <1>5 DEF Clawback

(* A top-up moves funds inside one account. *)
LEMMA TopUpEffect ==
  ASSUME TypeOK, NEW i \in Importers, AutoTopUp(i)
  PROVE  OnlyChanges(i) /\ ToppedUp(i) /\ now' = now /\ token' = token
<1> DEFINE a == acct[i]
           m == TopUpAmount(a)
           x == a.collateral_balance + m
           y == a.reserve_balance - m
           b == [a EXCEPT !.collateral_balance = x, !.reserve_balance = y]
<1>1. /\ i \in Registered /\ ~a.is_clawbacked /\ m > 0 /\ UNCHANGED <<token, now, escrow>>
      /\ SaveAccount(i, b)
  BY DEF AutoTopUp, Active
<1>2. /\ a \in Account /\ WellFormed(a) /\ EffectiveRequired(a) \in Nat
      /\ a.collateral_balance \in Nat /\ a.reserve_balance \in Nat
  BY <1>1, StoredWellFormed
<1>3. /\ m \in Nat /\ m <= a.reserve_balance
      /\ m <= EffectiveRequired(a) - a.collateral_balance
  BY <1>1, <1>2 DEF TopUpAmount
<1>4. /\ x \in Nat /\ y \in Nat /\ x > a.collateral_balance /\ x <= EffectiveRequired(a)
      /\ x + y = a.collateral_balance + a.reserve_balance
  <2> HIDE DEF m
  <2> QED
    BY <1>1, <1>2, <1>3
<1> HIDE DEF x, y
<1>5. WellFormed(b)
  BY <1>2, <1>4 DEF WellFormed, Account
<1>6. OnlyChanges(i) /\ acct'[i] = b
  BY <1>1, <1>5, SaveChanges
<1> QED
  BY <1>1, <1>2, <1>4, <1>6 DEF ToppedUp, SameTerms, SameStanding, Account

(* An oracle update changes the terms of one account, never its funds. *)
LEMMA OracleEffect ==
  ASSUME TypeOK, NEW i \in Importers, NEW r \in Requirements, NEW rate \in Rates,
         NEW p \in BOOLEAN, NEW e \in EmergencyFlags,
         SetRequiredCollateral(i, r, rate, p, e)
  PROVE  OnlyChanges(i) /\ Reassessed(i) /\ now' = now /\ token' = token
<1> DEFINE a == acct[i]
           new == Adjusted(r, rate)
           entry == [value |-> a.required_collateral, timestamp |-> now]
           h == Record(a.collateral_history, entry)
<1>1. /\ i \in Registered /\ WithinCap(a.required_collateral, new)
      /\ SaveAccount(i, Updated(a, new)) /\ UNCHANGED <<token, now, escrow>>
  BY DEF SetRequiredCollateral
<1>2. /\ a \in Account /\ WellFormed(a) /\ new \in Nat /\ now \in Nat
      /\ a.required_collateral \in Nat
  BY <1>1, StoredWellFormed, AdjustedNat DEF TypeOK
<1>3. entry \in HistoryEntry
  BY <1>2 DEF HistoryEntry
<1>4. h \in Seq(HistoryEntry) /\ Len(h) <= HISTORY_LEN
  BY <1>2, <1>3, RecordProperties DEF WellFormed, Account
<1>5. Updated(a, new) =
        [a EXCEPT !.collateral_history = h,
                  !.pre_dispute_required = a.required_collateral,
                  !.dispute_expires_at = now + DISPUTE_WINDOW,
                  !.dispute_raised = FALSE,
                  !.required_collateral = new,
                  !.collateral_last_updated = now,
                  !.oracle_last_updated = now]
  BY <1>2 DEF Updated, Account
<1>6. now + DISPUTE_WINDOW \in Nat
  BY <1>2, TimeAssumption
<1> HIDE DEF new, h
<1>7. WellFormed(Updated(a, new))
  BY ZenonT(40), <1>2, <1>4, <1>5, <1>6 DEF WellFormed, Account
<1>8. OnlyChanges(i) /\ acct'[i] = Updated(a, new)
  BY <1>1, <1>7, SaveChanges
<1>9. Reassessed(i)
  BY <1>1, <1>2, <1>5, <1>8 DEF Reassessed, SameFunds, SameStanding, Account, h
<1> QED
  BY <1>1, <1>8, <1>9

(* Raising a dispute sets one flag. *)
LEMMA RaiseEffect ==
  ASSUME TypeOK, NEW i \in Importers, RaiseDispute(i)
  PROVE  OnlyChanges(i) /\ Disputed(i) /\ now' = now /\ token' = token
<1> DEFINE a == acct[i]
           b == [a EXCEPT !.dispute_raised = TRUE]
<1>1. /\ i \in Registered /\ ~a.dispute_raised /\ a.dispute_expires_at # 0
      /\ now < a.dispute_expires_at
      /\ UNCHANGED <<token, now, escrow>> /\ SaveAccount(i, b)
  BY DEF RaiseDispute, Active
<1>2. a \in Account /\ WellFormed(a)
  BY <1>1, StoredWellFormed
<1>3. WellFormed(b)
  BY <1>2 DEF WellFormed, Account
<1>4. OnlyChanges(i) /\ acct'[i] = b
  BY <1>1, <1>3, SaveChanges
<1> QED
  BY <1>1, <1>2, <1>4 DEF Disputed, SameFunds, SameStanding, SameTerms, Account

(* Resolving a dispute closes it, and moves no funds. *)
LEMMA ResolveEffect ==
  ASSUME TypeOK, NEW i \in Importers, NEW accept \in BOOLEAN, ResolveDispute(i, accept)
  PROVE  OnlyChanges(i) /\ Closed(i) /\ now' = now /\ token' = token
<1> DEFINE a == acct[i]
           x == IF accept THEN a.required_collateral ELSE a.pre_dispute_required
           b == [a EXCEPT !.required_collateral = x, !.dispute_raised = FALSE,
                          !.dispute_expires_at = 0]
<1>1. /\ i \in Registered /\ a.dispute_raised /\ UNCHANGED <<token, now, escrow>>
      /\ SaveAccount(i, b)
  BY DEF ResolveDispute, Resolved
<1>2. a \in Account /\ WellFormed(a)
  BY <1>1, StoredWellFormed
<1>3. x \in Nat /\ x \in {a.required_collateral, a.pre_dispute_required}
  BY <1>2 DEF Account
<1> HIDE DEF x
<1>4. WellFormed(b)
  BY <1>2, <1>3 DEF WellFormed, Account
<1>5. OnlyChanges(i) /\ acct'[i] = b
  BY <1>1, <1>4, SaveChanges
<1> QED
  BY <1>1, <1>2, <1>3, <1>5 DEF Closed, SameFunds, SameStanding, Account

(* Every step is a tick of the clock or one of these changes of one account. *)
LEMMA StepKinds ==
  ASSUME TypeOK, Next
  PROVE  /\ Tick \/ \E i \in Importers : Kinds(i)
         /\ token' \in [Holders -> Nat]
<1> USE DEF Kinds
<1>1. CASE Tick
  BY <1>1 DEF Tick, TypeOK
<1>2. ASSUME NEW i \in Importers, Funds(i)
      PROVE  Kinds(i) /\ token' \in [Holders -> Nat]
  BY <1>2, DepositEffect, WithdrawEffect, AccrueEffect DEF Funds, TypeOK
<1>3. ASSUME NEW i \in Importers, Administration(i)
      PROVE  Kinds(i) /\ token' \in [Holders -> Nat]
  BY <1>3, RegisterEffect, ConvertEffect, ClawbackEffect, TopUpEffect
  DEF Administration, TypeOK
<1>4. ASSUME NEW i \in Importers, Oracle(i)
      PROVE  Kinds(i) /\ token' \in [Holders -> Nat]
  BY <1>4, OracleEffect DEF Oracle, TypeOK
<1>5. ASSUME NEW i \in Importers, Dispute(i)
      PROVE  Kinds(i) /\ token' \in [Holders -> Nat]
  BY <1>5, RaiseEffect, ResolveEffect DEF Dispute, TypeOK
<1> QED
  BY <1>1, <1>2, <1>3, <1>4, <1>5 DEF Next

-----------------------------------------------------------------------------

(* The empty storage is well formed. *)
LEMMA InitType == Init => TypeOK
BY AmountAssumption DEF Init, TypeOK, Registered, Holders, Payers

(* One step keeps every stored account well formed. *)
LEMMA NextType == TypeOK /\ [Next]_vars => TypeOK'
<1> SUFFICES ASSUME TypeOK, [Next]_vars PROVE TypeOK'
  OBVIOUS
<1>1. CASE UNCHANGED vars
  BY <1>1 DEF vars, TypeOK, Registered
<1>2. CASE Tick
  BY <1>2 DEF Tick, TypeOK, Registered
<1>3. ASSUME NEW i \in Importers, Kinds(i), token' \in [Holders -> Nat]
      PROVE  TypeOK'
  <2>1. now' = now
    BY <1>3 DEF Kinds
  <2>2. escrow' \in [Importers -> Int]
    <3>1. escrow \in [Importers -> Int] /\ \A n \in Amounts : n \in Int
      BY AmountPositive DEF TypeOK
    <3> QED
      BY <1>3, <3>1 DEF Kinds, Enrolled, Deposited, Withdrew, ToppedUp, Accrued, WentLive,
                        Seized, Reassessed, Disputed, Closed
  <2>3. /\ Registered' \subseteq Importers
        /\ acct' \in [Registered' -> Account]
        /\ \A j \in Registered' : WellFormed(acct'[j])
    BY <1>3 DEF Kinds, Enrolled, OnlyChanges, TypeOK
  <2> QED
    BY <1>3, <2>1, <2>2, <2>3 DEF TypeOK, WellFormed
<1> QED
  BY <1>1, <1>2, <1>3, StepKinds

(* Type correctness, for every instance of the contract: among others no     *)
(* withdrawal or top-up can drive a balance below zero, and the audit trail  *)
(* never outgrows its cap.                                                   *)
THEOREM TypeCorrect == Spec => []TypeOK
BY InitType, NextType, PTL DEF Spec

-----------------------------------------------------------------------------

(* A seized account holds nothing, and stays that way: deposits and top-ups  *)
(* ask for an active account, withdrawals too, and the calls that do not     *)
(* (oracle update, resolution, conversion, clawback) move no funds into it.  *)
LEMMA NextFrozen == TypeOK /\ FrozenIsEmpty /\ [Next]_vars => FrozenIsEmpty'
<1> SUFFICES ASSUME TypeOK, FrozenIsEmpty, [Next]_vars PROVE FrozenIsEmpty'
  OBVIOUS
<1>1. CASE UNCHANGED vars \/ Tick
  BY <1>1 DEF vars, Tick, FrozenIsEmpty, Registered
<1>2. ASSUME NEW i \in Importers, Enrolled(i) PROVE FrozenIsEmpty'
  BY <1>2 DEF Enrolled, NewAccount, FrozenIsEmpty
<1>3. ASSUME NEW i \in Importers, OnlyChanges(i),
             acct'[i].is_clawbacked => Balance(acct'[i]) = 0
      PROVE  FrozenIsEmpty'
  BY <1>3 DEF OnlyChanges, FrozenIsEmpty
<1>4. ASSUME NEW i \in Importers, OnlyChanges(i),
             \/ \E n \in Amounts : Deposited(i, n) \/ Withdrew(i, n)
             \/ ToppedUp(i) \/ Accrued(i)
      PROVE  ~acct'[i].is_clawbacked
  BY <1>4 DEF Deposited, Withdrew, ToppedUp, Accrued, SameStanding
<1>5. ASSUME NEW i \in Importers, OnlyChanges(i), WentLive(i) \/ Seized(i)
      PROVE  Balance(acct'[i]) = 0
  BY <1>5 DEF WentLive, Seized, Balance
<1>6. ASSUME NEW i \in Importers, OnlyChanges(i), Reassessed(i) \/ Disputed(i) \/ Closed(i)
      PROVE  acct'[i].is_clawbacked => Balance(acct'[i]) = 0
  BY <1>6 DEF OnlyChanges, Reassessed, Disputed, Closed, SameFunds, SameStanding, Balance,
              FrozenIsEmpty
<1> QED
  BY <1>1, <1>2, <1>3, <1>4, <1>5, <1>6, StepKinds DEF Kinds

(* The surety's clawback leaves an account empty for good. *)
THEOREM SeizedStaysEmpty == Spec => []FrozenIsEmpty
<1>1. Init => FrozenIsEmpty
  BY DEF Init, FrozenIsEmpty, Registered
<1> QED
  BY <1>1, NextFrozen, TypeCorrect, PTL DEF Spec

(* No step of the contract thaws a seized account or pays anything into it. *)
THEOREM SeizureIsFinal == Spec => FrozenForever
<1> DEFINE P == \A i \in Registered : acct[i].is_clawbacked =>
                  /\ acct'[i].is_clawbacked
                  /\ Balance(acct'[i]) = 0
                  /\ acct'[i].yield_accrued = acct[i].yield_accrued
<1>1. TypeOK /\ FrozenIsEmpty /\ [Next]_vars => [P]_vars
  <2> SUFFICES ASSUME TypeOK, FrozenIsEmpty, Next PROVE P
    BY DEF vars
  <2>1. CASE Tick
    BY <2>1 DEF Tick, FrozenIsEmpty
  <2>2. ASSUME NEW j \in Importers, Kinds(j), NEW i \in Registered, acct[i].is_clawbacked
        PROVE  /\ acct'[i].is_clawbacked
               /\ Balance(acct'[i]) = 0
               /\ acct'[i].yield_accrued = acct[i].yield_accrued
    <3>1. CASE acct'[i] = acct[i]
      BY <2>2, <3>1 DEF FrozenIsEmpty
    <3>2. CASE i = j /\ OnlyChanges(j)
      BY <2>2, <3>2 DEF Kinds, Enrolled, Deposited, Withdrew, ToppedUp, Accrued, WentLive,
                        Seized, Reassessed, Disputed, Closed, SameFunds, SameStanding,
                        FrozenIsEmpty, Balance
    <3> QED
      BY <2>2, <3>1, <3>2 DEF Kinds, Enrolled, OnlyChanges
  <2> QED
    BY <2>1, <2>2, StepKinds
<1>2. [][P]_vars => FrozenForever
  BY PTL DEF FrozenForever
<1> QED
  BY <1>1, <1>2, TypeCorrect, SeizedStaysEmpty, PTL DEF Spec

-----------------------------------------------------------------------------

(* LiveBacked with what it needs of an importer who is not registered yet. *)
Backed ==
  /\ LiveBacked
  /\ \A i \in Importers \ Registered : escrow[i] >= 0

(* One step keeps the tokens of every account behind its balances. *)
LEMMA NextBacked == TypeOK /\ TypeOK' /\ Backed /\ [Next]_vars => Backed'
<1> SUFFICES ASSUME TypeOK, TypeOK', Backed, [Next]_vars PROVE Backed'
  OBVIOUS
<1>0. escrow \in [Importers -> Int] /\ escrow' \in [Importers -> Int]
  BY DEF TypeOK
<1>1. CASE UNCHANGED vars \/ Tick
  BY <1>1 DEF vars, Tick, Backed, LiveBacked, Registered
<1>2. ASSUME NEW i \in Importers, Enrolled(i) PROVE Backed'
  <2>1. ~acct'[i].is_clawbacked /\ Balance(acct'[i]) = 0 /\ escrow[i] >= 0
    BY <1>2 DEF Enrolled, NewAccount, Balance, Backed
  <2> QED
    BY <1>2, <2>1 DEF Enrolled, Backed, LiveBacked
<1>3. ASSUME NEW i \in Importers, OnlyChanges(i),
             \/ \E n \in Amounts : Deposited(i, n) \/ Withdrew(i, n)
             \/ ToppedUp(i) \/ Accrued(i) \/ WentLive(i) \/ Seized(i)
             \/ Reassessed(i) \/ Disputed(i) \/ Closed(i)
      PROVE  Backed'
  <2> DEFINE a == acct[i]
             b == acct'[i]
             Holds(e, c) ==
               ~c.is_clawbacked =>
                 /\ c.is_sandbox => e >= 0
                 /\ ~c.is_sandbox => e >= c.collateral_balance + c.reserve_balance
  <2>1. /\ i \in Registered /\ Registered' = Registered
        /\ \A j \in Registered : j # i => acct'[j] = acct[j]
    BY <1>3 DEF OnlyChanges
  <2>2. Holds(escrow[i], a)
    BY <2>1 DEF Backed, LiveBacked, Balance
  <2>3. /\ a.collateral_balance \in Nat /\ a.reserve_balance \in Nat
        /\ b.collateral_balance \in Nat /\ b.reserve_balance \in Nat
        /\ escrow[i] \in Int /\ escrow'[i] \in Int
    BY <2>1, <1>0 DEF TypeOK, Account
  <2>4. \A j \in Importers : j # i => escrow'[j] >= escrow[j]
    BY <1>0, <1>3 DEF Deposited, Withdrew, ToppedUp, Accrued, WentLive, Seized, Reassessed,
                      Disputed, Closed
  <2>5. Holds(escrow'[i], b)
    <3>1. ASSUME NEW n \in Amounts, Deposited(i, n) PROVE Holds(escrow'[i], b)
      <4>1. escrow'[i] = escrow[i] + (IF a.is_sandbox THEN 0 ELSE n) /\ n \in Nat
        BY <3>1, <1>0, <2>1, AmountPositive DEF Deposited
      <4> QED
        BY <3>1, <4>1, <2>2, <2>3 DEF Deposited, SameStanding
    <3>2. ASSUME NEW n \in Amounts, Withdrew(i, n) PROVE Holds(escrow'[i], b)
      <4>1. escrow'[i] >= escrow[i] - (IF ~a.is_sandbox THEN n ELSE 0) /\ n \in Nat
        BY <3>2, AmountPositive DEF Withdrew
      <4> QED
        BY <3>2, <4>1, <2>2, <2>3 DEF Withdrew, SameStanding
    <3>3. ASSUME ToppedUp(i) \/ Accrued(i) \/ WentLive(i) \/ Seized(i)
          PROVE  Holds(escrow'[i], b)
      BY <3>3, <2>2, <2>3 DEF ToppedUp, Accrued, WentLive, Seized, SameStanding
    <3>4. ASSUME Reassessed(i) \/ Disputed(i) \/ Closed(i)
          PROVE  Holds(escrow'[i], b)
      BY <3>4, <2>2 DEF Reassessed, Disputed, Closed, SameFunds, SameStanding
    <3> HIDE DEF Holds
    <3> QED
      BY <1>3, <3>1, <3>2, <3>3, <3>4
  <2>6. \A j \in Registered : j # i => Holds(escrow'[j], acct'[j])
    <3> SUFFICES ASSUME NEW j \in Registered, j # i PROVE Holds(escrow'[j], acct'[j])
      OBVIOUS
    <3>1. Holds(escrow[j], acct[j]) /\ acct'[j] = acct[j] /\ j \in Importers
      BY <2>1 DEF Backed, LiveBacked, TypeOK, Balance
    <3>2. /\ acct[j].collateral_balance \in Nat /\ acct[j].reserve_balance \in Nat
          /\ escrow[j] \in Int /\ escrow'[j] \in Int
      BY <3>1, <1>0, StoredWellFormed
    <3> QED
      BY <3>1, <3>2, <2>4
  <2>7. \A j \in Importers \ Registered : escrow'[j] >= 0
    BY <2>1, <2>4, <1>0 DEF Backed
  <2> QED
    BY <2>1, <2>5, <2>6, <2>7 DEF Backed, LiveBacked, Balance
<1> QED
  BY <1>1, <1>2, <1>3, StepKinds DEF Kinds

(* The contract's books are backed, importer by importer: what a live account *)
(* can still claim never exceeds the tokens that came in for it and have not  *)
(* left in its name.                                                          *)
THEOREM BooksAreBacked == Spec => []LiveBacked
<1>1. Init => Backed
  BY DEF Init, Backed, LiveBacked, Registered
<1>2. Backed => LiveBacked
  BY DEF Backed
<1> QED
  BY <1>1, <1>2, NextBacked, TypeCorrect, PTL DEF Spec

-----------------------------------------------------------------------------

(* A value is within the cap of itself: an unchanged requirement is legal. *)
LEMMA WithinCapReflexive == \A v \in Nat : WithinCap(v, v)
<1> SUFFICES ASSUME NEW v \in Nat PROVE v <= CAP * v
  BY DEF WithinCap
<1>1. CAP \in Nat /\ CAP - 1 \in Nat
  BY OracleAssumption
<1>2. (CAP - 1) * v \in Nat
  BY <1>1
<1>3. CAP * v = (CAP - 1) * v + v
  BY <1>1
<1> QED
  BY <1>1, <1>2, <1>3

(* A step that leaves the terms of every stored account alone. *)
LEMMA SameTermsInvariants ==
  ASSUME TypeOK, AuditTrail, DisputeOfLastUpdate, Registered' = Registered,
         now' \in Nat, now' >= now,
         \A j \in Registered : acct'[j] = acct[j] \/ SameTerms(acct[j], acct'[j])
  PROVE  AuditTrail' /\ DisputeOfLastUpdate'
<1>1. AuditTrail'
  BY SMTT(20) DEF AuditTrail, SameTerms
<1>2. \A j \in Registered : acct[j].collateral_last_updated \in Nat /\ now \in Nat
  BY DEF TypeOK, Account
<1>3. DisputeOfLastUpdate'
  BY <1>2 DEF DisputeOfLastUpdate, SameTerms
<1> QED
  BY <1>1, <1>3

(* One step keeps the history and the dispute window in line with the terms. *)
LEMMA NextAudit ==
  TypeOK /\ TypeOK' /\ AuditTrail /\ DisputeOfLastUpdate /\ [Next]_vars
    => AuditTrail' /\ DisputeOfLastUpdate'
<1> SUFFICES ASSUME TypeOK, TypeOK', AuditTrail, DisputeOfLastUpdate, [Next]_vars
             PROVE  AuditTrail' /\ DisputeOfLastUpdate'
  OBVIOUS
<1> DEFINE Trail(a) ==
             LET h == a.collateral_history
             IN /\ \A k \in 1..(Len(h) - 1) :
                     /\ h[k].timestamp <= h[k+1].timestamp
                     /\ WithinCap(h[k].value, h[k+1].value)
                /\ (h # << >>) <=> (a.oracle_last_updated > 0)
                /\ h # << >> =>
                     /\ h[Len(h)].timestamp = a.oracle_last_updated
                     /\ h[Len(h)].value = a.pre_dispute_required
                     /\ WithinCap(h[Len(h)].value, a.required_collateral)
           Window(a) ==
             /\ a.dispute_raised => a.dispute_expires_at # 0
             /\ a.dispute_expires_at # 0 =>
                  /\ a.oracle_last_updated > 0
                  /\ a.dispute_expires_at = a.oracle_last_updated + DISPUTE_WINDOW
             /\ a.oracle_last_updated <= a.collateral_last_updated
             /\ a.collateral_last_updated <= now
<1>0. now \in Nat /\ now > 0
  BY DEF TypeOK
<1>l. \A j \in Registered' : Len(acct'[j].collateral_history) <= HISTORY_LEN
  BY DEF TypeOK
<1>t. \A j \in Registered : Trail(acct[j]) /\ Window(acct[j])
  BY DEF AuditTrail, DisputeOfLastUpdate
<1>1. CASE UNCHANGED vars \/ Tick
  <2>1. Registered' = Registered /\ acct' = acct /\ now' \in Nat /\ now' >= now
    BY <1>0, <1>1 DEF vars, Tick, Registered
  <2> QED
    BY <2>1, SameTermsInvariants
<1>2. ASSUME NEW i \in Importers, Enrolled(i), now' = now
      PROVE  AuditTrail' /\ DisputeOfLastUpdate'
  <2>1. /\ Registered' = Registered \cup {i}
        /\ \A j \in Registered : acct'[j] = acct[j]
    BY <1>2 DEF Enrolled
  <2>2. Trail(acct'[i]) /\ Window(acct'[i])
    BY <1>0, <1>2 DEF Enrolled, NewAccount
  <2>3. \A j \in Registered' : Trail(acct'[j]) /\ Window(acct'[j])
    BY <2>1, <2>2, <1>t
  <2> HIDE DEF Trail, Window
  <2>4. AuditTrail'
    BY SMTT(20), <1>l, <2>3 DEF AuditTrail, Trail
  <2>5. DisputeOfLastUpdate'
    BY <2>3, <1>2 DEF DisputeOfLastUpdate, Window
  <2> QED
    BY <2>4, <2>5
<1>3. ASSUME NEW i \in Importers, OnlyChanges(i), now' = now,
             Trail(acct'[i]), Window(acct'[i])
      PROVE  AuditTrail' /\ DisputeOfLastUpdate'
  <2> HIDE DEF Trail, Window
  <2>1. \A j \in Registered' : Trail(acct'[j]) /\ Window(acct'[j])
    BY <1>3, <1>t DEF OnlyChanges
  <2>2. AuditTrail'
    BY SMTT(20), <1>l, <2>1 DEF AuditTrail, Trail
  <2>3. DisputeOfLastUpdate'
    BY <2>1, <1>3 DEF DisputeOfLastUpdate, Window
  <2> QED
    BY <2>2, <2>3
<1>4. ASSUME NEW i \in Importers, OnlyChanges(i), now' = now, SameTerms(acct[i], acct'[i])
      PROVE  AuditTrail' /\ DisputeOfLastUpdate'
  BY <1>0, <1>4, SameTermsInvariants DEF OnlyChanges
<1>5. ASSUME NEW i \in Importers, OnlyChanges(i), now' = now, Disputed(i)
      PROVE  Trail(acct'[i]) /\ Window(acct'[i])
  <2>1. acct[i] \in Account /\ i \in Registered
    BY <1>5, StoredWellFormed DEF OnlyChanges
  <2>2. LET a == acct[i]
            b == acct'[i]
        IN /\ b.required_collateral = a.required_collateral
           /\ b.pre_dispute_required = a.pre_dispute_required
           /\ b.dispute_expires_at = a.dispute_expires_at
           /\ b.collateral_history = a.collateral_history
           /\ b.oracle_last_updated = a.oracle_last_updated
           /\ b.collateral_last_updated = a.collateral_last_updated
           /\ a.dispute_expires_at # 0
    BY <1>5, <2>1 DEF Disputed, SameTerms, Account
  <2> QED
    BY <2>1, <2>2, <1>t
<1>6. ASSUME NEW i \in Importers, OnlyChanges(i), now' = now, Closed(i)
      PROVE  Trail(acct'[i]) /\ Window(acct'[i])
  <2>1. acct[i] \in Account /\ i \in Registered
    BY <1>6, StoredWellFormed DEF OnlyChanges
  <2>2. acct[i].pre_dispute_required \in Nat
    BY <2>1 DEF Account
  <2>3. Trail(acct[i]) /\ Window(acct[i])
    BY <2>1, <1>t
  <2> QED
    BY <2>2, <2>3, <1>6, WithinCapReflexive DEF Closed
<1>7. ASSUME NEW i \in Importers, OnlyChanges(i), now' = now, Reassessed(i)
      PROVE  Trail(acct'[i]) /\ Window(acct'[i])
  <2> DEFINE a == acct[i]
             b == acct'[i]
             h == a.collateral_history
             e == [value |-> a.required_collateral, timestamp |-> now]
             r == Record(h, e)
  <2>1. i \in Registered /\ a \in Account /\ WellFormed(a) /\ Trail(a) /\ Window(a)
    BY <1>7, <1>t, StoredWellFormed DEF OnlyChanges
  <2>2. /\ h \in Seq(HistoryEntry) /\ Len(h) <= HISTORY_LEN /\ e \in HistoryEntry
        /\ a.oracle_last_updated \in Nat /\ a.collateral_last_updated \in Nat
    BY <2>1, <1>0 DEF WellFormed, Account, HistoryEntry
  <2>3. /\ r \in Seq(HistoryEntry) /\ Len(r) > 0 /\ r[Len(r)] = e
        /\ \A k \in 1..(Len(r) - 1) :
             \/ \E j \in 1..(Len(h) - 1) : r[k] = h[j] /\ r[k+1] = h[j+1]
             \/ Len(h) > 0 /\ r[k] = h[Len(h)] /\ r[k+1] = e
    BY <2>2, RecordProperties
  <2>4. /\ b.collateral_history = r
        /\ WithinCap(a.required_collateral, b.required_collateral)
        /\ b.pre_dispute_required = a.required_collateral
        /\ b.dispute_expires_at = now + DISPUTE_WINDOW
        /\ ~b.dispute_raised
        /\ b.collateral_last_updated = now /\ b.oracle_last_updated = now
    BY <1>7 DEF Reassessed
  <2> HIDE DEF r
  <2>5. e.value = a.required_collateral /\ e.timestamp = now
    OBVIOUS
  <2>6. Len(h) > 0 =>
          h[Len(h)].timestamp <= e.timestamp /\ WithinCap(h[Len(h)].value, e.value)
    <3>1. Len(h) > 0 => h # << >>
      BY <2>2
    <3>2. a.oracle_last_updated <= now
      BY <2>1, <2>2, <1>0
    <3> QED
      BY <3>1, <3>2, <2>1, <2>5
  <2> HIDE DEF e
  <2>7. \A k \in 1..(Len(r) - 1) :
          r[k].timestamp <= r[k+1].timestamp /\ WithinCap(r[k].value, r[k+1].value)
    <3> SUFFICES ASSUME NEW k \in 1..(Len(r) - 1)
                 PROVE  r[k].timestamp <= r[k+1].timestamp
                        /\ WithinCap(r[k].value, r[k+1].value)
      OBVIOUS
    <3>1. CASE \E j \in 1..(Len(h) - 1) : r[k] = h[j] /\ r[k+1] = h[j+1]
      BY <3>1, <2>1
    <3>2. CASE Len(h) > 0 /\ r[k] = h[Len(h)] /\ r[k+1] = e
      BY <3>2, <2>6
    <3> QED
      BY <3>1, <3>2, <2>3
  <2>8. r # << >>
    BY <2>3
  <2>9. Trail(b)
    BY <2>3, <2>4, <2>5, <2>7, <2>8, <1>0
  <2>10. Window(b)
    BY <2>4, <1>0
  <2> QED
    BY <2>9, <2>10
<1>8. ASSUME NEW i \in Importers, Kinds(i)
      PROVE  AuditTrail' /\ DisputeOfLastUpdate'
  <2>1. CASE Enrolled(i)
    BY <1>2, <1>8, <2>1 DEF Kinds
  <2>2. ASSUME OnlyChanges(i), Reassessed(i) \/ Disputed(i) \/ Closed(i)
        PROVE  AuditTrail' /\ DisputeOfLastUpdate'
    <3>1. now' = now
      BY <1>8 DEF Kinds
    <3>2. Trail(acct'[i]) /\ Window(acct'[i])
      BY <2>2, <3>1, <1>5, <1>6, <1>7
    <3> HIDE DEF Trail, Window
    <3> QED
      BY <2>2, <3>1, <3>2, <1>3
  <2>3. ASSUME OnlyChanges(i),
               \/ \E n \in Amounts : Deposited(i, n) \/ Withdrew(i, n)
               \/ ToppedUp(i) \/ Accrued(i) \/ WentLive(i) \/ Seized(i)
        PROVE  AuditTrail' /\ DisputeOfLastUpdate'
    <3>1. SameTerms(acct[i], acct'[i]) /\ now' = now
      BY <1>8, <2>3 DEF Kinds, Deposited, Withdrew, ToppedUp, Accrued, WentLive, Seized
    <3> QED
      BY <2>3, <3>1, <1>4
  <2> QED
    BY <1>8, <2>1, <2>2, <2>3 DEF Kinds
<1> QED
  BY <1>1, <1>8, StepKinds

(* The strengthened invariant: neither half is inductive without the other. *)
LEMMA AuditInvariant == Spec => [](AuditTrail /\ DisputeOfLastUpdate)
<1>1. Init => AuditTrail /\ DisputeOfLastUpdate
  BY DEF Init, AuditTrail, DisputeOfLastUpdate, Registered
<1> QED
  BY <1>1, NextAudit, TypeCorrect, PTL DEF Spec

(* The on-chain history explains the requirement of today, for any length of *)
(* history and any mix of updates, disputes and reversals.                   *)
THEOREM HistoryExplainsRequirement == Spec => []AuditTrail
BY AuditInvariant, PTL

-----------------------------------------------------------------------------

(* The terms in force do not move when none of their parts does. *)
LEMMA SameTermsEffective ==
  ASSUME NEW a, NEW b, SameTerms(a, b)
  PROVE  EffectiveRequired(b) = EffectiveRequired(a)
BY DEF SameTerms, EffectiveRequired

(* A step by another importer's call leaves importer i's account alone. *)
LEMMA OthersUntouched ==
  ASSUME NEW j, Kinds(j), NEW i \in Registered
  PROVE  acct'[i] = acct[i] \/ (i = j /\ OnlyChanges(j))
BY DEF Kinds, Enrolled, OnlyChanges

(* A rewritten account is still made of naturals. *)
LEMMA RewrittenFields ==
  ASSUME NEW i, OnlyChanges(i)
  PROVE  /\ acct'[i].collateral_balance \in Nat
         /\ acct'[i].reserve_balance \in Nat
         /\ EffectiveRequired(acct'[i]) \in Nat
BY DEF OnlyChanges, Account, EffectiveRequired

-----------------------------------------------------------------------------

(* Each oracle update can be disputed at most once: a dispute takes the open  *)
(* window of the newest update, leaves it closed or ends in the next update,  *)
(* and nothing but an update opens a window again.                            *)
THEOREM UpdatesDisputedOnce == Spec => DisputedOnce
<1> DEFINE Once(a, b) ==
             /\ ~a.dispute_raised /\ b.dispute_raised =>
                  /\ now < a.dispute_expires_at
                  /\ b.dispute_expires_at = a.dispute_expires_at
             /\ a.dispute_raised /\ ~b.dispute_raised =>
                  b.dispute_expires_at = 0 \/ Replaces(a, b)
             /\ b.dispute_expires_at \notin {0, a.dispute_expires_at} => Replaces(a, b)
           P == \A i \in Registered : Once(acct[i], acct'[i])
<1>1. TypeOK /\ [Next]_vars => [P]_vars
  <2> SUFFICES ASSUME TypeOK, Next PROVE P
    BY DEF vars
  <2>1. ASSUME NEW i \in Registered, SameTerms(acct[i], acct'[i]) \/ acct'[i] = acct[i]
        PROVE  Once(acct[i], acct'[i])
    BY <2>1 DEF SameTerms
  <2>2. CASE Tick
    BY <2>1, <2>2 DEF Tick
  <2>3. ASSUME NEW i \in Registered, Kinds(i), OnlyChanges(i)
        PROVE  Once(acct[i], acct'[i])
    <3>1. CASE Reassessed(i)
      BY <3>1 DEF Reassessed, Replaces
    <3>2. CASE Disputed(i)
      <4>1. acct[i] \in Account
        BY StoredWellFormed
      <4> QED
        BY <3>2, <4>1 DEF Disputed, SameTerms, Account
    <3>3. CASE Closed(i)
      BY <3>3 DEF Closed
    <3>4. CASE \/ \E n \in Amounts : Deposited(i, n) \/ Withdrew(i, n)
               \/ ToppedUp(i) \/ Accrued(i) \/ WentLive(i) \/ Seized(i)
      BY <2>1, <3>4 DEF Deposited, Withdrew, ToppedUp, Accrued, WentLive, Seized
    <3> QED
      BY <2>3, <3>1, <3>2, <3>3, <3>4 DEF Kinds, Enrolled
  <2> HIDE DEF Once
  <2> QED
    BY <2>1, <2>2, <2>3, StepKinds, OthersUntouched
<1>2. [][P]_vars /\ []DisputeOfLastUpdate => DisputedOnce
  BY PTL DEF DisputedOnce
<1> QED
  BY <1>1, <1>2, TypeCorrect, AuditInvariant, PTL DEF Spec

(* Posted collateral only goes down to a level that covers the requirement in *)
(* force, or in a seizure, or when a trial ends (withdraw_collateral, during  *)
(* disputes and after any number of updates too).                             *)
THEOREM WithdrawalsStayCovered == Spec => NoUncoveredOutflow
<1> DEFINE P == \A i \in Registered :
                  acct'[i].collateral_balance < acct[i].collateral_balance =>
                    \/ acct'[i].collateral_balance >= EffectiveRequired(acct'[i])
                    \/ acct'[i].is_clawbacked
                    \/ acct[i].is_sandbox /\ ~acct'[i].is_sandbox
<1>1. TypeOK /\ [Next]_vars => [P]_vars
  <2> SUFFICES ASSUME TypeOK, Next PROVE P
    BY DEF vars
  <2>1. ASSUME NEW i \in Registered, acct'[i] = acct[i]
        PROVE  ~(acct'[i].collateral_balance < acct[i].collateral_balance)
    BY <2>1, StoredWellFormed
  <2>2. CASE Tick
    BY <2>1, <2>2 DEF Tick
  <2>3. ASSUME NEW i \in Registered, OnlyChanges(i), Kinds(i),
               acct'[i].collateral_balance < acct[i].collateral_balance
        PROVE  \/ acct'[i].collateral_balance >= EffectiveRequired(acct'[i])
               \/ acct'[i].is_clawbacked
               \/ acct[i].is_sandbox /\ ~acct'[i].is_sandbox
    <3>1. acct[i].collateral_balance \in Nat /\ acct'[i].collateral_balance \in Nat
      BY <2>3, StoredWellFormed, RewrittenFields
    <3>2. CASE \E n \in Amounts : Withdrew(i, n)
      BY <3>2, SameTermsEffective DEF Withdrew
    <3>3. CASE WentLive(i) \/ Seized(i)
      BY <3>3 DEF WentLive, Seized
    <3>4. CASE \/ \E n \in Amounts : Deposited(i, n)
               \/ ToppedUp(i) \/ Accrued(i) \/ Reassessed(i) \/ Disputed(i) \/ Closed(i)
      BY <3>1, <3>4, <2>3, AmountPositive
      DEF Deposited, ToppedUp, Accrued, Reassessed, Disputed, Closed, SameFunds
    <3> QED
      BY <2>3, <3>2, <3>3, <3>4 DEF Kinds, Enrolled
  <2> QED
    BY <2>1, <2>2, <2>3, StepKinds, OthersUntouched
<1>2. [][P]_vars => NoUncoveredOutflow
  BY PTL DEF NoUncoveredOutflow
<1> QED
  BY <1>1, <1>2, TypeCorrect, PTL DEF Spec

(* The reserve is spent on cover only, up to the requirement in force, and no *)
(* token moves when it is (auto_top_up, which anybody may call).              *)
THEOREM ReserveIsCover == Spec => ReserveOnlyCovers
<1> DEFINE P == \A i \in Registered :
                  acct'[i].reserve_balance < acct[i].reserve_balance =>
                    \/ /\ Balance(acct'[i]) = Balance(acct[i])
                       /\ acct'[i].collateral_balance <= EffectiveRequired(acct'[i])
                       /\ token' = token
                    \/ acct'[i].is_clawbacked
                    \/ acct[i].is_sandbox /\ ~acct'[i].is_sandbox
<1>1. TypeOK /\ [Next]_vars => [P]_vars
  <2> SUFFICES ASSUME TypeOK, Next PROVE P
    BY DEF vars
  <2>1. ASSUME NEW i \in Registered, acct'[i] = acct[i]
        PROVE  ~(acct'[i].reserve_balance < acct[i].reserve_balance)
    BY <2>1, StoredWellFormed
  <2>2. CASE Tick
    BY <2>1, <2>2 DEF Tick
  <2>3. ASSUME NEW i \in Registered, OnlyChanges(i), Kinds(i),
               acct'[i].reserve_balance < acct[i].reserve_balance
        PROVE  \/ /\ Balance(acct'[i]) = Balance(acct[i])
                  /\ acct'[i].collateral_balance <= EffectiveRequired(acct'[i])
                  /\ token' = token
               \/ acct'[i].is_clawbacked
               \/ acct[i].is_sandbox /\ ~acct'[i].is_sandbox
    <3>1. acct[i].reserve_balance \in Nat /\ acct'[i].reserve_balance \in Nat
      BY <2>3, StoredWellFormed, RewrittenFields
    <3>2. CASE ToppedUp(i)
      BY <3>2, SameTermsEffective DEF ToppedUp, Balance
    <3>3. CASE WentLive(i) \/ Seized(i)
      BY <3>3 DEF WentLive, Seized
    <3>4. CASE \/ \E n \in Amounts : Deposited(i, n) \/ Withdrew(i, n)
               \/ Accrued(i) \/ Reassessed(i) \/ Disputed(i) \/ Closed(i)
      BY <3>1, <3>4, <2>3, AmountPositive
      DEF Deposited, Withdrew, Accrued, Reassessed, Disputed, Closed, SameFunds
    <3> QED
      BY <2>3, <3>2, <3>3, <3>4 DEF Kinds, Enrolled
  <2> QED
    BY <2>1, <2>2, <2>3, StepKinds, OthersUntouched
<1>2. [][P]_vars => ReserveOnlyCovers
  BY PTL DEF ReserveOnlyCovers
<1> QED
  BY <1>1, <1>2, TypeCorrect, PTL DEF Spec

(* While a dispute is open neither the contested nor the enforced requirement *)
(* moves, and it ends by a resolution that leaves one of the two, or by a new *)
(* value of the oracle.                                                       *)
THEOREM OpenDisputeStands == Spec => DisputeStands
<1> DEFINE Stands(a, b) ==
             \/ /\ b.dispute_raised
                /\ b.required_collateral = a.required_collateral
                /\ b.pre_dispute_required = a.pre_dispute_required
             \/ /\ ~b.dispute_raised /\ b.dispute_expires_at = 0
                /\ b.required_collateral \in {a.required_collateral, a.pre_dispute_required}
                /\ b.collateral_history = a.collateral_history
             \/ /\ ~b.dispute_raised /\ b.oracle_last_updated = now
                /\ b.pre_dispute_required = a.required_collateral
           P == \A i \in Registered : acct[i].dispute_raised => Stands(acct[i], acct'[i])
<1>1. TypeOK /\ [Next]_vars => [P]_vars
  <2> SUFFICES ASSUME TypeOK, Next PROVE P
    BY DEF vars
  <2>1. ASSUME NEW i \in Registered, acct[i].dispute_raised, SameTerms(acct[i], acct'[i])
        PROVE  Stands(acct[i], acct'[i])
    BY <2>1 DEF SameTerms
  <2>2. ASSUME NEW i \in Registered, acct[i].dispute_raised, acct'[i] = acct[i]
        PROVE  Stands(acct[i], acct'[i])
    BY <2>2
  <2>3. CASE Tick
    BY <2>2, <2>3 DEF Tick
  <2>4. ASSUME NEW i \in Registered, acct[i].dispute_raised, Kinds(i), OnlyChanges(i)
        PROVE  Stands(acct[i], acct'[i])
    <3>1. CASE Reassessed(i) \/ Disputed(i) \/ Closed(i)
      BY <2>4, <3>1 DEF Reassessed, Disputed, Closed
    <3>2. CASE \/ \E n \in Amounts : Deposited(i, n) \/ Withdrew(i, n)
               \/ ToppedUp(i) \/ Accrued(i) \/ WentLive(i) \/ Seized(i)
      BY <2>1, <2>4, <3>2 DEF Deposited, Withdrew, ToppedUp, Accrued, WentLive, Seized
    <3> QED
      BY <2>4, <3>1, <3>2 DEF Kinds, Enrolled
  <2> HIDE DEF Stands
  <2> QED
    BY <2>2, <2>3, <2>4, StepKinds, OthersUntouched
<1>2. [][P]_vars => DisputeStands
  BY PTL DEF DisputeStands
<1> QED
  BY <1>1, <1>2, TypeCorrect, PTL DEF Spec

-----------------------------------------------------------------------------
(* The refinement. *)

(* The entries of the four views that a rewritten account changes. *)
LEMMA ViewsChange ==
  ASSUME TypeOK, NEW i \in Importers, OnlyChanges(i)
  PROVE  LET a == acct[i]
             b == acct'[i]
         IN /\ Standing' = [Standing EXCEPT ![i] = Standing'[i]]
            /\ Posted' = [Posted EXCEPT ![i] = b.collateral_balance]
            /\ Spare'  = [Spare EXCEPT ![i] = b.reserve_balance]
            /\ Floor'  = [Floor EXCEPT ![i] = EffectiveRequired(b)]
            /\ Standing[i] = (IF a.is_clawbacked THEN "seized"
                              ELSE IF a.is_sandbox THEN "trial" ELSE "live")
            /\ Standing'[i] = (IF b.is_clawbacked THEN "seized"
                               ELSE IF b.is_sandbox THEN "trial" ELSE "live")
            /\ Posted[i] = a.collateral_balance /\ Posted[i] \in Nat
            /\ Spare[i] = a.reserve_balance /\ Spare[i] \in Nat
            /\ Floor[i] = EffectiveRequired(a) /\ Floor[i] \in Nat
<1>1. /\ i \in Registered /\ Registered' = Registered
      /\ \A j \in Registered : j # i => acct'[j] = acct[j]
  BY DEF OnlyChanges
<1>2. /\ acct[i].collateral_balance \in Nat
      /\ acct[i].reserve_balance \in Nat
      /\ EffectiveRequired(acct[i]) \in Nat
  BY <1>1, StoredWellFormed
<1>3. Standing' = [Standing EXCEPT ![i] = Standing'[i]]
  BY <1>1 DEF Standing
<1>4. Posted' = [Posted EXCEPT ![i] = acct'[i].collateral_balance]
  BY <1>1 DEF Posted
<1>5. Spare' = [Spare EXCEPT ![i] = acct'[i].reserve_balance]
  BY <1>1 DEF Spare
<1>6. Floor' = [Floor EXCEPT ![i] = EffectiveRequired(acct'[i])]
  BY <1>1 DEF Floor, EffectiveRequired
<1>7. /\ Posted[i] = acct[i].collateral_balance
      /\ Spare[i] = acct[i].reserve_balance
      /\ Floor[i] = EffectiveRequired(acct[i])
  BY <1>1 DEF Posted, Spare, Floor
<1>8. /\ Standing[i] = (IF acct[i].is_clawbacked THEN "seized"
                        ELSE IF acct[i].is_sandbox THEN "trial" ELSE "live")
      /\ Standing'[i] = (IF acct'[i].is_clawbacked THEN "seized"
                         ELSE IF acct'[i].is_sandbox THEN "trial" ELSE "live")
  BY <1>1 DEF Standing
<1> QED
  BY <1>2, <1>3, <1>4, <1>5, <1>6, <1>7, <1>8

(* Every call on a registered account is a step of the custody promise or     *)
(* leaves all of it alone.                                                    *)
LEMMA CallRefines ==
  ASSUME TypeOK, NEW i \in Importers, OnlyChanges(i), Kinds(i)
  PROVE  Custody!Next \/ UNCHANGED <<Standing, Posted, Spare, Floor>>
<1> DEFINE a == acct[i]
           b == acct'[i]
           St(x) == IF x.is_clawbacked THEN "seized"
                    ELSE IF x.is_sandbox THEN "trial" ELSE "live"
<1>1. /\ Standing' = [Standing EXCEPT ![i] = Standing'[i]]
      /\ Posted' = [Posted EXCEPT ![i] = b.collateral_balance]
      /\ Spare'  = [Spare EXCEPT ![i] = b.reserve_balance]
      /\ Floor'  = [Floor EXCEPT ![i] = EffectiveRequired(b)]
      /\ Standing[i] = St(a) /\ Standing'[i] = St(b)
      /\ Posted[i] = a.collateral_balance /\ Posted[i] \in Nat
      /\ Spare[i] = a.reserve_balance /\ Spare[i] \in Nat
      /\ Floor[i] = EffectiveRequired(a) /\ Floor[i] \in Nat
  BY ViewsChange
<1>2. /\ b.collateral_balance \in Nat
      /\ b.reserve_balance \in Nat
      /\ EffectiveRequired(b) \in Nat
  BY RewrittenFields
<1>3. /\ Posted = [j \in Importers |-> Posted[j]]
      /\ Spare = [j \in Importers |-> Spare[j]]
      /\ Floor = [j \in Importers |-> Floor[j]]
      /\ Standing = [j \in Importers |-> Standing[j]]
  BY DEF Posted, Spare, Floor, Standing
<1>4. /\ St(b) = St(a) => Standing' = Standing
      /\ b.collateral_balance = a.collateral_balance => Posted' = Posted
      /\ b.reserve_balance = a.reserve_balance => Spare' = Spare
      /\ EffectiveRequired(b) = EffectiveRequired(a) => Floor' = Floor
      /\ Posted'[i] = b.collateral_balance
      /\ Spare'[i] = b.reserve_balance
      /\ Floor'[i] = EffectiveRequired(b)
  BY <1>1, <1>3
<1>4a. /\ Custody!Changes(Posted, Posted', i)
      /\ Custody!Changes(Spare, Spare', i)
      /\ Custody!Changes(Floor, Floor', i)
  BY <1>1, <1>2, <1>4 DEF Custody!Changes
<1>5. ASSUME NEW n \in Amounts, Deposited(i, n) PROVE Custody!Post(i) \/ Custody!Save(i)
  <2>1. n \in Nat /\ n > 0
    BY AmountPositive
  <2>2. St(b) = St(a) /\ EffectiveRequired(b) = EffectiveRequired(a) /\ St(a) # "seized"
    BY <1>5, SameTermsEffective DEF Deposited, SameStanding
  <2>3. Custody!Serving(i)
    BY <1>1, <2>2 DEF Custody!Serving
  <2>4. CASE b.collateral_balance = a.collateral_balance + n
             /\ b.reserve_balance = a.reserve_balance
    <3>1. Posted'[i] > Posted[i]
      BY <1>1, <1>4, <2>1, <2>4
    <3>2. UNCHANGED <<Standing, Spare, Floor>>
      BY <1>4, <2>2, <2>4
    <3> QED
      BY <1>4a, <2>3, <3>1, <3>2 DEF Custody!Post
  <2>5. CASE b.collateral_balance = a.collateral_balance
             /\ b.reserve_balance = a.reserve_balance + n
    <3>1. Spare'[i] > Spare[i]
      BY <1>1, <1>4, <2>1, <2>5
    <3>2. UNCHANGED <<Standing, Posted, Floor>>
      BY <1>4, <2>2, <2>5
    <3> QED
      BY <1>4a, <2>3, <3>1, <3>2 DEF Custody!Save
  <2> QED
    BY <1>5, <2>4, <2>5 DEF Deposited
<1>6. ASSUME NEW n \in Amounts, Withdrew(i, n) PROVE Custody!Release(i)
  <2>1. n \in Nat /\ n > 0
    BY AmountPositive
  <2>2. St(b) = St(a) /\ EffectiveRequired(b) = EffectiveRequired(a) /\ St(a) # "seized"
    BY <1>6, SameTermsEffective DEF Withdrew, SameStanding
  <2>3. Custody!Serving(i)
    BY <1>1, <2>2 DEF Custody!Serving
  <2>4. /\ b.collateral_balance = a.collateral_balance - n
        /\ b.collateral_balance >= EffectiveRequired(a)
        /\ b.reserve_balance = a.reserve_balance
    BY <1>6 DEF Withdrew
  <2>5. Posted'[i] < Posted[i] /\ Posted'[i] >= Floor[i]
    BY <1>1, <1>4, <2>1, <2>4
  <2>6. UNCHANGED <<Standing, Spare, Floor>>
    BY <1>4, <2>2, <2>4
  <2> QED
    BY <1>4a, <2>3, <2>5, <2>6 DEF Custody!Release
<1>7. ASSUME ToppedUp(i) PROVE Custody!Cover(i)
  <2>1. St(b) = St(a) /\ EffectiveRequired(b) = EffectiveRequired(a) /\ St(a) # "seized"
    BY <1>7, SameTermsEffective DEF ToppedUp, SameStanding
  <2>2. Custody!Serving(i)
    BY <1>1, <2>1 DEF Custody!Serving
  <2>3. /\ b.collateral_balance > a.collateral_balance
        /\ b.collateral_balance <= EffectiveRequired(a)
        /\ b.collateral_balance + b.reserve_balance = a.collateral_balance + a.reserve_balance
    BY <1>7 DEF ToppedUp
  <2> QED
    BY <1>1, <1>4, <1>4a, <2>1, <2>2, <2>3 DEF Custody!Cover
<1>8. ASSUME WentLive(i) PROVE Custody!GoLive(i) \/ Custody!Seize(i)
  <2>1. EffectiveRequired(b) = EffectiveRequired(a)
    BY <1>8, SameTermsEffective DEF WentLive
  <2>2. Custody!Empty(i)
    BY <1>1, <1>4, <1>8, <2>1 DEF WentLive, Custody!Empty
  <2>3. CASE a.is_clawbacked
    BY <1>1, <1>8, <2>2, <2>3 DEF WentLive, Custody!Seize
  <2>4. CASE ~a.is_clawbacked
    BY <1>1, <1>8, <2>2, <2>4 DEF WentLive, Custody!GoLive
  <2> QED
    BY <2>3, <2>4
<1>9. ASSUME Seized(i) PROVE Custody!Seize(i)
  <2>1. EffectiveRequired(b) = EffectiveRequired(a) /\ St(b) = "seized"
    BY <1>9, SameTermsEffective DEF Seized
  <2>2. Custody!Empty(i)
    BY <1>1, <1>4, <1>9, <2>1 DEF Seized, Custody!Empty
  <2>3. Standing[i] # "absent"
    BY <1>1
  <2> QED
    BY <1>1, <2>1, <2>2, <2>3 DEF Custody!Seize
<1>10. ASSUME Reassessed(i) \/ Disputed(i) \/ Closed(i) PROVE Custody!Reassess(i)
  <2>1. SameFunds(a, b)
    BY <1>10 DEF Reassessed, Disputed, Closed
  <2>2. Standing' = Standing /\ Posted' = Posted /\ Spare' = Spare
    BY <1>4, <2>1 DEF SameFunds, SameStanding
  <2>3. Standing[i] # "absent"
    BY <1>1
  <2> QED
    BY <1>4a, <2>2, <2>3 DEF Custody!Reassess
<1>11. ASSUME Accrued(i) PROVE UNCHANGED <<Standing, Posted, Spare, Floor>>
  BY <1>4, <1>11, SameTermsEffective DEF Accrued
<1> HIDE DEF St, a, b
<1>12. \/ \E n \in Amounts : Deposited(i, n) \/ Withdrew(i, n)
       \/ ToppedUp(i) \/ Accrued(i) \/ WentLive(i) \/ Seized(i)
       \/ Reassessed(i) \/ Disputed(i) \/ Closed(i)
  BY DEF Kinds, Enrolled, OnlyChanges
<1> QED
  BY <1>5, <1>6, <1>7, <1>8, <1>9, <1>10, <1>11, <1>12 DEF Custody!Next

(* A registration opens the account, live or in trial, with nothing in it. *)
LEMMA EnrolmentRefines ==
  ASSUME TypeOK, NEW i \in Importers, Enrolled(i)
  PROVE  Custody!Open(i)
<1>1. PICK r \in Requirements, s \in SandboxFlags : acct'[i] = NewAccount(r, s)
  BY DEF Enrolled
<1>2. r \in Nat /\ s \in BOOLEAN
  BY AmountAssumption, OracleAssumption
<1>3. /\ i \notin Registered /\ Registered' = Registered \cup {i}
      /\ \A j \in Registered : acct'[j] = acct[j]
  BY DEF Enrolled
<1>4. /\ acct'[i].collateral_balance = 0 /\ acct'[i].reserve_balance = 0
      /\ EffectiveRequired(acct'[i]) = r
      /\ ~acct'[i].is_clawbacked /\ acct'[i].is_sandbox = s
  BY <1>1 DEF NewAccount, EffectiveRequired
<1>5. Posted' = Posted /\ Spare' = Spare
  BY <1>3, <1>4 DEF Posted, Spare
<1>6. Floor' = [Floor EXCEPT ![i] = r] /\ Floor'[i] = r
  BY <1>3, <1>4 DEF Floor, EffectiveRequired
<1>7. /\ Standing[i] = "absent"
      /\ Standing' = [Standing EXCEPT ![i] = IF s THEN "trial" ELSE "live"]
  BY <1>3, <1>4 DEF Standing
<1>8. \E t \in {"trial", "live"} : Standing' = [Standing EXCEPT ![i] = t]
  BY <1>7
<1> QED
  BY <1>2, <1>5, <1>6, <1>7, <1>8 DEF Custody!Open, Custody!Changes

(* The escrow contract implements the custody promise: whatever the amounts,  *)
(* rates, times and order of calls, an importer's money moves only as module  *)
(* SuretyEscrow says.                                                         *)
THEOREM CustodyImplemented == Spec => ImplementsCustody
<1>1. Init => Custody!Init
  BY DEF Init, Custody!Init, Standing, Posted, Spare, Floor, Registered
<1>2. TypeOK /\ [Next]_vars => [Custody!Next]_(Custody!vars)
  <2> SUFFICES ASSUME TypeOK, [Next]_vars
               PROVE  Custody!Next \/ UNCHANGED <<Standing, Posted, Spare, Floor>>
    BY DEF Custody!vars
  <2>1. CASE UNCHANGED vars \/ Tick
    BY <2>1 DEF vars, Tick, Standing, Posted, Spare, Floor, Registered, EffectiveRequired
  <2>2. ASSUME NEW i \in Importers, Kinds(i)
        PROVE  Custody!Next \/ UNCHANGED <<Standing, Posted, Spare, Floor>>
    <3>1. CASE Enrolled(i)
      BY <3>1, EnrolmentRefines DEF Custody!Next
    <3>2. CASE OnlyChanges(i)
      BY <2>2, <3>2, CallRefines
    <3> QED
      BY <2>2, <3>1, <3>2 DEF Kinds
  <2> QED
    BY <2>1, <2>2, StepKinds
<1> QED
  BY <1>1, <1>2, TypeCorrect, PTL DEF Spec, ImplementsCustody, Custody!Spec

-----------------------------------------------------------------------------

(* A step moves no tokens of the contract, or as many as it books to one *)
(* importer who is registered.                                           *)
BooksMove ==
  \/ /\ escrow' = escrow /\ token'[Contract] = token[Contract]
     /\ \/ Registered' = Registered
        \/ \E i \in Importers \ Registered : Registered' = Registered \cup {i}
  \/ /\ Registered' = Registered
     /\ \E i \in Registered, d \in Int :
          /\ escrow' = [escrow EXCEPT ![i] = @ + d]
          /\ token'[Contract] = token[Contract] + d

LEMMA TransferMoves ==
  ASSUME token \in [Holders -> Nat], NEW from \in Holders, NEW to \in Holders,
         NEW n \in Nat, Transfer(from, to, n)
  PROVE  token'[Contract] = token[Contract] - (IF from = Contract THEN n ELSE 0)
                                            + (IF to = Contract THEN n ELSE 0)
BY DEF Transfer, Holders

LEMMA SaveKeepsRegistered ==
  ASSUME TypeOK, NEW i \in Registered, NEW a, SaveAccount(i, a)
  PROVE  Registered' = Registered
BY DEF TypeOK, SaveAccount, Registered

LEMMA FundsMove ==
  ASSUME TypeOK, NEW i \in Importers, Funds(i)
  PROVE  BooksMove
<1>1. PICK n \in Amounts :
        \/ \E from \in Payers : DepositCollateral(i, from, n) \/ DepositReserve(i, from, n)
        \/ \E to \in Holders : WithdrawCollateral(i, to, n)
        \/ AccrueYield(i, n)
  BY DEF Funds
<1>2. n \in Nat /\ Contract \in Holders
  BY AmountPositive DEF Holders
<1>3. token \in [Holders -> Nat] /\ escrow \in [Importers -> Int] /\ Registered \subseteq Importers
  BY DEF TypeOK
<1>4. ASSUME NEW from \in Payers, DepositCollateral(i, from, n) \/ DepositReserve(i, from, n)
      PROVE  BooksMove
  <2>1. ReceiveDeposit(i, from, n) /\ i \in Registered /\ Registered' = Registered
    BY <1>4, SaveKeepsRegistered DEF DepositCollateral, DepositReserve, ReceiveDeposit, Active
  <2>2. from \in Holders /\ from # Contract
    BY AddressAssumption DEF Payers, Holders
  <2>3. CASE acct[i].is_sandbox
    BY <2>1, <2>3 DEF ReceiveDeposit, BooksMove
  <2>4. CASE ~acct[i].is_sandbox
    <3>1. /\ Transfer(from, Contract, n)
          /\ escrow' = [escrow EXCEPT ![i] = @ + n]
      BY <2>1, <2>4 DEF ReceiveDeposit
    <3>2. token'[Contract] = token[Contract] + n
      BY <3>1, <1>2, <1>3, <2>2, TransferMoves
    <3>3. \E d \in Int : /\ escrow' = [escrow EXCEPT ![i] = @ + d]
                         /\ token'[Contract] = token[Contract] + d
      <4>1. n \in Int
        BY <1>2
      <4> QED
        BY <3>1, <3>2, <4>1
    <3> QED
      BY <3>3, <2>1 DEF BooksMove
  <2> QED
    BY <2>3, <2>4
<1>5. ASSUME NEW to \in Holders, WithdrawCollateral(i, to, n)
      PROVE  BooksMove
  <2>1. i \in Registered /\ Registered' = Registered
    BY <1>5, SaveKeepsRegistered DEF WithdrawCollateral, Active
  <2>2. CASE acct[i].is_sandbox
    BY <1>5, <2>1, <2>2 DEF WithdrawCollateral, BooksMove
  <2>3. CASE ~acct[i].is_sandbox
    <3> DEFINE d == IF to = Contract THEN 0 ELSE -n
    <3>1. /\ Transfer(Contract, to, n)
          /\ escrow' = [escrow EXCEPT ![i] = @ - (IF to = Contract THEN 0 ELSE n)]
      BY <1>5, <2>3 DEF WithdrawCollateral
    <3>2. d \in Int /\ token'[Contract] = token[Contract] + d
      BY <3>1, <1>2, <1>3, TransferMoves
    <3>3. escrow[i] - (IF to = Contract THEN 0 ELSE n) = escrow[i] + d
      BY <1>2, <1>3
    <3>4. escrow' = [escrow EXCEPT ![i] = @ + d]
      BY <3>1, <3>3
    <3> QED
      BY <2>1, <3>2, <3>4 DEF BooksMove
  <2> QED
    BY <2>2, <2>3
<1>6. CASE AccrueYield(i, n)
  BY <1>6, SaveKeepsRegistered DEF AccrueYield, Active, BooksMove
<1> QED
  BY <1>1, <1>4, <1>5, <1>6

LEMMA ClawbackMoves ==
  ASSUME TypeOK, NEW i \in Importers, Clawback(i)
  PROVE  BooksMove
<1> DEFINE n == Balance(acct[i])
<1>1. i \in Registered /\ n \in Nat
  BY StoredWellFormed DEF Clawback, Balance
<1>2. Registered' = Registered
  BY <1>1, SaveKeepsRegistered DEF Clawback
<1>3. token \in [Holders -> Nat] /\ escrow \in [Importers -> Int] /\ Contract \in Holders
  BY DEF TypeOK, Holders
<1>4. CASE UNCHANGED <<token, escrow>>
  BY <1>2, <1>4 DEF BooksMove
<1>5. CASE /\ Transfer(Contract, Surety, n)
           /\ escrow' = [escrow EXCEPT ![i] = @ - n]
  <2>1. Surety \in Holders /\ Surety # Contract
    BY AddressAssumption DEF Holders, Payers
  <2> HIDE DEF n
  <2>2. token'[Contract] = token[Contract] + (-n) /\ -n \in Int
    BY <1>1, <1>3, <1>5, <2>1, TransferMoves
  <2>3. escrow' = [escrow EXCEPT ![i] = @ + (-n)]
    <3>1. escrow[i] - n = escrow[i] + (-n)
      BY <1>1, <1>3
    <3> QED
      BY <1>5, <3>1
  <2> QED
    BY <1>1, <1>2, <2>2, <2>3 DEF BooksMove
<1> QED
  BY <1>4, <1>5 DEF Clawback

LEMMA StepMoves ==
  ASSUME TypeOK, Next
  PROVE  BooksMove
<1>1. CASE Tick
  BY <1>1 DEF Tick, BooksMove, Registered
<1>2. ASSUME NEW i \in Importers, Administration(i) PROVE BooksMove
  <2>1. ASSUME NEW r \in Requirements, NEW s \in SandboxFlags, Register(i, r, s)
        PROVE  BooksMove
    BY <2>1 DEF Register, BooksMove, Registered
  <2>2. CASE ConvertSandboxToLive(i)
    BY <2>2, SaveKeepsRegistered DEF ConvertSandboxToLive, BooksMove
  <2>3. CASE AutoTopUp(i)
    BY <2>3, SaveKeepsRegistered DEF AutoTopUp, Active, BooksMove
  <2> QED
    BY <1>2, <2>1, <2>2, <2>3, ClawbackMoves DEF Administration
<1>3. ASSUME NEW i \in Importers, Oracle(i) PROVE BooksMove
  BY <1>3, SaveKeepsRegistered DEF Oracle, SetRequiredCollateral, BooksMove
<1>4. ASSUME NEW i \in Importers, Dispute(i) PROVE BooksMove
  BY <1>4, SaveKeepsRegistered DEF Dispute, RaiseDispute, ResolveDispute, Active, BooksMove
<1> QED
  BY <1>1, <1>2, <1>3, <1>4, FundsMove DEF Next

(* The contract's tokens are the sum of the importers' books.  An importer who *)
(* is not registered yet has none, so that registering him changes nothing.    *)
Booked ==
  /\ IsFiniteSet(Registered)
  /\ \A i \in Importers \ Registered : escrow[i] = 0
  /\ token[Contract] = SumFunctionOnSet(escrow, Registered)

LEMMA InitBooked == Init => Booked
<1> SUFFICES ASSUME Init PROVE Booked
  OBVIOUS
<1>1. Registered = {} /\ token[Contract] = 0 /\ \A i \in Importers : escrow[i] = 0
  BY AddressAssumption DEF Init, Registered, Holders
<1>2. SumFunctionOnSet(escrow, {}) = 0
  BY SumOfNone
<1> QED
  BY <1>1, <1>2, FS_EmptySet DEF Booked

LEMMA NextBooked == TypeOK /\ TypeOK' /\ Booked /\ [Next]_vars => Booked'
<1> SUFFICES ASSUME TypeOK, TypeOK', Booked, [Next]_vars PROVE Booked'
  OBVIOUS
<1>1. /\ Registered \subseteq Importers /\ IsFiniteSet(Registered)
      /\ \A i \in Importers : escrow[i] \in Int /\ escrow'[i] \in Int
      /\ escrow \in [Importers -> Int]
  BY DEF TypeOK, Booked
<1>2. CASE UNCHANGED vars
  BY <1>2 DEF vars, Booked, Registered
<1>3. CASE /\ escrow' = escrow /\ token'[Contract] = token[Contract]
           /\ Registered' = Registered
  BY <1>3 DEF Booked
<1>4. ASSUME escrow' = escrow, token'[Contract] = token[Contract],
             NEW i \in Importers \ Registered, Registered' = Registered \cup {i}
      PROVE  Booked'
  <2>1. escrow[i] = 0 /\ token[Contract] = SumFunctionOnSet(escrow, Registered)
    BY DEF Booked
  <2>2. /\ SumFunctionOnSet(escrow, Registered) \in Int
        /\ SumFunctionOnSet(escrow, Registered \cup {i})
             = SumFunctionOnSet(escrow, Registered) + escrow[i]
    <3>1. \A x \in Registered \cup {i} : escrow[x] \in Int
      BY <1>1
    <3> QED
      BY <1>1, <3>1, SumOfOneMore
  <2>3. token'[Contract] = SumFunctionOnSet(escrow', Registered')
    BY <1>4, <2>1, <2>2
  <2>4. IsFiniteSet(Registered') /\ \A j \in Importers \ Registered' : escrow'[j] = 0
    BY <1>1, <1>4, FS_AddElement DEF Booked
  <2> QED
    BY <2>3, <2>4 DEF Booked
<1>5. ASSUME Registered' = Registered, NEW i \in Registered, NEW d \in Int,
             escrow' = [escrow EXCEPT ![i] = @ + d], token'[Contract] = token[Contract] + d
      PROVE  Booked'
  <2>1. /\ escrow'[i] - escrow[i] = d
        /\ \A j \in Importers \ {i} : escrow'[j] = escrow[j]
    BY <1>1, <1>5
  <2>2. SumFunctionOnSet(escrow', Registered)
          = SumFunctionOnSet(escrow, Registered) + (escrow'[i] - escrow[i])
    <3>1. /\ \A x \in Registered : escrow[x] \in Int /\ escrow'[x] \in Int
          /\ \A x \in Registered \ {i} : escrow'[x] = escrow[x]
      BY <1>1, <2>1
    <3> QED
      BY <1>1, <3>1, SumOfChange
  <2>3. token'[Contract] = SumFunctionOnSet(escrow', Registered')
    BY <1>5, <2>1, <2>2 DEF Booked
  <2>4. IsFiniteSet(Registered') /\ \A j \in Importers \ Registered' : escrow'[j] = 0
    BY <1>1, <1>5, <2>1 DEF Booked
  <2> QED
    BY <2>3, <2>4 DEF Booked
<1> QED
  BY <1>2, <1>3, <1>4, <1>5, StepMoves DEF BooksMove

LEMMA BooksAddUp == Spec => []Booked
BY InitBooked, NextBooked, TypeCorrect, PTL DEF Spec

(* A state in which each account is backed and none has cost the contract a *)
(* token is one in which all of them are covered at once.                   *)
LEMMA BackedIsSolvent ==
  TypeOK /\ LiveBacked /\ FrozenIsEmpty /\ Booked => SolventUnlessSandboxSeized
<1> SUFFICES ASSUME TypeOK, LiveBacked, FrozenIsEmpty, Booked,
                    \A i \in Importers : escrow[i] >= 0
             PROVE  Solvency
  BY DEF SolventUnlessSandboxSeized
<1>1. /\ LiveImporters \in SUBSET Registered /\ Registered \subseteq Importers
      /\ escrow \in [Importers -> Int]
  BY DEF LiveImporters, TypeOK
<1>2. ASSUME NEW i \in LiveImporters
      PROVE  Recorded[i] \in Int /\ Recorded[i] <= escrow[i]
  <2>1. /\ i \in Registered /\ ~acct[i].is_sandbox /\ Recorded[i] = Balance(acct[i])
        /\ Balance(acct[i]) \in Nat /\ escrow[i] >= 0
    BY <1>1, StoredWellFormed DEF LiveImporters, Recorded, Balance
  <2>2. CASE acct[i].is_clawbacked
    BY <2>1, <2>2 DEF FrozenIsEmpty
  <2>3. CASE ~acct[i].is_clawbacked
    BY <2>1, <2>3 DEF LiveBacked
  <2> QED
    BY <2>1, <2>2, <2>3
<1>3. SumFunctionOnSet(Recorded, LiveImporters) <= SumFunctionOnSet(escrow, Registered)
  <2>1. IsFiniteSet(Registered) /\ \A i \in Registered : escrow[i] \in Int /\ escrow[i] >= 0
    BY <1>1 DEF Booked
  <2> QED
    BY <1>1, <1>2, <2>1, SumBound
<1>4. Liabilities = SumFunctionOnSet(Recorded, LiveImporters)
  BY DEF Liabilities, SumFunction, Recorded
<1> QED
  BY <1>3, <1>4 DEF Solvency, Booked

(* The contract can pay out all live balances at once, whatever the order of  *)
(* deposits, withdrawals, top-ups, conversions and seizures of any number of  *)
(* importers, until the seizure of a trial account has cost it tokens.        *)
THEOREM SolventTogether == Spec => []SolventUnlessSandboxSeized
BY BackedIsSolvent, BooksAddUp, BooksAreBacked, SeizedStaysEmpty, TypeCorrect, PTL

=============================================================================
