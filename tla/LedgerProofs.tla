---------------------------- MODULE LedgerProofs ----------------------------
(***************************************************************************)
(* The credit lines and their monitor, the reconciliation of uploads with  *)
(* the contract, and both beside the queue: modules CreditLines,           *)
(* Requirements and MCTxPipeline for any runs, lines and uploads.          *)
(***************************************************************************)
EXTENDS MCTxPipeline, PipelineProofs

(* Who still has to write entry e of line l: the route, or run m; Cut says *)
(* that one of them broke off before.                                      *)
RouteOwes(l, e) == e \in credit_lines[l].owed

RunOwes(m, l, e) ==
  \/ /\ l \in monitor[m].todo
     /\ \/ monitor[m].at = "warn" /\ e = "notice_expiring"
        \/ monitor[m].at \in {"expire", "audit"} /\ e \in {"notice_expired", "audit_expired"}
  \/ l \in monitor[m].row /\ monitor[m].at = "audit" /\ e = "audit_expired"

Cut(l, e) == <<l, e>> \in unwritten

(* Each entry that is called for is in exactly one place: written, or still  *)
(* owed by the route or by one run of the monitor, or broken off before; one *)
(* that is not called for is in none.                                        *)
OnePlace(l, e) ==
  /\ \/ /\ written[l][e] = 0
        /\ ~Called(l, e) /\ ~RouteOwes(l, e) /\ ~Cut(l, e)
        /\ \A m \in Monitors : ~RunOwes(m, l, e)
     \/ /\ written[l][e] = 1
        /\ Called(l, e) /\ ~RouteOwes(l, e) /\ ~Cut(l, e)
        /\ \A m \in Monitors : ~RunOwes(m, l, e)
     \/ /\ written[l][e] = 0
        /\ Called(l, e) /\ RouteOwes(l, e) /\ ~Cut(l, e)
        /\ \A m \in Monitors : ~RunOwes(m, l, e)
     \/ /\ written[l][e] = 0
        /\ Called(l, e) /\ ~RouteOwes(l, e) /\ Cut(l, e)
        /\ \A m \in Monitors : ~RunOwes(m, l, e)
     \/ /\ written[l][e] = 0
        /\ Called(l, e) /\ ~RouteOwes(l, e) /\ ~Cut(l, e)
        /\ \E m \in Monitors : RunOwes(m, l, e)
  /\ \A m, n \in Monitors : RunOwes(m, l, e) /\ RunOwes(n, l, e) => m = n

(* The notice of a grant waits for its audit row, ... *)
GrantInOrder ==
  \A l \in Lines :
    /\ "audit_granted" \in credit_lines[l].owed => "notice_granted" \in credit_lines[l].owed
    /\ credit_lines[l].status = "none" => ~credit_lines[l].notified_expiring

(* ... and a run has one line in hand between an expiry's two entries. *)
RowInHand ==
  \A m \in Monitors : monitor[m].at = "audit" =>
    \E l \in Lines \ monitor[m].todo : monitor[m].row = {l}

(* What a health check excludes has ended, and what it counts had not. *)
ChecksTrue ==
  \A k \in Checks : check[k].at # "none" =>
    /\ check[k].over \subseteq Over
    /\ \A lines \in check[k].lines : lines \subseteq Lines \ check[k].over

CreditInv ==
  /\ CreditTypeOK /\ GrantInOrder /\ RowInHand /\ ChecksTrue
  /\ \A l \in Lines, e \in Entries : OnePlace(l, e)

-----------------------------------------------------------------------------

LEMMA CreditInitially == CreditInit => CreditInv
<1> SUFFICES ASSUME CreditInit PROVE CreditInv
  OBVIOUS
<1>1. CreditTypeOK
  BY CreditLinesAssumption DEF CreditInit, CreditTypeOK, Line, Monitor, Check
<1>2. GrantInOrder /\ RowInHand /\ ChecksTrue
  BY DEF CreditInit, GrantInOrder, RowInHand, ChecksTrue
<1>3. \A m \in Monitors, l \in Lines, e \in Entries : ~RunOwes(m, l, e)
  BY DEF CreditInit, RunOwes
<1>4. \A l \in Lines, e \in Entries : ~Called(l, e)
  BY DEF CreditInit, Called
<1>5. ASSUME NEW l \in Lines, NEW e \in Entries PROVE OnePlace(l, e)
  BY <1>3, <1>4 DEF CreditInit, OnePlace, RouteOwes, Cut
<1> QED
  BY <1>1, <1>2, <1>5 DEF CreditInv

LEMMA RoutesTyped ==
  ASSUME CreditTypeOK, NEW l \in Lines,
         \/ Grant(l) \/ Revoke(l)
         \/ \E e \in Entries : RouteWrites(l, e) \/ RouteBreaks(l, e)
  PROVE  CreditTypeOK'
<1>0. credit_lines[l] \in Line
  BY DEF CreditTypeOK
<1>1. CASE Grant(l)
  <2>1. PICK amount \in Amounts, duration \in Durations :
          credit_lines' = [credit_lines EXCEPT ![l] =
         [status |-> "active", amount |-> amount, expires_at |-> now + duration,
          notified_expiring |-> FALSE, owed |-> {"audit_granted", "notice_granted"}]]
    BY <1>1 DEF Grant
  <2>2. now + duration \in Nat
    BY CreditLinesAssumption DEF CreditTypeOK
  <2>3. credit_lines' \in [Lines -> Line]
    BY <2>1, <2>2 DEF CreditTypeOK, Line, Entries
  <2> QED
    BY <2>3, <1>1 DEF Grant, CreditTypeOK
<1>2. CASE Revoke(l)
  <2>1. credit_lines' \in [Lines -> Line]
    BY <1>0, <1>2 DEF Revoke, CreditTypeOK, Line, Entries
  <2> QED
    BY <2>1, <1>2 DEF Revoke, CreditTypeOK
<1>3. ASSUME NEW e \in Entries, RouteWrites(l, e) PROVE CreditTypeOK'
  <2>1. credit_lines' \in [Lines -> Line]
    BY <1>0, <1>3 DEF RouteWrites, CreditTypeOK, Line
  <2>2. written' \in [Lines -> [Entries -> Nat]]
    BY <1>3 DEF RouteWrites, Write, CreditTypeOK
  <2> QED
    BY <2>1, <2>2, <1>3 DEF RouteWrites, CreditTypeOK
<1>4. ASSUME NEW e \in Entries, RouteBreaks(l, e) PROVE CreditTypeOK'
  <2>1. PICK with \in SUBSET Entries :
          /\ credit_lines' = [credit_lines EXCEPT ![l].owed = @ \ with]
          /\ CutOff({<<l, x>> : x \in with})
    <3> DEFINE w == IF e = "audit_granted" THEN {e, "notice_granted"} ELSE {e}
    <3>1. w \in SUBSET Entries
      BY DEF Entries
    <3>2. /\ credit_lines' = [credit_lines EXCEPT ![l].owed = @ \ w]
          /\ CutOff({<<l, x>> : x \in w})
      BY <1>4 DEF RouteBreaks
    <3> HIDE DEF w
    <3> QED
      BY <3>1, <3>2
  <2>2. credit_lines' \in [Lines -> Line]
    BY <1>0, <2>1 DEF CreditTypeOK, Line
  <2>3. unwritten' \subseteq Lines \X Entries /\ cuts' \in 0..MAX_CUTS
    BY <2>1, CreditLinesAssumption DEF CutOff, CreditTypeOK
  <2> QED
    BY <2>2, <2>3, <1>4 DEF RouteBreaks, CreditTypeOK
<1> QED
  BY <1>1, <1>2, <1>3, <1>4

LEMMA RunsTyped ==
  ASSUME CreditTypeOK, NEW m \in Monitors,
         \/ MarkExpiring(m) \/ MarkExpired(m) \/ RunEnds(m) \/ RunBreaks(m)
         \/ \E l \in Lines : Warn(m, l) \/ TellExpired(m, l) \/ AuditExpired(m, l)
  PROVE  CreditTypeOK'
<1>0. /\ monitor[m] \in Monitor /\ monitor \in [Monitors -> Monitor]
      /\ \A l \in Lines : credit_lines[l] \in Line
  BY DEF CreditTypeOK
<1>1. CASE MarkExpiring(m)
  <2>1. credit_lines' \in [Lines -> Line]
    BY <1>0, <1>1 DEF MarkExpiring, Line
  <2>2. monitor' \in [Monitors -> Monitor]
    BY <1>0, <1>1 DEF MarkExpiring, Monitor, InForce, ActiveLines
  <2> QED
    BY <2>1, <2>2, <1>1 DEF MarkExpiring, CreditTypeOK
<1>2. CASE MarkExpired(m)
  <2>1. credit_lines' \in [Lines -> Line]
    BY <1>0, <1>2 DEF MarkExpired, Line
  <2>2. monitor' \in [Monitors -> Monitor]
    BY <1>0, <1>2 DEF MarkExpired, Monitor, Lapsed, ActiveLines
  <2> QED
    BY <2>1, <2>2, <1>2 DEF MarkExpired, CreditTypeOK
<1>3. CASE RunEnds(m)
  <2>1. monitor' \in [Monitors -> Monitor]
    BY <1>0, <1>3 DEF RunEnds, Monitor
  <2> QED
    BY <2>1, <1>3 DEF RunEnds, CreditTypeOK
<1>4. CASE RunBreaks(m)
  <2>1. monitor' \in [Monitors -> Monitor]
    BY <1>0, <1>4 DEF RunBreaks, Monitor
  <2>2. OwedBy(m) \subseteq Lines \X Entries
    BY <1>0 DEF OwedBy, Monitor, Entries
  <2>3. unwritten' \subseteq Lines \X Entries /\ cuts' \in 0..MAX_CUTS
    BY <2>2, <1>4, CreditLinesAssumption DEF RunBreaks, CutOff, CreditTypeOK
  <2> QED
    BY <2>1, <2>3, <1>4 DEF RunBreaks, CreditTypeOK
<1>5. ASSUME NEW l \in Lines, Warn(m, l) \/ TellExpired(m, l) \/ AuditExpired(m, l)
      PROVE  CreditTypeOK'
  <2>1. monitor' \in [Monitors -> Monitor]
    <3>1. /\ monitor' = [monitor EXCEPT ![m] = monitor'[m]]
          /\ monitor'[m] \in Monitor
      BY <1>0, <1>5 DEF Warn, TellExpired, AuditExpired, Monitor
    <3> QED
      BY <3>1, <1>0
  <2>2. written' \in [Lines -> [Entries -> Nat]]
    BY <1>5 DEF Warn, TellExpired, AuditExpired, Write, CreditTypeOK, Entries
  <2> QED
    BY <2>1, <2>2, <1>5 DEF Warn, TellExpired, AuditExpired, CreditTypeOK
<1> QED
  BY <1>1, <1>2, <1>3, <1>4, <1>5

LEMMA ChecksTyped ==
  ASSUME CreditTypeOK,
         \/ AccountMoves \/ TimePasses
         \/ \E k \in Checks : Ask(k) \/ ReadAccount(k) \/ ReadLines(k) \/ AnswerHealth(k)
  PROVE  CreditTypeOK'
<1>1. CASE AccountMoves \/ TimePasses
  BY <1>1, CreditLinesAssumption DEF AccountMoves, TimePasses, CreditTypeOK
<1>2. ASSUME NEW k \in Checks, Ask(k) \/ ReadAccount(k) \/ ReadLines(k) \/ AnswerHealth(k)
      PROVE  CreditTypeOK'
  <2>1. check \in [Checks -> Check] /\ check[k] \in Check /\ balances \in Accounts
    BY DEF CreditTypeOK
  <2>2. Over \in SUBSET Lines /\ InForce \in SUBSET Lines
    BY DEF Over, InForce, ActiveLines
  <2>3. check' \in [Checks -> Check]
    BY <1>2, <2>1, <2>2 DEF Ask, ReadAccount, ReadLines, AnswerHealth, Check
  <2> QED
    BY <2>3, <1>2 DEF Ask, ReadAccount, ReadLines, AnswerHealth, CreditTypeOK
<1> QED
  BY <1>1, <1>2

-----------------------------------------------------------------------------

LEMMA OwedByRun ==
  ASSUME CreditTypeOK, NEW m \in Monitors, NEW l \in Lines, NEW e \in Entries
  PROVE  <<l, e>> \in OwedBy(m) <=> RunOwes(m, l, e)
<1>1. monitor[m].at \in {"idle", "warn", "expire", "audit"}
  BY DEF CreditTypeOK, Monitor
<1>2. CASE monitor[m].at = "idle"
  <2>1. OwedBy(m) = {}
    BY <1>2 DEF OwedBy
  <2> QED
    BY <2>1, <1>2 DEF RunOwes
<1>3. CASE monitor[m].at = "warn"
  <2>1. OwedBy(m) = monitor[m].todo \X {"notice_expiring"}
    BY <1>3 DEF OwedBy
  <2> QED
    BY <2>1, <1>3 DEF RunOwes
<1>4. CASE monitor[m].at = "expire"
  <2>1. OwedBy(m) = monitor[m].todo \X {"notice_expired", "audit_expired"}
    BY <1>4 DEF OwedBy
  <2> QED
    BY <2>1, <1>4 DEF RunOwes
<1>5. CASE monitor[m].at = "audit"
  <2>1. OwedBy(m) = (monitor[m].todo \X {"notice_expired", "audit_expired"})
                    \cup (monitor[m].row \X {"audit_expired"})
    BY <1>5 DEF OwedBy
  <2> QED
    BY <2>1, <1>5 DEF RunOwes
<1> QED
  BY <1>1, <1>2, <1>3, <1>4, <1>5

(* Nobody moves an entry, and nothing calls for it anew. *)
LEMMA PlaceKept ==
  ASSUME NEW l \in Lines, NEW e \in Entries, OnePlace(l, e),
         written'[l][e] = written[l][e], Called(l, e)' = Called(l, e),
         RouteOwes(l, e)' = RouteOwes(l, e), Cut(l, e)' = Cut(l, e),
         \A m \in Monitors : RunOwes(m, l, e)' <=> RunOwes(m, l, e)
  PROVE  OnePlace(l, e)'
BY DEF OnePlace

(* What is called for is called for from now on, and only one of the route  *)
(* and the runs learns of it.                                               *)
LEMMA RoutePlaces ==
  ASSUME CreditInv, NEW l \in Lines,
         \/ Grant(l) \/ Revoke(l)
         \/ \E e \in Entries : RouteWrites(l, e) \/ RouteBreaks(l, e),
         NEW i \in Lines, NEW x \in Entries
  PROVE  OnePlace(i, x)'
<1>0. /\ credit_lines \in [Lines -> Line] /\ credit_lines[l] \in Line
      /\ written \in [Lines -> [Entries -> Nat]] /\ OnePlace(i, x) /\ OnePlace(l, x)
  BY DEF CreditInv, CreditTypeOK
<1>1. \A m \in Monitors : RunOwes(m, i, x)' <=> RunOwes(m, i, x)
  BY DEF Grant, Revoke, RouteWrites, RouteBreaks, RunOwes
<1>2. CASE i # l
  <2>1. /\ credit_lines'[i] = credit_lines[i] /\ written'[i] = written[i]
        /\ Cut(i, x)' = Cut(i, x)
    BY <1>0, <1>2 DEF Grant, Revoke, RouteWrites, RouteBreaks, Write, CutOff, Cut
  <2>2. Called(i, x)' = Called(i, x) /\ RouteOwes(i, x)' = RouteOwes(i, x)
    BY <2>1 DEF Called, RouteOwes
  <2> QED
    BY <1>0, <1>1, <2>1, <2>2, PlaceKept
<1>3. CASE i = l /\ Grant(l)
  <2>1. /\ credit_lines'[l].status = "active"
        /\ credit_lines'[l].owed = {"audit_granted", "notice_granted"}
        /\ credit_lines'[l].notified_expiring = FALSE
        /\ written' = written /\ Cut(l, x)' = Cut(l, x)
        /\ credit_lines[l].status = "none" /\ ~credit_lines[l].notified_expiring
    BY <1>0, <1>3 DEF Grant, CreditInv, GrantInOrder, Cut
  <2>2. /\ ~Called(l, x)
        /\ Called(l, x)' <=> x \in {"audit_granted", "notice_granted"}
        /\ RouteOwes(l, x)' <=> x \in {"audit_granted", "notice_granted"}
    BY <2>1 DEF Called, RouteOwes
  <2> QED
    BY <1>0, <1>1, <1>3, <2>1, <2>2 DEF OnePlace
<1>4. CASE i = l /\ Revoke(l)
  <2>1. /\ credit_lines'[l].status = "revoked" /\ credit_lines[l].status = "active"
        /\ credit_lines'[l].owed = credit_lines[l].owed \cup {"audit_revoked"}
        /\ credit_lines'[l].notified_expiring = credit_lines[l].notified_expiring
        /\ written' = written /\ Cut(l, x)' = Cut(l, x)
    BY <1>0, <1>4 DEF Revoke, Line, Cut
  <2>2. CASE x = "audit_revoked"
    <3>1. ~Called(l, x) /\ Called(l, x)' /\ RouteOwes(l, x)'
      BY <2>1, <2>2 DEF Called, RouteOwes
    <3> QED
      BY <1>0, <1>1, <1>4, <2>1, <3>1 DEF OnePlace
  <2>3. CASE x # "audit_revoked"
    <3>1. Called(l, x)' = Called(l, x) /\ RouteOwes(l, x)' = RouteOwes(l, x)
      BY <2>1, <2>3 DEF Called, RouteOwes, Entries
    <3> QED
      BY <1>0, <1>1, <1>4, <2>1, <3>1, PlaceKept
  <2> QED
    BY <2>2, <2>3
<1>5. ASSUME i = l, NEW e \in Entries, RouteWrites(l, e) PROVE OnePlace(i, x)'
  <2>1. /\ credit_lines'[l].status = credit_lines[l].status /\ RouteOwes(l, e)
        /\ credit_lines'[l].owed = credit_lines[l].owed \ {e}
        /\ credit_lines'[l].notified_expiring = credit_lines[l].notified_expiring
        /\ Cut(l, x)' = Cut(l, x)
    BY <1>0, <1>5 DEF RouteWrites, InTurn, RouteOwes, Line, Cut
  <2>2. written'[l][x] = IF x = e THEN written[l][x] + 1 ELSE written[l][x]
    BY <1>0, <1>5 DEF RouteWrites, Write
  <2>3. Called(l, x)' = Called(l, x) /\ (RouteOwes(l, x)' <=> RouteOwes(l, x) /\ x # e)
    BY <2>1 DEF Called, RouteOwes
  <2> QED
    BY <1>0, <1>1, <1>5, <2>1, <2>2, <2>3 DEF OnePlace
<1>6. ASSUME i = l, NEW e \in Entries, RouteBreaks(l, e) PROVE OnePlace(i, x)'
  <2>1. /\ written' = written
        /\ RouteOwes(l, e) /\ (e = "audit_granted" => RouteOwes(l, "notice_granted"))
    BY <1>6 DEF RouteBreaks, InTurn, RouteOwes, CreditInv, GrantInOrder
  <2>2. PICK with \in SUBSET Entries :
          /\ with = IF e = "audit_granted" THEN {e, "notice_granted"} ELSE {e}
          /\ credit_lines' = [credit_lines EXCEPT ![l].owed = @ \ with]
          /\ CutOff({<<l, y>> : y \in with})
    <3> DEFINE w == IF e = "audit_granted" THEN {e, "notice_granted"} ELSE {e}
    <3>1. w \in SUBSET Entries
      BY DEF Entries
    <3>2. /\ credit_lines' = [credit_lines EXCEPT ![l].owed = @ \ w]
          /\ CutOff({<<l, y>> : y \in w})
      BY <1>6 DEF RouteBreaks
    <3> QED
      BY <3>1, <3>2
  <2>3. /\ credit_lines'[l].status = credit_lines[l].status
        /\ credit_lines'[l].owed = credit_lines[l].owed \ with
        /\ credit_lines'[l].notified_expiring = credit_lines[l].notified_expiring
    BY <1>0, <2>2 DEF Line
  <2>4. Cut(l, x)' <=> Cut(l, x) \/ x \in with
    BY <2>2 DEF CutOff, Cut
  <2>5. Called(l, x)' = Called(l, x) /\ (RouteOwes(l, x)' <=> RouteOwes(l, x) /\ x \notin with)
    BY <2>3 DEF Called, RouteOwes
  <2>6. x \in with => RouteOwes(l, x)
    BY <2>1, <2>2
  <2> QED
    BY <1>0, <1>1, <1>6, <2>1, <2>4, <2>5, <2>6 DEF OnePlace
<1> QED
  BY <1>2, <1>3, <1>4, <1>5, <1>6

(* The monitor's steps: a run claims what it makes called for, writes what it *)
(* has claimed, or breaks off and leaves it unwritten.                        *)
LEMMA RunPlaces ==
  ASSUME CreditInv, NEW m \in Monitors,
         \/ MarkExpiring(m) \/ MarkExpired(m) \/ RunEnds(m) \/ RunBreaks(m)
         \/ \E l \in Lines : Warn(m, l) \/ TellExpired(m, l) \/ AuditExpired(m, l),
         NEW i \in Lines, NEW x \in Entries
  PROVE  OnePlace(i, x)'
<1>0. /\ credit_lines \in [Lines -> Line] /\ credit_lines[i] \in Line
      /\ monitor \in [Monitors -> Monitor] /\ monitor[m] \in Monitor
      /\ written \in [Lines -> [Entries -> Nat]] /\ OnePlace(i, x)
  BY DEF CreditInv, CreditTypeOK
<1>1. \A n \in Monitors \ {m} : RunOwes(n, i, x)' <=> RunOwes(n, i, x)
  BY <1>0 DEF MarkExpiring, MarkExpired, RunEnds, RunBreaks, Warn, TellExpired,
              AuditExpired, RunOwes
<1>2. CASE MarkExpiring(m)
  <2> DEFINE due == {l \in InForce : ~credit_lines[l].notified_expiring
                              /\ credit_lines[l].expires_at <= now + LEAD}
  <2>1. /\ credit_lines'[i].status = credit_lines[i].status
        /\ credit_lines'[i].owed = credit_lines[i].owed
        /\ credit_lines'[i].notified_expiring
              <=> credit_lines[i].notified_expiring \/ i \in due
        /\ written' = written /\ Cut(i, x)' = Cut(i, x)
        /\ monitor'[m].at = "warn" /\ monitor'[m].todo = due /\ monitor[m].at = "idle"
    BY <1>0, <1>2 DEF MarkExpiring, Line, Cut
  <2>2. i \in due => ~credit_lines[i].notified_expiring
    OBVIOUS
  <2> HIDE DEF due
  <2>3. ~RunOwes(m, i, x)
    BY <2>1 DEF RunOwes
  <2>4. RunOwes(m, i, x)' <=> i \in due /\ x = "notice_expiring"
    BY <2>1 DEF RunOwes
  <2>5. RouteOwes(i, x)' = RouteOwes(i, x)
    BY <2>1 DEF RouteOwes
  <2>6. CASE i \in due /\ x = "notice_expiring"
    <3>1. ~Called(i, x) /\ Called(i, x)'
      BY <2>1, <2>2, <2>6 DEF Called
    <3> QED
      BY <1>0, <1>1, <2>1, <2>3, <2>4, <2>5, <2>6, <3>1 DEF OnePlace
  <2>7. CASE ~ (i \in due /\ x = "notice_expiring")
    <3>1. Called(i, x)' = Called(i, x)
      BY <1>0, <2>1, <2>7 DEF Called, Entries, Line
    <3>2. \A n \in Monitors : RunOwes(n, i, x)' <=> RunOwes(n, i, x)
      BY <1>1, <2>3, <2>4, <2>7
    <3> QED
      BY <1>0, <2>1, <2>5, <3>1, <3>2, PlaceKept
  <2> QED
    BY <2>6, <2>7
<1>3. CASE MarkExpired(m)
  <2>1. /\ credit_lines'[i].status = IF i \in Lapsed THEN "expired" ELSE credit_lines[i].status
        /\ credit_lines'[i].owed = credit_lines[i].owed
        /\ credit_lines'[i].notified_expiring = credit_lines[i].notified_expiring
        /\ written' = written /\ Cut(i, x)' = Cut(i, x)
        /\ monitor'[m].at = "expire" /\ monitor'[m].todo = Lapsed
        /\ monitor[m].at = "warn" /\ monitor[m].todo = {}
    BY <1>0, <1>3 DEF MarkExpired, Line, Cut
  <2>2. i \in Lapsed => credit_lines[i].status = "active"
    BY DEF Lapsed, ActiveLines
  <2>3. ~RunOwes(m, i, x)
    BY <2>1 DEF RunOwes
  <2>4. RunOwes(m, i, x)' <=> i \in Lapsed /\ x \in {"notice_expired", "audit_expired"}
    BY <2>1 DEF RunOwes
  <2>5. RouteOwes(i, x)' = RouteOwes(i, x)
    BY <2>1 DEF RouteOwes
  <2>6. CASE i \in Lapsed /\ x \in {"notice_expired", "audit_expired"}
    <3>1. ~Called(i, x) /\ Called(i, x)'
      BY <2>1, <2>2, <2>6 DEF Called
    <3> QED
      BY <1>0, <1>1, <2>1, <2>3, <2>4, <2>5, <2>6, <3>1 DEF OnePlace
  <2>7. CASE ~ (i \in Lapsed /\ x \in {"notice_expired", "audit_expired"})
    <3>1. Called(i, x)' = Called(i, x)
      BY <1>0, <2>1, <2>2, <2>7 DEF Called, Entries, Line
    <3>2. \A n \in Monitors : RunOwes(n, i, x)' <=> RunOwes(n, i, x)
      BY <1>1, <2>3, <2>4, <2>7
    <3> QED
      BY <1>0, <2>1, <2>5, <3>1, <3>2, PlaceKept
  <2> QED
    BY <2>6, <2>7
<1>4. CASE RunEnds(m)
  <2>1. /\ monitor[m].at = "expire" /\ monitor[m].todo = {} /\ monitor'[m].at = "idle"
        /\ credit_lines' = credit_lines /\ written' = written /\ unwritten' = unwritten
    BY <1>0, <1>4 DEF RunEnds
  <2>2. ~RunOwes(m, i, x) /\ ~RunOwes(m, i, x)'
    BY <2>1 DEF RunOwes
  <2>3. \A n \in Monitors : RunOwes(n, i, x)' <=> RunOwes(n, i, x)
    BY <1>1, <2>2
  <2>4. /\ Called(i, x)' = Called(i, x) /\ RouteOwes(i, x)' = RouteOwes(i, x)
        /\ Cut(i, x)' = Cut(i, x)
    BY <2>1 DEF Called, RouteOwes, Cut
  <2> QED
    BY <1>0, <2>1, <2>3, <2>4, PlaceKept
<1>5. CASE RunBreaks(m)
  <2>1. /\ unwritten' = unwritten \cup OwedBy(m) /\ monitor'[m].at = "idle"
        /\ credit_lines' = credit_lines /\ written' = written
    BY <1>0, <1>5 DEF RunBreaks, CutOff
  <2>2. ~RunOwes(m, i, x)'
    BY <2>1 DEF RunOwes
  <2>3. Cut(i, x)' <=> Cut(i, x) \/ RunOwes(m, i, x)
    BY <2>1, OwedByRun DEF Cut, CreditInv
  <2>4. Called(i, x)' = Called(i, x) /\ RouteOwes(i, x)' = RouteOwes(i, x)
    BY <2>1 DEF Called, RouteOwes
  <2> QED
    BY <1>0, <1>1, <2>1, <2>2, <2>3, <2>4 DEF OnePlace
<1>6. ASSUME NEW l \in Lines, NEW e \in Entries,
             credit_lines' = credit_lines, unwritten' = unwritten, Write(l, e),
             RunOwes(m, l, e),
             RunOwes(m, i, x)' <=> RunOwes(m, i, x) /\ ~ (i = l /\ x = e)
      PROVE  OnePlace(i, x)'
  <2>1. /\ Called(i, x)' = Called(i, x) /\ RouteOwes(i, x)' = RouteOwes(i, x)
        /\ Cut(i, x)' = Cut(i, x)
    BY <1>6 DEF Called, RouteOwes, Cut
  <2>2. written'[i][x] = IF i = l /\ x = e THEN written[i][x] + 1 ELSE written[i][x]
    BY <1>0, <1>6 DEF Write
  <2>3. CASE i = l /\ x = e
    <3>1. /\ written[i][x] = 0 /\ Called(i, x) /\ ~RouteOwes(i, x) /\ ~Cut(i, x)
          /\ \A n \in Monitors \ {m} : ~RunOwes(n, i, x)
      BY <1>0, <1>6, <2>3 DEF OnePlace
    <3>2. written'[i][x] = 1 /\ \A n \in Monitors : ~RunOwes(n, i, x)'
      BY <1>1, <1>6, <2>2, <2>3, <3>1
    <3> QED
      BY <2>1, <3>1, <3>2 DEF OnePlace
  <2>4. CASE ~ (i = l /\ x = e)
    <3>1. \A n \in Monitors : RunOwes(n, i, x)' <=> RunOwes(n, i, x)
      BY <1>1, <1>6, <2>4
    <3> QED
      BY <1>0, <2>1, <2>2, <2>4, <3>1, PlaceKept
  <2> QED
    BY <2>3, <2>4
<1>7. ASSUME NEW l \in Lines, Warn(m, l) PROVE OnePlace(i, x)'
  <2>1. /\ monitor[m].at = "warn" /\ l \in monitor[m].todo /\ monitor'[m].at = "warn"
        /\ monitor'[m].todo = monitor[m].todo \ {l}
    BY <1>0, <1>7 DEF Warn, Monitor
  <2>2. /\ RunOwes(m, l, "notice_expiring")
        /\ RunOwes(m, i, x)' <=> RunOwes(m, i, x) /\ ~ (i = l /\ x = "notice_expiring")
    BY <2>1 DEF RunOwes
  <2>3. "notice_expiring" \in Entries
    BY DEF Entries
  <2> QED
    BY <1>6, <1>7, <2>2, <2>3 DEF Warn
<1>8. ASSUME NEW l \in Lines, TellExpired(m, l) PROVE OnePlace(i, x)'
  <2>1. /\ monitor[m].at = "expire" /\ l \in monitor[m].todo /\ monitor'[m].at = "audit"
        /\ monitor'[m].todo = monitor[m].todo \ {l} /\ monitor'[m].row = {l}
    BY <1>0, <1>8 DEF TellExpired
  <2>2. /\ RunOwes(m, l, "notice_expired")
        /\ RunOwes(m, i, x)' <=> RunOwes(m, i, x) /\ ~ (i = l /\ x = "notice_expired")
    BY <2>1 DEF RunOwes
  <2>3. "notice_expired" \in Entries
    BY DEF Entries
  <2> QED
    BY <1>6, <1>8, <2>2, <2>3 DEF TellExpired
<1>9. ASSUME NEW l \in Lines, AuditExpired(m, l) PROVE OnePlace(i, x)'
  <2>1. /\ monitor[m].at = "audit" /\ l \in monitor[m].row /\ monitor'[m].at = "expire"
        /\ monitor'[m].todo = monitor[m].todo /\ monitor'[m].row = {}
    BY <1>0, <1>9 DEF AuditExpired, Monitor
  <2>2. monitor[m].row = {l} /\ l \notin monitor[m].todo
    BY <2>1 DEF CreditInv, RowInHand
  <2>3. /\ RunOwes(m, l, "audit_expired")
        /\ RunOwes(m, i, x)' <=> RunOwes(m, i, x) /\ ~ (i = l /\ x = "audit_expired")
    BY <2>1, <2>2 DEF RunOwes
  <2>4. "audit_expired" \in Entries
    BY DEF Entries
  <2> QED
    BY <1>6, <1>9, <2>3, <2>4 DEF AuditExpired
<1> QED
  BY <1>2, <1>3, <1>4, <1>5, <1>7, <1>8, <1>9

LEMMA OtherPlaces ==
  ASSUME CreditInv,
         \/ AccountMoves \/ TimePasses
         \/ \E k \in Checks : Ask(k) \/ ReadAccount(k) \/ ReadLines(k) \/ AnswerHealth(k)
         \/ UNCHANGED creditVars,
         NEW l \in Lines, NEW e \in Entries
  PROVE  OnePlace(l, e)'
<1>1. UNCHANGED <<credit_lines, written, monitor, unwritten>> /\ OnePlace(l, e)
  BY DEF AccountMoves, TimePasses, Ask, ReadAccount, ReadLines, AnswerHealth, CreditInv,
         creditVars
<1>2. /\ Called(l, e)' = Called(l, e) /\ RouteOwes(l, e)' = RouteOwes(l, e)
      /\ Cut(l, e)' = Cut(l, e)
      /\ \A m \in Monitors : RunOwes(m, l, e)' <=> RunOwes(m, l, e)
  BY <1>1 DEF Called, RouteOwes, Cut, RunOwes
<1> QED
  BY <1>1, <1>2, PlaceKept

-----------------------------------------------------------------------------

(* What has ended has ended for good. *)
LEMMA EndedForGood ==
  ASSUME CreditTypeOK, [CreditNext]_creditVars
  PROVE  Over \subseteq Over'
<1>0. /\ now \in Nat /\ credit_lines \in [Lines -> Line]
      /\ \A l \in Lines : credit_lines[l] \in Line /\ credit_lines[l].expires_at \in Nat
  BY CreditLinesAssumption DEF CreditTypeOK, Line
<1>1. now' \in {now, now + 1}
  BY DEF CreditNext, AccountMoves, TimePasses, Grant, Revoke, RouteWrites, RouteBreaks,
         MarkExpiring, MarkExpired, RunEnds, RunBreaks, Warn, TellExpired, AuditExpired,
         Ask, ReadAccount, ReadLines, AnswerHealth, creditVars
<1>2. ASSUME NEW l \in Lines, l \in Over
      PROVE  \/ credit_lines'[l].status \in {"expired", "revoked"}
             \/ /\ credit_lines'[l].status = "active" /\ credit_lines[l].status = "active"
                /\ credit_lines'[l].expires_at = credit_lines[l].expires_at
  <2>1. credit_lines[l].status \in {"active", "expired", "revoked"}
    BY <1>2 DEF Over, ActiveLines
  <2>2. ASSUME NEW i \in Lines, Grant(i)
        PROVE  credit_lines'[l] = credit_lines[l]
    BY <1>0, <2>1, <2>2 DEF Grant
  <2>3. ASSUME NEW i \in Lines, Revoke(i)
        PROVE  \/ credit_lines'[l] = credit_lines[l]
               \/ credit_lines'[l].status = "revoked"
    BY <1>0, <2>3 DEF Revoke, Line
  <2>4. ASSUME NEW i \in Lines, NEW e \in Entries, RouteWrites(i, e) \/ RouteBreaks(i, e)
        PROVE  /\ credit_lines'[l].status = credit_lines[l].status
               /\ credit_lines'[l].expires_at = credit_lines[l].expires_at
    BY <1>0, <2>4 DEF RouteWrites, RouteBreaks, Line
  <2>5. ASSUME NEW m \in Monitors, MarkExpiring(m) \/ MarkExpired(m)
        PROVE  /\ credit_lines'[l].expires_at = credit_lines[l].expires_at
               /\ credit_lines'[l].status \in {credit_lines[l].status, "expired"}
    BY <1>0, <2>5 DEF MarkExpiring, MarkExpired, Line
  <2>6. CASE UNCHANGED credit_lines
    BY <2>1, <2>6
  <2> QED
    BY <2>1, <2>2, <2>3, <2>4, <2>5, <2>6
       DEF CreditNext, AccountMoves, TimePasses, RunEnds, RunBreaks, Warn, TellExpired,
           AuditExpired, Ask, ReadAccount, ReadLines, AnswerHealth, creditVars
<1>3. ASSUME NEW l \in Lines, l \in Over PROVE l \in Over'
  <2>1. CASE credit_lines'[l].status \in {"expired", "revoked"}
    BY <2>1 DEF Over
  <2>2. CASE /\ credit_lines'[l].status = "active" /\ credit_lines[l].status = "active"
             /\ credit_lines'[l].expires_at = credit_lines[l].expires_at
    <3>1. credit_lines[l].expires_at <= now
      BY <1>3, <2>2 DEF Over
    <3>2. credit_lines'[l].expires_at <= now'
      BY <1>0, <1>1, <2>2, <3>1
    <3> QED
      BY <2>2, <3>2 DEF Over, ActiveLines
  <2> QED
    BY <1>2, <1>3, <2>1, <2>2
<1> QED
  BY <1>3 DEF Over

LEMMA CreditStructure ==
  ASSUME CreditInv, [CreditNext]_creditVars
  PROVE  GrantInOrder' /\ RowInHand' /\ ChecksTrue'
<1>0. /\ CreditTypeOK /\ credit_lines \in [Lines -> Line]
      /\ \A l \in Lines : credit_lines[l] \in Line
      /\ monitor \in [Monitors -> Monitor] /\ \A m \in Monitors : monitor[m] \in Monitor
      /\ check \in [Checks -> Check] /\ \A k \in Checks : check[k] \in Check
  BY DEF CreditInv, CreditTypeOK
<1>1. GrantInOrder'
  <2>0. GrantInOrder
    BY DEF CreditInv
  <2>1. ASSUME NEW i \in Lines, Grant(i) PROVE GrantInOrder'
    BY <1>0, <2>0, <2>1 DEF Grant, GrantInOrder
  <2>2. ASSUME NEW i \in Lines, Revoke(i) PROVE GrantInOrder'
    BY <1>0, <2>0, <2>2 DEF Revoke, GrantInOrder, Line
  <2>3. ASSUME NEW i \in Lines, NEW e \in Entries, RouteWrites(i, e) PROVE GrantInOrder'
    BY <1>0, <2>0, <2>3 DEF RouteWrites, InTurn, GrantInOrder, Line
  <2>4. ASSUME NEW i \in Lines, NEW e \in Entries, RouteBreaks(i, e) PROVE GrantInOrder'
    BY <1>0, <2>0, <2>4 DEF RouteBreaks, InTurn, GrantInOrder, Line
  <2>5. ASSUME NEW m \in Monitors, MarkExpiring(m) PROVE GrantInOrder'
    BY <1>0, <2>0, <2>5 DEF MarkExpiring, InForce, ActiveLines, GrantInOrder, Line
  <2>6. ASSUME NEW m \in Monitors, MarkExpired(m) PROVE GrantInOrder'
    BY <1>0, <2>0, <2>6 DEF MarkExpired, GrantInOrder, Line
  <2>7. CASE UNCHANGED credit_lines
    BY <2>0, <2>7 DEF GrantInOrder
  <2> QED
    BY <2>1, <2>2, <2>3, <2>4, <2>5, <2>6, <2>7
       DEF CreditNext, AccountMoves, TimePasses, RunEnds, RunBreaks, Warn, TellExpired,
           AuditExpired, Ask, ReadAccount, ReadLines, AnswerHealth, creditVars
<1>2. RowInHand'
  <2>0. RowInHand
    BY DEF CreditInv
  <2>1. ASSUME NEW m \in Monitors,
               \/ MarkExpiring(m) \/ MarkExpired(m) \/ RunEnds(m) \/ RunBreaks(m)
               \/ \E l \in Lines : Warn(m, l) \/ AuditExpired(m, l)
        PROVE  RowInHand'
    <3>1. monitor'[m].at # "audit" /\ \A n \in Monitors \ {m} : monitor'[n] = monitor[n]
      BY <1>0, <2>1 DEF MarkExpiring, MarkExpired, RunEnds, RunBreaks, Warn, AuditExpired, Monitor
    <3> QED
      BY <2>0, <3>1 DEF RowInHand
  <2>2. ASSUME NEW m \in Monitors, NEW l \in Lines, TellExpired(m, l) PROVE RowInHand'
    <3>1. /\ monitor'[m].row = {l} /\ l \notin monitor'[m].todo
          /\ \A n \in Monitors \ {m} : monitor'[n] = monitor[n]
      BY <1>0, <2>2 DEF TellExpired
    <3> QED
      BY <2>0, <3>1 DEF RowInHand
  <2>3. CASE UNCHANGED monitor
    BY <2>0, <2>3 DEF RowInHand
  <2> QED
    BY <2>1, <2>2, <2>3
       DEF CreditNext, AccountMoves, TimePasses, Grant, Revoke, RouteWrites, RouteBreaks,
           Ask, ReadAccount, ReadLines, AnswerHealth, creditVars
<1>3. ChecksTrue'
  <2>0. ChecksTrue /\ Over \subseteq Over'
    BY <1>0, EndedForGood DEF CreditInv
  <2>1. ASSUME NEW k \in Checks, Ask(k) PROVE ChecksTrue'
    <3>1. check' = [check EXCEPT ![k] = [at |-> "reading", account |-> {}, lines |-> {},
                                         over |-> Over]]
      BY <2>1 DEF Ask
    <3>2. /\ check'[k].over = Over /\ check'[k].lines = {}
          /\ \A n \in Checks \ {k} : check'[n] = check[n]
      BY <1>0, <3>1
    <3> QED
      BY <2>0, <3>2 DEF ChecksTrue
  <2>2. ASSUME NEW k \in Checks, ReadLines(k) PROVE ChecksTrue'
    <3>1. /\ check'[k].over = check[k].over /\ check'[k].lines = {InForce}
          /\ check[k].at # "none"
          /\ \A n \in Checks \ {k} : check'[n] = check[n]
      BY <1>0, <2>2 DEF ReadLines, Check
    <3>2. InForce \subseteq Lines \ Over
      BY <1>0 DEF InForce, Over, ActiveLines, CreditTypeOK, Line
    <3> QED
      BY <2>0, <3>1, <3>2 DEF ChecksTrue
  <2>3. ASSUME NEW k \in Checks, ReadAccount(k) \/ AnswerHealth(k) PROVE ChecksTrue'
    <3>1. /\ check'[k].over = check[k].over /\ check'[k].lines = check[k].lines
          /\ check[k].at # "none"
          /\ \A n \in Checks \ {k} : check'[n] = check[n]
      BY <1>0, <2>3 DEF ReadAccount, AnswerHealth, Check
    <3> QED
      BY <2>0, <3>1 DEF ChecksTrue
  <2>4. CASE UNCHANGED check
    BY <2>0, <2>4 DEF ChecksTrue
  <2> QED
    BY <2>1, <2>2, <2>3, <2>4
       DEF CreditNext, AccountMoves, TimePasses, Grant, Revoke, RouteWrites, RouteBreaks,
           MarkExpiring, MarkExpired, RunEnds, RunBreaks, Warn, TellExpired, AuditExpired,
           creditVars
<1> QED
  BY <1>1, <1>2, <1>3

LEMMA CreditKept == CreditInv /\ [CreditNext]_creditVars => CreditInv'
<1> SUFFICES ASSUME CreditInv, [CreditNext]_creditVars PROVE CreditInv'
  OBVIOUS
<1>1. CreditTypeOK'
  <2>1. CASE UNCHANGED creditVars
    BY <2>1 DEF CreditInv, CreditTypeOK, creditVars
  <2> QED
    BY <2>1, RoutesTyped, RunsTyped, ChecksTyped DEF CreditInv, CreditNext
<1>2. ASSUME NEW l \in Lines, NEW e \in Entries PROVE OnePlace(l, e)'
  BY RoutePlaces, RunPlaces, OtherPlaces DEF CreditNext
<1>3. GrantInOrder' /\ RowInHand' /\ ChecksTrue'
  BY CreditStructure
<1> QED
  BY <1>1, <1>2, <1>3 DEF CreditInv

LEMMA CreditInvariant == CreditSpec => []CreditInv
  BY CreditInitially, CreditKept, PTL DEF CreditSpec

(* Credit lines, runs of the monitor and health checks keep to their types. *)
THEOREM CreditTyped == CreditSpec => []CreditTypeOK
<1>1. CreditInv => CreditTypeOK
  BY DEF CreditInv
<1> QED
  BY <1>1, CreditInvariant, PTL

(* However many monitors overlap, every entry that a line calls for is       *)
(* written once, or someone still owes it, or it was lost when that one      *)
(* broke off; nothing is told that was not called for.                       *)
THEOREM LinesToldOnce == CreditSpec => []EveryLineIsTold
<1>1. ASSUME CreditInv PROVE EveryLineIsTold
  <2> SUFFICES ASSUME NEW l \in Lines, NEW e \in Entries
               PROVE  written[l][e] = IF /\ Called(l, e) /\ ~StillOwed(l, e)
                                         /\ <<l, e>> \notin unwritten THEN 1 ELSE 0
    BY DEF EveryLineIsTold
  <2>1. OnePlace(l, e) /\ CreditTypeOK
    BY <1>1 DEF CreditInv
  <2>2. StillOwed(l, e) <=> RouteOwes(l, e) \/ \E m \in Monitors : RunOwes(m, l, e)
    BY <2>1, OwedByRun DEF StillOwed, RouteOwes
  <2> QED
    BY <2>1, <2>2 DEF OnePlace, Cut
<1> QED
  BY <1>1, CreditInvariant, PTL

(* A health check that does not report a shortfall rests on lines that had   *)
(* not ended when it was asked: together they cover what the account it read *)
(* was short of.                                                             *)
THEOREM CoverHoldsTrue == CreditSpec => []CoverIsInForce
<1>1. ASSUME CreditInv PROVE CoverIsInForce
  <2> SUFFICES ASSUME NEW k \in Checks, check[k].at = "answered",
                      NEW a \in check[k].account, NEW lines \in check[k].lines,
                      Health(a, lines) # "shortfall"
               PROVE  a.balance + Total(Lines \ check[k].over) >= a.required
    BY DEF CoverIsInForce
  <2>1. lines \subseteq Lines \ check[k].over /\ a \in Accounts
    BY <1>1 DEF CreditInv, ChecksTrue, CreditTypeOK, Check
  <2>2. a.balance \in Nat /\ a.required \in Nat
    BY <2>1, CreditLinesAssumption
  <2>3. \A l \in Lines : AmountOf[l] \in Int /\ AmountOf[l] >= 0
    <3>1. \A l \in Lines : credit_lines[l] \in Line
      BY <1>1 DEF CreditInv, CreditTypeOK
    <3>2. \A l \in Lines : credit_lines[l].amount \in Nat
      <4>1. Amounts \cup {0} \subseteq Nat
        BY CreditLinesAssumption
      <4> QED
        BY <3>1, <4>1 DEF Line
    <3> QED
      BY <3>2 DEF AmountOf
  <2> DEFINE S == Lines \ check[k].over
  <2>4. IsFiniteSet(S) /\ IsFiniteSet(lines) /\ lines \in SUBSET S /\ S \subseteq Lines
        /\ IsFiniteSet({}) /\ {} \in SUBSET S
    BY <2>1, FS_Subset, FS_EmptySet, CreditLinesAssumption
  <2> HIDE DEF S
  <2>5. Total(lines) <= Total(S) /\ 0 <= Total(S)
    <3>1. SumFunctionOnSet(AmountOf, lines) <= SumFunctionOnSet(AmountOf, S)
      BY <2>3, <2>4, SumBound
    <3>2. SumFunctionOnSet(AmountOf, {}) <= SumFunctionOnSet(AmountOf, S)
      BY <2>3, <2>4, SumBound
    <3> QED
      BY <3>1, <3>2, SumOfNone DEF Total
  <2>6. Total(lines) \in Int /\ Total(S) \in Int
    BY <2>3, <2>4, SumType DEF Total
  <2>7. Shortfall(a) = 0 \/ Shortfall(a) <= Total(lines)
    BY DEF Health
  <2>8. a.balance + Total(S) >= a.required
    BY <2>2, <2>5, <2>6, <2>7 DEF Shortfall
  <2> QED
    BY <2>8 DEF S
<1> QED
  BY <1>1, CreditInvariant, PTL

-----------------------------------------------------------------------------

(* The transactions that landed after the nth changed no requirement. *)
Quiet(n) == \A i \in (n + 1)..Len(txs) : txs[i].kind = "accept"

(* What transaction n asked for is in force as long as it is quiet. *)
Stands(n) ==
  Quiet(n) => account.required_collateral = Adjusted(txs[n].asked, txs[n].rate)

(* A row has what its transaction asked for, but for half a cent of duty. *)
Near(n, value) == 2 * Gap(value, txs[n].asked) <= CENT

(* Every transaction that changed the requirement has its request. *)
TxsHaveRequests ==
  \A n \in 1..Len(txs) :
    /\ txs[n].kind = "set" =>
         \E u \in Uploads : upload[u].at \in {"landed", "lost", "done"} /\ upload[u].tx = n
    /\ txs[n].kind = "reject" =>
         \E r \in Resolvers : /\ resolve[r].at \in {"landed", "lost", "done"}
                              /\ resolve[r].tx = n /\ ~resolve[r].accept

(* One upload a day lands, so that rows are stored in the order of their *)
(* transactions, and each says what its transaction set.                 *)
RowsInOrder ==
  /\ \A j, k \in 1..Rows : j < k => tariff_uploads[j].tx < tariff_uploads[k].tx
  /\ \A k \in 1..Rows :
       /\ txs[tariff_uploads[k].tx].kind = "set"
       /\ Stands(tariff_uploads[k].tx)
       /\ Near(tariff_uploads[k].tx, tariff_uploads[k].value)
  /\ \A u \in Uploads : upload[u].at = "landed" =>
       /\ account.oracle_last_updated = day
       /\ upload[u].tx \in 1..Len(txs) /\ upload[u].value \in Values
       /\ txs[upload[u].tx].kind = "set" /\ txs[upload[u].tx].asked = upload[u].value
       /\ Stands(upload[u].tx)
       /\ \A k \in 1..Rows : tariff_uploads[k].tx < upload[u].tx
       /\ \A w \in Uploads : upload[w].at = "landed" => w = u
  /\ \A u \in Uploads :
       /\ upload[u].at = "submit" => upload[u].value \in Values
       /\ upload[u].at = "done" => \E k \in 1..Rows : tariff_uploads[k].tx = upload[u].tx

(* A resolution that is recorded shows in its row, unless another one wrote *)
(* over it; a row that is being resolved has been stored.                   *)
ResolutionsShow ==
  \A r \in Resolvers : resolve[r].at # "none" =>
    \E d \in Disputes :
      /\ resolve[r].row = {d} /\ collateral_disputes[d].status # "none"
      /\ resolve[r].at = "done" =>
           \/ \E s \in Resolvers \ {r} : resolve[s].at = "done" /\ resolve[s].row = {d}
           \/ collateral_disputes[d] =
                [status |-> IF resolve[r].accept THEN "resolved_accepted"
                                                 ELSE "resolved_rejected",
                 tx |-> resolve[r].tx]

(* A verification has a row in hand. *)
RowRead == \A v \in Verifiers : verify[v].at = "chain" => verify[v].row \in 1..Rows

ReqInv ==
  /\ RequirementsTypeOK /\ TxsHaveRequests /\ RowsInOrder /\ ResolutionsShow /\ RowRead
  /\ AlarmHasCause

-----------------------------------------------------------------------------

LEMMA ElementOfSeq ==
  ASSUME NEW S, NEW q \in Seq(S), NEW k \in 1..Len(q)
  PROVE  q[k] \in S
OBVIOUS

LEMMA RequirementsInitially == RequirementsInit => ReqInv
<1> SUFFICES ASSUME RequirementsInit PROVE ReqInv
  OBVIOUS
<1>1. RequirementsTypeOK
  <2>1. day \in 1..MAX_DAY /\ account \in Account /\ txs \in Seq(Tx)
    BY RequirementsAssumption DEF RequirementsInit, Account
  <2>2. /\ upload \in [Uploads -> UploadRequest] /\ resolve \in [Resolvers -> ResolveRequest]
        /\ collateral_disputes \in [Disputes -> Dispute]
    BY DEF RequirementsInit, UploadRequest, ResolveRequest, Dispute
  <2>3. Rows = 0 /\ tariff_uploads \in Seq([tx : 1..Len(txs), value : Nat])
    BY DEF RequirementsInit, Rows
  <2>4. verify \in [Verifiers -> [at : {"none", "chain"}, row : 0..Rows]]
    BY <2>3 DEF RequirementsInit
  <2> QED
    BY <2>1, <2>2, <2>3, <2>4 DEF RequirementsInit, RequirementsTypeOK
<1>2. TxsHaveRequests /\ RowsInOrder /\ ResolutionsShow /\ RowRead /\ AlarmHasCause
  BY DEF RequirementsInit, TxsHaveRequests, RowsInOrder, ResolutionsShow, RowRead,
         AlarmHasCause, Rows
<1> QED
  BY <1>1, <1>2 DEF ReqInv

LEMMA SeqMonotone ==
  ASSUME NEW S, NEW T, S \subseteq T, NEW q \in Seq(S)
  PROVE  q \in Seq(T)
<1>1. Len(q) \in Nat /\ q \in [1..Len(q) -> T]
  OBVIOUS
<1> QED
  BY <1>1

LEMMA AdjustedIsNat ==
  ASSUME NEW required \in Nat, NEW rate \in Nat \ {0}
  PROVE  Adjusted(required, rate) \in Nat
BY DEF Adjusted

(* What a row says of a requirement. *)
LEMMA CentIsNear ==
  ASSUME NEW value \in Nat, NEW v \in ToTheCent(value)
  PROVE  v \in Nat /\ 2 * Gap(v, value) <= CENT
<1>1. PICK q \in Nat : q = value \div CENT
  BY RequirementsAssumption
<1>2. PICK whole \in Nat : whole = CENT * q
  BY RequirementsAssumption
<1>3. v \in {whole, whole + CENT} /\ 2 * Gap(v, value) <= CENT
  BY <1>1, <1>2 DEF ToTheCent
<1> QED
  BY <1>2, <1>3, RequirementsAssumption

LEMMA AccountSet ==
  ASSUME RequirementsTypeOK, NEW required \in Values, NEW rate \in Rates,
         SetRequiredCollateral(required, rate)
  PROVE  /\ account' \in Account
         /\ account'.required_collateral = Adjusted(required, rate)
         /\ account'.oracle_last_updated = day
<1>1. account \in Account /\ day \in Nat
  BY RequirementsAssumption DEF RequirementsTypeOK
<1>2. required \in Nat /\ rate \in Nat \ {0}
  BY RequirementsAssumption
<1>3. Adjusted(required, rate) \in Nat /\ day + WINDOW \in Nat
  BY <1>1, <1>2, AdjustedIsNat, RequirementsAssumption
<1> QED
  BY <1>1, <1>3 DEF SetRequiredCollateral, Account

(* Another transaction: those before it keep their numbers. *)
LEMMA TxsGrow ==
  ASSUME RequirementsTypeOK, NEW t \in Tx, Lands(t)
  PROVE  /\ txs' \in Seq(Tx) /\ Len(txs) \in Nat /\ Len(txs') \in Nat
         /\ Len(txs') = Len(txs) + 1
         /\ txs'[Len(txs')] = t /\ \A n \in 1..Len(txs) : txs'[n] = txs[n]
         /\ tariff_uploads \in Seq([tx : 1..Len(txs'), value : Nat])
<1>1. txs \in Seq(Tx)
  BY DEF RequirementsTypeOK
<1>2. /\ txs' \in Seq(Tx) /\ Len(txs) \in Nat /\ Len(txs') = Len(txs) + 1
      /\ txs'[Len(txs')] = t /\ \A n \in 1..Len(txs) : txs'[n] = txs[n]
  BY <1>1 DEF Lands
<1>3. [tx : 1..Len(txs), value : Nat] \subseteq [tx : 1..Len(txs'), value : Nat]
  BY <1>2
<1>4. tariff_uploads \in Seq([tx : 1..Len(txs), value : Nat])
  BY DEF RequirementsTypeOK
<1>5. tariff_uploads \in Seq([tx : 1..Len(txs'), value : Nat])
  BY <1>3, <1>4, SeqMonotone
<1> QED
  BY <1>2, <1>5

LEMMA ChainTyped ==
  ASSUME ReqInv,
         \/ RaiseDispute \/ DayEnds
         \/ \E u \in Uploads : UploadLands(u)
         \/ \E r \in Resolvers : ResolveLands(r)
         \/ \E required \in Values, rate \in Rates : Override(required, rate)
  PROVE  RequirementsTypeOK'
<1>0. /\ RequirementsTypeOK /\ account \in Account /\ day \in 1..MAX_DAY
      /\ upload \in [Uploads -> UploadRequest] /\ resolve \in [Resolvers -> ResolveRequest]
  BY DEF ReqInv, RequirementsTypeOK
<1>1. CASE RaiseDispute
  <2>1. account' \in Account
    BY <1>0, <1>1 DEF RaiseDispute, Account
  <2> QED
    BY <2>1, <1>0, <1>1 DEF RaiseDispute, RequirementsTypeOK, Rows
<1>2. CASE DayEnds
  <2>1. day' \in 1..MAX_DAY
    BY <1>0, <1>2, RequirementsAssumption DEF DayEnds
  <2> QED
    BY <2>1, <1>0, <1>2 DEF DayEnds, RequirementsTypeOK, Rows
<1>3. ASSUME NEW u \in Uploads, UploadLands(u) PROVE RequirementsTypeOK'
  <2>1. PICK rate \in Rates, at \in {"landed", "lost"} :
          /\ SetRequiredCollateral(upload[u].value, rate)
          /\ Lands([kind |-> "set", asked |-> upload[u].value, rate |-> rate])
          /\ upload' = [upload EXCEPT ![u].at = at, ![u].tx = Len(txs')]
    BY <1>3 DEF UploadLands
  <2>2. upload[u].value \in Values
    BY <1>3 DEF UploadLands, ReqInv, RowsInOrder
  <2>3. account' \in Account
    BY <1>0, <2>1, <2>2, AccountSet
  <2>4. PICK t \in Tx : Lands(t)
    BY <2>1, <2>2 DEF Tx
  <2>5. /\ txs' \in Seq(Tx) /\ Len(txs') \in Nat
        /\ tariff_uploads \in Seq([tx : 1..Len(txs'), value : Nat])
    BY <2>4, <1>0, TxsGrow
  <2>6. upload' \in [Uploads -> UploadRequest]
    BY <1>0, <2>1, <2>5 DEF UploadRequest
  <2> QED
    BY <2>3, <2>5, <2>6, <1>0, <1>3 DEF UploadLands, RequirementsTypeOK, Rows
<1>4. ASSUME NEW r \in Resolvers, ResolveLands(r) PROVE RequirementsTypeOK'
  <2>1. PICK at \in {"landed", "lost"} :
          resolve' = [resolve EXCEPT ![r].at = at, ![r].tx = Len(txs')]
    BY <1>4 DEF ResolveLands
  <2>2. account' \in Account
    BY <1>0, <1>4 DEF ResolveLands, ResolveDispute, Account
  <2>3. PICK t \in Tx : Lands(t)
    BY <1>4 DEF ResolveLands, ResolveDispute, Tx
  <2>4. /\ txs' \in Seq(Tx) /\ Len(txs') \in Nat
        /\ tariff_uploads \in Seq([tx : 1..Len(txs'), value : Nat])
    BY <1>0, <2>3, TxsGrow
  <2>5. resolve' \in [Resolvers -> ResolveRequest]
    BY <1>0, <2>1, <2>4 DEF ResolveRequest
  <2> QED
    BY <2>2, <2>4, <2>5, <1>0, <1>4 DEF ResolveLands, RequirementsTypeOK, Rows
<1>5. ASSUME NEW required \in Values, NEW rate \in Rates, Override(required, rate)
      PROVE  RequirementsTypeOK'
  <2>1. account' \in Account
    BY <1>0, <1>5, AccountSet DEF Override
  <2>2. PICK t \in Tx : Lands(t)
    BY <1>5 DEF Override, Tx
  <2>3. /\ txs' \in Seq(Tx) /\ Len(txs') \in Nat
        /\ tariff_uploads \in Seq([tx : 1..Len(txs'), value : Nat])
    BY <1>0, <2>2, TxsGrow
  <2> QED
    BY <2>1, <2>3, <1>0, <1>5 DEF Override, RequirementsTypeOK, Rows
<1> QED
  BY <1>1, <1>2, <1>3, <1>4, <1>5

LEMMA RequestsTyped ==
  ASSUME ReqInv,
         \/ \E u \in Uploads : \/ Compute(u) \/ UploadRefused(u)
                               \/ RecordUpload(u) \/ UploadBreaks(u)
         \/ \E d \in Disputes : StoreDispute(d)
         \/ \E r \in Resolvers :
              \/ \E d \in Disputes, accept \in BOOLEAN : AskResolve(r, d, accept)
              \/ ResolveRefused(r) \/ RecordResolve(r) \/ ResolveBreaks(r)
         \/ \E v \in Verifiers : ReadUpload(v) \/ Compare(v)
  PROVE  RequirementsTypeOK'
<1>0. /\ RequirementsTypeOK
      /\ upload \in [Uploads -> UploadRequest] /\ resolve \in [Resolvers -> ResolveRequest]
      /\ collateral_disputes \in [Disputes -> Dispute]
      /\ tariff_uploads \in Seq([tx : 1..Len(txs), value : Nat])
      /\ verify \in [Verifiers -> [at : {"none", "chain"}, row : 0..Rows]]
      /\ oracle_alerts \subseteq [row : 1..Rows, why : SUBSET Causes]
      /\ Rows \in Nat
  BY DEF ReqInv, RequirementsTypeOK, Rows
<1>1. ASSUME NEW u \in Uploads, Compute(u) \/ UploadRefused(u) \/ UploadBreaks(u)
      PROVE  RequirementsTypeOK'
  <2>1. upload' \in [Uploads -> UploadRequest]
    <3>1. upload \in [Uploads -> UploadRequest]
      BY <1>0
    <3>2. CASE Compute(u)
      BY <3>1, <3>2 DEF Compute, UploadRequest
    <3>3. CASE UploadRefused(u) \/ UploadBreaks(u)
      BY <3>1, <3>3 DEF UploadRefused, UploadBreaks, UploadRequest
    <3> QED
      BY <1>1, <3>2, <3>3
  <2> QED
    BY <2>1, <1>0, <1>1 DEF Compute, UploadRefused, UploadBreaks, RequirementsTypeOK, Rows
<1>2. ASSUME NEW u \in Uploads, RecordUpload(u) PROVE RequirementsTypeOK'
  <2>1. upload' \in [Uploads -> UploadRequest]
    BY <1>0, <1>2 DEF RecordUpload, UploadRequest
  <2>2. upload[u].tx \in 1..Len(txs) /\ upload[u].value \in Values
    BY <1>2 DEF RecordUpload, ReqInv, RowsInOrder
  <2>3. /\ tariff_uploads' \in Seq([tx : 1..Len(txs), value : Nat])
        /\ Len(tariff_uploads') = Len(tariff_uploads) + 1
    <3>1. PICK v \in ToTheCent(upload[u].value) :
            tariff_uploads' = Append(tariff_uploads, [tx |-> upload[u].tx, value |-> v])
      BY <1>2 DEF RecordUpload
    <3>2. upload[u].value \in Nat
      BY <2>2, RequirementsAssumption
    <3>3. v \in Nat
      BY <3>2, CentIsNear
    <3>4. PICK row \in [tx : 1..Len(txs), value : Nat] :
            row = [tx |-> upload[u].tx, value |-> v]
      BY <2>2, <3>3
    <3> QED
      BY <1>0, <3>1, <3>4
  <2>4. 0..Rows \subseteq 0..Rows' /\ 1..Rows \subseteq 1..Rows'
    BY <1>0, <2>3 DEF Rows
  <2>5. verify \in [Verifiers -> [at : {"none", "chain"}, row : 0..Rows']]
        /\ oracle_alerts \subseteq [row : 1..Rows', why : SUBSET Causes]
    BY <1>0, <2>4
  <2> QED
    BY <2>1, <2>3, <2>5, <1>0, <1>2 DEF RecordUpload, RequirementsTypeOK
<1>3. ASSUME NEW d \in Disputes, StoreDispute(d) PROVE RequirementsTypeOK'
  <2>1. collateral_disputes' \in [Disputes -> Dispute]
    BY <1>0, <1>3 DEF StoreDispute, Dispute
  <2> QED
    BY <2>1, <1>0, <1>3 DEF StoreDispute, RequirementsTypeOK, Rows
<1>4. ASSUME NEW r \in Resolvers, NEW d \in Disputes, NEW accept \in BOOLEAN,
             AskResolve(r, d, accept)
      PROVE  RequirementsTypeOK'
  <2>1. resolve' \in [Resolvers -> ResolveRequest]
    BY <1>0, <1>4 DEF AskResolve, ResolveRequest
  <2> QED
    BY <2>1, <1>0, <1>4 DEF AskResolve, RequirementsTypeOK, Rows
<1>5. ASSUME NEW r \in Resolvers, ResolveRefused(r) \/ RecordResolve(r) \/ ResolveBreaks(r)
      PROVE  RequirementsTypeOK'
  <2>1. resolve' \in [Resolvers -> ResolveRequest] /\ resolve[r].tx \in Nat
    <3>1. resolve[r] \in ResolveRequest
      BY <1>0
    <3>2. PICK at \in {"refused", "done", "lost"} : resolve' = [resolve EXCEPT ![r].at = at]
      BY <1>5 DEF ResolveRefused, RecordResolve, ResolveBreaks
    <3>3. [resolve[r] EXCEPT !.at = at] \in ResolveRequest /\ resolve[r].tx \in Nat
      BY <3>1 DEF ResolveRequest
    <3> QED
      BY <1>0, <3>2, <3>3
  <2>2. collateral_disputes' \in [Disputes -> Dispute]
    BY <1>0, <1>5, <2>1 DEF ResolveRefused, RecordResolve, ResolveBreaks, Dispute
  <2> QED
    BY <2>1, <2>2, <1>0, <1>5
       DEF ResolveRefused, RecordResolve, ResolveBreaks, RequirementsTypeOK, Rows
<1>6. ASSUME NEW v \in Verifiers, ReadUpload(v) PROVE RequirementsTypeOK'
  <2>1. verify' \in [Verifiers -> [at : {"none", "chain"}, row : 0..Rows]]
    BY <1>0, <1>6 DEF ReadUpload
  <2> QED
    BY <2>1, <1>0, <1>6 DEF ReadUpload, RequirementsTypeOK, Rows
<1>7. ASSUME NEW v \in Verifiers, Compare(v) PROVE RequirementsTypeOK'
  <2>1. verify' \in [Verifiers -> [at : {"none", "chain"}, row : 0..Rows]]
    BY <1>0, <1>7 DEF Compare
  <2>2. Explanations(verify[v].row) \in SUBSET Causes
    BY DEF Explanations
  <2>3. verify[v].row \in 1..Rows
    BY <1>7 DEF Compare, ReqInv, RowRead
  <2>4. [row |-> verify[v].row, why |-> Explanations(verify[v].row)]
          \in [row : 1..Rows, why : SUBSET Causes]
    BY <2>2, <2>3
  <2>5. oracle_alerts' \subseteq oracle_alerts
          \cup {[row |-> verify[v].row, why |-> Explanations(verify[v].row)]}
    BY <1>7 DEF Compare
  <2>6. oracle_alerts' \subseteq [row : 1..Rows, why : SUBSET Causes]
    BY <1>0, <2>4, <2>5
  <2> QED
    BY <2>1, <2>6, <1>0, <1>7 DEF Compare, RequirementsTypeOK, Rows
<1> QED
  BY <1>1, <1>2, <1>3, <1>4, <1>5, <1>6, <1>7

-----------------------------------------------------------------------------

(* What stands is told by the transactions and the requirement alone. *)
LEMMA StandsKept ==
  ASSUME txs' = txs, account'.required_collateral = account.required_collateral,
         NEW n
  PROVE  Stands(n)' <=> Stands(n)
BY DEF Stands, Quiet

(* What stood does not stand any more, or nothing else was set. *)
LEMMA StandsThrough ==
  ASSUME RequirementsTypeOK, NEW t \in Tx, Lands(t),
         t.kind = "accept" => account'.required_collateral = account.required_collateral,
         NEW n \in 1..Len(txs), Stands(n)
  PROVE  Stands(n)'
<1>1. /\ Len(txs) \in Nat /\ Len(txs') = Len(txs) + 1 /\ txs'[Len(txs')] = t
      /\ \A i \in 1..Len(txs) : txs'[i] = txs[i]
  BY TxsGrow
<1>2. SUFFICES ASSUME Quiet(n)'
               PROVE  account'.required_collateral = Adjusted(txs'[n].asked, txs'[n].rate)
  BY DEF Stands, Adjusted
<1>3. Len(txs') \in (n + 1)..Len(txs') /\ t.kind = "accept"
  BY <1>1, <1>2 DEF Quiet
<1>4. Quiet(n)
  BY <1>1, <1>2 DEF Quiet
<1> QED
  BY <1>1, <1>3, <1>4 DEF Stands

LEMMA RequestsKept ==
  ASSUME ReqInv, [RequirementsNext]_requirementVars
  PROVE  TxsHaveRequests'
<1>0. /\ RequirementsTypeOK /\ TxsHaveRequests
      /\ upload \in [Uploads -> UploadRequest] /\ resolve \in [Resolvers -> ResolveRequest]
  BY DEF ReqInv, RequirementsTypeOK
<1>1. ASSUME txs' = txs,
             \A u \in Uploads : upload[u].at \in {"landed", "lost", "done"} =>
               /\ upload'[u].at \in {"landed", "lost", "done"}
               /\ upload'[u].tx = upload[u].tx,
             \A r \in Resolvers : resolve[r].at \in {"landed", "lost", "done"} =>
               /\ resolve'[r].at \in {"landed", "lost", "done"}
               /\ resolve'[r].tx = resolve[r].tx /\ resolve'[r].accept = resolve[r].accept
      PROVE  TxsHaveRequests'
  BY <1>0, <1>1 DEF TxsHaveRequests
<1>2. ASSUME NEW u \in Uploads, UploadLands(u) PROVE TxsHaveRequests'
  <2>1. PICK rate \in Rates, at \in {"landed", "lost"} :
          /\ Lands([kind |-> "set", asked |-> upload[u].value, rate |-> rate])
          /\ upload' = [upload EXCEPT ![u].at = at, ![u].tx = Len(txs')]
    BY <1>2 DEF UploadLands
  <2>2. PICK t \in Tx :
          t = [kind |-> "set", asked |-> upload[u].value, rate |-> rate] /\ Lands(t)
    BY <1>2, <2>1 DEF UploadLands, ReqInv, RowsInOrder, Tx
  <2>3. /\ Len(txs) \in Nat /\ Len(txs') = Len(txs) + 1 /\ txs'[Len(txs')] = t
        /\ \A i \in 1..Len(txs) : txs'[i] = txs[i]
    BY <1>0, <2>2, TxsGrow
  <2>4. /\ upload'[u].at = at /\ upload'[u].tx = Len(txs')
        /\ \A w \in Uploads \ {u} : upload'[w] = upload[w]
    BY <1>0, <2>1 DEF UploadRequest
  <2>5. upload[u].at = "submit" /\ resolve' = resolve
    BY <1>2 DEF UploadLands
  <2>6. ASSUME NEW n \in 1..Len(txs')
        PROVE  /\ txs'[n].kind = "set" =>
                    \E w \in Uploads : /\ upload'[w].at \in {"landed", "lost", "done"}
                                       /\ upload'[w].tx = n
               /\ txs'[n].kind = "reject" =>
                    \E r \in Resolvers : /\ resolve'[r].at \in {"landed", "lost", "done"}
                                         /\ resolve'[r].tx = n /\ ~resolve'[r].accept
    <3>1. CASE n = Len(txs')
      BY <2>2, <2>3, <2>4, <3>1
    <3>2. CASE n \in 1..Len(txs)
      BY <1>0, <2>3, <2>4, <2>5, <3>2 DEF TxsHaveRequests
    <3> QED
      BY <2>3, <3>1, <3>2
  <2> QED
    BY <2>6 DEF TxsHaveRequests
<1>3. ASSUME NEW r \in Resolvers, ResolveLands(r) PROVE TxsHaveRequests'
  <2>1. PICK at \in {"landed", "lost"} :
          resolve' = [resolve EXCEPT ![r].at = at, ![r].tx = Len(txs')]
    BY <1>3 DEF ResolveLands
  <2>2. PICK t \in Tx : /\ t = [kind |-> IF resolve[r].accept THEN "accept" ELSE "reject"]
                        /\ Lands(t)
    BY <1>3 DEF ResolveLands, ResolveDispute, Tx
  <2>3. /\ Len(txs) \in Nat /\ Len(txs') = Len(txs) + 1 /\ txs'[Len(txs')] = t
        /\ \A i \in 1..Len(txs) : txs'[i] = txs[i]
    BY <1>0, <2>2, TxsGrow
  <2>4. /\ resolve'[r].at = at /\ resolve'[r].tx = Len(txs')
        /\ resolve'[r].accept = resolve[r].accept
        /\ \A s \in Resolvers \ {r} : resolve'[s] = resolve[s]
    BY <1>0, <2>1 DEF ResolveRequest
  <2>5. resolve[r].at = "submit" /\ upload' = upload
    BY <1>3 DEF ResolveLands
  <2>6. ASSUME NEW n \in 1..Len(txs')
        PROVE  /\ txs'[n].kind = "set" =>
                    \E w \in Uploads : /\ upload'[w].at \in {"landed", "lost", "done"}
                                       /\ upload'[w].tx = n
               /\ txs'[n].kind = "reject" =>
                    \E s \in Resolvers : /\ resolve'[s].at \in {"landed", "lost", "done"}
                                         /\ resolve'[s].tx = n /\ ~resolve'[s].accept
    <3>1. CASE n = Len(txs')
      BY <2>2, <2>3, <2>4, <3>1
    <3>2. CASE n \in 1..Len(txs)
      BY <1>0, <2>3, <2>4, <2>5, <3>2 DEF TxsHaveRequests
    <3> QED
      BY <2>3, <3>1, <3>2
  <2> QED
    BY <2>6 DEF TxsHaveRequests
<1>4. ASSUME NEW u \in Uploads, RecordUpload(u) \/ UploadBreaks(u)
      PROVE  TxsHaveRequests'
  <2>1. PICK at \in {"done", "lost"} : upload' = [upload EXCEPT ![u].at = at]
    BY <1>4 DEF RecordUpload, UploadBreaks
  <2>2. /\ upload'[u].at = at /\ upload'[u].tx = upload[u].tx
        /\ \A w \in Uploads \ {u} : upload'[w] = upload[w]
    BY <1>0, <2>1 DEF UploadRequest
  <2>3. UNCHANGED <<txs, resolve>>
    BY <1>4 DEF RecordUpload, UploadBreaks
  <2> QED
    BY <1>1, <2>1, <2>2, <2>3
<1>5. ASSUME NEW u \in Uploads, Compute(u) \/ UploadRefused(u) PROVE TxsHaveRequests'
  <2>1. /\ upload[u].at \in {"none", "submit"} /\ \A w \in Uploads \ {u} : upload'[w] = upload[w]
        /\ UNCHANGED <<txs, resolve>>
    BY <1>0, <1>5 DEF Compute, UploadRefused
  <2> QED
    BY <1>1, <2>1
<1>6. ASSUME NEW r \in Resolvers, ResolveRefused(r) \/ RecordResolve(r) \/ ResolveBreaks(r)
      PROVE  TxsHaveRequests'
  <2>1. PICK at \in {"refused", "done", "lost"} :
          /\ resolve' = [resolve EXCEPT ![r].at = at]
          /\ at = "refused" => resolve[r].at = "submit"
    BY <1>6 DEF ResolveRefused, RecordResolve, ResolveBreaks
  <2>2. /\ resolve'[r].at = at /\ resolve'[r].tx = resolve[r].tx
        /\ resolve'[r].accept = resolve[r].accept
        /\ \A s \in Resolvers \ {r} : resolve'[s] = resolve[s]
    BY <1>0, <2>1 DEF ResolveRequest
  <2>3. UNCHANGED <<txs, upload>>
    BY <1>6 DEF ResolveRefused, RecordResolve, ResolveBreaks
  <2> QED
    BY <1>1, <2>1, <2>2, <2>3
<1>7. ASSUME NEW r \in Resolvers, NEW d \in Disputes, NEW accept \in BOOLEAN,
             AskResolve(r, d, accept)
      PROVE  TxsHaveRequests'
  <2>1. /\ resolve[r].at = "none" /\ \A s \in Resolvers \ {r} : resolve'[s] = resolve[s]
        /\ UNCHANGED <<txs, upload>>
    BY <1>0, <1>7 DEF AskResolve
  <2> QED
    BY <1>1, <2>1
<1>8. CASE UNCHANGED <<txs, upload, resolve>>
  BY <1>1, <1>8
<1>9. ASSUME NEW required \in Values, NEW rate \in Rates, Override(required, rate)
      PROVE  TxsHaveRequests'
  <2>1. PICK t \in Tx : t = [kind |-> "override"] /\ Lands(t)
    BY <1>9 DEF Override, Tx
  <2>2. /\ Len(txs) \in Nat /\ Len(txs') = Len(txs) + 1 /\ txs'[Len(txs')].kind = "override"
        /\ \A i \in 1..Len(txs) : txs'[i] = txs[i]
    BY <1>0, <2>1, TxsGrow
  <2>3. UNCHANGED <<upload, resolve>>
    BY <1>9 DEF Override
  <2> QED
    BY <1>0, <2>2, <2>3 DEF TxsHaveRequests
<1> QED
  BY <1>2, <1>3, <1>4, <1>5, <1>6, <1>7, <1>8, <1>9
     DEF RequirementsNext, DayEnds, RaiseDispute, StoreDispute, ReadUpload, Compare,
         requirementVars

(* Nothing lands, and no row is stored. *)
LEMMA RowsKept ==
  ASSUME ReqInv, UNCHANGED <<txs, tariff_uploads>>,
         account'.required_collateral = account.required_collateral,
         \A u \in Uploads : upload'[u].at = "landed" =>
           /\ upload[u].at = "landed" /\ upload'[u] = upload[u]
           /\ account'.oracle_last_updated = account.oracle_last_updated /\ day' = day,
         \A u \in Uploads :
           /\ upload'[u].at = "submit" => upload'[u].value \in Values
           /\ upload'[u].at = "done" =>
                upload[u].at = "done" /\ upload'[u].tx = upload[u].tx
  PROVE  RowsInOrder'
<1>1. Rows' = Rows /\ RowsInOrder
  BY DEF Rows, ReqInv
<1>2. \A n : Stands(n)' <=> Stands(n)
  BY StandsKept
<1> QED
  BY <1>1, <1>2 DEF RowsInOrder, Near

(* Rows through a transaction that lands. *)
RowsLast ==
  /\ Rows' = Rows
  /\ \A k \in 1..Rows : /\ tariff_uploads[k].tx \in 1..Len(txs)
                        /\ txs'[tariff_uploads[k].tx].kind = "set"
                        /\ Stands(tariff_uploads[k].tx)'
                        /\ Near(tariff_uploads[k].tx, tariff_uploads[k].value)'

LEMMA RowsThrough ==
  ASSUME ReqInv, NEW t \in Tx, Lands(t), UNCHANGED tariff_uploads,
         t.kind = "accept" => account'.required_collateral = account.required_collateral
  PROVE  RowsLast /\ \A n \in 1..Len(txs) : Stands(n) => Stands(n)'
<1>1. /\ RequirementsTypeOK /\ RowsInOrder /\ Rows' = Rows
      /\ tariff_uploads \in Seq([tx : 1..Len(txs), value : Nat])
  BY DEF ReqInv, RequirementsTypeOK, Rows
<1>2. \A i \in 1..Len(txs) : txs'[i] = txs[i]
  BY <1>1, TxsGrow
<1>3. \A n \in 1..Len(txs) : Stands(n) => Stands(n)'
  BY <1>1, StandsThrough
<1>4. ASSUME NEW k \in 1..Rows
      PROVE  /\ tariff_uploads[k].tx \in 1..Len(txs)
             /\ txs'[tariff_uploads[k].tx].kind = "set"
             /\ Stands(tariff_uploads[k].tx)'
             /\ Near(tariff_uploads[k].tx, tariff_uploads[k].value)'
  <2>1. PICK n \in 1..Len(txs), value \in Nat :
          n = tariff_uploads[k].tx /\ value = tariff_uploads[k].value
    <3>1. tariff_uploads[k] \in [tx : 1..Len(txs), value : Nat]
      BY <1>1, ElementOfSeq DEF Rows
    <3> QED
      BY <3>1
  <2>2. txs[n].kind = "set" /\ Stands(n) /\ Near(n, value)
    BY <1>1, <2>1 DEF RowsInOrder
  <2>3. Stands(n)' /\ Near(n, value)'
    BY <1>2, <1>3, <2>2 DEF Near
  <2>4. n = tariff_uploads'[k].tx /\ value = tariff_uploads'[k].value
    BY <2>1
  <2> QED
    BY <1>2, <2>1, <2>2, <2>3, <2>4
<1> QED
  BY <1>1, <1>3, <1>4 DEF RowsLast

LEMMA RowsStayInOrder ==
  ASSUME ReqInv, [RequirementsNext]_requirementVars
  PROVE  RowsInOrder'
<1>0. /\ RequirementsTypeOK /\ RowsInOrder /\ account \in Account
      /\ upload \in [Uploads -> UploadRequest] /\ Rows \in Nat
      /\ tariff_uploads \in Seq([tx : 1..Len(txs), value : Nat])
      /\ day \in Nat \ {0}
  BY RequirementsAssumption DEF ReqInv, RequirementsTypeOK, Rows
<1>1. ASSUME NEW u \in Uploads, UploadLands(u) PROVE RowsInOrder'
  <2>1. PICK rate \in Rates, at \in {"landed", "lost"} :
          /\ SetRequiredCollateral(upload[u].value, rate)
          /\ Lands([kind |-> "set", asked |-> upload[u].value, rate |-> rate])
          /\ upload' = [upload EXCEPT ![u].at = at, ![u].tx = Len(txs')]
    BY <1>1 DEF UploadLands
  <2>2. upload[u].at = "submit" /\ upload[u].value \in Values
    BY <1>0, <1>1 DEF UploadLands, RowsInOrder
  <2>3. PICK t \in Tx :
          t = [kind |-> "set", asked |-> upload[u].value, rate |-> rate] /\ Lands(t)
    BY <2>1, <2>2 DEF Tx
  <2>4. PICK n \in Nat :
          /\ n = Len(txs') /\ n = Len(txs) + 1 /\ Len(txs) \in Nat /\ txs'[n] = t
          /\ \A i \in 1..Len(txs) : txs'[i] = txs[i]
    BY <1>0, <2>3, TxsGrow
  <2>5. /\ upload'[u].at = at /\ upload'[u].tx = n /\ upload'[u].value = upload[u].value
        /\ \A w \in Uploads \ {u} : upload'[w] = upload[w]
        /\ UNCHANGED <<day, tariff_uploads>>
    BY <1>0, <1>1, <2>1, <2>4 DEF UploadLands, UploadRequest
  <2>6. \A w \in Uploads : upload[w].at # "landed"
    <3>1. account.oracle_last_updated # day
      BY <1>0, <1>1, RequirementsAssumption DEF UploadLands, CooledDown
    <3> QED
      BY <1>0, <3>1 DEF RowsInOrder
  <2>7. RowsLast
    BY <2>3, <2>5, RowsThrough
  <2>8. /\ account'.oracle_last_updated = day
        /\ account'.required_collateral = Adjusted(upload[u].value, rate)
    BY <1>0, <2>1, <2>2, AccountSet
  <2>9. Stands(n)' /\ txs'[n].kind = "set" /\ txs'[n].asked = upload[u].value
    <3>1. txs'[n].kind = "set" /\ txs'[n].asked = upload[u].value /\ txs'[n].rate = rate
      BY <2>3, <2>4
    <3>2. account'.required_collateral = Adjusted(txs'[n].asked, txs'[n].rate)
      BY <2>8, <3>1
    <3> QED
      BY <3>1, <3>2 DEF Stands, Adjusted
  <2>10. \A w \in Uploads : upload'[w].at \in {"submit", "landed", "done"} =>
           \/ w # u /\ upload'[w] = upload[w] /\ upload[w].at \in {"submit", "done"}
           \/ w = u /\ upload'[w].at = "landed"
    BY <2>5, <2>6
  <2>11. ASSUME NEW w \in Uploads, upload'[w].at = "landed"
         PROVE  /\ account'.oracle_last_updated = day'
                /\ upload'[w].tx \in 1..Len(txs') /\ upload'[w].value \in Values
                /\ txs'[upload'[w].tx].kind = "set"
                /\ txs'[upload'[w].tx].asked = upload'[w].value
                /\ Stands(upload[w].tx)'
                /\ \A k \in 1..Rows' : tariff_uploads'[k].tx < upload'[w].tx
                /\ \A x \in Uploads : upload'[x].at = "landed" => x = w
    <3>1. w = u
      BY <2>10, <2>11
    <3>2. Stands(upload[w].tx)'
      <4>1. n = upload'[w].tx
        BY <2>5, <3>1
      <4> QED
        BY <2>9, <4>1
    <3>3. /\ upload'[w].tx = n /\ n \in 1..Len(txs') /\ upload'[w].value = upload[u].value
      BY <2>4, <2>5, <3>1
    <3>4. \A k \in 1..Rows' : tariff_uploads'[k].tx < n
      BY <2>4, <2>5, <2>7 DEF RowsLast
    <3> QED
      BY <2>2, <2>5, <2>8, <2>9, <2>10, <3>1, <3>2, <3>3, <3>4
  <2>12. \A j, k \in 1..Rows' : j < k => tariff_uploads'[j].tx < tariff_uploads'[k].tx
    BY <1>0, <2>5, <2>7 DEF RowsInOrder, RowsLast
  <2>13. ASSUME NEW w \in Uploads
         PROVE  /\ upload'[w].at = "submit" => upload'[w].value \in Values
                /\ upload'[w].at = "done" =>
                     \E k \in 1..Rows' : tariff_uploads'[k].tx = upload'[w].tx
    <3>1. Rows' = Rows /\ tariff_uploads' = tariff_uploads
      BY <2>5, <2>7 DEF RowsLast
    <3>2. /\ upload[w].at = "submit" => upload[w].value \in Values
          /\ upload[w].at = "done" => \E k \in 1..Rows : tariff_uploads[k].tx = upload[w].tx
      BY <1>0 DEF RowsInOrder
    <3>3. upload'[w].at \in {"submit", "done"} => upload'[w] = upload[w]
      BY <2>10
    <3> QED
      BY <3>1, <3>2, <3>3
  <2>14. \A k \in 1..Rows' : /\ txs'[tariff_uploads'[k].tx].kind = "set"
                            /\ Stands(tariff_uploads[k].tx)'
                            /\ Near(tariff_uploads[k].tx, tariff_uploads[k].value)'
    BY <2>5, <2>7 DEF RowsLast
  <2> QED
    BY <2>11, <2>12, <2>13, <2>14 DEF RowsInOrder
<1>2. ASSUME NEW r \in Resolvers, ResolveLands(r) PROVE RowsInOrder'
  <2>1. PICK t \in Tx : /\ t.kind = IF resolve[r].accept THEN "accept" ELSE "reject"
                        /\ Lands(t)
    BY <1>2 DEF ResolveLands, ResolveDispute, Tx
  <2>2. /\ t.kind = "accept" => account'.required_collateral = account.required_collateral
        /\ account'.oracle_last_updated = account.oracle_last_updated
        /\ UNCHANGED <<day, upload, tariff_uploads>>
    BY <1>0, <1>2, <2>1 DEF ResolveLands, ResolveDispute, Account
  <2>3. RowsLast /\ \A n \in 1..Len(txs) : Stands(n) => Stands(n)'
    BY <2>1, <2>2, RowsThrough
  <2>4. /\ Len(txs) \in Nat /\ Len(txs') = Len(txs) + 1
        /\ \A i \in 1..Len(txs) : txs'[i] = txs[i]
    BY <1>0, <2>1, TxsGrow
  <2>5. ASSUME NEW u \in Uploads, upload[u].at = "landed"
        PROVE  /\ upload[u].tx \in 1..Len(txs') /\ txs'[upload[u].tx].kind = "set"
               /\ txs'[upload[u].tx].asked = upload[u].value /\ Stands(upload[u].tx)'
    <3>1. PICK n \in 1..Len(txs) : n = upload[u].tx
      BY <1>0, <2>5 DEF RowsInOrder
    <3>2. txs[n].kind = "set" /\ txs[n].asked = upload[u].value /\ Stands(n)
      BY <1>0, <2>5, <3>1 DEF RowsInOrder
    <3>3. Stands(n)'
      BY <2>3, <3>2
    <3>4. n = upload'[u].tx
      BY <2>2, <3>1
    <3> QED
      BY <2>4, <3>1, <3>2, <3>3, <3>4
  <2> QED
    BY <1>0, <2>2, <2>3, <2>5 DEF RowsInOrder, RowsLast
<1>3. ASSUME NEW u \in Uploads, RecordUpload(u) PROVE RowsInOrder'
  <2>1. /\ upload[u].at = "landed" /\ upload'[u].at = "done"
        /\ upload'[u].tx = upload[u].tx
        /\ \A w \in Uploads \ {u} : upload'[w] = upload[w]
        /\ UNCHANGED <<day, account, txs>>
    BY <1>0, <1>3 DEF RecordUpload, UploadRequest
  <2>2. PICK n \in 1..Len(txs), value \in Values :
          /\ n = upload[u].tx /\ value = upload[u].value
          /\ txs[n].kind = "set" /\ txs[n].asked = value /\ Stands(n)
          /\ \A k \in 1..Rows : tariff_uploads[k].tx < n
          /\ \A w \in Uploads : upload[w].at = "landed" => w = u
    BY <1>0, <2>1 DEF RowsInOrder
  <2>3. PICK v \in Nat :
          /\ 2 * Gap(v, value) <= CENT
          /\ Rows' = Rows + 1 /\ tariff_uploads'[Rows + 1] = [tx |-> n, value |-> v]
          /\ \A k \in 1..Rows : tariff_uploads'[k] = tariff_uploads[k]
    <3>1. PICK v \in ToTheCent(value) :
            tariff_uploads' = Append(tariff_uploads, [tx |-> n, value |-> v])
      BY <1>3, <2>2 DEF RecordUpload
    <3>2. v \in Nat /\ 2 * Gap(v, value) <= CENT
      BY CentIsNear, RequirementsAssumption
    <3>3. /\ Rows' = Rows + 1 /\ tariff_uploads'[Rows + 1] = [tx |-> n, value |-> v]
          /\ \A k \in 1..Rows : tariff_uploads'[k] = tariff_uploads[k]
      BY <1>0, <3>1 DEF Rows
    <3> QED
      BY <3>2, <3>3
  <2>4. \A w \in Uploads : upload'[w].at # "landed"
    BY <2>1, <2>2
  <2>5. \A m, x : (Stands(m)' <=> Stands(m)) /\ (Near(m, x)' <=> 2 * Gap(x, txs[m].asked) <= CENT)
    BY <2>1, StandsKept DEF Near
  <2>6. ASSUME NEW k \in 1..Rows'
        PROVE  /\ txs'[tariff_uploads'[k].tx].kind = "set"
               /\ Stands(tariff_uploads[k].tx)'
               /\ Near(tariff_uploads[k].tx, tariff_uploads[k].value)'
               /\ \A j \in 1..Rows' : j < k => tariff_uploads'[j].tx < tariff_uploads'[k].tx
    <3>1. CASE k = Rows + 1
      <4>1. tariff_uploads'[k].tx = n /\ tariff_uploads'[k].value = v
        BY <2>3, <3>1
      <4>2. Stands(n)' /\ Near(n, v)'
        BY <2>2, <2>3, <2>5
      <4>3. txs'[n].kind = "set"
        BY <2>1, <2>2
      <4>4. ASSUME NEW j \in 1..Rows', j < k
            PROVE  tariff_uploads'[j].tx < tariff_uploads'[k].tx
        <5>1. j \in 1..Rows
          BY <1>0, <2>3, <3>1, <4>4
        <5> QED
          BY <2>2, <2>3, <4>1, <5>1
      <4> QED
        BY <4>1, <4>2, <4>3, <4>4
    <3>2. CASE k \in 1..Rows
      <4>1. PICK m, x : /\ tariff_uploads[k].tx = m /\ tariff_uploads[k].value = x
                        /\ tariff_uploads'[k].tx = m /\ tariff_uploads'[k].value = x
        BY <2>3, <3>2
      <4>2. Stands(m) /\ Near(m, x) /\ txs[m].kind = "set"
        BY <1>0, <3>2, <4>1 DEF RowsInOrder
      <4>3. Stands(m)' /\ Near(m, x)' /\ txs'[m].kind = "set"
        BY <2>1, <2>5, <4>2 DEF Near
      <4>4. ASSUME NEW j \in 1..Rows', j < k
            PROVE  tariff_uploads'[j].tx < tariff_uploads'[k].tx
        <5>1. j \in 1..Rows
          BY <1>0, <2>3, <3>2, <4>4
        <5> QED
          BY <1>0, <2>3, <3>2, <4>4, <5>1 DEF RowsInOrder
      <4> QED
        BY <4>1, <4>3, <4>4
    <3> QED
      BY <1>0, <2>3, <3>1, <3>2
  <2>7. ASSUME NEW w \in Uploads, upload'[w].at = "done"
        PROVE  \E k \in 1..Rows' : tariff_uploads'[k].tx = upload'[w].tx
    <3>1. CASE w = u
      BY <1>0, <2>1, <2>2, <2>3, <3>1
    <3>2. CASE w # u
      <4>0. upload[w] = upload'[w]
        BY <1>0, <2>1, <3>2
      <4>1. PICK k \in 1..Rows : tariff_uploads[k].tx = upload[w].tx
        BY <1>0, <2>7, <4>0 DEF RowsInOrder
      <4>2. k \in 1..Rows' /\ tariff_uploads'[k] = tariff_uploads[k]
        BY <1>0, <2>3
      <4> QED
        BY <4>0, <4>1, <4>2
    <3> QED
      BY <3>1, <3>2
  <2>8. \A w \in Uploads : upload'[w].at = "submit" => upload'[w].value \in Values
    BY <1>0, <2>1 DEF RowsInOrder
  <2> QED
    BY <2>4, <2>6, <2>7, <2>8 DEF RowsInOrder
<1>4. ASSUME NEW u \in Uploads, Compute(u) \/ UploadRefused(u) \/ UploadBreaks(u)
      PROVE  RowsInOrder'
  <2>1. /\ upload'[u].at \in {"submit", "refused", "lost"}
        /\ upload'[u].at = "submit" => upload'[u].value \in Values
        /\ \A w \in Uploads \ {u} : upload'[w] = upload[w]
        /\ UNCHANGED <<day, account, txs, tariff_uploads>>
    BY <1>0, <1>4 DEF Compute, UploadRefused, UploadBreaks, UploadRequest
  <2> QED
    BY <1>0, <2>1, RowsKept DEF RowsInOrder
<1>5. CASE RaiseDispute
  <2>1. /\ account'.required_collateral = account.required_collateral
        /\ account'.oracle_last_updated = account.oracle_last_updated
        /\ UNCHANGED <<day, txs, upload, tariff_uploads>>
    BY <1>0, <1>5 DEF RaiseDispute, Account
  <2> QED
    BY <1>0, <2>1, RowsKept DEF RowsInOrder
<1>6. CASE DayEnds
  <2>1. /\ UNCHANGED <<account, txs, upload, tariff_uploads>>
        /\ \A u \in Uploads : upload[u].at # "landed"
    BY <1>6 DEF DayEnds
  <2> QED
    BY <1>0, <2>1, RowsKept DEF RowsInOrder
<1>7. CASE UNCHANGED <<day, account, txs, upload, tariff_uploads>>
  BY <1>0, <1>7, RowsKept DEF RowsInOrder
<1>8. ASSUME NEW required \in Values, NEW rate \in Rates, Override(required, rate)
      PROVE  RowsInOrder'
  <2>1. PICK t \in Tx : t.kind = "override" /\ Lands(t)
    BY <1>8 DEF Override, Tx
  <2>2. /\ account'.oracle_last_updated = day /\ UNCHANGED <<day, upload, tariff_uploads>>
    BY <1>0, <1>8, AccountSet DEF Override
  <2>3. RowsLast /\ \A n \in 1..Len(txs) : Stands(n) => Stands(n)'
    BY <2>1, <2>2, RowsThrough
  <2>4. /\ Len(txs) \in Nat /\ Len(txs') = Len(txs) + 1
        /\ \A i \in 1..Len(txs) : txs'[i] = txs[i]
    BY <1>0, <2>1, TxsGrow
  <2>5. ASSUME NEW u \in Uploads, upload[u].at = "landed"
        PROVE  /\ upload[u].tx \in 1..Len(txs') /\ txs'[upload[u].tx].kind = "set"
               /\ txs'[upload[u].tx].asked = upload[u].value /\ Stands(upload[u].tx)'
    <3>1. PICK n \in 1..Len(txs) : n = upload[u].tx
      BY <1>0, <2>5 DEF RowsInOrder
    <3>2. txs[n].kind = "set" /\ txs[n].asked = upload[u].value /\ Stands(n)
      BY <1>0, <2>5, <3>1 DEF RowsInOrder
    <3>3. Stands(n)'
      BY <2>3, <3>2
    <3>4. n = upload'[u].tx
      BY <2>2, <3>1
    <3> QED
      BY <2>4, <3>1, <3>2, <3>3, <3>4
  <2> QED
    BY <1>0, <2>2, <2>3, <2>5 DEF RowsInOrder, RowsLast
<1> QED
  BY <1>1, <1>2, <1>3, <1>4, <1>5, <1>6, <1>7, <1>8
     DEF RequirementsNext, StoreDispute, AskResolve, ResolveRefused, RecordResolve,
         ResolveBreaks, ReadUpload, Compare, requirementVars

LEMMA ResolutionsStay ==
  ASSUME ReqInv, [RequirementsNext]_requirementVars
  PROVE  ResolutionsShow'
<1>0. /\ ResolutionsShow /\ resolve \in [Resolvers -> ResolveRequest]
      /\ collateral_disputes \in [Disputes -> Dispute]
  BY DEF ReqInv, RequirementsTypeOK
<1>1. ASSUME NEW r \in Resolvers, NEW d \in Disputes,
             resolve[r].at # "done", resolve'[r].at # "done",
             resolve'[r].row = {d}, collateral_disputes[d].status # "none",
             \A s \in Resolvers \ {r} : resolve'[s] = resolve[s],
             UNCHANGED collateral_disputes
      PROVE  ResolutionsShow'
  <2>1. ASSUME NEW s \in Resolvers, resolve'[s].at # "none"
        PROVE  \E e \in Disputes :
                 /\ resolve'[s].row = {e} /\ collateral_disputes'[e].status # "none"
                 /\ resolve'[s].at = "done" =>
                      \/ \E q \in Resolvers \ {s} : resolve'[q].at = "done" /\ resolve'[q].row = {e}
                      \/ collateral_disputes'[e] =
                           [status |-> IF resolve'[s].accept THEN "resolved_accepted"
                                                             ELSE "resolved_rejected",
                            tx |-> resolve'[s].tx]
    <3>1. CASE s = r
      BY <1>1, <3>1
    <3>2. CASE s # r
      <4>1. PICK e \in Disputes :
              /\ resolve[s].row = {e} /\ collateral_disputes[e].status # "none"
              /\ resolve[s].at = "done" =>
                   \/ \E q \in Resolvers \ {s} : resolve[q].at = "done" /\ resolve[q].row = {e}
                   \/ collateral_disputes[e] =
                        [status |-> IF resolve[s].accept THEN "resolved_accepted"
                                                         ELSE "resolved_rejected",
                         tx |-> resolve[s].tx]
        BY <1>0, <1>1, <2>1, <3>2 DEF ResolutionsShow
      <4>2. ASSUME NEW q \in Resolvers \ {s}, resolve[q].at = "done", resolve[q].row = {e}
            PROVE  resolve'[q].at = "done" /\ resolve'[q].row = {e}
        BY <1>1, <4>2
      <4>3. resolve'[s] = resolve[s] /\ collateral_disputes' = collateral_disputes
        BY <1>1, <3>2
      <4> QED
        BY <4>1, <4>2, <4>3
    <3> QED
      BY <3>1, <3>2
  <2> QED
    BY <2>1 DEF ResolutionsShow
<1>2. ASSUME NEW r \in Resolvers, ResolveLands(r) \/ ResolveRefused(r) \/ ResolveBreaks(r)
      PROVE  ResolutionsShow'
  <2>1. /\ resolve'[r].at \in {"landed", "lost", "refused"}
        /\ resolve'[r].row = resolve[r].row
        /\ \A s \in Resolvers \ {r} : resolve'[s] = resolve[s]
    BY <1>0, <1>2 DEF ResolveLands, ResolveRefused, ResolveBreaks, ResolveRequest
  <2>2. resolve[r].at \notin {"none", "done"} /\ UNCHANGED collateral_disputes
    BY <1>2 DEF ResolveLands, ResolveRefused, ResolveBreaks
  <2>3. PICK d \in Disputes : resolve[r].row = {d} /\ collateral_disputes[d].status # "none"
    BY <1>0, <2>2 DEF ResolutionsShow
  <2> QED
    BY <1>1, <2>1, <2>2, <2>3
<1>3. ASSUME NEW r \in Resolvers, NEW d \in Disputes, NEW accept \in BOOLEAN,
             AskResolve(r, d, accept)
      PROVE  ResolutionsShow'
  <2>1. /\ resolve'[r].at = "submit" /\ resolve'[r].row = {d} /\ resolve[r].at = "none"
        /\ collateral_disputes[d].status = "open" /\ UNCHANGED collateral_disputes
        /\ \A s \in Resolvers \ {r} : resolve'[s] = resolve[s]
    BY <1>0, <1>3 DEF AskResolve
  <2> QED
    BY <1>1, <2>1
<1>4. ASSUME NEW r \in Resolvers, RecordResolve(r) PROVE ResolutionsShow'
  <2>1. PICK d \in Disputes : resolve[r].row = {d} /\ collateral_disputes[d].status # "none"
    BY <1>0, <1>4 DEF RecordResolve, ResolutionsShow
  <2>2. /\ resolve[r].at = "landed" /\ resolve'[r].at = "done"
        /\ resolve'[r].row = {d} /\ resolve'[r].accept = resolve[r].accept
        /\ resolve'[r].tx = resolve[r].tx
        /\ \A s \in Resolvers \ {r} : resolve'[s] = resolve[s]
    BY <1>0, <1>4, <2>1 DEF RecordResolve, ResolveRequest
  <2>3. /\ collateral_disputes'[d] =
             [status |-> IF resolve[r].accept THEN "resolved_accepted" ELSE "resolved_rejected",
              tx |-> resolve[r].tx]
        /\ \A e \in Disputes \ {d} : collateral_disputes'[e] = collateral_disputes[e]
    BY <1>4, <2>1 DEF RecordResolve
  <2>4. collateral_disputes'[d].status # "none"
    BY <2>3
  <2>5. ASSUME NEW s \in Resolvers, resolve'[s].at # "none"
        PROVE  \E e \in Disputes :
                 /\ resolve'[s].row = {e} /\ collateral_disputes'[e].status # "none"
                 /\ resolve'[s].at = "done" =>
                      \/ \E q \in Resolvers \ {s} : resolve'[q].at = "done" /\ resolve'[q].row = {e}
                      \/ collateral_disputes'[e] =
                           [status |-> IF resolve'[s].accept THEN "resolved_accepted"
                                                             ELSE "resolved_rejected",
                            tx |-> resolve'[s].tx]
    <3>1. CASE s = r
      BY <2>2, <2>3, <2>4, <3>1
    <3>2. CASE s # r
      <4>1. PICK e \in Disputes :
              /\ resolve[s].row = {e} /\ collateral_disputes[e].status # "none"
              /\ resolve[s].at = "done" =>
                   \/ \E q \in Resolvers \ {s} : resolve[q].at = "done" /\ resolve[q].row = {e}
                   \/ collateral_disputes[e] =
                        [status |-> IF resolve[s].accept THEN "resolved_accepted"
                                                         ELSE "resolved_rejected",
                         tx |-> resolve[s].tx]
        BY <1>0, <2>2, <2>5, <3>2 DEF ResolutionsShow
      <4>2. CASE e = d
        BY <2>2, <2>4, <3>2, <4>1, <4>2
      <4>3. CASE e # d
        BY <2>2, <2>3, <3>2, <4>1, <4>3
      <4> QED
        BY <4>2, <4>3
    <3> QED
      BY <3>1, <3>2
  <2> QED
    BY <2>5 DEF ResolutionsShow
<1>5. ASSUME NEW d \in Disputes, StoreDispute(d) PROVE ResolutionsShow'
  <2>1. /\ collateral_disputes[d].status = "none" /\ UNCHANGED resolve
        /\ \A e \in Disputes \ {d} : collateral_disputes'[e] = collateral_disputes[e]
    BY <1>0, <1>5 DEF StoreDispute
  <2> QED
    BY SMTT(20), <1>0, <2>1 DEF ResolutionsShow
<1>6. CASE UNCHANGED <<resolve, collateral_disputes>>
  BY SMTT(20), <1>0, <1>6 DEF ResolutionsShow
<1> QED
  BY <1>2, <1>3, <1>4, <1>5, <1>6
     DEF RequirementsNext, DayEnds, RaiseDispute, Override, Compute, UploadLands, UploadRefused,
         RecordUpload, UploadBreaks, ReadUpload, Compare, requirementVars

LEMMA RowStaysRead ==
  ASSUME ReqInv, [RequirementsNext]_requirementVars
  PROVE  RowRead'
<1>0. /\ RowRead /\ Rows \in Nat
      /\ verify \in [Verifiers -> [at : {"none", "chain"}, row : 0..Rows]]
  BY DEF ReqInv, RequirementsTypeOK, Rows
<1>1. ASSUME NEW v \in Verifiers, ReadUpload(v) \/ Compare(v) PROVE RowRead'
  <2>1. Rows' = Rows
    BY <1>1 DEF ReadUpload, Compare, Rows
  <2> QED
    BY <1>0, <1>1, <2>1 DEF ReadUpload, Compare, RowRead
<1>2. ASSUME NEW u \in Uploads, RecordUpload(u) PROVE RowRead'
  <2>1. Rows' = Rows + 1 /\ verify' = verify
    BY <1>2 DEF RecordUpload, Rows, ReqInv, RequirementsTypeOK
  <2> QED
    BY <1>0, <2>1 DEF RowRead
<1>3. CASE UNCHANGED <<verify, tariff_uploads>>
  BY <1>0, <1>3 DEF RowRead, Rows
<1> QED
  BY <1>1, <1>2, <1>3
     DEF RequirementsNext, DayEnds, RaiseDispute, Override, Compute, UploadLands, UploadRefused,
         UploadBreaks, StoreDispute, AskResolve, ResolveLands, ResolveRefused,
         RecordResolve, ResolveBreaks, requirementVars

(* A difference from a row that nothing explains would be a requirement that *)
(* nobody set.                                                               *)
LEMMA DifferenceExplained ==
  ASSUME ReqInv, NEW k \in 1..Rows, Explanations(k) = {}
  PROVE  Matches(tariff_uploads[k].value, account.required_collateral)
<1>0. /\ RequirementsTypeOK /\ RowsInOrder /\ TxsHaveRequests /\ ResolutionsShow
      /\ tariff_uploads \in Seq([tx : 1..Len(txs), value : Nat])
      /\ txs \in Seq(Tx) /\ Len(txs) \in Nat /\ Rows \in Nat
  BY DEF ReqInv, RequirementsTypeOK, Rows
<1>1. PICK n \in 1..Len(txs), value \in Nat :
        n = tariff_uploads[k].tx /\ value = tariff_uploads[k].value
  <2>1. tariff_uploads[k] \in [tx : 1..Len(txs), value : Nat]
    BY <1>0, ElementOfSeq DEF Rows
  <2> QED
    BY <2>1, RequirementsAssumption
<1>2. "newer upload" \notin Explanations(k) /\ "unrecorded upload" \notin Explanations(k)
      /\ "token price" \notin Explanations(k) /\ "resolved twice" \notin Explanations(k)
      /\ "dispute rejected" \notin Explanations(k) /\ "duty to the cent" \notin Explanations(k)
      /\ "set without a row" \notin Explanations(k)
  OBVIOUS
<1>3. ~ (Rows > k)
  BY <1>2 DEF Explanations, Causes
<1>4. \A u \in Uploads : upload[u].at \in {"landed", "lost"} => ~ (upload[u].tx > n)
  BY <1>1, <1>2 DEF Explanations, Causes
<1>5. txs[n].rate = 100
  BY <1>1, <1>2 DEF Explanations, Causes
<1>6. \A r, s \in Resolvers : resolve[r].at = "done" /\ resolve[s].at = "done"
        /\ resolve[r].row = resolve[s].row => r = s
  BY <1>2 DEF Explanations, Causes
<1>7. /\ \A r \in Resolvers : resolve[r].at \in {"landed", "lost"} /\ resolve[r].tx > n
                               => resolve[r].accept
      /\ \A d \in Disputes : collateral_disputes[d].status = "resolved_rejected"
                               => ~ (collateral_disputes[d].tx > n)
  BY <1>1, <1>2 DEF Explanations, Causes
<1>8. k = Rows
  BY <1>0, <1>3
<1>9. ASSUME NEW i \in (n + 1)..Len(txs) PROVE txs[i].kind = "accept"
  <2>1. i \in 1..Len(txs) /\ i > n /\ txs[i].kind \in {"set", "override", "accept", "reject"}
    <3>1. i \in 1..Len(txs) /\ i > n
      BY <1>0
    <3>2. txs[i] \in Tx
      BY <1>0, <3>1
    <3> QED
      BY <3>1, <3>2 DEF Tx
  <2>2. txs[i].kind # "set"
    <3> SUFFICES ASSUME txs[i].kind = "set" PROVE FALSE
      OBVIOUS
    <3>1. PICK u \in Uploads : upload[u].at \in {"landed", "lost", "done"} /\ upload[u].tx = i
      BY <1>0, <2>1 DEF TxsHaveRequests
    <3>2. upload[u].at = "done"
      BY <1>4, <2>1, <3>1
    <3>3. PICK j \in 1..Rows : tariff_uploads[j].tx = i
      BY <1>0, <3>1, <3>2 DEF RowsInOrder
    <3>4. j = k \/ tariff_uploads[j].tx < tariff_uploads[k].tx
      BY <1>0, <1>8 DEF RowsInOrder
    <3> QED
      BY <1>1, <2>1, <3>3, <3>4
  <2>3. txs[i].kind # "reject"
    <3> SUFFICES ASSUME txs[i].kind = "reject" PROVE FALSE
      OBVIOUS
    <3>1. PICK r \in Resolvers : /\ resolve[r].at \in {"landed", "lost", "done"}
                                 /\ resolve[r].tx = i /\ ~resolve[r].accept
      BY <1>0, <2>1 DEF TxsHaveRequests
    <3>2. resolve[r].at = "done"
      BY <1>7, <2>1, <3>1
    <3>3. PICK d \in Disputes :
            collateral_disputes[d] = [status |-> "resolved_rejected", tx |-> resolve[r].tx]
      BY <1>0, <1>6, <3>1, <3>2 DEF ResolutionsShow
    <3> QED
      BY <1>7, <2>1, <3>1, <3>3
  <2>4. txs[i].kind # "override"
    BY <1>1, <1>2, <2>1 DEF Explanations, Causes, Overrides
  <2> QED
    BY <2>1, <2>2, <2>3, <2>4
<1>10. PICK asked \in Nat : asked = txs[n].asked
  <2>1. txs[n] \in Tx /\ txs[n].kind = "set"
    BY <1>0, <1>1 DEF RowsInOrder
  <2>2. txs[n].asked \in Values
    BY <2>1 DEF Tx
  <2> QED
    BY <2>2, RequirementsAssumption
<1>11. account.required_collateral = Adjusted(asked, 100)
  <2>1. Stands(n)
    BY <1>0, <1>1 DEF RowsInOrder
  <2>2. Quiet(n)
    BY <1>9 DEF Quiet
  <2> QED
    BY <1>5, <1>10, <2>1, <2>2 DEF Stands
<1>12. account.required_collateral = asked
  BY <1>11 DEF Adjusted
<1>13. 2 * Gap(value, asked) <= CENT
  BY <1>0, <1>1, <1>10 DEF RowsInOrder, Near
<1>14. Matches(value, asked)
  BY <1>1, <1>2, <1>10, <1>13 DEF Explanations, Causes
<1> QED
  BY <1>1, <1>12, <1>14

LEMMA ReqKept == ReqInv /\ [RequirementsNext]_requirementVars => ReqInv'
<1> SUFFICES ASSUME ReqInv, [RequirementsNext]_requirementVars PROVE ReqInv'
  OBVIOUS
<1>1. RequirementsTypeOK'
  <2>1. CASE UNCHANGED requirementVars
    BY <2>1 DEF ReqInv, RequirementsTypeOK, requirementVars, Rows
  <2> QED
    BY <2>1, ChainTyped, RequestsTyped DEF RequirementsNext
<1>2. TxsHaveRequests' /\ RowsInOrder' /\ ResolutionsShow' /\ RowRead'
  BY RequestsKept, RowsStayInOrder, ResolutionsStay, RowStaysRead
<1>3. AlarmHasCause'
  <2>0. AlarmHasCause
    BY DEF ReqInv
  <2>1. ASSUME NEW v \in Verifiers, Compare(v) PROVE AlarmHasCause'
    <3>1. PICK k \in 1..Rows : k = verify[v].row
      BY <2>1 DEF Compare, ReqInv, RowRead
    <3>2. CASE oracle_alerts' = oracle_alerts
      BY <2>0, <3>2 DEF AlarmHasCause
    <3>3. CASE oracle_alerts' # oracle_alerts
      <4>1. /\ ~Matches(tariff_uploads[k].value, account.required_collateral)
            /\ oracle_alerts' = oracle_alerts \cup {[row |-> k, why |-> Explanations(k)]}
        BY <2>1, <3>1, <3>3 DEF Compare
      <4>2. Explanations(k) # {}
        BY <4>1, DifferenceExplained
      <4> QED
        BY <2>0, <4>1, <4>2 DEF AlarmHasCause
    <3> QED
      BY <3>2, <3>3
  <2>2. CASE UNCHANGED oracle_alerts
    BY <2>0, <2>2 DEF AlarmHasCause
  <2> QED
    BY <2>1, <2>2
       DEF RequirementsNext, DayEnds, RaiseDispute, Override, Compute, UploadLands, UploadRefused,
           RecordUpload, UploadBreaks, StoreDispute, AskResolve, ResolveLands,
           ResolveRefused, RecordResolve, ResolveBreaks, ReadUpload, requirementVars
<1> QED
  BY <1>1, <1>2, <1>3 DEF ReqInv

LEMMA ReqInvariant == RequirementsSpec => []ReqInv
  BY RequirementsInitially, ReqKept, PTL DEF RequirementsSpec

(* The account, the transactions, the requests and the tables keep to their *)
(* types; every row is of a transaction that landed.                        *)
THEOREM RequirementsTyped == RequirementsSpec => []RequirementsTypeOK
<1>1. ReqInv => RequirementsTypeOK
  BY DEF ReqInv
<1> QED
  BY <1>1, ReqInvariant, PTL

(* No alarm of the reconciliation is without a cause that can be told: the   *)
(* newest row is of the newest upload, because the contract takes one a day, *)
(* and its duty, to the cent, gives what was asked for but for half a cent.  *)
THEOREM AlarmsExplained == RequirementsSpec => []AlarmHasCause
<1>1. ReqInv => AlarmHasCause
  BY DEF ReqInv
<1> QED
  BY <1>1, ReqInvariant, PTL

-----------------------------------------------------------------------------

(* The three components side by side, as the run checks them, stay typed.    *)
THEOREM LedgerIsTyped == LedgerSpec => []LedgerTypeOK
<1>1. LedgerInit => PipelineInv /\ CreditInv /\ ReqInv
  BY PipelineInitially, CreditInitially, RequirementsInitially DEF LedgerInit
<1>2. [LedgerNext]_ledgerVars => [Next]_vars /\ [CreditNext]_creditVars
                                 /\ [RequirementsNext]_requirementVars
  <2>1. CASE OnJobs /\ Next
    BY <2>1 DEF OnJobs
  <2>2. CASE OnCredit /\ CreditNext
    BY <2>2 DEF OnCredit
  <2>3. CASE OnRequirements /\ RequirementsNext
    BY <2>3 DEF OnRequirements
  <2>4. CASE UNCHANGED ledgerVars
    BY <2>4 DEF ledgerVars
  <2> QED
    BY <2>1, <2>2, <2>3, <2>4 DEF LedgerNext
<1>3. PipelineInv /\ CreditInv /\ ReqInv => LedgerTypeOK
  BY DEF PipelineInv, CreditInv, ReqInv, LedgerTypeOK
<1> QED
  BY <1>1, <1>2, <1>3, PipelineKept, CreditKept, ReqKept, PTL DEF LedgerSpec

=============================================================================
