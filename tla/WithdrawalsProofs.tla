-------------------------- MODULE WithdrawalsProofs --------------------------
(***************************************************************************)
(* Module Withdrawals for any users, rows, overlapping requests and runs   *)
(* of the scheduler, and any amounts and requirements.                     *)
(***************************************************************************)
EXTENDS Withdrawals, SumProofs

CallType ==
  {Idle}
    \cup [op : {"withdraw"}, user : Users, amount : Amounts, dual : Dual]
    \cup [op : {"schedule"}, amount : Amounts, target : Nat]
    \cup [op : {"approve", "record", "reject", "cancel"}, user : Users, row : Requests]
    \cup [op : {"unschedule"}, row : Staged]

WithdrawalsTypeOK ==
  /\ now \in Nat /\ kyc_approved \in BOOLEAN /\ dual \in Dual
  /\ withdrawal_requests \in
       [Requests -> [status : {"none", "pending", "approved", "rejected", "cancelled"},
                     by : Users, amount : Nat]]
  /\ scheduled_withdrawals \in
       [Staged -> [status : {"none", "pending", "executed", "blocked", "cancelled"},
                   amount : Nat, target : Nat]]
  /\ call \in [Callers -> CallType]
  /\ run \in [Runs -> [at : {"idle", "next", "queue", "block", "record"},
                       todo : SUBSET Staged, kyc : BOOLEAN]]
  /\ job \in [Sources -> [waiting : Nat, paid : Nat, refused : Nat]]
  /\ chain \in [collateral : Nat, required : Required, inForce : Required, open : BOOLEAN]
  /\ torn \in SUBSET (Requests \cup Staged) /\ checked \in SUBSET Staged

Rows == Requests \cup Staged

StatusOf(x) == IF x \in Requests THEN withdrawal_requests[x].status
               ELSE scheduled_withdrawals[x].status

(* Calls that will write row x, and runs that have it before them; who has   *)
(* queued its job has still to write so.                                     *)
Holders == ({"call"} \X Callers) \cup ({"run"} \X Runs)

CallHolds(c, x) ==
  call[c].op \in {"approve", "record", "reject", "cancel", "unschedule"} /\ call[c].row = x

Holds(h, x) ==
  \/ h[1] = "call" /\ CallHolds(h[2], x)
  \/ h[1] = "run" /\ x \in run[h[2]].todo

HasQueued(h, x) ==
  \/ h[1] = "call" /\ call[h[2]].op = "record"
  \/ h[1] = "run" /\ run[h[2]].at = "record" /\ RowOf(h[2]) = x

(* Rows that are held are stored, and a run without rows is none. *)
HeldAreStored ==
  /\ \A h \in Holders, x \in Rows : Holds(h, x) => StatusOf(x) # "none"
  /\ \A r \in Runs : run[r].at = "idle" <=> run[r].todo = {}

(* What is known of a row that no two ever held at once: who holds it finds  *)
(* it as he has read it, and has at most queued its job.                     *)
RowInv(x) ==
  /\ \A g, h \in Holders : Holds(g, x) /\ Holds(h, x) => g = h
  /\ \A h \in Holders : Holds(h, x) =>
       StatusOf(x) = "pending" /\ Queued(x) = IF HasQueued(h, x) THEN 1 ELSE 0
  /\ \/ \E h \in Holders : Holds(h, x)
     \/ Queued(x) = IF StatusOf(x) \in {"approved", "executed"} THEN 1 ELSE 0

(* Who is about to approve may. *)
ApproversMay ==
  \A c \in Callers : call[c].op = "approve" => MayApprove(call[c].user, call[c].row)

(* What a check let pass, the account as it is still covers. *)
ChecksHold ==
  \A s \in checked : scheduled_withdrawals[s].status # "none" /\ Covered(s)

WithdrawalsInv ==
  /\ WithdrawalsTypeOK /\ HeldAreStored /\ ApproversMay /\ ChecksHold
  /\ \A x \in Rows \ torn : RowInv(x)

-----------------------------------------------------------------------------

LEMMA CallFields ==
  ASSUME WithdrawalsTypeOK, NEW c \in Callers
  PROVE  /\ call[c] = Idle \/ call[c].op # "idle"
         /\ call[c].op \in {"idle", "withdraw", "schedule", "approve", "record", "reject",
                           "cancel", "unschedule"}
         /\ call[c].op = "withdraw" =>
              call[c] \in [op : {"withdraw"}, user : Users, amount : Amounts, dual : Dual]
         /\ call[c].op = "schedule" =>
              call[c] \in [op : {"schedule"}, amount : Amounts, target : Nat]
         /\ call[c].op \in {"approve", "record", "reject", "cancel"} =>
              call[c] \in [op : {"approve", "record", "reject", "cancel"}, user : Users,
                          row : Requests]
         /\ call[c].op = "unschedule" => call[c] \in [op : {"unschedule"}, row : Staged]
<1>1. call[c] \in CallType
  BY DEF WithdrawalsTypeOK
<1>2. Idle.op = "idle"
  BY DEF Idle
<1> QED
  BY <1>1, <1>2 DEF CallType

LEMMA SourceKinds ==
  /\ Requests \subseteq Sources /\ Staged \subseteq Sources /\ "direct" \in Sources
  /\ Requests \cap Staged = {} /\ "direct" \notin Requests /\ "direct" \notin Staged
BY WithdrawalsAssumption DEF Sources

(* One call changes: it ends, it begins, or an approval has queued its job. *)
LEMMA CallEnds ==
  ASSUME WithdrawalsTypeOK, NEW c \in Callers, End(c)
  PROVE  /\ call' \in [Callers -> CallType] /\ call'[c] = Idle
         /\ \A d \in Callers \ {c} : call'[d] = call[d]
<1>1. Idle \in CallType
  BY DEF CallType
<1> QED
  BY <1>1 DEF WithdrawalsTypeOK, End

LEMMA CallBegins ==
  ASSUME WithdrawalsTypeOK, NEW c \in Callers, NEW op \in CallType, Begin(c, op)
  PROVE  /\ call' \in [Callers -> CallType] /\ call'[c] = op /\ call[c] = Idle
         /\ \A d \in Callers \ {c} : call'[d] = call[d]
BY DEF WithdrawalsTypeOK, Begin

LEMMA CallQueues ==
  ASSUME WithdrawalsTypeOK, NEW c \in Callers, call[c].op = "approve",
         call' = [call EXCEPT ![c].op = "record"]
  PROVE  /\ call' \in [Callers -> CallType] /\ call'[c].op = "record"
         /\ call'[c].row = call[c].row /\ call'[c].user = call[c].user
         /\ call[c].row \in Requests
         /\ \A d \in Callers \ {c} : call'[d] = call[d]
<1>1. call[c] \in [op : {"approve", "record", "reject", "cancel"}, user : Users, row : Requests]
  BY CallFields
<1>2. /\ call'[c] = [call[c] EXCEPT !.op = "record"]
      /\ call' = [call EXCEPT ![c] = [call[c] EXCEPT !.op = "record"]]
      /\ \A d \in Callers \ {c} : call'[d] = call[d]
  BY DEF WithdrawalsTypeOK
<1>3. [call[c] EXCEPT !.op = "record"] \in
        [op : {"approve", "record", "reject", "cancel"}, user : Users, row : Requests]
  BY <1>1
<1>4. [call[c] EXCEPT !.op = "record"] \in CallType
  BY <1>3 DEF CallType
<1>5. call' \in [Callers -> CallType]
  BY <1>2, <1>4 DEF WithdrawalsTypeOK
<1>6. call'[c].op = "record" /\ call'[c].row = call[c].row /\ call'[c].user = call[c].user
  BY <1>1, <1>2
<1> QED
  BY <1>1, <1>2, <1>5, <1>6

(* A job more in the queue of one source, or one job of it settled. *)
LEMMA JobQueued ==
  ASSUME WithdrawalsTypeOK, NEW x \in Sources, QueueJob(x)
  PROVE  /\ job' \in [Sources -> [waiting : Nat, paid : Nat, refused : Nat]]
         /\ Queued(x)' = Queued(x) + 1
         /\ \A y \in Sources \ {x} : job'[y] = job[y] /\ Queued(y)' = Queued(y)
         /\ \A y \in Sources : job'[y].refused = job[y].refused
<1>1. job[x] \in [waiting : Nat, paid : Nat, refused : Nat]
  BY DEF WithdrawalsTypeOK
<1>2. /\ job'[x] = [job[x] EXCEPT !.waiting = @ + 1]
      /\ job' = [job EXCEPT ![x] = [job[x] EXCEPT !.waiting = @ + 1]]
      /\ \A y \in Sources \ {x} : job'[y] = job[y]
  BY DEF WithdrawalsTypeOK, QueueJob
<1>3. [job[x] EXCEPT !.waiting = @ + 1] \in [waiting : Nat, paid : Nat, refused : Nat]
  BY <1>1
<1>4. job' \in [Sources -> [waiting : Nat, paid : Nat, refused : Nat]]
  BY <1>2, <1>3 DEF WithdrawalsTypeOK
<1>5. /\ job'[x].waiting = job[x].waiting + 1 /\ job'[x].paid = job[x].paid
      /\ job'[x].refused = job[x].refused
  BY <1>1, <1>2
<1> QED
  BY <1>1, <1>2, <1>4, <1>5 DEF Queued

LEMMA JobSettled ==
  ASSUME WithdrawalsTypeOK, NEW x \in Sources, Settle(x)
  PROVE  /\ job' \in [Sources -> [waiting : Nat, paid : Nat, refused : Nat]]
         /\ \A y \in Sources : Queued(y)' = Queued(y)
         /\ \A y \in Sources \ {x} : job'[y] = job[y]
<1>1. job[x] \in [waiting : Nat, paid : Nat, refused : Nat] /\ job[x].waiting > 0
  BY DEF WithdrawalsTypeOK, Settle
<1>2. PICK paid \in Nat, refused \in Nat :
        /\ paid + refused = job[x].paid + job[x].refused + 1
        /\ job' = [job EXCEPT ![x] = [waiting |-> job[x].waiting - 1, paid |-> paid,
                                     refused |-> refused]]
  <2>1. \/ job' = [job EXCEPT ![x].waiting = @ - 1, ![x].paid = @ + 1]
        \/ job' = [job EXCEPT ![x].waiting = @ - 1, ![x].refused = @ + 1]
    BY DEF Settle
  <2>2. job \in [Sources -> [waiting : Nat, paid : Nat, refused : Nat]]
    BY DEF WithdrawalsTypeOK
  <2>3. ASSUME job' = [job EXCEPT ![x].waiting = @ - 1, ![x].paid = @ + 1]
        PROVE  job' = [job EXCEPT ![x] = [waiting |-> job[x].waiting - 1,
                         paid |-> job[x].paid + 1, refused |-> job[x].refused]]
    BY <1>1, <2>2, <2>3
  <2>4. ASSUME job' = [job EXCEPT ![x].waiting = @ - 1, ![x].refused = @ + 1]
        PROVE  job' = [job EXCEPT ![x] = [waiting |-> job[x].waiting - 1,
                         paid |-> job[x].paid, refused |-> job[x].refused + 1]]
    BY <1>1, <2>2, <2>4
  <2>5. /\ job[x].paid \in Nat /\ job[x].paid + 1 \in Nat
        /\ job[x].refused \in Nat /\ job[x].refused + 1 \in Nat
        /\ (job[x].paid + 1) + job[x].refused = job[x].paid + job[x].refused + 1
        /\ job[x].paid + (job[x].refused + 1) = job[x].paid + job[x].refused + 1
    BY <1>1
  <2>6. CASE job' = [job EXCEPT ![x].waiting = @ - 1, ![x].paid = @ + 1]
    BY <2>3, <2>5, <2>6
  <2>7. CASE job' = [job EXCEPT ![x].waiting = @ - 1, ![x].refused = @ + 1]
    BY <2>4, <2>5, <2>7
  <2> QED
    BY <2>1, <2>6, <2>7
<1>3. /\ job'[x] = [waiting |-> job[x].waiting - 1, paid |-> paid, refused |-> refused]
      /\ \A y \in Sources \ {x} : job'[y] = job[y]
      /\ job' \in [Sources -> [waiting : Nat, paid : Nat, refused : Nat]]
  BY <1>1, <1>2 DEF WithdrawalsTypeOK
<1>4. Queued(x)' = Queued(x)
  BY <1>1, <1>2, <1>3 DEF Queued
<1> QED
  BY <1>3, <1>4 DEF Queued

LEMMA RowOfRun ==
  ASSUME WithdrawalsTypeOK, NEW r \in Runs, run[r].todo # {}
  PROVE  RowOf(r) \in run[r].todo /\ RowOf(r) \in Staged
<1> DEFINE dates == [s \in run[r].todo |-> scheduled_withdrawals[s].target]
<1>1. run[r].todo \subseteq Staged /\ \A s \in Staged : scheduled_withdrawals[s].target \in Nat
  BY DEF WithdrawalsTypeOK
<1>2. PICK n \in {dates[s] : s \in run[r].todo} : \A m \in {dates[s] : s \in run[r].todo} : n <= m
  BY <1>1, LeastNat
<1>3. \E s \in DOMAIN dates : \A t \in DOMAIN dates : dates[s] <= dates[t]
  BY <1>2
<1>4. Earliest(dates) \in DOMAIN dates
  BY <1>3 DEF Earliest
<1> QED
  BY <1>1, <1>4 DEF RowOf

(* It stays the same as long as the run's rows are not removed. *)
LEMMA RowOfStays ==
  ASSUME NEW r \in Runs, run'[r].todo = run[r].todo,
         \A s \in run[r].todo : scheduled_withdrawals'[s].target = scheduled_withdrawals[s].target
  PROVE  RowOf(r)' = RowOf(r)
<1>1. [s \in run'[r].todo |-> scheduled_withdrawals'[s].target]
        = [s \in run[r].todo |-> scheduled_withdrawals[s].target]
  OBVIOUS
<1> QED
  BY <1>1 DEF RowOf


RunType ==
  [at : {"idle", "next", "queue", "block", "record"}, todo : SUBSET Staged, kyc : BOOLEAN]

(* One run changes: it lets its row go, or all of them, or works on it. *)
LEMMA RunGoesOn ==
  ASSUME WithdrawalsTypeOK, NEW r \in Runs, NextRow(r)
  PROVE  /\ run' \in [Runs -> RunType]
         /\ run'[r].todo = run[r].todo \ {RowOf(r)} /\ run'[r].at \in {"idle", "next"}
         /\ run'[r].at = "idle" <=> run'[r].todo = {}
         /\ \A t \in Runs \ {r} : run'[t] = run[t]
<1> DEFINE rest == run[r].todo \ {RowOf(r)}
           next == IF rest = {} THEN NoRun ELSE [at |-> "next", todo |-> rest, kyc |-> run[r].kyc]
<1>1. run \in [Runs -> RunType]
  BY DEF WithdrawalsTypeOK, RunType
<1>2. run[r].todo \in SUBSET Staged /\ run[r].kyc \in BOOLEAN
  BY <1>1 DEF RunType
<1>3. run' = [run EXCEPT ![r] = next]
  BY DEF NextRow
<1>4. next \in RunType /\ next.todo = rest /\ next.at \in {"idle", "next"}
      /\ (next.at = "idle" <=> rest = {})
  <2>1. CASE rest = {}
    BY <2>1 DEF NoRun, RunType
  <2>2. CASE rest # {}
    BY <1>2, <2>2 DEF RunType
  <2> QED
    BY <2>1, <2>2
<1> HIDE DEF next
<1>5. run' \in [Runs -> RunType] /\ run'[r] = next /\ \A t \in Runs \ {r} : run'[t] = run[t]
  BY <1>1, <1>3, <1>4
<1> QED
  BY <1>4, <1>5

LEMMA RunChanges ==
  ASSUME WithdrawalsTypeOK, NEW r \in Runs, NEW rec \in RunType, run' = [run EXCEPT ![r] = rec]
  PROVE  /\ run' \in [Runs -> RunType] /\ run'[r] = rec
         /\ \A t \in Runs \ {r} : run'[t] = run[t]
BY DEF WithdrawalsTypeOK, RunType

LEMMA RunMoves ==
  ASSUME WithdrawalsTypeOK, NEW r \in Runs, NEW at \in {"queue", "block", "record"},
         run' = [run EXCEPT ![r].at = at]
  PROVE  /\ run' \in [Runs -> RunType] /\ run'[r].at = at /\ run'[r].todo = run[r].todo
         /\ \A t \in Runs \ {r} : run'[t] = run[t]
<1>1. run \in [Runs -> RunType]
  BY DEF WithdrawalsTypeOK, RunType
<1>2. PICK todo \in SUBSET Staged, kyc \in BOOLEAN, old \in {"idle", "next", "queue", "block", "record"} :
        run[r] = [at |-> old, todo |-> todo, kyc |-> kyc]
  BY <1>1 DEF RunType
<1>3. run' = [run EXCEPT ![r] = [at |-> at, todo |-> todo, kyc |-> kyc]]
  <2>1. run' = [run EXCEPT ![r] = [run[r] EXCEPT !.at = at]]
    OBVIOUS
  <2>2. [run[r] EXCEPT !.at = at] = [at |-> at, todo |-> todo, kyc |-> kyc]
    BY <1>2
  <2> QED
    BY <2>1, <2>2
<1>4. [at |-> at, todo |-> todo, kyc |-> kyc] \in RunType
  BY DEF RunType
<1> QED
  BY ZenonT(40), <1>2, <1>3, <1>4, RunChanges

(* What a step does to the row of one scheduled withdrawal and of one request. *)
LEMMA StagedSet ==
  ASSUME WithdrawalsTypeOK, NEW s \in Staged, NEW status \in {"executed", "blocked", "cancelled"},
         scheduled_withdrawals' = [scheduled_withdrawals EXCEPT ![s].status = status]
  PROVE  /\ scheduled_withdrawals' \in
              [Staged -> [status : {"none", "pending", "executed", "blocked", "cancelled"},
                          amount : Nat, target : Nat]]
         /\ scheduled_withdrawals'[s].status = status
         /\ \A t \in Staged : /\ scheduled_withdrawals'[t].amount = scheduled_withdrawals[t].amount
                              /\ scheduled_withdrawals'[t].target = scheduled_withdrawals[t].target
         /\ \A t \in Staged \ {s} : scheduled_withdrawals'[t] = scheduled_withdrawals[t]
<1>1. PICK old \in {"none", "pending", "executed", "blocked", "cancelled"}, amount \in Nat, target \in Nat :
        scheduled_withdrawals[s] = [status |-> old, amount |-> amount, target |-> target]
  BY DEF WithdrawalsTypeOK
<1>2. scheduled_withdrawals' =
        [scheduled_withdrawals EXCEPT ![s] = [status |-> status, amount |-> amount, target |-> target]]
  <2>1. scheduled_withdrawals' =
          [scheduled_withdrawals EXCEPT ![s] = [scheduled_withdrawals[s] EXCEPT !.status = status]]
    OBVIOUS
  <2>2. [scheduled_withdrawals[s] EXCEPT !.status = status]
          = [status |-> status, amount |-> amount, target |-> target]
    BY <1>1
  <2> QED
    BY <2>1, <2>2
<1>3. scheduled_withdrawals'[s] = [status |-> status, amount |-> amount, target |-> target]
      /\ \A t \in Staged \ {s} : scheduled_withdrawals'[t] = scheduled_withdrawals[t]
  BY <1>2 DEF WithdrawalsTypeOK
<1> QED
  BY <1>1, <1>2, <1>3 DEF WithdrawalsTypeOK

LEMMA RequestSet ==
  ASSUME WithdrawalsTypeOK, NEW q \in Requests, NEW status \in {"approved", "rejected", "cancelled"},
         withdrawal_requests' = [withdrawal_requests EXCEPT ![q].status = status]
  PROVE  /\ withdrawal_requests' \in
              [Requests -> [status : {"none", "pending", "approved", "rejected", "cancelled"},
                            by : Users, amount : Nat]]
         /\ withdrawal_requests'[q].status = status
         /\ \A p \in Requests : withdrawal_requests'[p].by = withdrawal_requests[p].by
         /\ \A p \in Requests \ {q} : withdrawal_requests'[p] = withdrawal_requests[p]
<1>1. PICK old \in {"none", "pending", "approved", "rejected", "cancelled"}, by \in Users, amount \in Nat :
        withdrawal_requests[q] = [status |-> old, by |-> by, amount |-> amount]
  BY DEF WithdrawalsTypeOK
<1>2. withdrawal_requests' =
        [withdrawal_requests EXCEPT ![q] = [status |-> status, by |-> by, amount |-> amount]]
  <2>1. withdrawal_requests' =
          [withdrawal_requests EXCEPT ![q] = [withdrawal_requests[q] EXCEPT !.status = status]]
    OBVIOUS
  <2>2. [withdrawal_requests[q] EXCEPT !.status = status]
          = [status |-> status, by |-> by, amount |-> amount]
    BY <1>1
  <2> QED
    BY <2>1, <2>2
<1>3. withdrawal_requests'[q] = [status |-> status, by |-> by, amount |-> amount]
      /\ \A p \in Requests \ {q} : withdrawal_requests'[p] = withdrawal_requests[p]
  BY <1>2 DEF WithdrawalsTypeOK
<1> QED
  BY <1>1, <1>2, <1>3 DEF WithdrawalsTypeOK


-----------------------------------------------------------------------------

(* Holder h aside, a step changes nothing of who holds x. *)
OthersStill(h, x) ==
  \A g \in Holders \ {h} :
    /\ Holds(g, x)' <=> Holds(g, x)
    /\ Holds(g, x) => (HasQueued(g, x)' <=> HasQueued(g, x))

LEMMA RowUntouched ==
  ASSUME NEW x \in Rows, RowInv(x), NEW h, OthersStill(h, x),
         h \in Holders => /\ Holds(h, x)' <=> Holds(h, x)
                          /\ Holds(h, x) => (HasQueued(h, x)' <=> HasQueued(h, x)),
         StatusOf(x)' = StatusOf(x), Queued(x)' = Queued(x)
  PROVE  RowInv(x)'
<1>1. \A g \in Holders : /\ Holds(g, x)' <=> Holds(g, x)
                         /\ Holds(g, x) => (HasQueued(g, x)' <=> HasQueued(g, x))
  BY DEF OthersStill
<1> QED
  BY <1>1 DEF RowInv

LEMMA RowTaken ==
  ASSUME NEW x \in Rows, RowInv(x), NEW h \in Holders, OthersStill(h, x),
         \A g \in Holders : ~Holds(g, x),
         Holds(h, x)', ~HasQueued(h, x)',
         StatusOf(x) = "pending", StatusOf(x)' = "pending", Queued(x)' = Queued(x)
  PROVE  RowInv(x)'
<1>1. \A g \in Holders : Holds(g, x)' => g = h
  BY DEF OthersStill
<1>2. Queued(x)' = 0
  BY DEF RowInv
<1> QED
  BY <1>1, <1>2 DEF RowInv

LEMMA RowGetsJob ==
  ASSUME NEW x \in Rows, RowInv(x), NEW h \in Holders, OthersStill(h, x),
         Holds(h, x), ~HasQueued(h, x), Holds(h, x)', HasQueued(h, x)',
         StatusOf(x)' = StatusOf(x), Queued(x)' = Queued(x) + 1
  PROVE  RowInv(x)'
<1>1. \A g \in Holders : Holds(g, x)' => g = h
  BY DEF OthersStill, RowInv
<1>2. StatusOf(x)' = "pending" /\ Queued(x)' = 1
  BY DEF RowInv
<1> QED
  BY <1>1, <1>2 DEF RowInv

LEMMA RowReleased ==
  ASSUME NEW x \in Rows, RowInv(x), NEW h \in Holders, OthersStill(h, x),
         Holds(h, x), ~Holds(h, x)', Queued(x)' = Queued(x),
         HasQueued(h, x) <=> StatusOf(x)' \in {"approved", "executed"}
  PROVE  RowInv(x)'
<1>1. \A g \in Holders : ~Holds(g, x)'
  BY DEF OthersStill, RowInv
<1>2. Queued(x)' = IF StatusOf(x)' \in {"approved", "executed"} THEN 1 ELSE 0
  BY DEF RowInv
<1> QED
  BY <1>1, <1>2 DEF RowInv

LEMMA RowStored ==
  ASSUME NEW x \in Rows, RowInv(x), NEW h, OthersStill(h, x),
         h \in Holders => ~Holds(h, x)',
         StatusOf(x) = "none", StatusOf(x)' = "pending", Queued(x)' = Queued(x)
  PROVE  RowInv(x)'
<1>1. \A g \in Holders : ~Holds(g, x)
  BY DEF RowInv
<1>2. \A g \in Holders : ~Holds(g, x)'
  BY <1>1 DEF OthersStill
<1>3. Queued(x)' = 0
  BY <1>1 DEF RowInv
<1> QED
  BY <1>2, <1>3 DEF RowInv

LEMMA HeldByHolders ==
  ASSUME WithdrawalsTypeOK, NEW x
  PROVE  x \in Held <=> \E h \in Holders : Holds(h, x)
<1>1. x \in HeldByCalls <=> \E c \in Callers : CallHolds(c, x)
  BY DEF HeldByCalls, CallHolds
<1>2. x \in HeldByRuns <=> \E r \in Runs : x \in run[r].todo
  BY DEF HeldByRuns
<1>3. ASSUME NEW h \in Holders, Holds(h, x)
      PROVE  (\E c \in Callers : CallHolds(c, x)) \/ (\E r \in Runs : x \in run[r].todo)
  BY <1>3 DEF Holders, Holds
<1>4. ASSUME NEW c \in Callers, CallHolds(c, x) PROVE \E h \in Holders : Holds(h, x)
  <2>1. <<"call", c>> \in Holders /\ Holds(<<"call", c>>, x)
    BY <1>4 DEF Holders, Holds
  <2> QED
    BY <2>1
<1>5. ASSUME NEW r \in Runs, x \in run[r].todo PROVE \E h \in Holders : Holds(h, x)
  <2>1. <<"run", r>> \in Holders /\ Holds(<<"run", r>>, x)
    BY <1>5 DEF Holders, Holds
  <2> QED
    BY <2>1
<1> QED
  BY <1>1, <1>2, <1>3, <1>4, <1>5 DEF Held

LEMMA OneCallMoves ==
  ASSUME NEW c \in Callers, run' = run,
         \A d \in Callers \ {c} : call'[d] = call[d],
         \A r \in Runs : RowOf(r)' = RowOf(r)
  PROVE  \A x : OthersStill(<<"call", c>>, x)
<1> SUFFICES ASSUME NEW x, NEW g \in Holders \ {<<"call", c>>}
             PROVE  /\ Holds(g, x)' <=> Holds(g, x)
                    /\ HasQueued(g, x)' <=> HasQueued(g, x)
  BY DEF OthersStill
<1>1. CASE g[1] = "call" /\ g[2] \in Callers \ {c}
  BY <1>1 DEF Holds, HasQueued, CallHolds
<1>2. CASE g[1] = "run" /\ g[2] \in Runs
  BY <1>2 DEF Holds, HasQueued
<1> QED
  BY <1>1, <1>2 DEF Holders

LEMMA OneRunMoves ==
  ASSUME NEW r \in Runs, call' = call,
         \A t \in Runs \ {r} : run'[t] = run[t] /\ RowOf(t)' = RowOf(t)
  PROVE  \A x : OthersStill(<<"run", r>>, x)
<1> SUFFICES ASSUME NEW x, NEW g \in Holders \ {<<"run", r>>}
             PROVE  /\ Holds(g, x)' <=> Holds(g, x)
                    /\ HasQueued(g, x)' <=> HasQueued(g, x)
  BY DEF OthersStill
<1>1. CASE g[1] = "call" /\ g[2] \in Callers
  BY <1>1 DEF Holds, HasQueued, CallHolds
<1>2. CASE g[1] = "run" /\ g[2] \in Runs \ {r}
  BY <1>2 DEF Holds, HasQueued
<1> QED
  BY <1>1, <1>2 DEF Holders


-----------------------------------------------------------------------------
(* What a row is about does not change once it is stored. *)
StoredStay ==
  /\ \A q \in Requests : withdrawal_requests[q].status # "none" =>
       /\ withdrawal_requests'[q].status # "none"
       /\ withdrawal_requests'[q].by = withdrawal_requests[q].by
  /\ \A s \in Staged : scheduled_withdrawals[s].status # "none" =>
       /\ scheduled_withdrawals'[s].status # "none"
       /\ scheduled_withdrawals'[s].amount = scheduled_withdrawals[s].amount
       /\ scheduled_withdrawals'[s].target = scheduled_withdrawals[s].target

LEMMA StagedInserted ==
  ASSUME WithdrawalsTypeOK, NEW c \in Callers, NEW s \in Staged, NEW target \in Nat,
         call[c].op \in {"withdraw", "schedule"}, InsertStaged(c, s, target)
  PROVE  /\ scheduled_withdrawals' \in
              [Staged -> [status : {"none", "pending", "executed", "blocked", "cancelled"},
                          amount : Nat, target : Nat]]
         /\ scheduled_withdrawals[s].status = "none"
         /\ scheduled_withdrawals'[s].status = "pending"
         /\ \A t \in Staged \ {s} : scheduled_withdrawals'[t] = scheduled_withdrawals[t]
<1>1. call[c].amount \in Nat
  <2>1. call[c].amount \in Amounts
    BY CallFields
  <2> QED
    BY <2>1, WithdrawalsAssumption
<1>2. [status |-> "pending", amount |-> call[c].amount, target |-> target] \in
        [status : {"none", "pending", "executed", "blocked", "cancelled"}, amount : Nat, target : Nat]
  BY <1>1
<1> QED
  BY <1>2 DEF InsertStaged, WithdrawalsTypeOK

LEMMA RequestInserted ==
  ASSUME WithdrawalsTypeOK, NEW c \in Callers, NEW q \in Requests, WithdrawOnRequest(c, q)
  PROVE  /\ withdrawal_requests' \in
              [Requests -> [status : {"none", "pending", "approved", "rejected", "cancelled"},
                            by : Users, amount : Nat]]
         /\ withdrawal_requests[q].status = "none"
         /\ withdrawal_requests'[q].status = "pending"
         /\ \A p \in Requests \ {q} : withdrawal_requests'[p] = withdrawal_requests[p]
<1>1. call[c].amount \in Nat /\ call[c].user \in Users
  <2>1. call[c].amount \in Amounts /\ call[c].user \in Users
    BY CallFields DEF WithdrawOnRequest
  <2> QED
    BY <2>1, WithdrawalsAssumption
<1>2. [status |-> "pending", by |-> call[c].user, amount |-> call[c].amount] \in
        [status : {"none", "pending", "approved", "rejected", "cancelled"}, by : Users, amount : Nat]
  BY <1>1
<1> QED
  BY <1>2 DEF WithdrawOnRequest, WithdrawalsTypeOK

(* The actions of routes, by what they do to the call and to the tables. *)
LEMMA CallKinds ==
  ASSUME WithdrawalsTypeOK, NEW c \in Callers, RouteStep(c)
  PROVE  \/ \E op \in CallType :
               /\ Begin(c, op) /\ op.op \in {"withdraw", "schedule"}
               /\ UNCHANGED <<now, kyc_approved, dual, withdrawal_requests,
                              scheduled_withdrawals, run, job, chain, torn, checked>>
         \/ \E op \in CallType :
               /\ Begin(c, op) /\ Hold({op.row}) /\ op.row \in Rows
               /\ StatusOf(op.row) = "pending"
               /\ op.op \in {"approve", "reject", "cancel", "unschedule"}
               /\ op.op = "approve" => op.row \in Requests /\ MayApprove(op.user, op.row)
               /\ UNCHANGED <<now, kyc_approved, dual, withdrawal_requests,
                              scheduled_withdrawals, run, job, chain, checked>>
         \/ ApproveQueued(c)
         \/ \E s \in Staged, target \in Nat :
               call[c].op \in {"withdraw", "schedule"} /\ InsertStaged(c, s, target)
         \/ \E q \in Requests : WithdrawOnRequest(c, q)
         \/ WithdrawNow(c)
         \/ \E status \in {"approved", "rejected", "cancelled"} :
               /\ call[c].op \in {"record", "reject", "cancel"}
               /\ status = "approved" <=> call[c].op = "record"
               /\ WriteRequest(c, status)
         \/ CancelScheduledWritten(c)
         \/ Refuse(c)
         \/ CallBreaks(c)
<1>1. ASSUME NEW u \in Users, NEW amount \in Amounts, Withdraw(c, u, amount)
      PROVE  \E op \in CallType :
               /\ Begin(c, op) /\ op.op \in {"withdraw", "schedule"}
               /\ UNCHANGED <<now, kyc_approved, dual, withdrawal_requests,
                              scheduled_withdrawals, run, job, chain, torn, checked>>
  <2> DEFINE op == [op |-> "withdraw", user |-> u, amount |-> amount, dual |-> dual]
  <2>1. op \in CallType /\ op.op = "withdraw"
    BY DEF CallType, WithdrawalsTypeOK
  <2>2. /\ Begin(c, op)
        /\ UNCHANGED <<now, kyc_approved, dual, withdrawal_requests,
                       scheduled_withdrawals, run, job, chain, torn, checked>>
    BY <1>1 DEF Withdraw
  <2> HIDE DEF op
  <2> QED
    BY <2>1, <2>2
<1>2. ASSUME NEW amount \in Amounts, NEW target \in 1..MAX_TIME, Schedule(c, amount, target)
      PROVE  \E op \in CallType :
               /\ Begin(c, op) /\ op.op \in {"withdraw", "schedule"}
               /\ UNCHANGED <<now, kyc_approved, dual, withdrawal_requests,
                              scheduled_withdrawals, run, job, chain, torn, checked>>
  <2> DEFINE op == [op |-> "schedule", amount |-> amount, target |-> target]
  <2>1. op \in CallType /\ op.op = "schedule"
    BY WithdrawalsAssumption DEF CallType
  <2>2. /\ Begin(c, op)
        /\ UNCHANGED <<now, kyc_approved, dual, withdrawal_requests,
                       scheduled_withdrawals, run, job, chain, torn, checked>>
    BY <1>2 DEF Schedule
  <2> HIDE DEF op
  <2> QED
    BY <2>1, <2>2
<1>3. ASSUME NEW u \in Users, NEW q \in Requests, NEW name \in {"approve", "reject", "cancel"},
             ReadRequest(c, u, q, name), name = "approve" => MayApprove(u, q)
      PROVE  \E op \in CallType :
               /\ Begin(c, op) /\ Hold({op.row}) /\ op.row \in Rows
               /\ StatusOf(op.row) = "pending"
               /\ op.op \in {"approve", "reject", "cancel", "unschedule"}
               /\ op.op = "approve" => op.row \in Requests /\ MayApprove(op.user, op.row)
               /\ UNCHANGED <<now, kyc_approved, dual, withdrawal_requests,
                              scheduled_withdrawals, run, job, chain, checked>>
  <2> DEFINE op == [op |-> name, user |-> u, row |-> q]
  <2>1. op \in CallType /\ op.op = name /\ op.row = q /\ op.user = u
    BY DEF CallType
  <2>2. StatusOf(q) = "pending" /\ q \in Rows
    BY <1>3 DEF ReadRequest, Undecided, StatusOf, Rows
  <2>3. /\ Begin(c, op) /\ Hold({q})
        /\ UNCHANGED <<now, kyc_approved, dual, withdrawal_requests,
                       scheduled_withdrawals, run, job, chain, checked>>
    BY <1>3 DEF ReadRequest
  <2> HIDE DEF op
  <2> QED
    BY <1>3, <2>1, <2>2, <2>3
<1>4. ASSUME NEW s \in Staged, CancelScheduled(c, s)
      PROVE  \E op \in CallType :
               /\ Begin(c, op) /\ Hold({op.row}) /\ op.row \in Rows
               /\ StatusOf(op.row) = "pending"
               /\ op.op \in {"approve", "reject", "cancel", "unschedule"}
               /\ op.op = "approve" => op.row \in Requests /\ MayApprove(op.user, op.row)
               /\ UNCHANGED <<now, kyc_approved, dual, withdrawal_requests,
                              scheduled_withdrawals, run, job, chain, checked>>
  <2> DEFINE op == [op |-> "unschedule", row |-> s]
  <2>1. op \in CallType /\ op.op = "unschedule" /\ op.row = s
    BY DEF CallType
  <2>2. StatusOf(s) = "pending" /\ s \in Rows
    BY <1>4, SourceKinds DEF CancelScheduled, StatusOf, Rows
  <2>3. /\ Begin(c, op) /\ Hold({s})
        /\ UNCHANGED <<now, kyc_approved, dual, withdrawal_requests,
                       scheduled_withdrawals, run, job, chain, checked>>
    BY <1>4 DEF CancelScheduled
  <2> HIDE DEF op
  <2> QED
    BY <2>1, <2>2, <2>3
<1>5. \A t \in 1..MAX_TIME : t \in Nat
  BY WithdrawalsAssumption
<1>6. ASSUME NEW s \in Staged, ScheduleStored(c, s)
      PROVE  \E target \in Nat : call[c].op = "schedule" /\ InsertStaged(c, s, target)
  <2>1. call[c].target \in Nat
    BY <1>6, CallFields DEF ScheduleStored
  <2> QED
    BY <1>6, <2>1 DEF ScheduleStored
<1> QED
  BY <1>1, <1>2, <1>3, <1>4, <1>5, <1>6
     DEF RouteStep, WithdrawLater, Approve, Reject, Cancel,
         ApproveRecorded, RejectWritten, CancelWritten


(* A step of a call keeps the types and what stored rows are about. *)
LEMMA CallStepTyped ==
  ASSUME WithdrawalsTypeOK, NEW c \in Callers, RouteStep(c)
  PROVE  /\ WithdrawalsTypeOK' /\ StoredStay
         /\ run' = run /\ chain' = chain /\ checked' = checked
         /\ \A d \in Callers \ {c} : call'[d] = call[d]
<1>1. ASSUME NEW op \in CallType, Begin(c, op),
             UNCHANGED <<now, kyc_approved, dual, withdrawal_requests, scheduled_withdrawals,
                         run, job, chain, checked>>,
             torn' \in SUBSET Rows
      PROVE  WithdrawalsTypeOK' /\ StoredStay /\ \A d \in Callers \ {c} : call'[d] = call[d]
  <2>1. call' \in [Callers -> CallType] /\ \A d \in Callers \ {c} : call'[d] = call[d]
    BY <1>1, CallBegins
  <2>2. StoredStay
    BY <1>1 DEF StoredStay
  <2> QED
    BY <1>1, <2>1, <2>2 DEF WithdrawalsTypeOK, Rows
<1>2. ASSUME End(c),
             UNCHANGED <<now, kyc_approved, dual, withdrawal_requests, scheduled_withdrawals,
                         run, job, chain, checked>>,
             torn' \in SUBSET Rows
      PROVE  WithdrawalsTypeOK' /\ StoredStay /\ \A d \in Callers \ {c} : call'[d] = call[d]
  <2>1. call' \in [Callers -> CallType] /\ \A d \in Callers \ {c} : call'[d] = call[d]
    BY <1>2, CallEnds
  <2>2. StoredStay
    BY <1>2 DEF StoredStay
  <2> QED
    BY <1>2, <2>1, <2>2 DEF WithdrawalsTypeOK, Rows
<1>3. torn \in SUBSET Rows
  BY DEF WithdrawalsTypeOK, Rows
<1>4. ASSUME NEW op \in CallType, Begin(c, op), Hold({op.row}), op.row \in Rows
      PROVE  torn' \in SUBSET Rows
  BY <1>3, <1>4 DEF Hold
<1>5. CASE ApproveQueued(c)
  <2>1. call[c].op = "approve" /\ QueueJob(call[c].row)
        /\ call' = [call EXCEPT ![c].op = "record"]
        /\ UNCHANGED <<now, kyc_approved, dual, withdrawal_requests, scheduled_withdrawals,
                       run, chain, torn, checked>>
    BY <1>5 DEF ApproveQueued
  <2>2. call' \in [Callers -> CallType] /\ call[c].row \in Requests
        /\ \A d \in Callers \ {c} : call'[d] = call[d]
    BY <2>1, CallQueues
  <2>3. job' \in [Sources -> [waiting : Nat, paid : Nat, refused : Nat]]
    BY <2>1, <2>2, SourceKinds, JobQueued
  <2>4. StoredStay
    BY <2>1 DEF StoredStay
  <2> QED
    BY <2>1, <2>2, <2>3, <2>4 DEF WithdrawalsTypeOK
<1>6. ASSUME NEW s \in Staged, NEW target \in Nat,
             call[c].op \in {"withdraw", "schedule"}, InsertStaged(c, s, target)
      PROVE  WithdrawalsTypeOK' /\ StoredStay /\ \A d \in Callers \ {c} : call'[d] = call[d]
  <2>1. /\ scheduled_withdrawals' \in
              [Staged -> [status : {"none", "pending", "executed", "blocked", "cancelled"},
                          amount : Nat, target : Nat]]
        /\ scheduled_withdrawals[s].status = "none"
        /\ \A t \in Staged \ {s} : scheduled_withdrawals'[t] = scheduled_withdrawals[t]
    BY <1>6, StagedInserted
  <2>2. End(c) /\ UNCHANGED <<now, kyc_approved, dual, withdrawal_requests, run, job, chain,
                              torn, checked>>
    BY <1>6 DEF InsertStaged
  <2>3. call' \in [Callers -> CallType] /\ \A d \in Callers \ {c} : call'[d] = call[d]
    BY <2>2, CallEnds
  <2>4. StoredStay
    BY <2>1, <2>2 DEF StoredStay
  <2> QED
    BY <2>1, <2>2, <2>3, <2>4 DEF WithdrawalsTypeOK
<1>7. ASSUME NEW q \in Requests, WithdrawOnRequest(c, q)
      PROVE  WithdrawalsTypeOK' /\ StoredStay /\ \A d \in Callers \ {c} : call'[d] = call[d]
  <2>1. /\ withdrawal_requests' \in
              [Requests -> [status : {"none", "pending", "approved", "rejected", "cancelled"},
                            by : Users, amount : Nat]]
        /\ withdrawal_requests[q].status = "none"
        /\ \A p \in Requests \ {q} : withdrawal_requests'[p] = withdrawal_requests[p]
    BY <1>7, RequestInserted
  <2>2. End(c) /\ UNCHANGED <<now, kyc_approved, dual, scheduled_withdrawals, run, job, chain,
                              torn, checked>>
    BY <1>7 DEF WithdrawOnRequest
  <2>3. call' \in [Callers -> CallType] /\ \A d \in Callers \ {c} : call'[d] = call[d]
    BY <2>2, CallEnds
  <2>4. StoredStay
    BY <2>1, <2>2 DEF StoredStay
  <2> QED
    BY <2>1, <2>2, <2>3, <2>4 DEF WithdrawalsTypeOK
<1>8. CASE WithdrawNow(c)
  <2>1. QueueJob("direct") /\ End(c)
        /\ UNCHANGED <<now, kyc_approved, dual, withdrawal_requests, scheduled_withdrawals,
                       run, chain, torn, checked>>
    BY <1>8 DEF WithdrawNow
  <2>2. job' \in [Sources -> [waiting : Nat, paid : Nat, refused : Nat]]
    BY <2>1, SourceKinds, JobQueued
  <2>3. call' \in [Callers -> CallType] /\ \A d \in Callers \ {c} : call'[d] = call[d]
    BY <2>1, CallEnds
  <2>4. StoredStay
    BY <2>1 DEF StoredStay
  <2> QED
    BY <2>1, <2>2, <2>3, <2>4 DEF WithdrawalsTypeOK
<1>9. ASSUME NEW status \in {"approved", "rejected", "cancelled"},
             call[c].op \in {"record", "reject", "cancel"}, WriteRequest(c, status)
      PROVE  WithdrawalsTypeOK' /\ StoredStay /\ \A d \in Callers \ {c} : call'[d] = call[d]
  <2>1. call[c].row \in Requests
    BY <1>9, CallFields
  <2>2. PICK q \in Requests : q = call[c].row
    BY <2>1
  <2>3. withdrawal_requests' = [withdrawal_requests EXCEPT ![q].status = status]
        /\ End(c) /\ UNCHANGED <<now, kyc_approved, dual, scheduled_withdrawals, run, job,
                                 chain, torn, checked>>
    BY <1>9, <2>2 DEF WriteRequest
  <2>4. /\ withdrawal_requests' \in
              [Requests -> [status : {"none", "pending", "approved", "rejected", "cancelled"},
                            by : Users, amount : Nat]]
        /\ withdrawal_requests'[q].status = status
        /\ \A p \in Requests : withdrawal_requests'[p].by = withdrawal_requests[p].by
        /\ \A p \in Requests \ {q} : withdrawal_requests'[p] = withdrawal_requests[p]
    BY <2>3, RequestSet
  <2>5. call' \in [Callers -> CallType] /\ \A d \in Callers \ {c} : call'[d] = call[d]
    BY <2>3, CallEnds
  <2>6. StoredStay
    BY <2>3, <2>4 DEF StoredStay
  <2> QED
    BY <2>3, <2>4, <2>5, <2>6 DEF WithdrawalsTypeOK
<1>10. CASE CancelScheduledWritten(c)
  <2>1. PICK s \in Staged : s = call[c].row
    BY <1>10, CallFields DEF CancelScheduledWritten
  <2>2. scheduled_withdrawals' = [scheduled_withdrawals EXCEPT ![s].status = "cancelled"]
        /\ End(c) /\ UNCHANGED <<now, kyc_approved, dual, withdrawal_requests, run, job,
                                 chain, torn, checked>>
    BY <1>10, <2>1 DEF CancelScheduledWritten
  <2>3. /\ scheduled_withdrawals' \in
              [Staged -> [status : {"none", "pending", "executed", "blocked", "cancelled"},
                          amount : Nat, target : Nat]]
        /\ scheduled_withdrawals'[s].status = "cancelled"
        /\ \A t \in Staged : /\ scheduled_withdrawals'[t].amount = scheduled_withdrawals[t].amount
                             /\ scheduled_withdrawals'[t].target = scheduled_withdrawals[t].target
        /\ \A t \in Staged \ {s} : scheduled_withdrawals'[t] = scheduled_withdrawals[t]
    BY <2>2, StagedSet
  <2>4. call' \in [Callers -> CallType] /\ \A d \in Callers \ {c} : call'[d] = call[d]
    BY <2>2, CallEnds
  <2>5. StoredStay
    BY <2>2, <2>3 DEF StoredStay
  <2> QED
    BY <2>2, <2>3, <2>4, <2>5 DEF WithdrawalsTypeOK
<1>11. CASE Refuse(c)
  BY <1>2, <1>3, <1>11 DEF Refuse
<1>12. CASE CallBreaks(c)
  <2>1. torn' \in SUBSET Rows
    <3>1. call[c].op = "record" => call[c].row \in Rows
      BY CallFields DEF Rows
    <3> QED
      BY <1>3, <1>12, <3>1 DEF CallBreaks
  <2> QED
    BY <1>2, <1>12, <2>1 DEF CallBreaks
<1>13. run' = run /\ chain' = chain /\ checked' = checked
  BY CallKinds DEF ApproveQueued, InsertStaged, WithdrawOnRequest, WithdrawNow, WriteRequest,
                   CancelScheduledWritten, Refuse, CallBreaks
<1> QED
  BY <1>1, <1>3, <1>4, <1>5, <1>6, <1>7, <1>8, <1>9, <1>10, <1>11, <1>12, <1>13, CallKinds


-----------------------------------------------------------------------------
(* Rows under the steps of a call *)

LEMMA RowOfKept ==
  ASSUME WithdrawalsTypeOK, HeldAreStored, StoredStay, NEW r \in Runs, run'[r].todo = run[r].todo
  PROVE  RowOf(r)' = RowOf(r)
<1>1. ASSUME NEW s \in run[r].todo
      PROVE  scheduled_withdrawals'[s].target = scheduled_withdrawals[s].target
  <2>1. s \in Staged /\ s \in Rows /\ s \notin Requests
    BY SourceKinds DEF WithdrawalsTypeOK, Rows
  <2>2. <<"run", r>> \in Holders /\ Holds(<<"run", r>>, s)
    BY DEF Holders, Holds
  <2>3. scheduled_withdrawals[s].status # "none"
    BY <2>1, <2>2 DEF HeldAreStored, StatusOf
  <2> QED
    BY <2>1, <2>3 DEF StoredStay
<1> QED
  BY <1>1, RowOfStays

LEMMA CallHolder ==
  ASSUME NEW c \in Callers
  PROVE  /\ <<"call", c>> \in Holders
         /\ \A x : Holds(<<"call", c>>, x) <=> CallHolds(c, x)
         /\ \A x : HasQueued(<<"call", c>>, x) <=> call[c].op = "record"
         /\ \A x : Holds(<<"call", c>>, x)' <=> CallHolds(c, x)'
         /\ \A x : HasQueued(<<"call", c>>, x)' <=> call'[c].op = "record"
BY DEF Holders, Holds, HasQueued

LEMMA StatusFrame ==
  ASSUME NEW x, withdrawal_requests' = withdrawal_requests,
         scheduled_withdrawals' = scheduled_withdrawals
  PROVE  StatusOf(x)' = StatusOf(x)
BY DEF StatusOf

LEMMA QueuedFrame ==
  ASSUME NEW x, job' = job
  PROVE  Queued(x)' = Queued(x)
BY DEF Queued

LEMMA IdleHoldsNothing ==
  ASSUME NEW c \in Callers, NEW x
  PROVE  /\ call[c] = Idle => ~CallHolds(c, x)
         /\ call'[c] = Idle => ~CallHolds(c, x)'
         /\ call[c].op \in {"withdraw", "schedule"} => ~CallHolds(c, x)
         /\ call'[c].op \in {"withdraw", "schedule"} => ~CallHolds(c, x)'
<1>1. Idle.op = "idle"
  BY DEF Idle
<1> QED
  BY <1>1 DEF CallHolds

LEMMA CallKeepsRows ==
  ASSUME WithdrawalsInv, NEW c \in Callers, RouteStep(c), NEW x \in Rows \ torn'
  PROVE  RowInv(x)'
<1> DEFINE h == <<"call", c>>
<1>0. /\ WithdrawalsTypeOK /\ HeldAreStored /\ WithdrawalsTypeOK' /\ StoredStay
      /\ run' = run /\ \A d \in Callers \ {c} : call'[d] = call[d]
      /\ x \in Rows /\ x \in Sources
  BY CallStepTyped, SourceKinds DEF WithdrawalsInv, Rows
<1>1. OthersStill(h, x)
  <2>1. \A r \in Runs : RowOf(r)' = RowOf(r)
    BY <1>0, RowOfKept
  <2> QED
    BY <1>0, <2>1, OneCallMoves
<1>2. h \in Holders /\ (Holds(h, x) <=> CallHolds(c, x)) /\ (Holds(h, x)' <=> CallHolds(c, x)')
      /\ (HasQueued(h, x) <=> call[c].op = "record")
      /\ (HasQueued(h, x)' <=> call'[c].op = "record")
  BY CallHolder
<1> HIDE DEF h
<1>3. ASSUME x \notin torn, ~CallHolds(c, x), ~CallHolds(c, x)', StatusOf(x)' = StatusOf(x),
             Queued(x)' = Queued(x)
      PROVE  RowInv(x)'
  BY <1>0, <1>1, <1>2, <1>3, RowUntouched DEF WithdrawalsInv
<1>4. ASSUME NEW op \in CallType, Begin(c, op), op.op \in {"withdraw", "schedule"},
             UNCHANGED <<withdrawal_requests, scheduled_withdrawals, run, job, torn>>
      PROVE  RowInv(x)'
  <2>1. call[c] = Idle /\ call'[c] = op
    BY <1>0, <1>4, CallBegins
  <2>2. ~CallHolds(c, x) /\ ~CallHolds(c, x)'
    BY <1>4, <2>1, IdleHoldsNothing
  <2> QED
    BY <1>3, <1>4, <2>2, StatusFrame, QueuedFrame
<1>5. ASSUME NEW op \in CallType, Begin(c, op), Hold({op.row}), op.row \in Rows,
             StatusOf(op.row) = "pending", op.op \in {"approve", "reject", "cancel", "unschedule"},
             UNCHANGED <<withdrawal_requests, scheduled_withdrawals, run, job>>
      PROVE  RowInv(x)'
  <2>1. call[c] = Idle /\ call'[c] = op
    BY <1>0, <1>5, CallBegins
  <2>2. ~CallHolds(c, x) /\ (CallHolds(c, x)' <=> x = op.row) /\ call'[c].op # "record"
    BY <1>5, <2>1, IdleHoldsNothing DEF CallHolds
  <2>3. StatusOf(x)' = StatusOf(x) /\ Queued(x)' = Queued(x)
    BY <1>5, StatusFrame, QueuedFrame
  <2>4. x \notin torn /\ (x = op.row => x \notin Held)
    BY <1>5 DEF Hold
  <2>5. CASE x = op.row
    <3>1. \A g \in Holders : ~Holds(g, x)
      BY <1>0, <2>4, <2>5, HeldByHolders
    <3>2. StatusOf(x) = "pending"
      BY <1>5, <2>5
    <3> QED
      BY <1>0, <1>1, <1>2, <2>2, <2>3, <2>4, <2>5, <3>1, <3>2, RowTaken DEF WithdrawalsInv
  <2>6. CASE x # op.row
    BY <1>3, <2>2, <2>3, <2>4, <2>6
  <2> QED
    BY <2>5, <2>6
<1>6. CASE ApproveQueued(c)
  <2>1. call[c].op = "approve" /\ QueueJob(call[c].row)
        /\ call' = [call EXCEPT ![c].op = "record"]
        /\ UNCHANGED <<withdrawal_requests, scheduled_withdrawals, torn>>
    BY <1>6 DEF ApproveQueued
  <2>2. PICK y \in Requests : y = call[c].row
    BY <1>0, <2>1, CallFields
  <2>3. call'[c].op = "record" /\ call'[c].row = y
    BY <1>0, <2>1, <2>2, CallQueues
  <2>4. (CallHolds(c, x) <=> x = y) /\ (CallHolds(c, x)' <=> x = y)
    BY <2>1, <2>2, <2>3 DEF CallHolds
  <2>5. /\ Queued(y)' = Queued(y) + 1
        /\ \A z \in Sources \ {y} : Queued(z)' = Queued(z)
    BY <1>0, <2>1, <2>2, SourceKinds, JobQueued
  <2>6. StatusOf(x)' = StatusOf(x) /\ x \notin torn
    BY <2>1, StatusFrame
  <2>7. CASE x = y
    BY <1>0, <1>1, <1>2, <2>1, <2>3, <2>4, <2>5, <2>6, <2>7, RowGetsJob DEF WithdrawalsInv
  <2>8. CASE x # y
    BY <1>0, <1>3, <2>4, <2>5, <2>6, <2>8
  <2> QED
    BY <2>7, <2>8
<1>7. ASSUME NEW y \in Rows, x \notin torn, ~CallHolds(c, x), ~CallHolds(c, x)',
             Queued(x)' = Queued(x),
             StatusOf(y) = "none", StatusOf(y)' = "pending", x # y => StatusOf(x)' = StatusOf(x)
      PROVE  RowInv(x)'
  <2>1. CASE x = y
    BY <1>0, <1>1, <1>2, <1>7, <2>1, RowStored DEF WithdrawalsInv
  <2>2. CASE x # y
    BY <1>3, <1>7, <2>2
  <2> QED
    BY <2>1, <2>2
<1>8. ASSUME NEW s \in Staged, NEW target \in Nat,
             call[c].op \in {"withdraw", "schedule"}, InsertStaged(c, s, target)
      PROVE  RowInv(x)'
  <2>1. End(c) /\ job' = job /\ torn' = torn /\ withdrawal_requests' = withdrawal_requests
    BY <1>8 DEF InsertStaged
  <2>2. ~CallHolds(c, x) /\ ~CallHolds(c, x)'
    BY <1>0, <1>8, <2>1, CallEnds, IdleHoldsNothing
  <2>3. StatusOf(s) = "none" /\ StatusOf(s)' = "pending" /\ (x # s => StatusOf(x)' = StatusOf(x))
    <3>1. /\ scheduled_withdrawals[s].status = "none"
          /\ scheduled_withdrawals'[s].status = "pending"
          /\ \A t \in Staged \ {s} : scheduled_withdrawals'[t] = scheduled_withdrawals[t]
      BY <1>0, <1>8, StagedInserted
    <3> QED
      BY <1>0, <2>1, <3>1, SourceKinds DEF StatusOf, Rows
  <2> QED
    BY <1>7, <2>1, <2>2, <2>3, QueuedFrame DEF Rows
<1>9. ASSUME NEW q \in Requests, WithdrawOnRequest(c, q)
      PROVE  RowInv(x)'
  <2>1. End(c) /\ job' = job /\ torn' = torn /\ call[c].op = "withdraw"
        /\ scheduled_withdrawals' = scheduled_withdrawals
    BY <1>9 DEF WithdrawOnRequest
  <2>2. ~CallHolds(c, x) /\ ~CallHolds(c, x)'
    BY <1>0, <2>1, CallEnds, IdleHoldsNothing
  <2>3. StatusOf(q) = "none" /\ StatusOf(q)' = "pending" /\ (x # q => StatusOf(x)' = StatusOf(x))
    <3>1. /\ withdrawal_requests[q].status = "none"
          /\ withdrawal_requests'[q].status = "pending"
          /\ \A p \in Requests \ {q} : withdrawal_requests'[p] = withdrawal_requests[p]
      BY <1>0, <1>9, RequestInserted
    <3> QED
      BY <1>0, <2>1, <3>1, SourceKinds DEF StatusOf, Rows
  <2> QED
    BY <1>7, <2>1, <2>2, <2>3, QueuedFrame DEF Rows
<1>10. CASE WithdrawNow(c)
  <2>1. call[c].op = "withdraw" /\ QueueJob("direct") /\ End(c)
        /\ UNCHANGED <<withdrawal_requests, scheduled_withdrawals, torn>>
    BY <1>10 DEF WithdrawNow
  <2>2. Queued(x)' = Queued(x)
    BY <1>0, <2>1, SourceKinds, JobQueued DEF Rows
  <2>3. ~CallHolds(c, x) /\ ~CallHolds(c, x)'
    BY <1>0, <2>1, CallEnds, IdleHoldsNothing
  <2> QED
    BY <1>3, <2>1, <2>2, <2>3, StatusFrame
(* A call that lets go of its row y, having written the outcome or not. *)
<1>11. ASSUME NEW y \in Rows, x \notin torn, End(c), job' = job, CallHolds(c, y),
              x # y => StatusOf(x)' = StatusOf(x),
              x = y => (call[c].op = "record" <=> StatusOf(x)' \in {"approved", "executed"})
       PROVE  RowInv(x)'
  <2>1. (CallHolds(c, x) <=> x = y) /\ ~CallHolds(c, x)'
    BY <1>0, <1>11, CallEnds, IdleHoldsNothing DEF CallHolds
  <2>2. CASE x = y
    BY <1>0, <1>1, <1>2, <1>11, <2>1, <2>2, QueuedFrame, RowReleased DEF WithdrawalsInv
  <2>3. CASE x # y
    BY <1>3, <1>11, <2>1, <2>3, QueuedFrame
  <2> QED
    BY <2>2, <2>3
<1>12. ASSUME NEW status \in {"approved", "rejected", "cancelled"},
              call[c].op \in {"record", "reject", "cancel"},
              status = "approved" <=> call[c].op = "record", WriteRequest(c, status)
       PROVE  RowInv(x)'
  <2>1. PICK q \in Requests : q = call[c].row
    BY <1>0, <1>12, CallFields
  <2>2. withdrawal_requests' = [withdrawal_requests EXCEPT ![q].status = status]
        /\ End(c) /\ job' = job /\ torn' = torn
        /\ scheduled_withdrawals' = scheduled_withdrawals
    BY <1>12, <2>1 DEF WriteRequest
  <2>3. StatusOf(q)' = status /\ (x # q => StatusOf(x)' = StatusOf(x))
    <3>1. /\ withdrawal_requests'[q].status = status
          /\ \A p \in Requests \ {q} : withdrawal_requests'[p] = withdrawal_requests[p]
      BY <1>0, <2>2, RequestSet
    <3> QED
      BY <1>0, <2>2, <3>1 DEF StatusOf, Rows
  <2>4. CallHolds(c, q) /\ q \in Rows
    BY <1>12, <2>1 DEF CallHolds, Rows
  <2> QED
    BY <1>11, <1>12, <2>2, <2>3, <2>4
<1>13. CASE CancelScheduledWritten(c)
  <2>1. PICK s \in Staged : s = call[c].row
    BY <1>0, <1>13, CallFields DEF CancelScheduledWritten
  <2>2. scheduled_withdrawals' = [scheduled_withdrawals EXCEPT ![s].status = "cancelled"]
        /\ End(c) /\ job' = job /\ torn' = torn /\ call[c].op = "unschedule"
        /\ withdrawal_requests' = withdrawal_requests
    BY <1>13, <2>1 DEF CancelScheduledWritten
  <2>3. StatusOf(s)' = "cancelled" /\ (x # s => StatusOf(x)' = StatusOf(x))
    <3>1. /\ scheduled_withdrawals'[s].status = "cancelled"
          /\ \A t \in Staged \ {s} : scheduled_withdrawals'[t] = scheduled_withdrawals[t]
      BY <1>0, <2>2, StagedSet
    <3> QED
      BY <1>0, <2>2, <3>1, SourceKinds DEF StatusOf, Rows
  <2>4. CallHolds(c, s) /\ s \in Rows
    BY <2>1, <2>2 DEF CallHolds, Rows
  <2> QED
    BY <1>11, <2>2, <2>3, <2>4
(* Nothing is written: what a row of one holder says is "pending" still. *)
<1>14. ASSUME NEW y \in Rows, x \notin torn, End(c), job' = job, CallHolds(c, y),
              UNCHANGED <<withdrawal_requests, scheduled_withdrawals>>,
              x = y => call[c].op # "record"
       PROVE  RowInv(x)'
  <2>1. StatusOf(x)' = StatusOf(x)
    BY <1>14, StatusFrame
  <2>2. x = y => StatusOf(x) = "pending"
    <3>1. RowInv(x)
      BY <1>14 DEF WithdrawalsInv
    <3> QED
      BY <1>2, <1>14, <3>1 DEF RowInv
  <2> QED
    BY <1>11, <1>14, <2>1, <2>2
<1>15. CASE Refuse(c)
  <2>1. call[c].op \in {"withdraw", "schedule", "approve"} /\ End(c) /\ job' = job /\ torn' = torn
        /\ UNCHANGED <<withdrawal_requests, scheduled_withdrawals>>
    BY <1>15 DEF Refuse
  <2>2. CASE call[c].op = "approve"
    <3>1. call[c].row \in Rows /\ CallHolds(c, call[c].row)
      BY <1>0, <2>2, CallFields DEF Rows, CallHolds
    <3> QED
      BY <1>14, <2>1, <2>2, <3>1
  <2>3. CASE call[c].op # "approve"
    <3>1. ~CallHolds(c, x) /\ ~CallHolds(c, x)'
      BY <1>0, <2>1, <2>3, CallEnds, IdleHoldsNothing
    <3> QED
      BY <1>3, <2>1, <3>1, StatusFrame, QueuedFrame
  <2> QED
    BY <2>2, <2>3
<1>16. CASE CallBreaks(c)
  <2>1. call[c].op \in {"record", "reject", "cancel", "unschedule"} /\ End(c) /\ job' = job
        /\ torn' = (IF call[c].op = "record" THEN torn \cup {call[c].row} ELSE torn)
        /\ UNCHANGED <<withdrawal_requests, scheduled_withdrawals>>
    BY <1>16 DEF CallBreaks
  <2>2. call[c].row \in Rows /\ CallHolds(c, call[c].row)
    BY <1>0, <2>1, CallFields DEF Rows, CallHolds
  <2>3. x \notin torn /\ (x = call[c].row => call[c].op # "record")
    BY <2>1
  <2> QED
    BY <1>14, <2>1, <2>2, <2>3
<1> QED
  BY <1>0, <1>4, <1>5, <1>6, <1>8, <1>9, <1>10, <1>12, <1>13, <1>15, <1>16, CallKinds


-----------------------------------------------------------------------------
(* Rows under the steps of a run *)

(* What the actions of a run do: it takes what is due, moves on with its row, *)
(* queues its job, writes its outcome, or drops the row or all of them.       *)
RunTakes(r) ==
  /\ run[r].at = "idle" /\ Due # {}
  /\ run' = [run EXCEPT ![r] = [at |-> "next", todo |-> Due, kyc |-> kyc_approved]]
  /\ Hold(Due) /\ UNCHANGED <<scheduled_withdrawals, job, checked>>

RunLooks(r) ==
  /\ run[r].at = "next" /\ torn' = torn
  /\ \E at \in {"queue", "block"} :
       /\ run' = [run EXCEPT ![r].at = at]
       /\ checked' = IF at = "queue" THEN checked \cup {RowOf(r)} ELSE checked
       /\ at = "queue" <=> Covered(RowOf(r))
  /\ UNCHANGED <<scheduled_withdrawals, job>>

RunWrites(r, status) ==
  /\ run[r].at # "idle" /\ (status = "executed" <=> run[r].at = "record")
  /\ SetStaged(RowOf(r), status) /\ NextRow(r)
  /\ UNCHANGED <<job, torn, checked>>

RunDrops(r) ==
  /\ run[r].at # "idle" /\ (NextRow(r) \/ run' = [run EXCEPT ![r] = NoRun])
  /\ Tear(r) /\ UNCHANGED <<scheduled_withdrawals, job, checked>>

LEMMA RunKinds ==
  ASSUME NEW r \in Runs, RunWorks(r) \/ RunBreaks(r)
  PROVE  /\ \/ RunTakes(r) \/ RunLooks(r) \/ RunQueues(r) \/ RunDrops(r)
            \/ \E status \in {"executed", "blocked"} : RunWrites(r, status)
         /\ UNCHANGED <<now, kyc_approved, dual, withdrawal_requests, call, chain>>
<1>1. CASE StartRun(r)
  <2>1. {s \in Staged : DueNow(s)} = Due
    BY DEF DueNow, Due
  <2> QED
    BY <1>1, <2>1 DEF StartRun, RunTakes
<1>2. CASE RunChecks(r)
  BY <1>2 DEF RunChecks, RunLooks
<1>3. CASE RunBlocks(r)
  BY <1>3 DEF RunBlocks, RunWrites
<1>4. CASE RunQueues(r)
  BY <1>4 DEF RunQueues
<1>5. CASE RunRecords(r)
  BY <1>5 DEF RunRecords, RunWrites
<1>6. CASE RunFails(r)
  BY <1>6 DEF RunFails, RunDrops
<1>7. CASE RunDies(r)
  BY <1>7 DEF RunDies, RunDrops
<1> QED
  BY <1>1, <1>2, <1>3, <1>4, <1>5, <1>6, <1>7 DEF RunWorks, RunBreaks

(* A run that is not idle has a row, and it is one of those it holds. *)
LEMMA RowInHand ==
  ASSUME WithdrawalsTypeOK, HeldAreStored, NEW r \in Runs, run[r].at # "idle"
  PROVE  RowOf(r) \in run[r].todo /\ RowOf(r) \in Staged /\ RowOf(r) \in Rows
         /\ RowOf(r) \in Sources /\ StatusOf(RowOf(r)) # "none"
         /\ scheduled_withdrawals[RowOf(r)].status # "none"
<1>1. run[r].todo # {}
  BY DEF HeldAreStored
<1>2. PICK s \in Staged : s = RowOf(r) /\ s \in run[r].todo
  BY <1>1, RowOfRun
<1>3. <<"run", r>> \in Holders /\ Holds(<<"run", r>>, s)
  BY <1>2 DEF Holders, Holds
<1>4. s \in Rows /\ s \in Sources /\ s \notin Requests
  BY SourceKinds DEF Rows
<1> QED
  BY <1>2, <1>3, <1>4 DEF HeldAreStored, StatusOf

LEMMA RunDropsRows ==
  ASSUME WithdrawalsTypeOK, NEW r \in Runs, RunDrops(r)
  PROVE  /\ run' \in [Runs -> RunType] /\ run'[r].at \in {"idle", "next"}
         /\ run'[r].todo \in {run[r].todo \ {RowOf(r)}, {}}
         /\ run'[r].at = "idle" <=> run'[r].todo = {}
         /\ \A t \in Runs \ {r} : run'[t] = run[t]
<1>1. CASE NextRow(r)
  BY <1>1, RunGoesOn
<1>2. CASE run' = [run EXCEPT ![r] = NoRun]
  <2>1. NoRun \in RunType /\ NoRun.at = "idle" /\ NoRun.todo = {}
    BY DEF NoRun, RunType
  <2> QED
    BY <1>2, <2>1, RunChanges
<1> QED
  BY <1>1, <1>2 DEF RunDrops

LEMMA RunStepTyped ==
  ASSUME WithdrawalsTypeOK, HeldAreStored, NEW r \in Runs, RunWorks(r) \/ RunBreaks(r)
  PROVE  /\ WithdrawalsTypeOK' /\ StoredStay
         /\ call' = call /\ chain' = chain /\ withdrawal_requests' = withdrawal_requests
         /\ run'[r].at = "idle" <=> run'[r].todo = {}
         /\ \A t \in Runs \ {r} : run'[t] = run[t]
<1>0. UNCHANGED <<now, kyc_approved, dual, withdrawal_requests, call, chain>>
  BY RunKinds
<1>1. CASE RunTakes(r)
  <2>1. Due \in SUBSET Staged /\ Due # {} /\ kyc_approved \in BOOLEAN
    BY <1>1 DEF RunTakes, Due, WithdrawalsTypeOK
  <2>2. [at |-> "next", todo |-> Due, kyc |-> kyc_approved] \in RunType
    BY <2>1 DEF RunType
  <2>3. /\ run' \in [Runs -> RunType]
        /\ run'[r] = [at |-> "next", todo |-> Due, kyc |-> kyc_approved]
        /\ \A t \in Runs \ {r} : run'[t] = run[t]
    BY <1>1, <2>2, RunChanges DEF RunTakes
  <2>4. torn' \in SUBSET (Requests \cup Staged)
    BY <1>1, <2>1 DEF RunTakes, Hold, WithdrawalsTypeOK
  <2>5. StoredStay
    BY <1>0, <1>1 DEF RunTakes, StoredStay
  <2> QED
    BY <1>0, <1>1, <2>1, <2>3, <2>4, <2>5 DEF RunTakes, WithdrawalsTypeOK, RunType
<1>2. CASE RunLooks(r)
  <2>1. PICK at \in {"queue", "block"} :
          /\ run' = [run EXCEPT ![r].at = at]
          /\ checked' = IF at = "queue" THEN checked \cup {RowOf(r)} ELSE checked
    BY <1>2 DEF RunLooks
  <2>2. /\ run' \in [Runs -> RunType] /\ run'[r].at = at /\ run'[r].todo = run[r].todo
        /\ \A t \in Runs \ {r} : run'[t] = run[t]
    BY <2>1, RunMoves
  <2>3. RowOf(r) \in Staged /\ run[r].todo # {}
    BY <1>2, RowInHand DEF RunLooks
  <2>4. checked' \in SUBSET Staged
    BY <2>1, <2>3 DEF WithdrawalsTypeOK
  <2>5. StoredStay
    BY <1>0, <1>2 DEF RunLooks, StoredStay
  <2> QED
    BY <1>0, <1>2, <2>2, <2>3, <2>4, <2>5 DEF RunLooks, WithdrawalsTypeOK, RunType
<1>3. CASE RunQueues(r)
  <2>1. run[r].at = "queue" /\ QueueJob(RowOf(r)) /\ run' = [run EXCEPT ![r].at = "record"]
        /\ UNCHANGED <<scheduled_withdrawals, torn, checked>>
    BY <1>3 DEF RunQueues
  <2>2. /\ run' \in [Runs -> RunType] /\ run'[r].at = "record" /\ run'[r].todo = run[r].todo
        /\ \A t \in Runs \ {r} : run'[t] = run[t]
    BY <2>1, RunMoves
  <2>3. RowOf(r) \in Sources /\ run[r].todo # {}
    BY <2>1, RowInHand
  <2>4. job' \in [Sources -> [waiting : Nat, paid : Nat, refused : Nat]]
    BY <2>1, <2>3, JobQueued
  <2>5. StoredStay
    BY <1>0, <2>1 DEF StoredStay
  <2> QED
    BY <1>0, <2>1, <2>2, <2>3, <2>4, <2>5 DEF WithdrawalsTypeOK, RunType
<1>4. CASE RunDrops(r)
  <2>1. /\ run' \in [Runs -> RunType]
        /\ run'[r].at = "idle" <=> run'[r].todo = {}
        /\ \A t \in Runs \ {r} : run'[t] = run[t]
    BY <1>4, RunDropsRows
  <2>2. RowOf(r) \in Staged
    BY <1>4, RowInHand DEF RunDrops
  <2>3. torn' \in SUBSET (Requests \cup Staged)
    BY <1>4, <2>2 DEF RunDrops, Tear, WithdrawalsTypeOK
  <2>4. StoredStay
    BY <1>0, <1>4 DEF RunDrops, StoredStay
  <2> QED
    BY <1>0, <1>4, <2>1, <2>3, <2>4 DEF RunDrops, WithdrawalsTypeOK, RunType
<1>5. ASSUME NEW status \in {"executed", "blocked"}, RunWrites(r, status)
      PROVE  /\ WithdrawalsTypeOK' /\ StoredStay
             /\ run'[r].at = "idle" <=> run'[r].todo = {}
             /\ \A t \in Runs \ {r} : run'[t] = run[t]
  <2>1. PICK s \in Staged : s = RowOf(r)
    BY <1>5, RowInHand DEF RunWrites
  <2>2. scheduled_withdrawals' = [scheduled_withdrawals EXCEPT ![s].status = status]
        /\ NextRow(r) /\ UNCHANGED <<job, torn, checked>>
    BY <1>5, <2>1 DEF RunWrites, SetStaged
  <2>3. /\ scheduled_withdrawals' \in
              [Staged -> [status : {"none", "pending", "executed", "blocked", "cancelled"},
                          amount : Nat, target : Nat]]
        /\ scheduled_withdrawals'[s].status = status
        /\ \A t \in Staged : /\ scheduled_withdrawals'[t].amount = scheduled_withdrawals[t].amount
                             /\ scheduled_withdrawals'[t].target = scheduled_withdrawals[t].target
        /\ \A t \in Staged \ {s} : scheduled_withdrawals'[t] = scheduled_withdrawals[t]
    BY <2>2, StagedSet
  <2>4. /\ run' \in [Runs -> RunType]
        /\ run'[r].at = "idle" <=> run'[r].todo = {}
        /\ \A t \in Runs \ {r} : run'[t] = run[t]
    BY <2>2, RunGoesOn
  <2>5. StoredStay
    BY <1>0, <2>3 DEF StoredStay
  <2> QED
    BY <1>0, <2>2, <2>3, <2>4, <2>5 DEF WithdrawalsTypeOK, RunType
<1> QED
  BY <1>0, <1>1, <1>2, <1>3, <1>4, <1>5, RunKinds

LEMMA RunHolder ==
  ASSUME NEW r \in Runs
  PROVE  /\ <<"run", r>> \in Holders
         /\ \A x : Holds(<<"run", r>>, x) <=> x \in run[r].todo
         /\ \A x : HasQueued(<<"run", r>>, x) <=> run[r].at = "record" /\ RowOf(r) = x
         /\ \A x : Holds(<<"run", r>>, x)' <=> x \in run'[r].todo
         /\ \A x : HasQueued(<<"run", r>>, x)' <=> run'[r].at = "record" /\ RowOf(r)' = x
BY DEF Holders, Holds, HasQueued

LEMMA RunKeepsRows ==
  ASSUME WithdrawalsInv, NEW r \in Runs, RunWorks(r) \/ RunBreaks(r), NEW x \in Rows \ torn'
  PROVE  RowInv(x)'
<1> DEFINE h == <<"run", r>>
<1>0. /\ WithdrawalsTypeOK /\ HeldAreStored /\ WithdrawalsTypeOK' /\ StoredStay
      /\ call' = call /\ \A t \in Runs \ {r} : run'[t] = run[t]
      /\ withdrawal_requests' = withdrawal_requests
      /\ x \in Rows /\ x \in Sources
  BY RunStepTyped, SourceKinds DEF WithdrawalsInv, Rows
<1>1. OthersStill(h, x)
  <2>1. \A t \in Runs \ {r} : RowOf(t)' = RowOf(t)
    BY <1>0, RowOfKept
  <2> QED
    BY <1>0, <2>1, OneRunMoves
<1>2. h \in Holders /\ (Holds(h, x) <=> x \in run[r].todo) /\ (Holds(h, x)' <=> x \in run'[r].todo)
      /\ (HasQueued(h, x) <=> run[r].at = "record" /\ RowOf(r) = x)
      /\ (HasQueued(h, x)' <=> run'[r].at = "record" /\ RowOf(r)' = x)
  BY RunHolder
<1> HIDE DEF h
<1>3. ASSUME x \notin torn, StatusOf(x)' = StatusOf(x), Queued(x)' = Queued(x),
             x \in run'[r].todo <=> x \in run[r].todo,
             x \in run[r].todo => (HasQueued(h, x)' <=> HasQueued(h, x))
      PROVE  RowInv(x)'
  BY <1>0, <1>1, <1>2, <1>3, RowUntouched DEF WithdrawalsInv
<1>4. CASE RunTakes(r)
  <2>1. run[r].todo = {} /\ run[r].at = "idle"
    BY <1>0, <1>4 DEF RunTakes, HeldAreStored
  <2>2. run'[r].todo = Due /\ run'[r].at = "next"
    BY <1>0, <1>4 DEF RunTakes, WithdrawalsTypeOK
  <2>3. StatusOf(x)' = StatusOf(x) /\ Queued(x)' = Queued(x)
    BY <1>0, <1>4, StatusFrame, QueuedFrame DEF RunTakes
  <2>4. x \notin torn /\ (x \in Due => x \notin Held)
    BY <1>4 DEF RunTakes, Hold
  <2>5. CASE x \in Due
    <3>1. \A g \in Holders : ~Holds(g, x)
      BY <1>0, <2>4, <2>5, HeldByHolders
    <3>2. StatusOf(x) = "pending"
      BY <2>5, SourceKinds DEF Due, StatusOf
    <3> QED
      BY <1>0, <1>1, <1>2, <2>2, <2>3, <2>4, <2>5, <3>1, <3>2, RowTaken DEF WithdrawalsInv
  <2>6. CASE x \notin Due
    BY <1>3, <2>1, <2>2, <2>3, <2>4, <2>6
  <2> QED
    BY <2>5, <2>6
<1>5. CASE RunLooks(r)
  <2>1. PICK at \in {"queue", "block"} : run' = [run EXCEPT ![r].at = at]
    BY <1>5 DEF RunLooks
  <2>2. run'[r].at = at /\ run'[r].todo = run[r].todo
    BY <1>0, <2>1, RunMoves
  <2>3. StatusOf(x)' = StatusOf(x) /\ Queued(x)' = Queued(x) /\ x \notin torn
        /\ run[r].at = "next"
    BY <1>0, <1>5, StatusFrame, QueuedFrame DEF RunLooks
  <2> QED
    BY <1>2, <1>3, <2>2, <2>3
<1>6. CASE RunQueues(r)
  <2>1. run[r].at = "queue" /\ QueueJob(RowOf(r)) /\ run' = [run EXCEPT ![r].at = "record"]
        /\ UNCHANGED <<scheduled_withdrawals, torn>>
    BY <1>6 DEF RunQueues
  <2>2. PICK y \in Staged : y = RowOf(r) /\ y \in run[r].todo /\ y \in Sources
    BY <1>0, <2>1, RowInHand
  <2>3. run'[r].at = "record" /\ run'[r].todo = run[r].todo
    BY <1>0, <2>1, RunMoves
  <2>4. RowOf(r)' = y
    BY <1>0, <2>2, <2>3, RowOfKept
  <2>5. /\ Queued(y)' = Queued(y) + 1
        /\ \A z \in Sources \ {y} : Queued(z)' = Queued(z)
    BY <1>0, <2>1, <2>2, JobQueued
  <2>6. StatusOf(x)' = StatusOf(x) /\ x \notin torn
    BY <1>0, <2>1, StatusFrame
  <2>7. CASE x = y
    BY <1>0, <1>1, <1>2, <2>1, <2>2, <2>3, <2>4, <2>5, <2>6, <2>7, RowGetsJob
       DEF WithdrawalsInv
  <2>8. CASE x # y
    BY <1>0, <1>2, <1>3, <2>1, <2>2, <2>3, <2>4, <2>5, <2>6, <2>8
  <2> QED
    BY <2>7, <2>8
<1>7. CASE RunDrops(r)
  <2>1. run'[r].at \in {"idle", "next"} /\ run'[r].todo \in {run[r].todo \ {RowOf(r)}, {}}
    BY <1>0, <1>7, RunDropsRows
  <2>2. StatusOf(x)' = StatusOf(x) /\ Queued(x)' = Queued(x)
    BY <1>0, <1>7, StatusFrame, QueuedFrame DEF RunDrops
  <2>3. x \notin torn /\ ~HasQueued(h, x)
    BY <1>2, <1>7 DEF RunDrops, Tear
  <2>4. CASE x \in run[r].todo /\ x \notin run'[r].todo
    <3>1. RowInv(x) /\ Holds(h, x)
      BY <1>0, <1>2, <2>3, <2>4 DEF WithdrawalsInv
    <3>2. StatusOf(x) = "pending"
      BY <1>2, <3>1 DEF RowInv
    <3> QED
      BY <1>0, <1>1, <1>2, <2>2, <2>3, <2>4, <3>1, <3>2, RowReleased
  <2>5. CASE x \in run'[r].todo <=> x \in run[r].todo
    BY <1>2, <1>3, <2>1, <2>2, <2>3, <2>5
  <2> QED
    BY <2>1, <2>4, <2>5
<1>8. ASSUME NEW status \in {"executed", "blocked"}, RunWrites(r, status)
      PROVE  RowInv(x)'
  <2>1. PICK y \in Staged : y = RowOf(r) /\ y \in run[r].todo
    BY <1>0, <1>8, RowInHand DEF RunWrites
  <2>2. scheduled_withdrawals' = [scheduled_withdrawals EXCEPT ![y].status = status]
        /\ NextRow(r) /\ job' = job /\ x \notin torn
        /\ (status = "executed" <=> run[r].at = "record")
    BY <1>8, <2>1 DEF RunWrites, SetStaged
  <2>3. run'[r].todo = run[r].todo \ {y} /\ run'[r].at \in {"idle", "next"}
    BY <1>0, <2>1, <2>2, RunGoesOn
  <2>4. StatusOf(y)' = status /\ (x # y => StatusOf(x)' = StatusOf(x))
    <3>1. /\ scheduled_withdrawals'[y].status = status
          /\ \A t \in Staged \ {y} : scheduled_withdrawals'[t] = scheduled_withdrawals[t]
      BY <1>0, <2>2, StagedSet
    <3> QED
      BY <1>0, <3>1, SourceKinds DEF StatusOf, Rows
  <2>5. CASE x = y
    BY <1>0, <1>1, <1>2, <2>1, <2>2, <2>3, <2>4, <2>5, QueuedFrame, RowReleased
       DEF WithdrawalsInv
  <2>6. CASE x # y
    BY <1>2, <1>3, <2>1, <2>2, <2>3, <2>4, <2>6, QueuedFrame
  <2> QED
    BY <2>5, <2>6
<1> QED
  BY <1>4, <1>5, <1>6, <1>7, <1>8, RunKinds


-----------------------------------------------------------------------------

LEMMA StoredStatus ==
  ASSUME StoredStay, NEW x \in Rows, StatusOf(x) # "none"
  PROVE  StatusOf(x)' # "none"
BY DEF StoredStay, StatusOf, Rows

LEMMA CallKeepsHeld ==
  ASSUME WithdrawalsInv, NEW c \in Callers, RouteStep(c)
  PROVE  HeldAreStored' /\ ApproversMay' /\ ChecksHold'
<1>0. /\ WithdrawalsTypeOK /\ HeldAreStored /\ WithdrawalsTypeOK' /\ StoredStay
      /\ run' = run /\ chain' = chain /\ checked' = checked
      /\ \A d \in Callers \ {c} : call'[d] = call[d]
  BY CallStepTyped DEF WithdrawalsInv
<1>1. \A x : OthersStill(<<"call", c>>, x)
  <2>1. \A r \in Runs : RowOf(r)' = RowOf(r)
    BY <1>0, RowOfKept
  <2> QED
    BY <1>0, <2>1, OneCallMoves
(* What call c holds or is about to approve afterwards. *)
<1> DEFINE Good == /\ \A x \in Rows : CallHolds(c, x)' => StatusOf(x)' # "none"
                   /\ call'[c].op = "approve" => MayApprove(call[c].user, call[c].row)'
<1>2. Good
  <2>1. ASSUME NEW op \in CallType, Begin(c, op), op.op \in {"withdraw", "schedule"}
        PROVE  Good
    <3>1. call'[c] = op
      BY <1>0, <2>1, CallBegins
    <3> QED
      BY <2>1, <3>1 DEF CallHolds
  <2>2. ASSUME NEW op \in CallType, Begin(c, op), op.row \in Rows,
               StatusOf(op.row) = "pending",
               op.op = "approve" => MayApprove(op.user, op.row),
               UNCHANGED <<withdrawal_requests, scheduled_withdrawals>>
        PROVE  Good
    <3>1. call'[c] = op
      BY <1>0, <2>2, CallBegins
    <3>2. \A x \in Rows : CallHolds(c, x)' => x = op.row
      BY <3>1 DEF CallHolds
    <3>3. StatusOf(op.row)' = "pending"
      BY <2>2, StatusFrame
    <3>4. op.op = "approve" => MayApprove(call[c].user, call[c].row)'
      BY <2>2, <3>1 DEF MayApprove
    <3> QED
      BY <3>1, <3>2, <3>3, <3>4
  <2>3. ASSUME End(c) PROVE Good
    <3>1. call'[c] = Idle /\ Idle.op = "idle"
      BY <1>0, <2>3, CallEnds DEF Idle
    <3> QED
      BY <3>1, IdleHoldsNothing
  <2>4. CASE ApproveQueued(c)
    <3>1. call[c].op = "approve" /\ call' = [call EXCEPT ![c].op = "record"]
      BY <2>4 DEF ApproveQueued
    <3>2. call'[c].op = "record" /\ call'[c].row = call[c].row
      BY <1>0, <3>1, CallQueues
    <3>3. ASSUME NEW x \in Rows, CallHolds(c, x)' PROVE StatusOf(x)' # "none"
      <4>1. CallHolds(c, x)
        BY <3>1, <3>2, <3>3 DEF CallHolds
      <4>2. StatusOf(x) # "none"
        BY <1>0, <4>1, CallHolder DEF HeldAreStored
      <4> QED
        BY <1>0, <4>2, StoredStatus
    <3> QED
      BY <3>2, <3>3
  <2> HIDE DEF Good
  <2>5. \/ \E op \in CallType : Begin(c, op) /\ op.op \in {"withdraw", "schedule"}
        \/ \E op \in CallType :
             /\ Begin(c, op) /\ op.row \in Rows /\ StatusOf(op.row) = "pending"
             /\ op.op = "approve" => MayApprove(op.user, op.row)
             /\ UNCHANGED <<withdrawal_requests, scheduled_withdrawals>>
        \/ ApproveQueued(c) \/ End(c)
    BY <1>0, CallKinds DEF InsertStaged, WithdrawOnRequest, WithdrawNow, WriteRequest,
                      CancelScheduledWritten, Refuse, CallBreaks
  <2> QED
    BY <2>1, <2>2, <2>3, <2>4, <2>5
<1> HIDE DEF Good
<1>3. ASSUME NEW h \in Holders, NEW x \in Rows, Holds(h, x)' PROVE StatusOf(x)' # "none"
  <2>1. CASE h = <<"call", c>>
    BY <1>2, <1>3, <2>1, CallHolder DEF Good
  <2>2. CASE h # <<"call", c>>
    <3>1. StatusOf(x) # "none"
      BY <1>0, <1>1, <1>3, <2>2 DEF OthersStill, HeldAreStored
    <3> QED
      BY <1>0, <3>1, StoredStatus
  <2> QED
    BY <2>1, <2>2
<1>4. HeldAreStored'
  BY <1>0, <1>3 DEF HeldAreStored
<1>5. ApproversMay'
  <2> SUFFICES ASSUME NEW d \in Callers, call'[d].op = "approve"
               PROVE  MayApprove(call[d].user, call[d].row)'
    BY DEF ApproversMay
  <2>1. CASE d = c
    BY <1>2, <2>1 DEF Good
  <2>2. CASE d # c
    <3>1. call'[d] = call[d] /\ call[d].op = "approve"
      BY <1>0, <2>2
    <3>2. PICK q \in Requests : q = call[d].row
      BY <1>0, <3>1, CallFields
    <3>3. CallHolds(d, q) /\ q \in Rows
      BY <3>1, <3>2 DEF CallHolds, Rows
    <3>4. withdrawal_requests[q].status # "none"
      BY <1>0, <3>3, CallHolder DEF HeldAreStored, StatusOf
    <3>5. withdrawal_requests'[q].by = withdrawal_requests[q].by
      BY <1>0, <3>4 DEF StoredStay
    <3>6. MayApprove(call[d].user, q)
      BY <3>1, <3>2 DEF WithdrawalsInv, ApproversMay
    <3> QED
      BY <3>1, <3>2, <3>5, <3>6 DEF MayApprove
  <2> QED
    BY <2>1, <2>2
<1>6. ChecksHold'
  BY <1>0 DEF WithdrawalsInv, WithdrawalsTypeOK, ChecksHold, StoredStay, Covered
<1> QED
  BY <1>4, <1>5, <1>6

LEMMA RunKeepsHeld ==
  ASSUME WithdrawalsInv, NEW r \in Runs, RunWorks(r) \/ RunBreaks(r)
  PROVE  HeldAreStored' /\ ApproversMay' /\ ChecksHold'
<1>0. /\ WithdrawalsTypeOK /\ HeldAreStored /\ WithdrawalsTypeOK' /\ StoredStay
      /\ call' = call /\ chain' = chain /\ withdrawal_requests' = withdrawal_requests
      /\ run'[r].at = "idle" <=> run'[r].todo = {}
      /\ \A t \in Runs \ {r} : run'[t] = run[t]
  BY RunStepTyped DEF WithdrawalsInv
<1>1. \A x : OthersStill(<<"run", r>>, x)
  <2>1. \A t \in Runs \ {r} : RowOf(t)' = RowOf(t)
    BY <1>0, RowOfKept
  <2> QED
    BY <1>0, <2>1, OneRunMoves
<1>2. ASSUME NEW x \in Rows, x \in run'[r].todo
      PROVE  StatusOf(x) # "none"
  <2>1. x \in run[r].todo => StatusOf(x) # "none"
    BY <1>0, RunHolder DEF HeldAreStored
  <2>2. CASE RunTakes(r)
    <3>1. x \in Due
      BY <1>0, <1>2, <2>2 DEF RunTakes, WithdrawalsTypeOK
    <3> QED
      BY <3>1, SourceKinds DEF Due, StatusOf
  <2>3. CASE RunLooks(r)
    BY <1>0, <1>2, <2>1, <2>3, RunMoves DEF RunLooks
  <2>4. CASE RunQueues(r)
    BY <1>0, <1>2, <2>1, <2>4, RunMoves DEF RunQueues
  <2>5. CASE RunDrops(r)
    BY <1>0, <1>2, <2>1, <2>5, RunDropsRows
  <2>6. ASSUME NEW status \in {"executed", "blocked"}, RunWrites(r, status)
        PROVE  StatusOf(x) # "none"
    BY <1>0, <1>2, <2>1, <2>6, RunGoesOn DEF RunWrites
  <2> QED
    BY <2>2, <2>3, <2>4, <2>5, <2>6, RunKinds
<1>3. ASSUME NEW h \in Holders, NEW x \in Rows, Holds(h, x)' PROVE StatusOf(x)' # "none"
  <2>1. StatusOf(x) # "none"
    <3>1. CASE h = <<"run", r>>
      BY <1>2, <1>3, <3>1, RunHolder
    <3>2. CASE h # <<"run", r>>
      BY <1>0, <1>1, <1>3, <3>2 DEF OthersStill, HeldAreStored
    <3> QED
      BY <3>1, <3>2
  <2> QED
    BY <1>0, <2>1, StoredStatus
<1>4. HeldAreStored'
  BY <1>0, <1>3 DEF HeldAreStored
<1>5. ApproversMay'
  BY <1>0 DEF WithdrawalsInv, ApproversMay, MayApprove
<1>6. ChecksHold'
  <2>1. \A s \in checked' : s \in checked \/
          (s \in Staged /\ scheduled_withdrawals[s].status # "none" /\ Covered(s))
    <3>1. CASE RunLooks(r)
      BY <1>0, <3>1, RowInHand DEF RunLooks
    <3>2. CASE checked' = checked
      BY <3>2
    <3> QED
      BY <3>1, <3>2, RunKinds DEF RunTakes, RunQueues, RunDrops, RunWrites
  <2>2. \A s \in checked : s \in Staged /\ scheduled_withdrawals[s].status # "none" /\ Covered(s)
    BY DEF WithdrawalsInv, WithdrawalsTypeOK, ChecksHold
  <2> QED
    BY <1>0, <2>1, <2>2 DEF ChecksHold, StoredStay, Covered
<1> QED
  BY <1>4, <1>5, <1>6

LEMMA OutsideKeeps ==
  ASSUME WithdrawalsInv, Outside
  PROVE  WithdrawalsInv'
<1>0. WithdrawalsTypeOK /\ HeldAreStored /\ ApproversMay /\ ChecksHold
  BY DEF WithdrawalsInv
<1>1. UNCHANGED <<withdrawal_requests, scheduled_withdrawals, call, run, torn>>
  BY DEF Outside, Tick, DecideKyc, ConfigureDual, Settle, Reassess
<1>2. ASSUME WithdrawalsTypeOK', ChecksHold', \A x \in Sources : Queued(x)' = Queued(x)
      PROVE  WithdrawalsInv'
  <2>1. \A r \in Runs : RowOf(r)' = RowOf(r)
    BY <1>1 DEF RowOf
  <2>2. \A h \in Holders : \A x :
           (Holds(h, x)' <=> Holds(h, x)) /\ (HasQueued(h, x)' <=> HasQueued(h, x))
    BY <1>1, <2>1 DEF Holders, Holds, HasQueued, CallHolds
  <2>3. \A x : StatusOf(x)' = StatusOf(x)
    BY <1>1 DEF StatusOf
  <2>4. HeldAreStored'
    BY <1>0, <1>1, <2>2, <2>3 DEF HeldAreStored
  <2>5. ApproversMay'
    BY <1>0, <1>1 DEF ApproversMay, MayApprove
  <2>6. ASSUME NEW x \in Rows \ torn' PROVE RowInv(x)'
    <3>1. RowInv(x) /\ Queued(x)' = Queued(x)
      BY <1>1, <1>2, <2>6, SourceKinds DEF WithdrawalsInv, Rows
    <3> QED
      BY <2>2, <2>3, <3>1 DEF RowInv
  <2> QED
    BY <1>2, <2>4, <2>5, <2>6 DEF WithdrawalsInv
<1>3. CASE Tick \/ DecideKyc \/ \E setting \in Dual : ConfigureDual(setting)
  <2>1. UNCHANGED <<job, chain, checked>>
    BY <1>3 DEF Tick, DecideKyc, ConfigureDual
  <2>2. now' \in Nat /\ kyc_approved' \in BOOLEAN /\ dual' \in Dual
    <3>1. now \in Nat /\ kyc_approved \in BOOLEAN /\ dual \in Dual
      BY <1>0 DEF WithdrawalsTypeOK
    <3>2. CASE Tick
      BY <3>1, <3>2 DEF Tick
    <3>3. CASE DecideKyc
      BY <3>1, <3>3 DEF DecideKyc
    <3>4. CASE \E setting \in Dual : ConfigureDual(setting)
      BY <3>1, <3>4 DEF ConfigureDual
    <3> QED
      BY <1>3, <3>2, <3>3, <3>4
  <2>3. WithdrawalsTypeOK'
    BY <1>0, <1>1, <2>1, <2>2 DEF WithdrawalsTypeOK
  <2>4. ChecksHold'
    BY <1>0, <1>1, <2>1 DEF ChecksHold, Covered
  <2> QED
    BY <1>2, <2>1, <2>3, <2>4, QueuedFrame
<1>4. ASSUME NEW x \in Sources, Settle(x) PROVE WithdrawalsInv'
  <2>1. /\ job' \in [Sources -> [waiting : Nat, paid : Nat, refused : Nat]]
        /\ \A y \in Sources : Queued(y)' = Queued(y)
    BY <1>0, <1>4, JobSettled
  <2>2. /\ chain' \in [collateral : Nat, required : Required, inForce : Required, open : BOOLEAN]
        /\ checked' = {} \/ (checked' = checked /\ chain' = chain)
    <3>1. chain \in [collateral : Nat, required : Required, inForce : Required, open : BOOLEAN]
          /\ chain.inForce \in Nat
      BY <1>0, WithdrawalsAssumption DEF WithdrawalsTypeOK
    <3>2. PICK amount \in IF x = "direct" THEN Amounts ELSE {AmountOf(x)} :
            \/ /\ chain.collateral - amount >= chain.inForce
               /\ chain' = [chain EXCEPT !.collateral = @ - amount] /\ checked' = {}
            \/ UNCHANGED <<chain, checked>>
      BY <1>4 DEF Settle
    <3>3. amount \in Nat
      <4>1. CASE x = "direct"
        BY <3>2, <4>1, WithdrawalsAssumption
      <4>2. CASE x # "direct"
        BY <1>0, <3>2, <4>2 DEF AmountOf, Sources, WithdrawalsTypeOK
      <4> QED
        BY <4>1, <4>2
    <3>4. CASE /\ chain.collateral - amount >= chain.inForce
               /\ chain' = [chain EXCEPT !.collateral = @ - amount] /\ checked' = {}
      <4>1. chain.collateral - amount \in Nat
        BY <3>1, <3>3, <3>4
      <4> QED
        BY <3>1, <3>4, <4>1
    <3>5. CASE UNCHANGED <<chain, checked>>
      BY <3>1, <3>5
    <3> QED
      BY <3>2, <3>4, <3>5
  <2>3. UNCHANGED <<now, kyc_approved, dual>>
    BY <1>4 DEF Settle
  <2>4. WithdrawalsTypeOK'
    BY <1>0, <1>1, <2>1, <2>2, <2>3 DEF WithdrawalsTypeOK
  <2>5. ChecksHold'
    BY <1>0, <1>1, <2>2 DEF ChecksHold, Covered
  <2> QED
    BY <1>2, <2>1, <2>4, <2>5
<1>5. ASSUME NEW required \in Required, NEW inForce \in Required, NEW open \in BOOLEAN,
             Reassess(required, inForce, open)
      PROVE  WithdrawalsInv'
  <2>1. UNCHANGED <<now, kyc_approved, dual, job>> /\ checked' = {}
        /\ chain' = [chain EXCEPT !.required = required, !.inForce = inForce, !.open = open]
    BY <1>5 DEF Reassess
  <2>2. chain' \in [collateral : Nat, required : Required, inForce : Required, open : BOOLEAN]
    BY <1>0, <2>1 DEF WithdrawalsTypeOK
  <2>3. WithdrawalsTypeOK' /\ ChecksHold'
    BY <1>0, <1>1, <2>1, <2>2 DEF WithdrawalsTypeOK, ChecksHold
  <2> QED
    BY <1>2, <2>1, <2>3, QueuedFrame
<1> QED
  BY <1>3, <1>4, <1>5 DEF Outside

LEMMA WithdrawalsInitially == Init => WithdrawalsInv
<1> SUFFICES ASSUME Init PROVE WithdrawalsInv
  OBVIOUS
<1>1. Idle \in CallType /\ Idle.op = "idle"
  BY DEF Idle, CallType
<1>2. NoRun \in RunType /\ NoRun.todo = {} /\ NoRun.at = "idle"
  BY DEF NoRun, RunType
<1>3. \A x : \A h \in Holders : ~Holds(h, x)
  BY <1>1, <1>2 DEF Init, Holders, Holds, CallHolds
<1>4. \A x \in Rows : Queued(x) = 0 /\ StatusOf(x) = "none"
  BY DEF Init, Rows, Queued, StatusOf, Sources
<1>5. WithdrawalsTypeOK
  <2>1. (CHOOSE u \in Users : TRUE) \in Users
    BY WithdrawalsAssumption
  <2>2. withdrawal_requests \in
          [Requests -> [status : {"none", "pending", "approved", "rejected", "cancelled"},
                        by : Users, amount : Nat]]
    BY <2>1 DEF Init
  <2>3. run \in [Runs -> [at : {"idle", "next", "queue", "block", "record"},
                          todo : SUBSET Staged, kyc : BOOLEAN]]
    BY <1>2 DEF Init, RunType
  <2>4. chain \in [collateral : Nat, required : Required, inForce : Required, open : BOOLEAN]
    BY WithdrawalsAssumption DEF Init
  <2>5. call \in [Callers -> CallType]
    BY <1>1 DEF Init
  <2> QED
    BY <2>2, <2>3, <2>4, <2>5 DEF Init, WithdrawalsTypeOK
<1>6. HeldAreStored
  BY <1>2, <1>3 DEF HeldAreStored, Init
<1>7. ApproversMay /\ ChecksHold
  BY <1>1 DEF ApproversMay, ChecksHold, Init
<1>8. \A x \in Rows : RowInv(x)
  BY <1>3, <1>4 DEF RowInv
<1> QED
  BY <1>5, <1>6, <1>7, <1>8 DEF WithdrawalsInv

LEMMA WithdrawalsKept == WithdrawalsInv /\ [Next]_vars => WithdrawalsInv'
<1> SUFFICES ASSUME WithdrawalsInv, [Next]_vars PROVE WithdrawalsInv'
  OBVIOUS
<1>0. WithdrawalsTypeOK /\ HeldAreStored
  BY DEF WithdrawalsInv
<1>1. ASSUME NEW c \in Callers, RouteStep(c) PROVE WithdrawalsInv'
  BY <1>0, <1>1, CallStepTyped, CallKeepsRows, CallKeepsHeld DEF WithdrawalsInv
<1>2. ASSUME NEW r \in Runs, RunWorks(r) \/ RunBreaks(r) PROVE WithdrawalsInv'
  BY <1>0, <1>2, RunStepTyped, RunKeepsRows, RunKeepsHeld DEF WithdrawalsInv
<1>3. CASE UNCHANGED vars
  BY <1>3 DEF vars, WithdrawalsInv, WithdrawalsTypeOK, HeldAreStored, ApproversMay, ChecksHold,
              RowInv, Holds, CallHolds, HasQueued, StatusOf, RowOf, Queued, MayApprove, Covered
<1> QED
  BY <1>1, <1>2, <1>3, OutsideKeeps DEF Next

LEMMA WithdrawalsInvariant == Spec => []WithdrawalsInv
  BY WithdrawalsInitially, WithdrawalsKept, PTL DEF Spec

-----------------------------------------------------------------------------

(* Tables, requests and runs stay well formed, and no balance goes below zero. *)
THEOREM WithdrawalsTyped == Spec => []WithdrawalsTypeOK
<1>1. WithdrawalsInv => WithdrawalsTypeOK
  BY DEF WithdrawalsInv
<1> QED
  BY <1>1, WithdrawalsInvariant, PTL

(* However many requests and runs overlap, a row that no two of them held at  *)
(* once tells how often its withdrawal was queued.                            *)
THEOREM RowsTell == Spec => []RowTellsQueue
<1>1. ASSUME WithdrawalsInv PROVE RowTellsQueue
  <2>0. WithdrawalsTypeOK
    BY <1>1 DEF WithdrawalsInv
  <2>1. ASSUME NEW x \in Rows \ (torn \cup Held)
        PROVE  Queued(x) = IF StatusOf(x) \in {"approved", "executed"} THEN 1 ELSE 0
    <3>1. RowInv(x) /\ \A h \in Holders : ~Holds(h, x)
      BY <1>1, <2>0, <2>1, HeldByHolders DEF WithdrawalsInv
    <3> QED
      BY <3>1 DEF RowInv
  <2>2. ASSUME NEW q \in Requests \ (torn \cup Held)
        PROVE  Queued(q) = IF withdrawal_requests[q].status = "approved" THEN 1 ELSE 0
    <3>1. withdrawal_requests[q].status # "executed"
      BY <2>0 DEF WithdrawalsTypeOK
    <3> QED
      BY <2>1, <3>1 DEF StatusOf, Rows
  <2>3. ASSUME NEW s \in Staged \ (torn \cup Held)
        PROVE  Queued(s) = IF scheduled_withdrawals[s].status = "executed" THEN 1 ELSE 0
    <3>1. scheduled_withdrawals[s].status # "approved"
      BY <2>0 DEF WithdrawalsTypeOK
    <3> QED
      BY <2>1, <3>1, SourceKinds DEF StatusOf, Rows
  <2> QED
    BY <2>2, <2>3 DEF RowTellsQueue
<1> QED
  BY <1>1, WithdrawalsInvariant, PTL

(* A direct withdrawal at the threshold needs a change of the setting while   *)
(* it is screened, and a request is paid because someone may approve it.      *)
THEOREM PaidWithSignOff == Spec => SignOff
<1> DEFINE Signed ==
      \A c \in Callers :
        /\ Queued("direct")' > Queued("direct") /\ call'[c] # call[c]
             => (dual.enabled /\ dual.threshold > 0 /\ call[c].amount >= dual.threshold
                   => call[c].dual # dual)
        /\ \A q \in Requests :
             Queued(q)' > Queued(q) /\ call'[c] # call[c]
               => call[c].user # withdrawal_requests[q].by \/ call[c].user \in Admins
<1>1. ASSUME WithdrawalsInv, [Next]_vars PROVE Signed
  <2>0. WithdrawalsTypeOK /\ HeldAreStored /\ ApproversMay
    BY <1>1 DEF WithdrawalsInv
  <2>1. ASSUME NEW c \in Callers, call'[c] # call[c], RouteStep(c),
               Queued("direct")' > Queued("direct"),
               dual.enabled, dual.threshold > 0, call[c].amount >= dual.threshold,
               call[c].dual = dual
        PROVE  FALSE
    <3>1. Queued("direct") \in Nat
      BY <2>0, SourceKinds DEF WithdrawalsTypeOK, Queued
    <3>2. job' # job
      BY <2>1, <3>1, QueuedFrame
    <3>3. CASE WithdrawNow(c)
      BY <2>1, <3>3 DEF WithdrawNow, NeedsSignOff
    <3>4. CASE ApproveQueued(c)
      <4>1. call[c].row \in Requests
        BY <2>0, <3>4, CallFields DEF ApproveQueued
      <4>2. Queued("direct")' = Queued("direct")
        BY <2>0, <3>4, <4>1, SourceKinds, JobQueued DEF ApproveQueued
      <4> QED
        BY <2>1, <3>1, <4>2
    <3>5. WithdrawNow(c) \/ ApproveQueued(c)
      BY <2>0, <2>1, <3>2, CallKinds
         DEF InsertStaged, WithdrawOnRequest, WriteRequest, CancelScheduledWritten, Refuse,
             CallBreaks
    <3> QED
      BY <3>3, <3>4, <3>5
  <2>2. ASSUME NEW c \in Callers, NEW q \in Requests, call'[c] # call[c], RouteStep(c),
               Queued(q)' > Queued(q)
        PROVE  call[c].user # withdrawal_requests[q].by \/ call[c].user \in Admins
    <3>1. Queued(q) \in Nat /\ q \in Sources
      BY <2>0, SourceKinds DEF WithdrawalsTypeOK, Queued
    <3>2. job' # job
      BY <2>2, <3>1, QueuedFrame
    <3>3. CASE WithdrawNow(c)
      <4>1. Queued(q)' = Queued(q)
        BY <2>0, <3>1, <3>3, SourceKinds, JobQueued DEF WithdrawNow
      <4> QED
        BY <2>2, <3>1, <4>1
    <3>4. CASE ApproveQueued(c)
      <4>1. call[c].row \in Sources /\ QueueJob(call[c].row) /\ call[c].op = "approve"
        BY <2>0, <3>4, CallFields, SourceKinds DEF ApproveQueued
      <4>2. q = call[c].row
        BY <2>0, <2>2, <3>1, <4>1, JobQueued
      <4> QED
        BY <2>0, <4>1, <4>2 DEF ApproversMay, MayApprove
    <3>5. WithdrawNow(c) \/ ApproveQueued(c)
      BY <2>0, <2>2, <3>2, CallKinds
         DEF InsertStaged, WithdrawOnRequest, WriteRequest, CancelScheduledWritten, Refuse,
             CallBreaks
    <3> QED
      BY <3>3, <3>4, <3>5
  <2>3. ASSUME NEW c \in Callers, call'[c] # call[c] PROVE RouteStep(c)
    <3>1. ASSUME NEW d \in Callers, RouteStep(d) PROVE d = c
      BY <2>0, <2>3, <3>1, CallStepTyped
    <3>2. CASE Outside
      BY <2>3, <3>2 DEF Outside, Tick, DecideKyc, ConfigureDual, Settle, Reassess
    <3>3. ASSUME NEW r \in Runs, RunWorks(r) \/ RunBreaks(r) PROVE FALSE
      BY <2>0, <2>3, <3>3, RunStepTyped
    <3> QED
      BY <1>1, <2>3, <3>1, <3>2, <3>3 DEF Next, vars
  <2> QED
    BY <2>1, <2>2, <2>3
<1> QED
  BY <1>1, WithdrawalsInvariant, PTL DEF Spec, SignOff

(* What the scheduler's look at the account let pass is refused only if the   *)
(* account changed since or another requirement than the one it saw rules.    *)
THEOREM ChecksForesee == Spec => CheckForesees
<1> DEFINE Foreseen ==
      \A s \in checked :
        job'[s].refused > job[s].refused => chain.required # chain.inForce \/ ~chain.open
<1>1. ASSUME WithdrawalsInv, [Next]_vars PROVE Foreseen
  <2>0. WithdrawalsTypeOK /\ HeldAreStored /\ ChecksHold
    BY <1>1 DEF WithdrawalsInv
  <2> SUFFICES ASSUME NEW s \in checked, job'[s].refused > job[s].refused
               PROVE  chain.required # chain.inForce \/ ~chain.open
    OBVIOUS
  <2>1. s \in Staged /\ s \in Sources /\ s \notin Requests /\ s # "direct"
        /\ job[s].refused \in Nat
    BY <2>0, SourceKinds DEF WithdrawalsTypeOK
  <2>2. ASSUME job'[s].refused = job[s].refused PROVE FALSE
    BY <2>1, <2>2
  <2>3. CASE Settle(s)
    <3>1. ~(chain.open /\ chain.collateral - scheduled_withdrawals[s].amount >= chain.inForce)
      <4>1. SUFFICES ASSUME chain.open, chain.collateral - scheduled_withdrawals[s].amount >= chain.inForce
                     PROVE  FALSE
        OBVIOUS
      <4>2. job' = [job EXCEPT ![s].waiting = @ - 1, ![s].paid = @ + 1]
        BY <2>1, <2>3, <4>1 DEF Settle, AmountOf
      <4>3. job'[s].refused = job[s].refused
        BY <2>0, <2>1, <4>2 DEF WithdrawalsTypeOK
      <4> QED
        BY <2>2, <4>3
    <3>2. Covered(s)
      BY <2>0 DEF ChecksHold
    <3> QED
      BY <3>1, <3>2 DEF Covered
  <2>4. ASSUME NEW x \in Sources, Settle(x), x # s PROVE FALSE
    BY <2>0, <2>1, <2>2, <2>4, JobSettled
  <2>5. ASSUME job' = job PROVE FALSE
    BY <2>2, <2>5
  <2>6. ASSUME NEW x \in Sources, QueueJob(x) PROVE FALSE
    BY <2>0, <2>1, <2>2, <2>6, JobQueued
  <2>7. ASSUME NEW c \in Callers, RouteStep(c) PROVE FALSE
    <3>1. CASE ApproveQueued(c)
      <4>1. call[c].row \in Sources /\ QueueJob(call[c].row)
        BY <2>0, <3>1, CallFields, SourceKinds DEF ApproveQueued
      <4> QED
        BY <2>6, <4>1
    <3>2. CASE WithdrawNow(c)
      BY <2>6, <3>2, SourceKinds DEF WithdrawNow
    <3>3. job' = job \/ ApproveQueued(c) \/ WithdrawNow(c)
      BY <2>0, <2>7, CallKinds
         DEF InsertStaged, WithdrawOnRequest, WriteRequest, CancelScheduledWritten, Refuse,
             CallBreaks
    <3> QED
      BY <2>5, <3>1, <3>2, <3>3
  <2>8. ASSUME NEW r \in Runs, RunWorks(r) \/ RunBreaks(r) PROVE FALSE
    <3>1. CASE RunQueues(r)
      BY <2>0, <2>6, <3>1, RowInHand DEF RunQueues
    <3>2. job' = job \/ RunQueues(r)
      BY <2>8, RunKinds DEF RunTakes, RunLooks, RunDrops, RunWrites
    <3> QED
      BY <2>5, <3>1, <3>2
  <2> QED
    BY <1>1, <2>3, <2>4, <2>5, <2>7, <2>8
       DEF Next, vars, Outside, Tick, DecideKyc, ConfigureDual, Reassess
<1> QED
  BY <1>1, WithdrawalsInvariant, PTL DEF Spec, CheckForesees

=============================================================================
