---------------------------- MODULE MCWithdrawals ----------------------------
(***************************************************************************)
(* Two instances in one run.  Withdrawal requests and scheduled            *)
(* withdrawals share only the setting and the account on chain, so a       *)
(* behaviour is about one of them:                                         *)
(*   requests  three users, two calls, a request and direct withdrawals    *)
(*             while the dual approval setting changes,                    *)
(*   staged    scheduled rows, two overlapping runs and a call of the      *)
(*             owner while the account, KYC and the clock change.          *)
(***************************************************************************)
EXTENDS Withdrawals

CONSTANTS owner, member, admin, q1, s1, s2, c1, c2, r1, r2

VARIABLE scene

MCUsers == {owner, member, admin}
MCAdmins == {admin}
MCRequests == {q1}
MCStaged == {s1, s2}
MCCallers == {c1, c2}
MCRuns == {r1, r2}

MCInit ==
  /\ Init
  /\ scene \in {"requests", "staged"}
  /\ scene = "staged" => ~dual.enabled

Scene ==
  CASE scene = "requests" ->
         /\ UNCHANGED <<now, kyc_approved, scheduled_withdrawals, chain>>
         /\ \A c \in Callers : call'[c].op # "schedule"
    [] scene = "staged" ->
         /\ UNCHANGED <<dual, withdrawal_requests>>
         /\ call'[c2] = Idle
         /\ job'["direct"] = job["direct"]
         /\ call'[c1].op = "withdraw" => call'[c1].user = owner
         /\ call'[c1].op \in {"withdraw", "schedule"} => call'[c1].amount = 1

MCSpec ==
  /\ MCInit /\ [][Next /\ Scene /\ UNCHANGED scene]_<<vars, scene>>
  /\ \A r \in Runs : WF_<<vars, scene>>(RunWorks(r) /\ Scene /\ UNCHANGED scene)

-----------------------------------------------------------------------------

(* Everything at once, for the run that looks for a withdrawal without sign-off. *)
LaterSpec == Init /\ scene = "later" /\ [][Next /\ UNCHANGED scene]_<<vars, scene>>

(* docs/api/importers.md:402: with dual approval on, an amount at or above the *)
(* threshold is paid only upon a request that somebody else approves, also if  *)
(* it is to be paid at a later date.                                           *)
DualSignOff ==
  [][\A s \in Staged :
       Queued(s)' > Queued(s)
         => ~NeedsSignOff(dual, scheduled_withdrawals[s].amount)]_vars

=============================================================================
