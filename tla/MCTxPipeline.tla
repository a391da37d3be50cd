---------------------------- MODULE MCTxPipeline ----------------------------
(***************************************************************************)
(* What the API knows of transactions: two jobs that one key signs, as two *)
(* deposits of one importer; an importer's requirement and its uploads,    *)
(* disputes and reconciliation; its credit lines and health checks.  They  *)
(* share no state here, so that a behaviour is about the one that has the  *)
(* focus; credit lines have two, as notices and health checks meet only in *)
(* the rows.  Of requests that are alike, the second starts after the      *)
(* first.                                                                  *)
(***************************************************************************)
EXTENDS TxPipeline, CreditLines, Requirements, TLC

CONSTANTS
  j1, j2, keypair,             \* jobs and their key
  x1, x2, y1, y2, q1,          \* credit lines
  o1, o2, v1, r1, r2, e1       \* requirements

VARIABLE focus

TwoJobs == {j1, j2}
OneKey == {keypair}
SameKey == [j \in TwoJobs |-> keypair]
SetOfLines == {x1, x2}
SetOfMonitors == {y1, y2}
SetOfChecks == {q1}
CoveredAndNot == {[balance |-> 1, required |-> 1], [balance |-> 0, required |-> 2]}
SetOfUploads == {o1, o2}
SetOfVerifiers == {v1}
SetOfResolvers == {r1, r2}
SetOfDisputes == {e1}

(* Jobs of one key are alike. *)
Alike == Permutations(TwoJobs)

ledgerVars == <<focus, vars, creditVars, requirementVars>>

OnJobs == focus = "jobs" /\ UNCHANGED <<focus, creditVars, requirementVars>>
OnCredit == focus \in {"notices", "health"} /\ UNCHANGED <<focus, vars, requirementVars>>
OnRequirements == focus = "requirements" /\ UNCHANGED <<focus, vars, creditVars>>

LedgerInit ==
  /\ focus \in {"jobs", "notices", "health", "requirements"}
  /\ Init /\ CreditInit /\ RequirementsInit
  /\ focus # "health" => balances = CHOOSE a \in Accounts : TRUE

LedgerNext ==
  \/ OnJobs /\ Next
  \/ /\ OnCredit /\ CreditNext
     /\ focus = "notices" => UNCHANGED <<check, balances>>
     /\ focus = "health" => credit_lines'[x2] = credit_lines[x2]
  \/ /\ OnRequirements /\ RequirementsNext
     /\ upload'[o2].at # "none" => upload'[o1].at # "none"
     /\ resolve'[r2].at # "none" => resolve'[r1].at # "none"

LedgerSpec == LedgerInit /\ [][LedgerNext]_ledgerVars

(* Every job, transaction, table and request keeps to its types, and no job   *)
(* is run more often than its attempts and stalls allow.                      *)
LedgerTypeOK == TypeOK /\ CreditTypeOK /\ RequirementsTypeOK

=============================================================================
