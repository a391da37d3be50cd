------------------------------ MODULE MCEscrow ------------------------------
(***************************************************************************)
(* The money of the escrow contract on a small instance: two importers,    *)
(* live or in trial, and every interleaving of deposits, withdrawals,      *)
(* top-ups, oracle updates, disputes, conversions and clawbacks.           *)
(***************************************************************************)
EXTENDS TariffShield, Functions, TLC

Symmetry == Permutations(Importers)

LiveImporters == {i \in Registered : ~acct[i].is_sandbox}

(* What the contract owes: the recorded balances of its live accounts. *)
Recorded == [i \in LiveImporters |-> Balance(acct[i])]

Liabilities == SumFunction(Recorded)

(* The contract holds the USDC that the live accounts record, as the account  *)
(* fields of lib.rs promise (balances "currently posted").                    *)
Solvency == Liabilities <= token[Contract]

(* Nothing but the seizure of a sandbox account can break Solvency: while no  *)
(* account has cost the contract more tokens than it brought in, whatever the *)
(* order of calls, every live balance can be paid out.                        *)
SolventUnlessSandboxSeized ==
  (\A i \in Importers : escrow[i] >= 0) => Solvency

=============================================================================
