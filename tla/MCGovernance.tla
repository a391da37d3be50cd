---------------------------- MODULE MCGovernance ----------------------------
(***************************************************************************)
(* The governance of the contract with three keys, initialized with three  *)
(* admins, one or none, two builds of the code and two proposals.          *)
(***************************************************************************)
EXTENDS Governance

CONSTANTS k1, k2, k3

Keys == {k1, k2, k3}
Lists == {<<k1, k2, k3>>, <<k1>>, << >>}
ThreeSigners == {<<k1, k2, k3>>, <<k1, k2>>}

(* OPERATIONS_RUNBOOK.md, "Deploy upgraded WASM (requires 2-of-3 admin        *)
(* multi-sig)": no code is installed but by two of the admins in office.      *)
InstalledByTwoAdmins ==
  [][wasm' # wasm =>
       \E id \in DOMAIN installed' \ DOMAIN installed :
         Cardinality(installed'[id].voters \cap Range(admins)) >= 2]_vars

=============================================================================
