---------------------------- MODULE SuretyEscrow ----------------------------
(***************************************************************************)
(* What the escrow contract promises an importer and the surety about the  *)
(* custody of funds, without disputes, rates, clocks, history or tokens.   *)
(* An importer posts collateral above a floor somebody else sets, keeps a  *)
(* spare reserve behind it, and loses both, for good, in a seizure.        *)
(***************************************************************************)
EXTENDS Integers

CONSTANT Importers

VARIABLES
  standing,  \* "absent", "trial", "live" or "seized"
  posted,    \* collateral posted
  spare,     \* reserve behind it
  floor      \* requirement in force

vars == <<standing, posted, spare, floor>>

Serving(i) == standing[i] \in {"trial", "live"}

(* Only importer i's entry of f changes, and to a natural number. *)
Changes(f, g, i) == g[i] \in Nat /\ g = [f EXCEPT ![i] = g[i]]

Init ==
  /\ standing = [i \in Importers |-> "absent"]
  /\ posted = [i \in Importers |-> 0]
  /\ spare  = [i \in Importers |-> 0]
  /\ floor  = [i \in Importers |-> 0]

Open(i) ==
  /\ standing[i] = "absent"
  /\ \E s \in {"trial", "live"} : standing' = [standing EXCEPT ![i] = s]
  /\ Changes(floor, floor', i)
  /\ UNCHANGED <<posted, spare>>

(* Money comes in on either side while the account is in service. *)
Post(i) ==
  /\ Serving(i)
  /\ Changes(posted, posted', i) /\ posted'[i] > posted[i]
  /\ UNCHANGED <<standing, spare, floor>>

Save(i) ==
  /\ Serving(i)
  /\ Changes(spare, spare', i) /\ spare'[i] > spare[i]
  /\ UNCHANGED <<standing, posted, floor>>

(* The reserve covers a shortfall: never more than up to the floor. *)
Cover(i) ==
  /\ Serving(i)
  /\ Changes(posted, posted', i) /\ Changes(spare, spare', i)
  /\ posted'[i] > posted[i] /\ posted'[i] <= floor[i]
  /\ posted'[i] + spare'[i] = posted[i] + spare[i]
  /\ UNCHANGED <<standing, floor>>

(* Collateral is released above the floor only. *)
Release(i) ==
  /\ Serving(i)
  /\ Changes(posted, posted', i)
  /\ posted'[i] < posted[i] /\ posted'[i] >= floor[i]
  /\ UNCHANGED <<standing, spare, floor>>

Reassess(i) ==
  /\ standing[i] # "absent"
  /\ Changes(floor, floor', i)
  /\ UNCHANGED <<standing, posted, spare>>

Empty(i) ==
  /\ posted' = [posted EXCEPT ![i] = 0]
  /\ spare'  = [spare EXCEPT ![i] = 0]
  /\ UNCHANGED floor

GoLive(i) ==
  /\ standing[i] = "trial"
  /\ standing' = [standing EXCEPT ![i] = "live"]
  /\ Empty(i)

Seize(i) ==
  /\ standing[i] # "absent"
  /\ standing' = [standing EXCEPT ![i] = "seized"]
  /\ Empty(i)

Next ==
  \E i \in Importers :
    \/ Open(i) \/ Post(i) \/ Save(i) \/ Cover(i) \/ Release(i)
    \/ Reassess(i) \/ GoLive(i) \/ Seize(i)

Spec == Init /\ [][Next]_vars

=============================================================================
