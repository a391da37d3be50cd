-------------------------- MODULE GovernanceProofs --------------------------
(***************************************************************************)
(* Module Governance for every set of keys, any list of admins, and any    *)
(* number of proposals.                                                    *)
(***************************************************************************)
EXTENDS Governance, FiniteSetTheorems, TLAPS

(* The keys that approved a proposal are all different ... *)
Distinct(p) ==
  /\ IsFiniteSet(Range(p.approvals))
  /\ Cardinality(Range(p.approvals)) = Len(p.approvals)

OneVoteEach == \A id \in DOMAIN proposals : Distinct(proposals[id])

(* ... and an id that was handed out is open, executed or gone, never two *)
(* of these.                                                              *)
IdsInUse ==
  /\ DOMAIN proposals \cup DOMAIN installed \subseteq 1..counter
  /\ DOMAIN proposals \cap DOMAIN installed = {}

(* One more approval, of a key that has not approved before. *)
LEMMA NewVote ==
  ASSUME NEW s \in Seq(Addresses), NEW a \in Addresses, a \notin Range(s),
         IsFiniteSet(Range(s)), Cardinality(Range(s)) = Len(s)
  PROVE  /\ Append(s, a) \in Seq(Addresses)
         /\ Len(Append(s, a)) = Len(s) + 1
         /\ Range(Append(s, a)) \in SUBSET Addresses
         /\ IsFiniteSet(Range(Append(s, a)))
         /\ Cardinality(Range(Append(s, a))) = Len(s) + 1
<1>1. Append(s, a) \in Seq(Addresses) /\ Len(Append(s, a)) = Len(s) + 1
  OBVIOUS
<1>2. /\ DOMAIN Append(s, a) = 1..(Len(s) + 1)
      /\ DOMAIN s = 1..Len(s) /\ Len(s) \in Nat
      /\ \A k \in 1..Len(s) : Append(s, a)[k] = s[k]
      /\ Append(s, a)[Len(s) + 1] = a
  OBVIOUS
<1>3. Range(Append(s, a)) = Range(s) \cup {a}
  <2>1. 1..(Len(s) + 1) = 1..Len(s) \cup {Len(s) + 1}
    BY <1>2
  <2>2. ASSUME NEW v \in Range(Append(s, a)) PROVE v \in Range(s) \cup {a}
    <3>1. PICK k \in 1..(Len(s) + 1) : v = Append(s, a)[k]
      BY <1>2 DEF Range
    <3> QED
      BY <1>2, <2>1, <3>1 DEF Range
  <2>3. ASSUME NEW v \in Range(s) \cup {a} PROVE v \in Range(Append(s, a))
    <3>1. PICK k \in 1..(Len(s) + 1) : v = Append(s, a)[k]
      <4>1. CASE v = a
        BY <1>2, <2>1, <4>1
      <4>2. CASE v \in Range(s)
        <5>1. PICK k \in 1..Len(s) : v = s[k]
          BY <1>2, <4>2 DEF Range
        <5> QED
          BY <1>2, <2>1, <5>1
      <4> QED
        BY <4>1, <4>2
    <3> QED
      BY <1>2, <3>1 DEF Range
  <2> QED
    BY <2>2, <2>3
<1>4. Range(s) \subseteq Addresses
  BY DEF Range
<1>5. IsFiniteSet(Range(s) \cup {a}) /\ Cardinality(Range(s) \cup {a}) = Len(s) + 1
  BY FS_AddElement
<1> QED
  BY <1>1, <1>3, <1>4, <1>5

(* Where somebody is an admin, the list is not empty. *)
LEMMA AdminsExist == \A a : IsAdmin(a) \/ IsFirstAdmin(a) => admins # << >>
<1> SUFFICES ASSUME NEW a, IsAdmin(a) \/ IsFirstAdmin(a) PROVE admins # << >>
  OBVIOUS
<1>1. Range(<< >>) = {}
  BY DEF Range
<1> QED
  BY <1>1 DEF IsAdmin, IsFirstAdmin

-----------------------------------------------------------------------------

(* The approval of an open proposal by an admin that may vote. *)
LEMMA ApprovalCounts ==
  ASSUME TypeOK, OneVoteEach, NEW caller \in Addresses, NEW id \in DOMAIN proposals,
         MayVote(proposals[id], caller),
         NEW p, p = [proposals[id] EXCEPT !.approvals = Append(@, caller)]
  PROVE  /\ p \in Proposal /\ Distinct(p)
         /\ p.new_wasm_hash = proposals[id].new_wasm_hash
         /\ Len(p.approvals) \in 1..QUORUM
         /\ Range(p.approvals) \in SUBSET Addresses
<1>1. /\ proposals[id] \in Proposal
      /\ Len(proposals[id].approvals) \in 1..(QUORUM - 1)
      /\ Distinct(proposals[id])
  BY DEF TypeOK, OneVoteEach
<1>2. proposals[id].approvals \in Seq(Addresses) /\ QUORUM \in Nat
  BY <1>1, GovernanceAssumption DEF Proposal
<1> DEFINE votes == Append(proposals[id].approvals, caller)
<1>3. /\ votes \in Seq(Addresses)
      /\ Len(votes) = Len(proposals[id].approvals) + 1
      /\ Range(votes) \in SUBSET Addresses
      /\ IsFiniteSet(Range(votes))
      /\ Cardinality(Range(votes)) = Len(proposals[id].approvals) + 1
  BY <1>1, <1>2, NewVote DEF Distinct, MayVote
<1>4. p.approvals = votes
  BY <1>1 DEF Proposal
<1>5. p \in Proposal /\ p.new_wasm_hash = proposals[id].new_wasm_hash
  BY <1>1, <1>3, <1>4 DEF Proposal
<1>6. Len(votes) \in 1..QUORUM
  BY <1>1, <1>2, <1>3
<1> QED
  BY <1>3, <1>4, <1>5, <1>6 DEF Distinct

(* A fresh proposal carries the one vote of the admin who made it. *)
LEMMA FirstVote ==
  ASSUME NEW caller \in Addresses, NEW hash \in Hashes, ledger \in Nat,
         NEW p, p = [new_wasm_hash |-> hash, approvals |-> <<caller>>,
                     expiry_ledger |-> ledger + VALIDITY]
  PROVE  p \in Proposal /\ Distinct(p) /\ Len(p.approvals) \in 1..(QUORUM - 1)
<1>1. p.approvals = <<caller>> /\ Len(<<caller>>) = 1 /\ <<caller>> \in Seq(Addresses)
  OBVIOUS
<1>2. Range(<<caller>>) = {caller}
  BY DEF Range
<1>3. IsFiniteSet({caller}) /\ Cardinality({caller}) = 1
  BY FS_Singleton
<1>4. ledger + VALIDITY \in Nat /\ 1 \in 1..(QUORUM - 1)
  BY GovernanceAssumption
<1> QED
  BY <1>1, <1>2, <1>3, <1>4 DEF Proposal, Distinct

-----------------------------------------------------------------------------

(* What one step may do to the proposals: nothing, open the next id, add a *)
(* vote to an open one, execute an open one, or close one unexecuted.      *)
Opened(id, p) ==
  /\ id = counter + 1 /\ counter' = id /\ id <= MAX_PROPOSALS
  /\ proposals' = With(proposals, id, p)
  /\ p \in Proposal /\ Distinct(p) /\ Len(p.approvals) \in 1..(QUORUM - 1)
  /\ installed' = installed

Voted(id, p) ==
  /\ proposals' = [proposals EXCEPT ![id] = p]
  /\ p \in Proposal /\ Distinct(p) /\ Len(p.approvals) \in 1..(QUORUM - 1)
  /\ p.new_wasm_hash = proposals[id].new_wasm_hash
  /\ installed' = installed /\ counter' = counter

Executed(id, p, at) ==
  /\ proposals' = Without(proposals, id)
  /\ p \in Proposal /\ Distinct(p) /\ Len(p.approvals) = QUORUM
  /\ Range(p.approvals) \in SUBSET Addresses
  /\ installed' = With(installed, id, [hash |-> p.new_wasm_hash, at |-> at,
                                       voters |-> Range(p.approvals)])
  /\ counter' = counter

Discarded(id) ==
  proposals' = Without(proposals, id) /\ installed' = installed /\ counter' = counter

Kind ==
  \/ UNCHANGED <<proposals, installed, counter>>
  \/ /\ admins # << >> /\ UNCHANGED admins
     /\ \/ \E p \in Proposal : Opened(counter + 1, p)
        \/ \E id \in DOMAIN proposals : Discarded(id)
        \/ \E id \in DOMAIN proposals, p \in Proposal :
             Voted(id, p) \/ \E at \in Nat : Executed(id, p, at)

(* Every action is one of these; only the approval needs an argument. *)
LEMMA KindOfStep ==
  ASSUME TypeOK, OneVoteEach, [Next]_vars
  PROVE  Kind
<1>1. CASE Tick
  BY <1>1 DEF Tick, Kind
<1>2. CASE Setup
  BY <1>2 DEF Setup, Initialize, Kind
<1>3. CASE Proposals
  <2> PICK caller \in Addresses :
        \/ \E hash \in Hashes : ProposeUpgrade(caller, hash)
        \/ \E id \in DOMAIN proposals : ApproveUpgrade(caller, id) \/ CancelUpgrade(caller, id)
    BY <1>3 DEF Proposals
  <2>1. CASE \E hash \in Hashes : ProposeUpgrade(caller, hash)
    <3>1. PICK hash \in Hashes : ProposeUpgrade(caller, hash)
      BY <2>1
    <3> DEFINE p == [new_wasm_hash |-> hash, approvals |-> <<caller>>,
                     expiry_ledger |-> ledger + VALIDITY]
    <3>2. ledger \in Nat
      BY GovernanceAssumption DEF TypeOK
    <3>3. p \in Proposal /\ Distinct(p) /\ Len(p.approvals) \in 1..(QUORUM - 1)
      BY <3>2, FirstVote
    <3>4. /\ admins # << >> /\ UNCHANGED admins
          /\ counter + 1 <= MAX_PROPOSALS /\ counter' = counter + 1
          /\ proposals' = With(proposals, counter + 1, p) /\ installed' = installed
      BY <3>1, AdminsExist DEF ProposeUpgrade, NextId
    <3> QED
      BY <3>3, <3>4 DEF Kind, Opened
  <2>2. CASE \E id \in DOMAIN proposals : CancelUpgrade(caller, id)
    BY <2>2, AdminsExist DEF CancelUpgrade, Kind, Discarded
  <2>3. CASE \E id \in DOMAIN proposals : ApproveUpgrade(caller, id)
    <3>1. PICK id \in DOMAIN proposals : ApproveUpgrade(caller, id)
      BY <2>3
    <3> DEFINE p == [proposals[id] EXCEPT !.approvals = Append(@, caller)]
    <3>2. MayVote(proposals[id], caller)
      BY <3>1 DEF ApproveUpgrade
    <3>3. /\ p \in Proposal /\ Distinct(p)
          /\ p.new_wasm_hash = proposals[id].new_wasm_hash
          /\ Len(p.approvals) \in 1..QUORUM
          /\ Range(p.approvals) \in SUBSET Addresses
      BY <3>2, ApprovalCounts
    <3>4. admins # << >> /\ UNCHANGED admins /\ counter' = counter
      BY <3>1, AdminsExist DEF ApproveUpgrade
    <3>5. QUORUM \in Nat /\ ledger \in Nat
      BY GovernanceAssumption DEF TypeOK
    <3>6. CASE Len(p.approvals) >= QUORUM
      <4>1. Executed(id, p, ledger)
        BY <3>1, <3>3, <3>4, <3>5, <3>6 DEF ApproveUpgrade, Executed, Closed
      <4> QED
        BY <3>3, <3>4, <3>5, <4>1 DEF Kind
    <3>7. CASE ~(Len(p.approvals) >= QUORUM)
      <4>1. Voted(id, p)
        BY <3>1, <3>3, <3>4, <3>5, <3>7 DEF ApproveUpgrade, Voted
      <4> QED
        BY <3>3, <3>4, <4>1 DEF Kind
    <3> QED
      BY <3>6, <3>7
  <2> QED
    BY <2>1, <2>2, <2>3
<1>4. CASE FirstAdmin
  BY <1>4 DEF FirstAdmin, Upgrade, TransferAdmin, SetPriceOracle, Kind
<1>5. CASE OracleKeys
  BY <1>5 DEF OracleKeys, RotateOracleAdmin, UpdateOracleSigners, Kind
<1>6. CASE UNCHANGED vars
  BY <1>6 DEF vars, Kind
<1> QED
  BY <1>1, <1>2, <1>3, <1>4, <1>5, <1>6 DEF Next

-----------------------------------------------------------------------------

(* The open proposals stay well formed, with distinct votes short of a quorum. *)
OpenOK ==
  /\ counter \in 0..MAX_PROPOSALS
  /\ proposals \in [DOMAIN proposals -> Proposal]
  /\ \A id \in DOMAIN proposals : Len(proposals[id].approvals) \in 1..(QUORUM - 1)
  /\ OneVoteEach

(* Each kind of step keeps the open proposals so. *)
LEMMA KindKeepsOpen ==
  ASSUME OpenOK, Kind
  PROVE  OpenOK'
<1>1. counter \in Nat /\ MAX_PROPOSALS \in Nat
  BY GovernanceAssumption DEF OpenOK
<1>2. CASE UNCHANGED <<proposals, installed, counter>>
  BY <1>2 DEF OpenOK, OneVoteEach
<1>3. CASE \E p \in Proposal : Opened(counter + 1, p)
  <2>1. PICK p \in Proposal : Opened(counter + 1, p)
    BY <1>3
  <2>2. counter' \in 0..MAX_PROPOSALS
    BY <1>1, <2>1 DEF Opened
  <2>3. \A id \in DOMAIN proposals' :
          proposals'[id] = p \/ (id \in DOMAIN proposals /\ proposals'[id] = proposals[id])
    BY <2>1 DEF Opened, With
  <2>4. proposals' \in [DOMAIN proposals' -> Proposal]
    BY <2>1, <2>3 DEF Opened, OpenOK, With
  <2> QED
    BY <2>1, <2>2, <2>3, <2>4 DEF Opened, OpenOK, OneVoteEach
<1>4. CASE \E id \in DOMAIN proposals : Discarded(id)
  BY <1>4 DEF OpenOK, OneVoteEach, Discarded, Without
<1>5. CASE \E id \in DOMAIN proposals, p \in Proposal : Voted(id, p)
  BY <1>5 DEF OpenOK, OneVoteEach, Voted
<1>6. CASE \E id \in DOMAIN proposals, p \in Proposal, at \in Nat : Executed(id, p, at)
  BY <1>6 DEF OpenOK, OneVoteEach, Executed, Without
<1> QED
  BY <1>2, <1>3, <1>4, <1>5, <1>6 DEF Kind

(* What is installed is typed, and was approved by a quorum. *)
InstalledOK ==
  /\ installed \in [DOMAIN installed ->
                      [hash : Hashes, at : Nat, voters : SUBSET Addresses]]
  /\ QuorumOfTwo

(* Only an execution adds to what is installed, with a full quorum. *)
LEMMA KindKeepsInstalled ==
  ASSUME InstalledOK, Kind
  PROVE  InstalledOK'
<1>1. CASE installed' = installed
  BY <1>1 DEF InstalledOK, QuorumOfTwo
<1>2. CASE \E id \in DOMAIN proposals, p \in Proposal, at \in Nat : Executed(id, p, at)
  <2>1. PICK id \in DOMAIN proposals, p \in Proposal, at \in Nat : Executed(id, p, at)
    BY <1>2
  <2> DEFINE r == [hash |-> p.new_wasm_hash, at |-> at, voters |-> Range(p.approvals)]
  <2>2. r \in [hash : Hashes, at : Nat, voters : SUBSET Addresses]
    BY <2>1 DEF Executed, Proposal
  <2>3. Cardinality(r.voters) >= QUORUM
    BY <2>1, GovernanceAssumption DEF Executed, Distinct
  <2>4. \A x \in DOMAIN installed' :
          installed'[x] = r \/ (x \in DOMAIN installed /\ installed'[x] = installed[x])
    BY <2>1 DEF Executed, With
  <2>5. installed' \in [DOMAIN installed' ->
                      [hash : Hashes, at : Nat, voters : SUBSET Addresses]]
    BY <2>1, <2>2, <2>4 DEF Executed, InstalledOK, With
  <2> QED
    BY <2>3, <2>4, <2>5 DEF InstalledOK, QuorumOfTwo
<1> QED
  BY <1>1, <1>2 DEF Kind, Opened, Voted, Discarded

(* Ids: the next one is fresh, and an executed one is not open any more. *)
LEMMA KindKeepsIds ==
  ASSUME OpenOK, IdsInUse, Kind
  PROVE  IdsInUse'
<1>1. counter \in Nat /\ counter + 1 \notin 1..counter /\ 1..counter \subseteq 1..(counter + 1)
      /\ counter + 1 \in 1..(counter + 1)
  BY DEF OpenOK
<1>2. CASE UNCHANGED <<proposals, installed, counter>>
  BY <1>2 DEF IdsInUse
<1>3. CASE \E p \in Proposal : Opened(counter + 1, p)
  BY <1>1, <1>3 DEF IdsInUse, Opened, With
<1>4. CASE \E id \in DOMAIN proposals : Discarded(id)
  BY <1>4 DEF IdsInUse, Discarded, Without
<1>5. CASE \E id \in DOMAIN proposals, p \in Proposal : Voted(id, p)
  BY <1>5 DEF IdsInUse, Voted
<1>6. CASE \E id \in DOMAIN proposals, p \in Proposal, at \in Nat : Executed(id, p, at)
  BY <1>6 DEF IdsInUse, Executed, With, Without
<1> QED
  BY <1>2, <1>3, <1>4, <1>5, <1>6 DEF Kind

-----------------------------------------------------------------------------

(* The keys: what every step leaves of them is still a key, or still unset. *)
KeysOK ==
  /\ initialized \in BOOLEAN
  /\ admins \in Seq(Addresses) /\ oracle_signers \in Seq(Addresses)
  /\ IF initialized THEN {oracle_admin, emergency} \subseteq Addresses
     ELSE admins = << >> /\ oracle_admin = None /\ emergency = None
  /\ price_oracle \in Addresses \cup {None} /\ wasm \in Hashes \cup {None}
  /\ ledger \in 0..MAX_LEDGER

(* One step keeps the keys readable. *)
LEMMA NextKeys ==
  ASSUME TypeOK, [Next]_vars
  PROVE  KeysOK'
<1>1. KeysOK
  BY DEF TypeOK, KeysOK
<1>2. CASE Tick
  BY <1>1, <1>2, GovernanceAssumption DEF Tick, keys, KeysOK
<1>3. CASE Setup
  BY <1>1, <1>3, GovernanceAssumption DEF Setup, Initialize, NoSigners, KeysOK
<1>4. CASE Proposals
  <2>1. wasm' \in Hashes \cup {None}
    BY <1>1, <1>4 DEF Proposals, ProposeUpgrade, CancelUpgrade, ApproveUpgrade, TypeOK,
                      KeysOK, Proposal
  <2>2. UNCHANGED <<initialized, admins, oracle_admin, emergency, price_oracle,
                    oracle_signers, ledger>>
    BY <1>4 DEF Proposals, ProposeUpgrade, CancelUpgrade, ApproveUpgrade, keys
  <2> QED
    BY <1>1, <2>1, <2>2 DEF KeysOK
<1>5. CASE FirstAdmin
  <2>1. /\ admins # << >>
        /\ UNCHANGED <<initialized, oracle_admin, emergency, oracle_signers, ledger>>
    BY <1>5, AdminsExist DEF FirstAdmin, Upgrade, TransferAdmin, SetPriceOracle, keys
  <2>2. price_oracle' \in Addresses \cup {None} /\ wasm' \in Hashes \cup {None}
    BY <1>1, <1>5 DEF FirstAdmin, Upgrade, TransferAdmin, SetPriceOracle, keys, KeysOK
  <2>3. admins' = admins \/ \E new \in Addresses : admins' = <<new>>
    BY <1>5 DEF FirstAdmin, Upgrade, TransferAdmin, SetPriceOracle
  <2>4. admins' \in Seq(Addresses)
    <3>1. \A new \in Addresses : <<new>> \in Seq(Addresses)
      OBVIOUS
    <3> QED
      BY <1>1, <2>3, <3>1 DEF KeysOK
  <2> QED
    BY <1>1, <2>1, <2>2, <2>4 DEF KeysOK
<1>6. CASE OracleKeys
  <2>1. /\ initialized
        /\ UNCHANGED <<initialized, admins, emergency, price_oracle, wasm, ledger>>
    BY <1>1, <1>6, AdminsExist
    DEF OracleKeys, RotateOracleAdmin, UpdateOracleSigners, KeysOK
  <2>2. oracle_admin' \in Addresses
    BY <1>1, <1>6, <2>1 DEF OracleKeys, RotateOracleAdmin, UpdateOracleSigners, KeysOK
  <2>3. oracle_signers' \in Seq(Addresses)
    BY <1>1, <1>6, GovernanceAssumption
    DEF OracleKeys, RotateOracleAdmin, UpdateOracleSigners, KeysOK
  <2> QED
    BY <1>1, <2>1, <2>2, <2>3 DEF KeysOK
<1>7. CASE UNCHANGED vars
  BY <1>1, <1>7 DEF vars, keys, KeysOK
<1> QED
  BY <1>2, <1>3, <1>4, <1>5, <1>6, <1>7 DEF Next

(* The inductive invariant. *)
Ruled == TypeOK /\ OneVoteEach /\ QuorumOfTwo /\ IdsInUse

(* The parts above add up to it. *)
LEMMA RuledParts == Ruled <=> KeysOK /\ OpenOK /\ InstalledOK /\ IdsInUse
BY DEF Ruled, TypeOK, KeysOK, OpenOK, InstalledOK

(* The same after a step. *)
LEMMA RuledPartsNext == Ruled' <=> (KeysOK /\ OpenOK /\ InstalledOK /\ IdsInUse)'
BY DEF Ruled, TypeOK, KeysOK, OpenOK, InstalledOK, QuorumOfTwo, OneVoteEach, IdsInUse,
       Distinct

(* One step keeps the inductive invariant. *)
LEMMA NextRuled == Ruled /\ [Next]_vars => Ruled'
<1> SUFFICES ASSUME Ruled, [Next]_vars PROVE Ruled'
  OBVIOUS
<1>1. Kind
  BY KindOfStep DEF Ruled
<1>2. KeysOK' /\ OpenOK' /\ InstalledOK' /\ IdsInUse'
  BY <1>1, NextKeys, KindKeepsOpen, KindKeepsInstalled, KindKeepsIds, RuledParts DEF Ruled
<1> QED
  BY <1>2, RuledPartsNext

(* It holds of every behaviour. *)
LEMMA RuledInvariant == Spec => []Ruled
<1>1. Init => Ruled
  <2> SUFFICES ASSUME Init PROVE Ruled
    OBVIOUS
  <2>1. DOMAIN proposals = {} /\ DOMAIN installed = {} /\ counter = 0
    BY DEF Init
  <2>2. KeysOK
    <3>1. initialized \in BOOLEAN /\ ~initialized
      BY DEF Init
    <3>2. << >> \in Seq(Addresses) /\ ledger = 0 /\ 0 \in 0..MAX_LEDGER
      BY GovernanceAssumption DEF Init
    <3>3. /\ admins = << >> /\ oracle_signers = << >> /\ wasm = None
          /\ oracle_admin = None /\ emergency = None /\ price_oracle = None
      BY DEF Init
    <3> QED
      BY <3>1, <3>2, <3>3 DEF KeysOK
  <2>3. OpenOK /\ IdsInUse /\ InstalledOK
    BY <2>1, GovernanceAssumption
    DEF Init, OpenOK, OneVoteEach, IdsInUse, InstalledOK, QuorumOfTwo
  <2> QED
    BY <2>2, <2>3, RuledParts
<1> QED
  BY <1>1, NextRuled, PTL DEF Spec

(* Both oracle keys are set from initialize on, even if its list of admins    *)
(* was empty, nobody is an admin before it, and no open proposal has a        *)
(* quorum, whatever is proposed, approved, cancelled, rotated or transferred. *)
THEOREM GovernanceTypeCorrect == Spec => []TypeOK
BY RuledInvariant, PTL DEF Ruled

(* Code that a proposal installs carries the approvals of as many different  *)
(* keys as the quorum: votes are not counted twice, and none is inherited    *)
(* from a proposal that had the same id before.                              *)
THEOREM NoProposalWithoutQuorum == Spec => []QuorumOfTwo
BY RuledInvariant, PTL DEF Ruled

(* No proposal is executed twice. *)
THEOREM OneExecution == Spec => ExecutedOnce
<1>1. Ruled /\ [Next]_vars =>
        [\A id \in DOMAIN installed :
           id \in DOMAIN installed' /\ installed'[id] = installed[id]]_vars
  <2> SUFFICES ASSUME Ruled, [Next]_vars, NEW id \in DOMAIN installed
               PROVE  id \in DOMAIN installed' /\ installed'[id] = installed[id]
    OBVIOUS
  <2>1. Kind
    BY KindOfStep DEF Ruled
  <2>2. id \notin DOMAIN proposals
    BY DEF Ruled, IdsInUse
  <2> QED
    BY <2>1, <2>2 DEF Kind, Opened, Voted, Executed, Discarded, With, Without
<1> QED
  BY <1>1, RuledInvariant, PTL DEF Spec, ExecutedOnce

(* An approval cannot be turned to other code: the id it names is never      *)
(* given to another proposal, before or after that one is gone.              *)
THEOREM IdsAreNotReused == Spec => IdNamesOneProposal
<1>1. Ruled /\ [Next]_vars =>
        [\A id \in 1..counter :
           IF id \in DOMAIN proposals
             THEN id \in DOMAIN proposals' =>
                    proposals'[id].new_wasm_hash = proposals[id].new_wasm_hash
             ELSE id \notin DOMAIN proposals']_vars
  <2> SUFFICES ASSUME Ruled, [Next]_vars, NEW id \in 1..counter
               PROVE  IF id \in DOMAIN proposals
                        THEN id \in DOMAIN proposals' =>
                          proposals'[id].new_wasm_hash = proposals[id].new_wasm_hash
                        ELSE id \notin DOMAIN proposals'
    OBVIOUS
  <2>1. Kind
    BY KindOfStep DEF Ruled
  <2>2. id # counter + 1
    BY DEF Ruled, TypeOK
  <2> QED
    BY <2>1, <2>2 DEF Kind, Opened, Voted, Executed, Discarded, With, Without
<1> QED
  BY <1>1, RuledInvariant, PTL DEF Spec, IdNamesOneProposal

(* A contract initialized with an empty list of admins is never administered, *)
(* and the list of one that has an admin is never emptied.                    *)
THEOREM LockOutIsFinal == Spec => EmptyListLocksOut
<1> DEFINE Unruled == /\ DOMAIN proposals = {} /\ DOMAIN installed = {}
                      /\ wasm = None /\ price_oracle = None
           Locked == admins = << >> => Unruled
           Step == /\ initialized /\ admins = << >> => admins' = << >>
                   /\ admins # << >> => admins' # << >>
<1>1. Init => Locked
  BY DEF Init
<1>2. TypeOK /\ [Next]_vars => [Step]_vars /\ (Locked => Locked')
  <2> SUFFICES ASSUME TypeOK, [Next]_vars PROVE Step /\ (Locked => Locked')
    OBVIOUS
  <2>1. CASE Proposals \/ FirstAdmin
    <3>1. admins # << >>
      BY <2>1, AdminsExist
      DEF Proposals, ProposeUpgrade, ApproveUpgrade, CancelUpgrade, FirstAdmin, Upgrade,
          TransferAdmin, SetPriceOracle
    <3>2. admins' = admins \/ \E new \in Addresses : admins' = <<new>>
      BY <2>1 DEF Proposals, ProposeUpgrade, ApproveUpgrade, CancelUpgrade, FirstAdmin,
                  Upgrade, TransferAdmin, SetPriceOracle
    <3> QED
      BY <3>1, <3>2
  <2>2. CASE Setup
    <3>1. admins = << >> /\ ~initialized
      BY <2>2 DEF Setup, Initialize, MayInitialize, TypeOK
    <3>2. UNCHANGED <<price_oracle, proposals, wasm, installed>>
      BY <2>2 DEF Setup, Initialize
    <3> QED
      BY <3>1, <3>2
  <2>3. CASE OracleKeys
    BY <2>3 DEF OracleKeys, RotateOracleAdmin, UpdateOracleSigners
  <2>4. CASE Tick \/ UNCHANGED vars
    BY <2>4 DEF Tick, vars, keys
  <2> QED
    BY <2>1, <2>2, <2>3, <2>4 DEF Next
<1>3. []Locked /\ [][Step]_vars => EmptyListLocksOut
  BY PTL DEF EmptyListLocksOut
<1> QED
  BY <1>1, <1>2, <1>3, RuledInvariant, PTL DEF Spec, Ruled

(* With no signer stored there is never one to approve the first: the signer  *)
(* set stays empty for every threshold above zero and every list proposed.    *)
THEOREM NobodySignsForTheOracle == Spec => []SignersNeverAppointed
<1>1. Init => SignersNeverAppointed
  BY DEF Init, SignersNeverAppointed
<1>2. SignersNeverAppointed /\ [Next]_vars => SignersNeverAppointed'
  <2> SUFFICES ASSUME SignersNeverAppointed, [Next]_vars
               PROVE  SignersNeverAppointed'
    OBVIOUS
  <2>1. \A approvals \in SUBSET Addresses :
          Cardinality(approvals \cap Range(oracle_signers)) = 0
    <3>1. Range(oracle_signers) = {}
      BY DEF SignersNeverAppointed, Range
    <3> QED
      BY <3>1, FS_EmptySet
  <2>2. CASE OracleKeys
    <3>1. ~(0 >= THRESHOLD)
      BY GovernanceAssumption
    <3>2. CASE \E caller, new \in Addresses : RotateOracleAdmin(caller, new)
      BY <3>2 DEF RotateOracleAdmin, SignersNeverAppointed
    <3>3. CASE \E new \in SignerLists, approvals \in SUBSET Addresses :
                 UpdateOracleSigners(new, approvals)
      <4>1. PICK new \in SignerLists, approvals \in SUBSET Addresses :
                   UpdateOracleSigners(new, approvals)
        BY <3>3
      <4>2. Cardinality(approvals \cap Range(oracle_signers)) = 0
        BY <2>1
      <4> QED
        BY <3>1, <4>1, <4>2 DEF UpdateOracleSigners, SignersNeverAppointed
    <3> QED
      BY <2>2, <3>2, <3>3 DEF OracleKeys
  <2>3. CASE Tick \/ Setup \/ Proposals \/ FirstAdmin \/ UNCHANGED vars
    BY <2>3 DEF Tick, Setup, Initialize, NoSigners, Proposals, ProposeUpgrade,
       ApproveUpgrade, CancelUpgrade, FirstAdmin, Upgrade, TransferAdmin, SetPriceOracle,
       SignersNeverAppointed, vars, keys
  <2> QED
    BY <2>2, <2>3 DEF Next
<1> QED
  BY <1>1, <1>2, PTL DEF Spec

=============================================================================
