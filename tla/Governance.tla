----------------------------- MODULE Governance -----------------------------
(***************************************************************************)
(* Who rules the escrow contract: initialization, the admin list, the      *)
(* oracle keys, the price oracle and the two ways to install new code,     *)
(* propose/approve and upgrade.                                            *)
(*                                                                         *)
(* As in TariffShield an invocation is atomic and a panic rolls it back.   *)
(* An upgrade is taken to install a build with this same governance code.  *)
(***************************************************************************)
EXTENDS Integers, Sequences, FiniteSets, Functions

CONSTANTS
  Addresses,      \* keys that sign calls
  AdminLists,     \* admin lists the contract may be initialized with, the
                  \* empty one included: initialize does not refuse it
  SignerLists,    \* signer sets proposed to update_oracle_signers
  Hashes,         \* hashes of uploaded code
  None,           \* an unset instance key
  THRESHOLD,      \* DataKey::OracleThreshold: 2
  QUORUM,         \* approvals that install a proposal: 2
  VALIDITY,       \* ledgers a proposal stays open: 17280
  MAX_PROPOSALS,  \* bound of the model on DataKey::ProposalCounter
  MAX_LEDGER      \* bound of the model on the ledger sequence

ASSUME GovernanceAssumption ==
  /\ None \notin Addresses /\ None \notin Hashes
  /\ AdminLists \subseteq Seq(Addresses) /\ SignerLists \subseteq Seq(Addresses)
  /\ THRESHOLD \in Nat \ {0} /\ QUORUM \in Nat \ {0, 1}
  /\ VALIDITY \in Nat /\ MAX_PROPOSALS \in Nat /\ MAX_LEDGER \in Nat

VARIABLES
  initialized,     \* has(DataKey::Admins)
  admins,          \* DataKey::Admins, << >> while it is not there
  oracle_admin,    \* DataKey::OracleAdmin
  emergency,       \* DataKey::EmergencyOracleAdmin
  price_oracle,    \* DataKey::PriceOracle
  oracle_signers,  \* DataKey::OracleSigners
  proposals,       \* DataKey::Proposal(id) -> Proposal, a partial map
  counter,         \* DataKey::ProposalCounter
  wasm,            \* hash of the code the contract runs, None for the first build
  ledger,          \* ledger sequence
  installed        \* history variable: what each proposal installed, and by whom

keys == <<oracle_admin, emergency, price_oracle, oracle_signers>>
vars == <<initialized, admins, keys, proposals, counter, wasm, ledger, installed>>

-----------------------------------------------------------------------------

Proposal ==
  [new_wasm_hash : Hashes, approvals : Seq(Addresses), expiry_ledger : Nat]

(* require_admin, and the first admin that get_admin returns: there is none *)
(* before initialize, and none after it with an empty list.                 *)
IsAdmin(a) == a \in Range(admins)
IsFirstAdmin(a) == admins # << >> /\ a = Head(admins)

(* f without d *)
Without(f, d) == [x \in DOMAIN f \ {d} |-> f[x]]

(* f with d mapped to v *)
With(f, d, v) == [x \in DOMAIN f \cup {d} |-> IF x = d THEN v ELSE f[x]]

-----------------------------------------------------------------------------

(* Mutant of NoSigners: the admins become the oracle's signers. *)
SignersAreAdmins(list) == list

(* The signer set that initialize stores. *)
NoSigners(list) == << >>

(* Mutant of MayInitialize: a list with nobody in it may be replaced. *)
NobodyRules == admins = << >>

MayInitialize == ~initialized

(* One-shot; that the list names somebody is not asked. *)
Initialize(list, oracle, other) ==
  /\ MayInitialize
  /\ initialized' = TRUE
  /\ admins' = list
  /\ oracle_admin' = oracle /\ emergency' = other
  /\ oracle_signers' = NoSigners(list)
  /\ UNCHANGED <<price_oracle, proposals, counter, wasm, ledger, installed>>

(* Mutant of NextId: the id of a proposal that is gone is used again. *)
SmallestFreeId == Cardinality(DOMAIN proposals) + 1

NextId == counter + 1

ProposeUpgrade(caller, hash) ==
  /\ IsAdmin(caller)
  /\ NextId <= MAX_PROPOSALS
  /\ counter' = NextId
  /\ proposals' = With(proposals, NextId,
                       [new_wasm_hash |-> hash, approvals |-> <<caller>>,
                        expiry_ledger |-> ledger + VALIDITY])
  /\ UNCHANGED <<initialized, admins, keys, wasm, ledger, installed>>

(* Mutant of MayVote: an admin may approve a proposal twice. *)
MayVoteAgain(p, caller) == ledger <= p.expiry_ledger

(* Neither expired nor approved by this admin already. *)
MayVote(p, caller) ==
  ledger <= p.expiry_ledger /\ caller \notin Range(p.approvals)

(* Mutant of Closed: the executed proposal stays in storage. *)
LeftOpen(id, p) == [proposals EXCEPT ![id] = p]

(* Storage once the quorum has executed proposal id, p with all its approvals. *)
Closed(id, p) == Without(proposals, id)

(* The approval that completes the quorum installs the code at once. *)
ApproveUpgrade(caller, id) ==
  /\ IsAdmin(caller)
  /\ id \in DOMAIN proposals
  /\ MayVote(proposals[id], caller)
  /\ LET p == [proposals[id] EXCEPT !.approvals = Append(@, caller)]
     IN IF Len(p.approvals) >= QUORUM
          THEN /\ wasm' = p.new_wasm_hash
               /\ proposals' = Closed(id, p)
               /\ installed' = With(installed, id,
                                    [hash |-> p.new_wasm_hash, at |-> ledger,
                                     voters |-> Range(p.approvals)])
          ELSE /\ proposals' = [proposals EXCEPT ![id] = p]
               /\ UNCHANGED <<wasm, installed>>
  /\ UNCHANGED <<initialized, admins, keys, counter, ledger>>

CancelUpgrade(caller, id) ==
  /\ IsAdmin(caller)
  /\ id \in DOMAIN proposals
  /\ proposals' = Without(proposals, id)
  /\ UNCHANGED <<initialized, admins, keys, counter, wasm, ledger, installed>>

(* upgrade, the way around the proposals: one signature of the first admin. *)
Upgrade(caller, hash) ==
  /\ IsFirstAdmin(caller)
  /\ wasm' = hash
  /\ UNCHANGED <<initialized, admins, keys, proposals, counter, ledger, installed>>

(* transfer_admin overwrites the whole list, and leaves proposals alone. *)
TransferAdmin(caller, new) ==
  /\ IsFirstAdmin(caller)
  /\ admins' = <<new>>
  /\ UNCHANGED <<initialized, keys, proposals, counter, wasm, ledger, installed>>

(* Any admin of the list; the new key signs too. *)
RotateOracleAdmin(caller, new) ==
  /\ IsAdmin(caller)
  /\ oracle_admin' = new
  /\ UNCHANGED <<initialized, admins, emergency, price_oracle, oracle_signers,
                 proposals, counter, wasm, ledger, installed>>

SetPriceOracle(caller, oracle) ==
  /\ IsFirstAdmin(caller)
  /\ price_oracle' = oracle
  /\ UNCHANGED <<initialized, admins, oracle_admin, emergency, oracle_signers,
                 proposals, counter, wasm, ledger, installed>>

(* update_oracle_signers, refusals included: short of THRESHOLD signatures of *)
(* current signers the call panics and the set stays as it is.                *)
UpdateOracleSigners(new, approvals) ==
  /\ initialized
  /\ Len(new) = 3
  /\ oracle_signers' =
       IF Cardinality(approvals \cap Range(oracle_signers)) >= THRESHOLD
         THEN new ELSE oracle_signers
  /\ UNCHANGED <<initialized, admins, oracle_admin, emergency, price_oracle,
                 proposals, counter, wasm, ledger, installed>>

(* The next ledger closes. *)
Tick ==
  /\ ledger < MAX_LEDGER
  /\ ledger' = ledger + 1
  /\ UNCHANGED <<initialized, admins, keys, proposals, counter, wasm, installed>>

-----------------------------------------------------------------------------

Init ==
  /\ initialized = FALSE
  /\ admins = << >>
  /\ oracle_admin = None /\ emergency = None /\ price_oracle = None
  /\ oracle_signers = << >>
  /\ proposals = [id \in {} |-> << >>]
  /\ counter = 0
  /\ wasm = None
  /\ ledger = 0
  /\ installed = [id \in {} |-> << >>]

Setup ==
  \E list \in AdminLists, oracle, other \in Addresses : Initialize(list, oracle, other)

Proposals ==
  \E caller \in Addresses :
    \/ \E hash \in Hashes : ProposeUpgrade(caller, hash)
    \/ \E id \in DOMAIN proposals : ApproveUpgrade(caller, id) \/ CancelUpgrade(caller, id)

FirstAdmin ==
  \E caller \in Addresses :
    \/ \E hash \in Hashes : Upgrade(caller, hash)
    \/ \E new \in Addresses : TransferAdmin(caller, new) \/ SetPriceOracle(caller, new)

OracleKeys ==
  \/ \E caller, new \in Addresses : RotateOracleAdmin(caller, new)
  \/ \E new \in SignerLists, approvals \in SUBSET Addresses :
       UpdateOracleSigners(new, approvals)

Next == Tick \/ Setup \/ Proposals \/ FirstAdmin \/ OracleKeys

Spec == Init /\ [][Next]_vars

-----------------------------------------------------------------------------

(* Instance storage holds what its readers unwrap: both oracle keys are set   *)
(* from initialize on (get_oracle_admin), nobody is an admin before it, and   *)
(* an open proposal has approvals, but not yet a quorum of them.              *)
TypeOK ==
  /\ initialized \in BOOLEAN
  /\ admins \in Seq(Addresses) /\ oracle_signers \in Seq(Addresses)
  /\ IF initialized THEN {oracle_admin, emergency} \subseteq Addresses
     ELSE admins = << >> /\ oracle_admin = None /\ emergency = None
  /\ price_oracle \in Addresses \cup {None} /\ wasm \in Hashes \cup {None}
  /\ counter \in 0..MAX_PROPOSALS /\ ledger \in 0..MAX_LEDGER
  /\ proposals \in [DOMAIN proposals -> Proposal]
  /\ \A id \in DOMAIN proposals : Len(proposals[id].approvals) \in 1..(QUORUM - 1)
  /\ installed \in [DOMAIN installed ->
                      [hash : Hashes, at : Nat, voters : SUBSET Addresses]]

(* What the proposals install took as many different keys as the quorum: one  *)
(* admin cannot fill it alone, whatever he proposes, approves, cancels or     *)
(* transfers in between.                                                      *)
QuorumOfTwo ==
  \A id \in DOMAIN installed : Cardinality(installed[id].voters) >= QUORUM

(* A proposal is executed at most once: code that a quorum installed and that *)
(* was replaced since does not come back through a late third approval.       *)
ExecutedOnce ==
  [][\A id \in DOMAIN installed :
       id \in DOMAIN installed' /\ installed'[id] = installed[id]]_vars

(* An id names one proposal for ever: once cancelled or executed, it is not   *)
(* handed out again, so that an approval signed for it cannot approve other   *)
(* code; and while it is open its code does not change.                       *)
IdNamesOneProposal ==
  [][\A id \in 1..counter :
       IF id \in DOMAIN proposals
         THEN id \in DOMAIN proposals' =>
                proposals'[id].new_wasm_hash = proposals[id].new_wasm_hash
         ELSE id \notin DOMAIN proposals']_vars

(* Nobody rules a contract without an admin, and nobody ever will: if         *)
(* initialize stored an empty list, which it does not refuse, no proposal is  *)
(* ever opened, no code or price oracle installed and no admin appointed      *)
(* (get_admin and require_admin panic, initialize answers once).  A list that *)
(* names an admin, on the other hand, always will: no call empties it.        *)
EmptyListLocksOut ==
  /\ [](admins = << >> => /\ DOMAIN proposals = {} /\ DOMAIN installed = {}
                          /\ wasm = None /\ price_oracle = None)
  /\ [][/\ initialized /\ admins = << >> => admins' = << >>
        /\ admins # << >> => admins' # << >>]_vars

(* No oracle signer can ever be appointed: initialize stores none and         *)
(* update_oracle_signers asks for signatures of the current ones.             *)
SignersNeverAppointed == oracle_signers = << >>

=============================================================================
