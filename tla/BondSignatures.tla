---------------------------- MODULE BondSignatures ----------------------------
(***************************************************************************)
(* The signature of one bond: envelopes that surety admins send through    *)
(* DocuSign, and the calls of the webhook that report what became of them  *)
(* (apps/api/src/routes/bond-signatures.ts).  Calls may be late, repeated, *)
(* out of order and handled at the same time, and the provider calls again *)
(* until it is answered 200.  The handler does not know who calls: the     *)
(* signature of a call is compared only if the key is configured, the      *)
(* header is sent and rawBody is there, which no middleware of the API     *)
(* sets.  So a call may report any outcome of any envelope at any time,    *)
(* and the handler writes what the call says.                              *)
(***************************************************************************)

EXTENDS Naturals, FiniteSets

CONSTANTS
  Envelopes,    \* envelopes the provider may create
  Senders,      \* requests to send the bond for signature
  Calls,        \* webhook calls that may be handled at once
  MAX_UNTRUE    \* bound of the model on reports the provider did not make

VARIABLES
  signature_status,  \* bond_records.signature_status
  bond_signatures,   \* table: status of each envelope, or none
  provider,          \* what the envelope is at the provider
  sender,            \* what each request to send is doing
  webhook,           \* what each call of the webhook is doing
  answered,          \* envelopes of which a call was answered with 200
  reported,          \* history: the outcomes that calls reported of each envelope
  unknown,           \* history: envelopes reported before their row was stored
  reopened           \* history: a request that had found the bond not completed
                     \* marked it as sent when it was

bondVars == <<signature_status, bond_signatures, provider, sender, webhook, answered,
              reported, unknown, reopened>>

-----------------------------------------------------------------------------

(* A voided envelope is handled as a declined one and counts as that; other  *)
(* statuses change nothing.                                                  *)
Outcomes == {"completed", "declined"}

Idle == [at |-> "idle"]

Sender == [at : {"idle"}]
  \cup [at : {"create"}, found : {"pending", "sent", "completed"}]
  \cup [at : {"store", "mark"}, found : {"pending", "sent", "completed"},
        envelope : Envelopes]

Call == [at : {"idle"}]
  \cup [at : {"signature", "bond", "answer"}, envelope : Envelopes, status : Outcomes]

SenderDone(c) == sender' = [sender EXCEPT ![c] = Idle]

CallDone(w) == webhook' = [webhook EXCEPT ![w] = Idle]

HasRow(e) == bond_signatures[e] # "none"

-----------------------------------------------------------------------------
(* POST /bonds/:id/send-for-signature *)

(* Mutant of MayBeSent: whatever the bond's status. *)
MayAlwaysBeSent(status) == status \in {"pending", "sent", "completed"}

MayBeSent(status) == status # "completed"

BeginSending(c) ==
  /\ sender[c] = Idle /\ MayBeSent(signature_status)
  /\ sender' = [sender EXCEPT ![c] = [at |-> "create", found |-> signature_status]]
  /\ UNCHANGED <<signature_status, bond_signatures, provider, webhook, answered, reported,
                 unknown, reopened>>

(* createDocuSignEnvelope: the importer can sign from now on. *)
CreateEnvelope(c, e) ==
  /\ sender[c].at = "create" /\ provider[e] = "none"
  /\ provider' = [provider EXCEPT ![e] = "out"]
  /\ sender' = [sender EXCEPT
       ![c] = [at |-> "store", found |-> @.found, envelope |-> e]]
  /\ UNCHANGED <<signature_status, bond_signatures, webhook, answered, reported, unknown,
                 reopened>>

StoreEnvelope(c) ==
  /\ sender[c].at = "store"
  /\ bond_signatures' = [bond_signatures EXCEPT ![sender[c].envelope] = "sent"]
  /\ sender' = [sender EXCEPT ![c].at = "mark"]
  /\ UNCHANGED <<signature_status, provider, webhook, answered, reported, unknown,
                 reopened>>

(* ... whatever the bond's status is by now. *)
MarkSent(c) ==
  /\ sender[c].at = "mark"
  /\ signature_status' = "sent"
  /\ reopened' = (reopened \/ (signature_status = "completed"
                                 /\ sender[c].found # "completed"))
  /\ SenderDone(c)
  /\ UNCHANGED <<bond_signatures, provider, webhook, answered, reported, unknown>>

(* DocuSign or Postgres fails, or the process dies. *)
SendingBreaks(c) ==
  /\ sender[c] # Idle
  /\ SenderDone(c)
  /\ UNCHANGED <<signature_status, bond_signatures, provider, webhook, answered, reported,
                 unknown, reopened>>

-----------------------------------------------------------------------------
(* The provider, and POST /bonds/docusign-webhook *)

Outcome(e, result) ==
  /\ provider[e] = "out"
  /\ provider' = [provider EXCEPT ![e] = result]
  /\ UNCHANGED <<signature_status, bond_signatures, sender, webhook, answered, reported,
                 unknown, reopened>>

(* What was reported and is not what the provider knows. *)
Untrue == {r \in Envelopes \X Outcomes : r[2] \in reported[r[1]] \ {provider[r[1]]}}

(* A call of the provider, the first or one more, or of anybody else. *)
CallWebhook(w, e, status) ==
  /\ webhook[w] = Idle
  /\ status = provider[e] \/ Cardinality(Untrue) < MAX_UNTRUE
  /\ webhook' = [webhook EXCEPT
       ![w] = [at |-> "signature", envelope |-> e, status |-> status]]
  /\ reported' = [reported EXCEPT ![e] = @ \cup {status}]
  /\ UNCHANGED <<signature_status, bond_signatures, provider, sender, answered, unknown,
                 reopened>>

(* Mutant of AfterSignature: answered before the bond is updated. *)
AnswerFirst(status) == "answer"

(* Of a signed envelope the bond is updated next. *)
AfterSignature(status) == IF status = "completed" THEN "bond" ELSE "answer"

(* UPDATE bond_signatures ... WHERE envelope_id, to the status of the call's *)
(* body: there may be no such row yet.                                       *)
UpdateSignature(w) ==
  LET e == webhook[w].envelope
      status == webhook[w].status
  IN /\ webhook[w].at = "signature"
     /\ IF HasRow(e)
          THEN /\ bond_signatures' = [bond_signatures EXCEPT ![e] = status]
               /\ UNCHANGED unknown
          ELSE unknown' = unknown \cup {e} /\ UNCHANGED bond_signatures
     /\ webhook' = [webhook EXCEPT ![w].at = AfterSignature(status)]
     /\ UNCHANGED <<signature_status, provider, sender, answered, reported, reopened>>

UpdateBond(w) ==
  /\ webhook[w].at = "bond"
  /\ signature_status' = IF HasRow(webhook[w].envelope) THEN "completed"
                         ELSE signature_status
  /\ webhook' = [webhook EXCEPT ![w].at = "answer"]
  /\ UNCHANGED <<bond_signatures, provider, sender, answered, reported, unknown, reopened>>

Answer(w) ==
  /\ webhook[w].at = "answer"
  /\ answered' = answered \cup {webhook[w].envelope}
  /\ CallDone(w)
  /\ UNCHANGED <<signature_status, bond_signatures, provider, sender, reported, unknown,
                 reopened>>

(* No answer in time, or an error: the provider will call again. *)
CallBreaks(w) ==
  /\ webhook[w] # Idle
  /\ CallDone(w)
  /\ UNCHANGED <<signature_status, bond_signatures, provider, sender, answered, reported,
                 unknown, reopened>>

-----------------------------------------------------------------------------

BondsInit ==
  /\ signature_status = "pending"
  /\ bond_signatures = [e \in Envelopes |-> "none"]
  /\ provider = [e \in Envelopes |-> "none"]
  /\ sender = [c \in Senders |-> Idle] /\ webhook = [w \in Calls |-> Idle]
  /\ answered = {} /\ reported = [e \in Envelopes |-> {}]
  /\ unknown = {} /\ reopened = FALSE

BondsNext ==
  \/ \E c \in Senders :
       \/ BeginSending(c) \/ StoreEnvelope(c) \/ MarkSent(c) \/ SendingBreaks(c)
       \/ \E e \in Envelopes : CreateEnvelope(c, e)
  \/ \E e \in Envelopes, result \in Outcomes : Outcome(e, result)
  \/ \E w \in Calls :
       \/ UpdateSignature(w) \/ UpdateBond(w) \/ Answer(w) \/ CallBreaks(w)
       \/ \E e \in Envelopes, status \in Outcomes : CallWebhook(w, e, status)

BondsSpec == BondsInit /\ [][BondsNext]_bondVars

-----------------------------------------------------------------------------

BondsTypeOK ==
  /\ signature_status \in {"pending", "sent", "completed"}
  /\ bond_signatures \in [Envelopes -> {"none", "sent"} \cup Outcomes]
  /\ provider \in [Envelopes -> {"none", "out"} \cup Outcomes]
  /\ sender \in [Senders -> Sender] /\ webhook \in [Calls -> Call]
  /\ answered \subseteq Envelopes /\ reported \in [Envelopes -> SUBSET Outcomes]
  /\ unknown \subseteq Envelopes /\ reopened \in BOOLEAN

(* The calls on an envelope have told what the provider knows of it. *)
Truthful(e) == reported[e] \subseteq {provider[e]}

(* The tables tell what was reported, no more and, once answered, no less,     *)
(* however calls are repeated, reordered, handled at once or broken off: the   *)
(* bond counts as signed only if a stored envelope of it was reported          *)
(* completed, and an envelope as ended only as it was reported; and once a     *)
(* call on it was answered, an envelope of which nothing false was reported    *)
(* has the provider's outcome, and the bond of a signed one is completed,      *)
(* unless a call came before the row of the envelope was there, or a request   *)
(* to send the bond once more was under way.  That reports are true is not     *)
(* the handler's doing: it does not tell the provider from other callers.      *)
BondTellsReports ==
  /\ signature_status = "completed" =>
       \E e \in Envelopes : HasRow(e) /\ "completed" \in reported[e]
  /\ \A e \in Envelopes :
       /\ bond_signatures[e] \in Outcomes => bond_signatures[e] \in reported[e]
       /\ e \in answered \ unknown /\ Truthful(e) =>
            /\ bond_signatures[e] = provider[e]
            /\ provider[e] = "completed" => signature_status = "completed" \/ reopened

=============================================================================
