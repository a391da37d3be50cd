------------------------------ MODULE MCOffice ------------------------------
(***************************************************************************)
(* What people and callbacks do to the API's tables: reviews of importers, *)
(* signatures of bonds, rotations of oracle signers, compliance flags,     *)
(* webhooks, the account cache and the onboarding drip, each on a small    *)
(* instance of its own.                                                    *)
(* They share no state here, so that a behaviour is about the one that has *)
(* the focus; Onboarding has two, as documents and chains meet only in     *)
(* kyc_status.                                                             *)
(***************************************************************************)
EXTENDS TLC, Onboarding, BondSignatures, SignerRotation, ComplianceFlags, Webhooks,
        AccountCache, OnboardingDrip

CONSTANTS
  alice, bob, d1, d2, i1, i2, k1, k2,     \* onboarding
  n1, n2, m1, c1, c2,                     \* bonds
  carol, p1, p2, w1, w2,                  \* rotations
  f1, l1, l2, z1, z2,                     \* flags
  u1, h1, h2,                             \* webhooks
  g1, g2, t1, t2,                         \* cache
  a1, a2                                  \* drip

VARIABLE focus

People == {alice, bob}
MorePeople == {alice, bob, carol}
SetOfDocuments == {d1, d2}
SetOfReviews == {i1, i2}
SetOfDesks == {k1, k2}
SetOfEnvelopes == {n1, n2}
SetOfSenders == {m1}
SetOfCalls == {c1, c2}
SetOfRotations == {p1, p2}
SetOfWindows == {w1, w2}
SetOfFlags == {f1}
SetOfRules == {l1, l2}
SetOfCheckers == {z1, z2}
TwoRules == [r \in {l1, l2} |-> [is_active |-> TRUE, after |-> 1,
                                  target |-> IF r = l1 THEN alice ELSE bob]]
SetOfSubs == {u1}
SetOfHooks == {h1, h2}
OneSubscription == [h \in {h1, h2} |-> u1]
SetOfReaders == {g1, g2}
SetOfTxJobs == {t1, t2}
SetOfWalkers == {a1, a2}

(* Envelopes are alike, and so are the calls on them: every property here is an  *)
(* invariant, and none names one of them.                                        *)
Alike == Permutations(SetOfEnvelopes) \cup Permutations(SetOfCalls)

officeVars == <<focus, onboardingVars, bondVars, rotationVars, flagVars, hookVars, cacheVars,
                dripVars>>

OnOnboarding ==
  /\ focus \in {"documents", "chains"}
  /\ UNCHANGED <<focus, bondVars, rotationVars, flagVars, hookVars, cacheVars, dripVars>>
OnBonds ==
  /\ focus = "bonds"
  /\ UNCHANGED <<focus, onboardingVars, rotationVars, flagVars, hookVars, cacheVars, dripVars>>
OnRotation ==
  /\ focus = "rotation"
  /\ UNCHANGED <<focus, onboardingVars, bondVars, flagVars, hookVars, cacheVars, dripVars>>
OnFlags ==
  /\ focus = "flags"
  /\ UNCHANGED <<focus, onboardingVars, bondVars, rotationVars, hookVars, cacheVars, dripVars>>
OnHooks ==
  /\ focus = "webhooks"
  /\ UNCHANGED <<focus, onboardingVars, bondVars, rotationVars, flagVars, cacheVars, dripVars>>
OnCache ==
  /\ focus = "cache"
  /\ UNCHANGED <<focus, onboardingVars, bondVars, rotationVars, flagVars, hookVars, dripVars>>
OnDrip ==
  /\ focus = "drip"
  /\ UNCHANGED <<focus, onboardingVars, bondVars, rotationVars, flagVars, hookVars, cacheVars>>

(* The sequence starts as migration 0008 seeds it: each step later than the last. *)
OfficeInit ==
  /\ focus \in {"documents", "chains", "bonds", "rotation", "flags", "webhooks", "cache", "drip"}
  /\ OnboardingInit /\ BondsInit /\ RotationInit /\ FlagsInit /\ HooksInit /\ CacheInit
  /\ DripInit
  /\ onboarding_drip_steps[1].delay_hours < onboarding_drip_steps[2].delay_hours

OfficeNext ==
  \/ /\ OnOnboarding /\ OnboardingNext
     /\ focus = "documents" => UNCHANGED approval_chains
     /\ focus = "chains" => UNCHANGED kyc_documents
  \/ OnBonds /\ BondsNext
  \/ OnRotation /\ RotationNext
  \/ OnFlags /\ FlagsNext
  \/ OnHooks /\ HooksNext
  \/ OnCache /\ CacheNext
  \/ OnDrip /\ DripNext

OfficeSpec == OfficeInit /\ [][OfficeNext]_officeVars

(* Every table, request and job keeps to its types. *)
OfficeTypeOK ==
  /\ OnboardingTypeOK /\ BondsTypeOK /\ RotationTypeOK /\ FlagsTypeOK /\ HooksTypeOK
  /\ CacheTypeOK /\ DripTypeOK

=============================================================================
