------------------------------ MODULE MCOracle ------------------------------
(***************************************************************************)
(* The life of one importer's requirement: oracle updates with depegged    *)
(* rates, the cap, the rate limit, disputes and staleness as time passes.  *)
(***************************************************************************)
EXTENDS TariffShield

(* dispute-resolution.md, "preDisputeRequired is set to the collateral value *)
(* that was in effect before the oracle update": an update keeps, as the     *)
(* value a dispute will enforce, the requirement in force until then.        *)
DisputeProtectsValueInEffect ==
  [][\A i \in Registered :
       acct'[i].collateral_history # acct[i].collateral_history =>
         acct'[i].pre_dispute_required = EffectiveRequired(acct[i])]_vars

(* security-model.md, "a 5x cap guard and 24-hour rate limit bound the blast *)
(* radius of a compromised oracle key": without the emergency key, two       *)
(* updates of an importer are a cooldown apart.                              *)
OracleKeyIsRateLimited ==
  \A i \in Registered :
    LET h == acct[i].collateral_history
    IN \A k \in 1..(Len(h) - 1) : h[k+1].timestamp >= h[k].timestamp + COOLDOWN

=============================================================================
