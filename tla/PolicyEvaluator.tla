-------------------------- MODULE PolicyEvaluator --------------------------
(***************************************************************************)
(* The wizard's copy of the decision: packages/policy/src/evaluate.ts, on  *)
(* the policies and contexts of TransferRules.  It has no width: its       *)
(* amounts are bigint.                                                     *)
(***************************************************************************)
EXTENDS Integers, Sequences, FiniteSetsExt

\* shared/src/refusal.ts, the codes the hook returns.
REFUSAL_CODES ==
    <<"POLICY_VERSION_MISMATCH", "SENDER_STATUS_MISSING", "RECIPIENT_STATUS_MISSING",
      "STATUS_SOURCE_NOT_ACCEPTED", "STATUS_SOURCE_UNAVAILABLE", "SENDER_DENIED",
      "RECIPIENT_DENIED", "RECIPIENT_TIER_TOO_LOW", "RECIPIENT_JURISDICTION_NOT_ALLOWED",
      "TRANSFER_LIMIT_EXCEEDED", "VELOCITY_COUNTER_MISSING", "PERIOD_LIMIT_EXCEEDED",
      "UNKNOWN_RULE_KIND", "TRANSFERS_PAUSED", "ACCOUNT_FROZEN">>

isCurrent(expiresAt, now) == expiresAt = {} \/ \E at \in expiresAt : now < at

isProviderCurrent(record, maxAge, now) ==
    /\ isCurrent(record.expires, now)
    /\ maxAge = {} \/ \E age \in maxAge : now - record.issued <= age

\* The facts of a party: what the sources in force say, and those accepted.
viewParty(party, policy, now) ==
    LET provider == party.provider
        register == party.register
        known == {s \in {"provider", "register"} :
                    /\ party[s].state = "record"
                    /\ IF s = "provider" THEN isProviderCurrent(provider, policy.maxAge, now)
                                         ELSE isCurrent(register.expires, now)}
        fresh == {[source |-> s, denied |-> party[s].denied, tier |-> party[s].tier,
                   jurisdiction |-> party[s].jurisdiction] : s \in known}
    IN  [fresh |-> fresh,
         accepted |-> {fact \in fresh : fact.source \in policy.sources},
         unavailable |-> "unavailable" \in {provider.state, register.state}]

nothingKnown(party) == ~party.unavailable /\ party.fresh = {}
onlyUnaccepted(party) == party.fresh # {} /\ party.accepted = {}

mergedTier(party) ==
    IF party.accepted = {} THEN 0 ELSE Min({fact.tier : fact \in party.accepted})

periodExceeded(policy, ctx) ==
    \E limit \in policy.periodLimit, velocity \in ctx.velocity :
      LET windowOpen == ctx.now < velocity.start + limit.window
      IN  (IF windowOpen THEN velocity.spent ELSE 0) + ctx.amount > limit.amount

\* The table from code to check; the codes checked elsewhere never fail here.
CHECKS(code, policy, ctx, sender, recipient) ==
    CASE code = "POLICY_VERSION_MISMATCH" -> ctx.policyVersion # ctx.mintPolicyVersion
      [] code = "SENDER_STATUS_MISSING" -> nothingKnown(sender)
      [] code = "RECIPIENT_STATUS_MISSING" -> nothingKnown(recipient)
      [] code = "STATUS_SOURCE_NOT_ACCEPTED" ->
           onlyUnaccepted(sender) \/ onlyUnaccepted(recipient)
      [] code = "STATUS_SOURCE_UNAVAILABLE" -> sender.unavailable \/ recipient.unavailable
      [] code = "SENDER_DENIED" -> \E fact \in sender.fresh : fact.denied
      [] code = "RECIPIENT_DENIED" -> \E fact \in recipient.fresh : fact.denied
      [] code = "RECIPIENT_TIER_TOO_LOW" -> mergedTier(recipient) < policy.minTier
      [] code = "RECIPIENT_JURISDICTION_NOT_ALLOWED" ->
           \E allowed \in policy.jurisdictions, fact \in recipient.accepted :
             fact.jurisdiction \notin allowed
      [] code = "TRANSFER_LIMIT_EXCEEDED" ->
           \E limit \in policy.transferLimit : ctx.amount > limit
      [] code = "VELOCITY_COUNTER_MISSING" -> policy.periodLimit # {} /\ ctx.velocity = {}
      [] code = "PERIOD_LIMIT_EXCEEDED" -> periodExceeded(policy, ctx)
      [] OTHER -> FALSE

\* The first code whose check fails.
evaluateTransfer(policy, ctx) ==
    LET sender == viewParty(ctx.sender, policy, ctx.now)
        recipient == viewParty(ctx.recipient, policy, ctx.now)
        refused == {i \in DOMAIN REFUSAL_CODES :
                      CHECKS(REFUSAL_CODES[i], policy, ctx, sender, recipient)}
    IN  IF refused = {} THEN "allowed" ELSE REFUSAL_CODES[Min(refused)]
=============================================================================
