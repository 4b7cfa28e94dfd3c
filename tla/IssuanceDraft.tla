--------------------------- MODULE IssuanceDraft ---------------------------
(***************************************************************************)
(* The wizard's draft and what it turns into: apps/web, draft.ts; the body *)
(* of POST /api/tokens, apps/api, contracts/tokens.ts, from the wizard or  *)
(* from another client; the scenarios shown beside it, packages/policy,    *)
(* scenarios.ts; and what create_token refuses.  No state of its own.      *)
(* A field that may be empty or wrong is a set of at most one value.  An   *)
(* amount is as typed: its digits as one number, and how many of them are  *)
(* after the point.  Trimming and upper-casing are done.  What is          *)
(* undefined, or refused, is {}.                                           *)
(***************************************************************************)
EXTENDS RuleLayout

CONSTANTS
    MAX_DECIMALS,            \* the token's decimals
    MAX_BYTES,               \* of name, symbol and uri
    MAX_FEE_BPS,             \* one hundred percent
    MAX_ATTESTATION_MAX_AGE, \* the program's ceiling on the reserve's period
    Currencies,              \* the codes of three to eight capital letters
    Hour,                    \* an hour, in units of the clock
    SIMULATED_JURISDICTION   \* a country, when the policy names none

ASSUME DraftAssumption ==
    /\ MAX_DECIMALS \in 0 .. 9 /\ MAX_FEE_BPS \in Nat /\ Hour \in Nat \ {0}
    /\ MAX_ATTESTATION_MAX_AGE \in Nat \ {0}
    /\ \A field \in DOMAIN MAX_BYTES : MAX_BYTES[field] \in Nat
    /\ SIMULATED_JURISDICTION \in Capitals

Wizard == INSTANCE PolicyEvaluator

-----------------------------------------------------------------------------
(* Numbers *)

Typed(digits, places) == [is |-> "number", digits |-> digits, places |-> places]
Blank == [is |-> "blank", digits |-> 0, places |-> 0]
Junk == [is |-> "junk", digits |-> 0, places |-> 0]

\* A slip of draft.ts: the digits too many are dropped.
toSmallestUnitCut(input, decimals) ==
    IF input.is # "number" \/ decimals > MAX_DECIMALS THEN {}
    ELSE IF input.places > decimals THEN {input.digits \div 10 ^ (input.places - decimals)}
    ELSE {input.digits * 10 ^ (decimals - input.places)}

\* More places than the token has are not an amount.
toSmallestUnit(input, decimals) ==
    IF input.is # "number" \/ decimals > MAX_DECIMALS \/ input.places > decimals THEN {}
    ELSE {input.digits * 10 ^ (decimals - input.places)}

hoursToSeconds(hours) == {h * Hour : h \in hours}

DecimalsOrZero(draft) == IF draft.decimals = {} THEN 0 ELSE CHOOSE d \in draft.decimals : TRUE

-----------------------------------------------------------------------------
(* Draft to policy *)

AmountOf(draft, input) == toSmallestUnit(input, DecimalsOrZero(draft))

\* A transfer limit that is not an amount is an absent rule; a period limit with a
\* part missing is refused by the schema.
draftPolicy(draft) ==
    LET window == hoursToSeconds(draft.periodHours)
        amount == AmountOf(draft, draft.periodLimit)
        body(period) ==
          [status |-> {[sources |-> draft.sources, minTier |-> draft.minTier,
                        maxAge |-> IF "provider" \in ToSet(draft.sources)
                                   THEN hoursToSeconds(draft.attestationAgeHours) ELSE {}]},
           jurisdictions |-> {draft.jurisdictions} \ {<<>>},
           transferLimit |-> AmountOf(draft, draft.transferLimit),
           periodLimit |-> period]
    IN  IF draft.periodLimit.is = "blank" THEN {body({})}
        ELSE {body({[amount |-> a, windowSeconds |-> w]}) : a \in amount, w \in window}

parsedPolicy(draft) == UNION {PolicyRulesSchema(body) : body \in draftPolicy(draft)}

\* The sentences of the rulebook, by what they are about.  What is not an amount, or
\* not hours, is shown as a dash.
buildClauses(draft) ==
    [decimals |-> DecimalsOrZero(draft),
     initialSupply |-> AmountOf(draft, draft.initialSupply),
     sources |-> ToSet(draft.sources), minTier |-> draft.minTier,
     providerAge |-> IF "provider" \in ToSet(draft.sources)
                     THEN hoursToSeconds(draft.attestationAgeHours) ELSE {},
     jurisdictions |-> ToSet(draft.jurisdictions),
     transfersCapped |-> draft.transferLimit.is # "blank",
     transferCap |-> AmountOf(draft, draft.transferLimit),
     periodsCapped |-> draft.periodLimit.is # "blank",
     periodCap |-> AmountOf(draft, draft.periodLimit),
     period |-> IF draft.periodLimit.is = "blank" THEN {} ELSE hoursToSeconds(draft.periodHours),
     reserve |-> AmountOf(draft, draft.reserveAmount), currency |-> draft.reserveCurrency,
     reserveAge |-> hoursToSeconds(draft.reserveAgeHours)]

-----------------------------------------------------------------------------
(* Draft to body *)

\* A slip of contracts/tokens.ts: the issuance is not compared to the reserve.
createTokenBodySchemaUnreserved(body) ==
    /\ \A field \in DOMAIN MAX_BYTES : body.title[field] \in 1 .. MAX_BYTES[field]
    /\ body.decimals <= MAX_DECIMALS
    /\ body.initialSupply <= MaxU64 /\ body.reserve <= MaxU64
    /\ body.currency \in Currencies /\ body.maxAgeSeconds > 0
    /\ body.addresses /\ body.bps <= MAX_FEE_BPS
    /\ body.founderJurisdiction \in Capitals

\* The fields' bounds, apart from the policy's, which has a schema of its own.  The end
\* of the founder's status has none.
createTokenBodySchema(body) ==
    /\ \A field \in DOMAIN MAX_BYTES : body.title[field] \in 1 .. MAX_BYTES[field]
    /\ body.decimals <= MAX_DECIMALS
    /\ body.initialSupply <= MaxU64 /\ body.reserve <= MaxU64
    /\ body.initialSupply <= body.reserve
    /\ body.currency \in Currencies /\ body.maxAgeSeconds > 0
    /\ body.addresses /\ body.bps <= MAX_FEE_BPS
    /\ body.founderJurisdiction \in Capitals

\* A slip of draft.ts: the founder's status ends as it is written.
toCreateTokenBodyEnding(draft, now) ==
    {body \in
       {[title |-> draft.title, decimals |-> decimals, policy |-> policy,
         initialSupply |-> supply, reserve |-> reserve, currency |-> draft.reserveCurrency,
         attestedAt |-> now, maxAgeSeconds |-> age, addresses |-> draft.addresses,
         bps |-> bps, founderTier |-> draft.founderTier,
         founderJurisdiction |-> draft.founderJurisdiction, founderExpiresAt |-> now] :
           decimals \in draft.decimals, policy \in parsedPolicy(draft),
           supply \in AmountOf(draft, draft.initialSupply),
           reserve \in AmountOf(draft, draft.reserveAmount),
           age \in hoursToSeconds(draft.reserveAgeHours), bps \in draft.feeBps} :
       createTokenBodySchema(body)}

\* The body, with the reserve attested now; the founder's status has no end, which is 0.
toCreateTokenBody(draft, now) ==
    {body \in
       {[title |-> draft.title, decimals |-> decimals, policy |-> policy,
         initialSupply |-> supply, reserve |-> reserve, currency |-> draft.reserveCurrency,
         attestedAt |-> now, maxAgeSeconds |-> age, addresses |-> draft.addresses,
         bps |-> bps, founderTier |-> draft.founderTier,
         founderJurisdiction |-> draft.founderJurisdiction, founderExpiresAt |-> 0] :
           decimals \in draft.decimals, policy \in parsedPolicy(draft),
           supply \in AmountOf(draft, draft.initialSupply),
           reserve \in AmountOf(draft, draft.reserveAmount),
           age \in hoursToSeconds(draft.reserveAgeHours), bps \in draft.feeBps} :
       createTokenBodySchema(body)}

\* A body as another client posts it, as the route takes it: its policy in order, and
\* the reserve attested now where it names no time.
PostedBody(raw, now) ==
    {body \in
       {[raw EXCEPT !.policy = policy,
                    !.attestedAt = IF @ = {} THEN now ELSE CHOOSE at \in @ : TRUE] :
           policy \in PolicyRulesSchema(raw.policy)} :
       createTokenBodySchema(body)}

-----------------------------------------------------------------------------
(* Step readiness *)

\* A limit is left empty, or is an amount and not zero.
LimitStands(draft, input) ==
    input.is = "blank" \/ AmountOf(draft, input) \notin {{}, {0}}

\* Whether nothing keeps the person on this step.  Steps 4 and 5 are proven by the
\* schema of the body.
ReadyAt(step, draft) ==
    CASE step = 1 ->
           /\ \A field \in DOMAIN MAX_BYTES : draft.title[field] > 0
           /\ draft.decimals # {}
           /\ AmountOf(draft, draft.initialSupply) # {}
           /\ draft.acknowledged
      [] step = 2 ->
           /\ draft.sources # <<>>
           /\ "provider" \in ToSet(draft.sources) =>
                hoursToSeconds(draft.attestationAgeHours) \in {{s} : s \in MinAge .. MaxAge}
           /\ Len(draft.jurisdictions) <= Fields
           /\ ToSet(draft.jurisdictions) \subseteq Capitals
           /\ IsInjective(draft.jurisdictions)
           /\ draft.founderJurisdiction \in Capitals
      [] step = 3 ->
           /\ LimitStands(draft, draft.transferLimit)
           /\ LimitStands(draft, draft.periodLimit)
           /\ draft.periodLimit.is # "blank" =>
                hoursToSeconds(draft.periodHours) \in {{s} : s \in MinPeriod .. MaxPeriod}
      [] OTHER -> toCreateTokenBody(draft, 0) # {}

-----------------------------------------------------------------------------
(* The scenarios of POST /api/policy/simulate *)

SCENARIO_NAMES == {"verified", "unverified", "over-limit", "denied", "paused"}

\* A party with a record in each source the policy accepts, or in none.
party(policy, now, known, denied) ==
    LET status == CHOOSE s \in policy.status : TRUE
        country == IF policy.jurisdictions = {} THEN SIMULATED_JURISDICTION
                   ELSE Head(CHOOSE codes \in policy.jurisdictions : TRUE)
        record == [state |-> "record", denied |-> denied, tier |-> status.minTier,
                   jurisdiction |-> country, expires |-> {}, issued |-> now]
    IN  [s \in Source |-> IF known /\ s \in ToSet(status.sources) THEN record ELSE Absent]

Limits(policy) == policy.transferLimit \cup {limit.amount : limit \in policy.periodLimit}

\* A slip of scenarios.ts: the larger limit is taken.
bindingLimitLargest(policy) ==
    IF Limits(policy) = {} THEN {} ELSE {Max(Limits(policy))}

bindingLimit(policy) == IF Limits(policy) = {} THEN {} ELSE {Min(Limits(policy))}

context(policy, now, amount, sender, recipient) ==
    [now |-> now, sender |-> sender, recipient |-> recipient, amount |-> amount,
     velocity |-> IF policy.periodLimit = {} THEN {} ELSE {[start |-> now, spent |-> 0]},
     policyVersion |-> 1, mintPolicyVersion |-> 1]

\* Above a limit at the top of the width there is nothing.
buildScenario(policy, name, now) ==
    LET limit == bindingLimit(policy)
        within == IF limit = {} THEN 1 ELSE CHOOSE l \in limit : TRUE
        exceeds == name = "over-limit" /\ limit # {} /\ within < MaxU64
        recipient == party(policy, now, name # "unverified", name = "denied")
    IN  [applicable |-> name # "over-limit" \/ exceeds, paused |-> name = "paused",
         context |-> context(policy, now, IF exceeds THEN within + 1 ELSE within,
                             party(policy, now, TRUE, FALSE), recipient)]

\* The token program comes before the hook.
simulateTransfer(policy, scenario) ==
    IF scenario.paused THEN "TRANSFERS_PAUSED"
    ELSE Wizard!evaluateTransfer(PolicyOf(policy), scenario.context)

simulateScenarios(policy, now) ==
    [name \in SCENARIO_NAMES |-> simulateTransfer(policy, buildScenario(policy, name, now))]

-----------------------------------------------------------------------------
(* The program: create_token, and set_token_metadata *)

\* What it refuses a body for, at this time.  Who signs is not a part of the body.
CreateRefusals(body, now) ==
    {reason \in {"ReserveCurrencyInvalid", "AttestationMaxAgeInvalid", "FeeRateOutOfRange",
                 "RulesInvalid", "AttestationInTheFuture", "ReserveAttestationExpired",
                 "ReserveInsufficient", "HolderJurisdictionInvalid",
                 "HolderStatusAlreadyExpired"} :
       CASE reason = "ReserveCurrencyInvalid" -> body.currency \notin Currencies
         [] reason = "AttestationMaxAgeInvalid" ->
              body.maxAgeSeconds \notin 1 .. MAX_ATTESTATION_MAX_AGE
         [] reason = "FeeRateOutOfRange" -> body.bps > MAX_FEE_BPS
         [] reason = "RulesInvalid" -> ~\E slots \in EncodeRules(body.policy) : Validate(slots)
         [] reason = "AttestationInTheFuture" -> body.attestedAt > now
         [] reason = "ReserveAttestationExpired" -> now - body.attestedAt > body.maxAgeSeconds
         [] reason = "ReserveInsufficient" -> body.initialSupply > body.reserve
         [] reason = "HolderJurisdictionInvalid" -> body.founderJurisdiction \notin Capitals
         [] reason = "HolderStatusAlreadyExpired" -> body.founderExpiresAt \in (0 .. now) \ {0}}

TitleFits(body) == \A field \in DOMAIN MAX_BYTES : body.title[field] <= MAX_BYTES[field]

\* The record create_token makes of the founder, in the issuer's own register.
FounderParty(body) ==
    [provider |-> Absent,
     register |-> [state |-> "record", denied |-> FALSE, tier |-> body.founderTier,
                   jurisdiction |-> body.founderJurisdiction,
                   expires |-> {body.founderExpiresAt} \ {0}, issued |-> 0]]
=============================================================================
