--------------------------- MODULE TransferRules ---------------------------
(***************************************************************************)
(* The hook's decision about one transfer: rules/evaluate.rs, on what      *)
(* hook/execute.rs and hook/attestation.rs read.  No state of its own.     *)
(* Rust's Option is a set of at most one value.                            *)
(***************************************************************************)
EXTENDS Integers, Sequences, FiniteSets

CONSTANTS
    Jurisdiction,  \* the country codes
    MaxU64         \* u64::MAX

ASSUME WidthAssumption == MaxU64 \in Nat

-----------------------------------------------------------------------------
\* What a source says of a wallet: nothing, because it could not be read; that it
\* has no record; or a record, whose issued only a provider's has.
Source == {"provider", "register"}

Option(S) == {o \in SUBSET S : \A x, y \in o : x = y}

StatusRecord ==
    [state : {"record"}, denied : BOOLEAN, tier : Nat, jurisdiction : Jurisdiction,
     expires : Option(Nat), issued : Nat]

Unavailable == [state |-> "unavailable"]
Absent == [state |-> "absent"]
PartyContext ==
    LET SourceState == StatusRecord \cup {Unavailable, Absent}
    IN  [provider : SourceState, register : SourceState]

\* The policy as the hook reads it: the sources that may allow, and its rules.
PolicyView ==
    [sources : SUBSET Source, minTier : Nat, maxAge : Option(Nat),
     jurisdictions : Option(SUBSET Jurisdiction), transferLimit : Option(Nat),
     periodLimit : Option([amount : Nat, window : Nat]), unknownKind : BOOLEAN]

Counter == [start : Int, spent : Nat]

-----------------------------------------------------------------------------
\* A slip of evaluate.rs: a record is still current in the second it expires.
IsCurrentInclusive(record, now) == \A at \in record.expires : now <= at

IsCurrent(record, now) == \A at \in record.expires : now < at

ProviderCurrent(record, policy, now) ==
    /\ IsCurrent(record, now)
    /\ \A age \in policy.maxAge : now - record.issued <= age

\* The sources that hold a current record of a party, and those of them that may
\* allow.
Fresh(party, policy, now) ==
    {s \in Source :
       /\ party[s].state = "record"
       /\ IF s = "provider" THEN ProviderCurrent(party[s], policy, now)
                            ELSE IsCurrent(party[s], now)}
Accepted(party, policy, now) == Fresh(party, policy, now) \cap policy.sources

-----------------------------------------------------------------------------
\* The checks on a party.
OutOfReach(party) == \E s \in Source : party[s].state = "unavailable"

NothingKnown(party, policy, now) ==
    ~OutOfReach(party) /\ Fresh(party, policy, now) = {}

OnlyUnaccepted(party, policy, now) ==
    Fresh(party, policy, now) # {} /\ Accepted(party, policy, now) = {}

\* A slip of evaluate.rs: only an accepted source may deny.
DeniedByAccepted(party, policy, now) ==
    \E s \in Accepted(party, policy, now) : party[s].denied

Denied(party, policy, now) == \E s \in Fresh(party, policy, now) : party[s].denied

\* A slip of evaluate.rs: the highest tier counts.
EveryTierTooLow(party, policy, now) ==
    \A s \in Accepted(party, policy, now) : party[s].tier < policy.minTier

\* The lowest tier counts; without a record it is zero.
TierTooLow(party, policy, now) ==
    IF Accepted(party, policy, now) = {} THEN 0 < policy.minTier
    ELSE \E s \in Accepted(party, policy, now) : party[s].tier < policy.minTier

JurisdictionRefused(party, policy, now) ==
    \E allowed \in policy.jurisdictions, s \in Accepted(party, policy, now) :
      party[s].jurisdiction \notin allowed

-----------------------------------------------------------------------------
\* The checks on the amount.
SaturatingAdd(a, b) == IF a + b > MaxU64 THEN MaxU64 ELSE a + b

\* A slip of evaluate.rs and execute.rs: a window lasts one second longer.
WindowOpenInclusive(counter, limit, now) == now <= counter.start + limit.window

WindowOpen(counter, limit, now) == now < counter.start + limit.window

PeriodExceeded(policy, ctx) ==
    \E limit \in policy.periodLimit, counter \in ctx.velocity :
      LET spent == IF WindowOpen(counter, limit, ctx.now) THEN counter.spent ELSE 0
      IN  SaturatingAdd(spent, ctx.amount) > limit.amount

\* CHECKS: each refusal with the check that raises it, in the order they are made.
Checks(policy, ctx) ==
    LET now == ctx.now
        sender == ctx.sender
        recipient == ctx.recipient
    IN  << <<"POLICY_VERSION_MISMATCH", ctx.policyVersion # ctx.mintPolicyVersion>>,
           <<"SENDER_STATUS_MISSING", NothingKnown(sender, policy, now)>>,
           <<"RECIPIENT_STATUS_MISSING", NothingKnown(recipient, policy, now)>>,
           <<"STATUS_SOURCE_NOT_ACCEPTED",
             OnlyUnaccepted(sender, policy, now) \/ OnlyUnaccepted(recipient, policy, now)>>,
           <<"STATUS_SOURCE_UNAVAILABLE", OutOfReach(sender) \/ OutOfReach(recipient)>>,
           <<"SENDER_DENIED", Denied(sender, policy, now)>>,
           <<"RECIPIENT_DENIED", Denied(recipient, policy, now)>>,
           <<"RECIPIENT_TIER_TOO_LOW", TierTooLow(recipient, policy, now)>>,
           <<"RECIPIENT_JURISDICTION_NOT_ALLOWED", JurisdictionRefused(recipient, policy, now)>>,
           <<"TRANSFER_LIMIT_EXCEEDED", \E limit \in policy.transferLimit : ctx.amount > limit>>,
           <<"VELOCITY_COUNTER_MISSING", policy.periodLimit # {} /\ ctx.velocity = {}>>,
           <<"PERIOD_LIMIT_EXCEEDED", PeriodExceeded(policy, ctx)>>,
           <<"UNKNOWN_RULE_KIND", policy.unknownKind>> >>

\* The code of the first check that fails, or "allowed".
Evaluate(policy, ctx) ==
    LET checks == Checks(policy, ctx)
        failed == {i \in DOMAIN checks : checks[i][2]}
    IN  IF failed = {} THEN "allowed"
        ELSE checks[CHOOSE i \in failed : \A j \in failed : i <= j][1]

Allowed(policy, ctx) == Evaluate(policy, ctx) = "allowed"

-----------------------------------------------------------------------------
\* Two slips of execute.rs: the total is written over, not added to; the counter
\* is not written back.
CountedLast(counter, policy, amount, now) ==
    IF policy.periodLimit = {} THEN counter ELSE [start |-> now, spent |-> amount]
CountedNowhere(counter, policy, amount, now) == counter

\* What an allowed transfer does to the sender's counter, once the hook has run:
\* without a period limit, nothing.
Counted(counter, policy, amount, now) ==
    IF policy.periodLimit = {} THEN counter
    ELSE IF \E limit \in policy.periodLimit : WindowOpen(counter, limit, now)
    THEN [counter EXCEPT !.spent = SaturatingAdd(@, amount)]
    ELSE [start |-> now, spent |-> amount]
=============================================================================
