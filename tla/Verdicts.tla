------------------------------ MODULE Verdicts ------------------------------
(***************************************************************************)
(* One transfer, attempted again as time passes: what a verdict of the     *)
(* hook promises, under every policy and every state of the records and    *)
(* counters that a run names.                                              *)
(***************************************************************************)
EXTENDS TransferRules

CONSTANTS
    Start,    \* bound: the instant of the first attempt
    Families  \* bound: families of policies and of what each is tried on

\* What execute hands to the checks, besides the policy.
Context ==
    [sender : PartyContext, recipient : PartyContext, amount : 0 .. MaxU64,
     velocity : Option(Counter), mintPolicyVersion : Nat, policyVersion : Nat, now : Nat]

\* The attempts of one family.
Attempt(family) ==
    [sender : family.senders, recipient : family.recipients, amount : family.amounts,
     velocity : family.counters, mintPolicyVersion : {1},
     policyVersion : family.versions, now : {Start}]

ASSUME StartAssumption == Start \in Nat
ASSUME FamiliesAssumption ==
    \A family \in Families :
      /\ family.policies \subseteq PolicyView
      /\ family.senders \subseteq PartyContext /\ family.recipients \subseteq PartyContext
      /\ family.amounts \subseteq 0 .. MaxU64 /\ family.counters \subseteq Option(Counter)
      /\ family.versions \subseteq Nat

VARIABLES policy, ctx

vars == <<policy, ctx>>

Init == \E family \in Families : policy \in family.policies /\ ctx \in Attempt(family)

AttemptLater ==
    /\ ctx.now = Start
    /\ ctx' = [ctx EXCEPT !.now = @ + 1]
    /\ UNCHANGED policy

Spec == Init /\ [][AttemptLater]_vars

-----------------------------------------------------------------------------
(* Properties *)

\* The policy and the context keep their types.
TypeOK ==
    /\ policy \in PolicyView
    /\ ctx \in Context

\* What the records must say for a transfer to be allowed, said of them and not of
\* the checks (FR-008, FR-008a1, FR-013): every source answered for both parties;
\* no record in force denies either, accepted or not; each is vouched for by a
\* record in force that the policy accepts; and every such record of the
\* recipient is good enough.
InForce(s, record) ==
    /\ record.expires = {} \/ \E at \in record.expires : ctx.now < at
    /\ s = "provider" => \A age \in policy.maxAge : ctx.now <= record.issued + age
RecordsAllow ==
    \A role \in {"sender", "recipient"} :
      LET party == ctx[role]
          inForce == {s \in Source : party[s].state = "record" /\ InForce(s, party[s])}
      IN  /\ \A s \in Source : party[s].state # "unavailable"
          /\ \A s \in inForce : ~party[s].denied
          /\ inForce \cap policy.sources # {}
          /\ role = "recipient" => \A s \in inForce \cap policy.sources :
               /\ party[s].tier >= policy.minTier
               /\ \A allowed \in policy.jurisdictions : party[s].jurisdiction \in allowed

\* A transfer is allowed on such records only; and where neither amount nor
\* version stands in the way, on any such records.
AllowedOnRecordsAlone ==
    /\ Allowed(policy, ctx) => RecordsAllow
    /\ /\ RecordsAllow
       /\ policy.transferLimit = {} /\ policy.periodLimit = {} /\ ~policy.unknownKind
       /\ ctx.policyVersion = ctx.mintPolicyVersion
       => Allowed(policy, ctx)

\* The second source can only narrow what the first allows (FR-008a1): a transfer
\* allowed on both is allowed on either that has a record of both parties.
SecondSourceNarrows ==
    Allowed(policy, ctx) =>
      \A s \in policy.sources :
        (\A party \in {ctx.sender, ctx.recipient} : s \in Fresh(party, policy, ctx.now))
          => Allowed([policy EXCEPT !.sources = {s}], ctx)

\* Time alone takes an allowed transfer away in one manner only (FR-008a2): a
\* record ends and nothing accepted is left. It never turns into a denial, a
\* tier, a country or a limit.
AgeingOnlyLosesStatus ==
    [][Allowed(policy, ctx) /\ ~Allowed(policy', ctx')
         => Evaluate(policy', ctx') \in
              {"SENDER_STATUS_MISSING", "RECIPIENT_STATUS_MISSING",
               "STATUS_SOURCE_NOT_ACCEPTED"}]_vars

=============================================================================
