--------------------------- MODULE PolicyAccount ---------------------------
(***************************************************************************)
(* A policy from the bytes a wallet submits to the hook that reads them.   *)
(* Proposing and writing a policy both run layout::validate; what passes   *)
(* is what the hook judges transfers by, and what the console decodes and  *)
(* simulates.                                                              *)
(***************************************************************************)
EXTENDS Verdicts, RuleLayout

VARIABLES
    rules,    \* the slots submitted, and once written those of PolicyConfig
    written   \* the version's account exists

accountVars == <<policy, ctx, rules, written>>

ASSUME SpelledAssumption ==
    \A family \in Families :
      /\ family.rules \subseteq Seq(RuleSlot)
      /\ family.policies = {ReadPolicy(slots) : slots \in family.rules}

Submitted ==
    \E family \in Families :
      /\ rules \in family.rules
      /\ policy = ReadPolicy(rules)
      /\ ctx \in Attempt(family)
      /\ written = FALSE

\* PolicyConfig::write.
Write ==
    /\ ~written
    /\ Validate(rules)
    /\ written' = TRUE
    /\ UNCHANGED <<policy, ctx, rules>>

\* The hook, on the version that was written.
Judge == written /\ AttemptLater /\ UNCHANGED <<rules, written>>

AccountSpec == Submitted /\ [][Write \/ Judge]_accountVars

-----------------------------------------------------------------------------
(* Properties *)

Wizard == INSTANCE PolicyEvaluator

\* A period limit as wide as an amount can be, and a sum that is wider: it saturates
\* on the chain and not in the wizard.
PastTheWidth ==
    \E limit \in policy.periodLimit, counter \in ctx.velocity :
      /\ limit.amount = MaxU64
      /\ WindowOpen(counter, limit, ctx.now) /\ counter.spent + ctx.amount > MaxU64

\* The hook, reading the account, and the wizard, reading the decoded body, give
\* the same verdict with the same code (SC-008).  They part in one case: the limit is
\* the widest there is and the sum is wider, which the hook allows.
TwinsAgree ==
    written => \A body \in DecodeRules(rules) :
      LET hook == Evaluate(policy, ctx)
          wizard == Wizard!evaluateTransfer(PolicyOf(body), ctx)
      IN  \/ hook = wizard
          \/ hook = "allowed" /\ wizard = "PERIOD_LIMIT_EXCEEDED" /\ PastTheWidth

\* A policy has one spelling: what the program writes decodes, and encodes back to
\* the same slots, so rules_hash names the policy and no spelling of it.
OneSpelling == written => \E body \in DecodeRules(rules) : EncodeRules(body) = {rules}
=============================================================================
