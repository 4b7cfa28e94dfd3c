----------------------------- MODULE Governance -----------------------------
(***************************************************************************)
(* What an issuer's quorum decides about the issuer and its token: the     *)
(* operational key's delegation (set_delegation.rs), the terms the reserve *)
(* is attested under (set_attestor.rs) and the policy (set_policy.rs),     *)
(* each on its immediate path, signed at once, and on its deferred path,   *)
(* executed from a proposal.                                               *)
(***************************************************************************)
EXTENDS Proposals

CONSTANTS
    IssuerScope, TokenScope,  \* the two scopes
    Keys,        \* the addresses asked for as operational key
    Masks,       \* the masks asked for; a mask may hold a bit nobody defined
    Attestors,   \* the addresses asked for as attestor
    MaxAges,     \* the attestation periods asked for
    MaxAgeLimit, \* MAX_ATTESTATION_MAX_AGE
    Rules,       \* the rule layouts that layout::validate accepts
    Reason,      \* the reasons ComplianceReason::validate accepts
    Orders,      \* the bodies of the other kinds of ActionKind, executed elsewhere
    Kinds,       \* bound: the kinds of action the members take in a run
    SignerLists, \* bound: the account lists executing transactions name
    NoPolicy,    \* what a policy address holds when no account is there
    MaxVersion   \* bound: the last policy version

ASSUME ScopeAssumption == IssuerScope # TokenScope /\ Scope = {IssuerScope, TokenScope}
ASSUME TargetsAssumption == Keys \subseteq Wallet /\ Attestors \subseteq Wallet
ASSUME SignerListsAssumption == SignerLists \subseteq Seq(Wallet)
ASSUME OrdersAssumption ==
    \A order \in Orders : order.kind \notin {"SetDelegation", "SetAttestor", "SetPolicy"}
ASSUME MaxAgeAssumption == MaxAges \subseteq Nat /\ MaxAgeLimit \in Nat
ASSUME VersionAssumption == MaxVersion \in Nat \ {0}

VARIABLES
    delegation,     \* IssuerConfig.operational_key and delegation_mask
    terms,          \* TokenConfig.attestor and attestation_max_age
    policyVersion,  \* TokenConfig.policy_version
    policies        \* the PolicyConfig accounts, by version

governed == <<delegation, terms, policyVersion, policies>>
vars == <<issuerVars, now, proposals, ballots, journal, governed>>

-----------------------------------------------------------------------------
\* What is governed, and the stored form of an action on each part of it.
\* Changes of delegation and of terms are stored as transitions.
Delegation == [key : Wallet, mask : SUBSET Power]
Terms == [attestor : Wallet, maxAge : Nat]
Policy == [rules : Rules, author : Wallet]

\* What the members ask for.
DelegationTargets == [key : Keys, mask : Masks]
TermsTargets == [attestor : Attestors, maxAge : MaxAges]

DelegationBody == [kind : {"SetDelegation"}, from : Delegation, to : Delegation]
AttestorBody == [kind : {"SetAttestor"}, from : Terms, to : Terms, reason : Reason]
PolicyBody == [kind : {"SetPolicy"}, version : Nat, rules : Rules, reason : Reason]
Body == DelegationBody \cup AttestorBody \cup PolicyBody \cup Orders

ASSUME NoProposalAssumption == NoProposal \notin ProposalOf(Body)
ASSUME NoPolicyAssumption == NoPolicy \notin Policy

-----------------------------------------------------------------------------
\* The attestor holds that role, and the period is neither zero nor endless.
ValidTerms(m, t) ==
    /\ t.maxAge \in 1 .. MaxAgeLimit
    /\ MemberHas(m, t.attestor, {"attestor"})

\* ActionKind::set_delegation, set_attestor and set_policy: the checks made
\* when an action is proposed and again when it is executed, and its body.
DelegationAllowed(target) ==
    /\ ValidDelegation(members, target)
    /\ target # delegation
DelegationStored(target) ==
    [kind |-> "SetDelegation", from |-> delegation, to |-> target]

TermsAllowed(target) ==
    /\ ValidTerms(members, target)
    /\ target # terms
TermsStored(target, reason) ==
    [kind |-> "SetAttestor", from |-> terms, to |-> target, reason |-> reason]

PolicyStored(version, rules, reason) ==
    [kind |-> "SetPolicy", version |-> version, rules |-> rules, reason |-> reason]

\* A slip of set_policy: a version may be skipped.
VersionIsLater(version) ==
    version > policyVersion /\ policies[version] = NoPolicy

\* The next version and only it, at an address that is still free.
VersionIsNext(version) ==
    /\ policyVersion >= 1
    /\ version = policyVersion + 1
    /\ policies[version] = NoPolicy

-----------------------------------------------------------------------------
\* The state the token starts in: create_token has written the first policy
\* version and the terms, initialize_issuer the delegation.
Init ==
    /\ ProposalsInit
    /\ delegation \in DelegationTargets
    /\ ValidDelegation(members, delegation)
    /\ terms \in TermsTargets
    /\ ValidTerms(members, terms)
    /\ policyVersion = 1
    /\ \E rules \in Rules, founder \in Wallet :
         /\ MemberHas(members, founder, {"admin"})
         /\ policies = [v \in 1 .. MaxVersion |->
              IF v = 1 THEN [rules |-> rules, author |-> founder] ELSE NoPolicy]

-----------------------------------------------------------------------------
\* propose_action, one operator per kind of action.
ProposeSetDelegation(nonce, proposer, term, target) ==
    /\ DelegationAllowed(target)
    /\ Propose(<<IssuerScope, nonce>>, DelegationStored(target), proposer, term)
    /\ UNCHANGED governed

ProposeSetAttestor(nonce, proposer, term, target, reason) ==
    /\ TermsAllowed(target)
    /\ Propose(<<TokenScope, nonce>>, TermsStored(target, reason), proposer, term)
    /\ UNCHANGED governed

\* Any version may be proposed: only the execution asks whether it is the next.
ProposeSetPolicy(nonce, proposer, term, version, rules, reason) ==
    /\ Propose(<<TokenScope, nonce>>, PolicyStored(version, rules, reason), proposer, term)
    /\ UNCHANGED governed

ApproveAction(slot, approver) ==
    Approve(slot, approver) /\ UNCHANGED governed

CloseActionProposal(slot, member) ==
    CloseProposal(slot, member) /\ UNCHANGED governed

TimePasses == Tick /\ UNCHANGED governed

-----------------------------------------------------------------------------
\* set_delegation: signed at once, or from a proposal of the issuer's scope.
SetDelegationSigned(target, listed) ==
    /\ DelegationAllowed(target)
    /\ ChangeAuthorised(members, quorumN, delegation, target, listed)
    /\ delegation' = target
    /\ Signed(DelegationStored(target), listed)
    /\ UNCHANGED <<terms, policyVersion, policies>>

\* A slip of set_delegation, from a proposal: the key is written and the mask forgotten.
SetDelegationKeyOnly(slot, target, listed) ==
    /\ DelegationAllowed(target)
    /\ Deferred(slot, IssuerScope, DelegationStored(target), listed)
    /\ delegation' = [delegation EXCEPT !.key = target.key]
    /\ Executed(slot, DelegationStored(target), listed)
    /\ UNCHANGED <<terms, policyVersion, policies>>

SetDelegationProposed(slot, target, listed) ==
    /\ DelegationAllowed(target)
    /\ Deferred(slot, IssuerScope, DelegationStored(target), listed)
    /\ delegation' = target
    /\ Executed(slot, DelegationStored(target), listed)
    /\ UNCHANGED <<terms, policyVersion, policies>>

\* set_attestor, likewise under the token's scope.
SetAttestorSigned(target, reason, listed) ==
    /\ TermsAllowed(target)
    /\ QuorumCheck(members, quorumN, listed)
    /\ terms' = target
    /\ Signed(TermsStored(target, reason), listed)
    /\ UNCHANGED <<delegation, policyVersion, policies>>

SetAttestorProposed(slot, target, reason, listed) ==
    /\ TermsAllowed(target)
    /\ Deferred(slot, TokenScope, TermsStored(target, reason), listed)
    /\ terms' = target
    /\ Executed(slot, TermsStored(target, reason), listed)
    /\ UNCHANGED <<delegation, policyVersion, policies>>

\* set_policy: the new version is written at its own address, its author the
\* first approval, and only then becomes the current one.
WritePolicy(version, rules, author) ==
    /\ VersionIsNext(version)
    /\ policies' = [policies EXCEPT ![version] = [rules |-> rules, author |-> author]]
    /\ policyVersion' = version

SetPolicySigned(version, rules, reason, listed) ==
    /\ QuorumCheck(members, quorumN, listed)
    /\ WritePolicy(version, rules, listed[1])
    /\ Signed(PolicyStored(version, rules, reason), listed)
    /\ UNCHANGED <<delegation, terms>>

SetPolicyProposed(slot, version, rules, reason, listed) ==
    /\ Deferred(slot, TokenScope, PolicyStored(version, rules, reason), listed)
    /\ WritePolicy(version, rules, listed[1])
    /\ Executed(slot, PolicyStored(version, rules, reason), listed)
    /\ UNCHANGED <<delegation, terms>>

-----------------------------------------------------------------------------
NextDelegation ==
    \E target \in {t \in DelegationTargets : "SetDelegation" \in Kinds} :
      \/ \E nonce \in Nonce, w \in Wallet, term \in Term :
           ProposeSetDelegation(nonce, w, term, target)
      \/ \E listed \in SignerLists :
           \/ SetDelegationSigned(target, listed)
           \/ \E slot \in Slot : SetDelegationProposed(slot, target, listed)

NextAttestor ==
    \E target \in {t \in TermsTargets : "SetAttestor" \in Kinds}, reason \in Reason :
      \/ \E nonce \in Nonce, w \in Wallet, term \in Term :
           ProposeSetAttestor(nonce, w, term, target, reason)
      \/ \E listed \in SignerLists :
           \/ SetAttestorSigned(target, reason, listed)
           \/ \E slot \in Slot : SetAttestorProposed(slot, target, reason, listed)

NextPolicy ==
    \E version \in {v \in 2 .. MaxVersion : "SetPolicy" \in Kinds}, rules \in Rules, reason \in Reason :
      \/ \E nonce \in Nonce, w \in Wallet, term \in Term :
           ProposeSetPolicy(nonce, w, term, version, rules, reason)
      \/ \E listed \in SignerLists :
           \/ SetPolicySigned(version, rules, reason, listed)
           \/ \E slot \in Slot : SetPolicyProposed(slot, version, rules, reason, listed)

NextProposal ==
    \E slot \in Slot, w \in Wallet : ApproveAction(slot, w) \/ CloseActionProposal(slot, w)

Next ==
    \/ NextDelegation
    \/ NextAttestor
    \/ NextPolicy
    \/ NextProposal
    \/ TimePasses

Spec == Init /\ [][Next]_vars

-----------------------------------------------------------------------------
(* Properties *)

\* Every variable keeps its type.
TypeOK ==
    /\ ProposalsTypeOK(Body)
    /\ delegation \in Delegation
    /\ terms \in Terms
    /\ policyVersion \in 1 .. MaxVersion
    /\ policies \in [1 .. MaxVersion -> Policy \cup {NoPolicy}]

\* No action takes effect on fewer than quorum_n different wallets that may
\* authorise, however it was signed and whatever else was in flight; only a
\* narrowing of the delegation, signed at once, may stand on one admin (FR-035).
StandsOnQuorum(e) ==
    /\ \A i \in DOMAIN e.by : MemberHas(members, e.by[i], AuthorisingRole)
    /\ \/ Cardinality(Signers(e.by)) >= quorumN
       \/ /\ e.serial = 0
          /\ e.body.kind = "SetDelegation"
          /\ IsNarrowing(e.body.from, e.body.to)
          /\ \E i \in DOMAIN e.by : MemberHas(members, e.by[i], {"admin"})
EffectsAuthorised == \A i \in DOMAIN journal : StandsOnQuorum(journal[i])

\* Whatever takes effect stands on its quorum, and what was executed from a proposal
\* on the signatures given to that very proposal (EffectsNameTheirSigners).
EffectsSigned == EffectsAuthorised /\ EffectsNameTheirSigners

\* The entries of one kind, as positions in the journal; two with none between.
PositionsOf(kind) == {i \in DOMAIN journal : journal[i].body.kind = kind}
Successive(kind, i, j) ==
    i < j /\ \A k \in PositionsOf(kind) : ~(i < k /\ k < j)

\* The transitions of the delegation, and those of the reserve terms, form an
\* unbroken chain that ends in the present value: each starts from what the one
\* before it left, so what its signers saw as the starting point was true at the
\* moment it took effect, whichever path each of them took.
ChainEndsIn(kind, value) ==
    /\ \A i, j \in PositionsOf(kind) :
         Successive(kind, i, j) => journal[j].body.from = journal[i].body.to
    /\ \A i \in PositionsOf(kind) :
         (\A k \in PositionsOf(kind) : k <= i) => journal[i].body.to = value
TransitionsChain ==
    /\ ChainEndsIn("SetDelegation", delegation)
    /\ ChainEndsIn("SetAttestor", terms)

\* The policy versions are 1 to the current one without a gap, each after the
\* first as the quorum of exactly one executed action wrote it, and authored by
\* the first of its signers (FR-010).
PolicyHistory ==
    /\ \A v \in 1 .. MaxVersion : policies[v] # NoPolicy <=> v <= policyVersion
    /\ \A v \in 2 .. policyVersion :
         \E i \in PositionsOf("SetPolicy") :
           /\ journal[i].body.version = v
           /\ policies[v] = [rules |-> journal[i].body.rules, author |-> journal[i].by[1]]
           /\ \A j \in PositionsOf("SetPolicy") : journal[j].body.version = v => j = i

\* Nobody who gains by an action can authorise it: the platform's key holds no
\* role, the attestor none but its own, and neither is among any signers.
SeparationOfDuties ==
    LET outside == {delegation.key, terms.attestor}
    IN  /\ members[delegation.key] = {}
        /\ members[terms.attestor] = {"attestor"}
        /\ \A i \in DOMAIN ballots : ballots[i].signers \cap outside = {}

\* A live proposal is revoked by the clock and by nothing else (StandsUntilOver).
LiveProposalsStand == [][\A slot \in Slot : StandsUntilOver(slot)]_vars

\* No power reaches the operational key and no key becomes it without the
\* quorum: a step that is not a narrowing leaves a journal entry on which
\* quorum_n different authorising wallets stand.
GrantsTakeQuorum ==
    [][~IsNarrowing(delegation, delegation') =>
         \E i \in DOMAIN journal' \ DOMAIN journal :
           Cardinality({w \in Signers(journal'[i].by) :
                          MemberHas(members, w, AuthorisingRole)}) >= quorumN]_vars

=============================================================================
