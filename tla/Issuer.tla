------------------------------- MODULE Issuer -------------------------------
(***************************************************************************)
(* The issuer's authorised membership and the rules about who may do what: *)
(* state/issuer.rs, state/delegation.rs, quorum.rs and authority.rs, with  *)
(* the checks of initialize_issuer.rs.  No state of its own: a membership  *)
(* m is a function from wallets to sets of roles, {} for a wallet that is  *)
(* not a member, and a list of approvals is a sequence of wallets, because *)
(* the program takes them as account lists in which order and repetition   *)
(* matter.                                                                 *)
(***************************************************************************)
EXTENDS Integers, Sequences, FiniteSets

CONSTANTS
    Wallet,      \* every address that may sign or be named
    MaxMembers,  \* MAX_MEMBERS: slots of IssuerConfig and of a proposal's approvals
    MinQuorum    \* MIN_QUORUM

ASSUME WalletAssumption == IsFiniteSet(Wallet)
ASSUME MembersAssumption == MaxMembers \in Nat
ASSUME QuorumAssumption == MinQuorum \in Nat \ {0}

-----------------------------------------------------------------------------
Role == {"admin", "compliance", "attestor", "observer"}
AuthorisingRole == {"admin", "compliance"}

Membership == [Wallet -> SUBSET Role]

MemberHas(m, w, roles) == m[w] \cap roles # {}

MembersOf(m) == {w \in Wallet : m[w] # {}}
Authorising(m) == {w \in Wallet : MemberHas(m, w, AuthorisingRole)}

\* A founded membership: the attestor role goes with no other, so that whoever
\* vouches for the reserve can authorise nothing.
ValidMembership(m) ==
    /\ Cardinality(MembersOf(m)) \in MinQuorum .. MaxMembers
    /\ \A w \in Wallet : "attestor" \in m[w] => m[w] = {"attestor"}

ValidQuorums(m) == MinQuorum .. Cardinality(Authorising(m))

-----------------------------------------------------------------------------
\* The powers the issuer may hand to the platform's operational key.
Power == {"thaw_holder", "set_holder_status", "settle_redemption"}

\* A delegation is the key and the powers it holds; the key is never a member.
ValidDelegation(m, d) ==
    /\ d.mask \subseteq Power
    /\ m[d.key] = {}

\* Same key, no power that was not there: the only change one admin may make.
IsNarrowing(current, target) ==
    /\ target.key = current.key
    /\ target.mask \subseteq current.mask

-----------------------------------------------------------------------------
\* A slip of quorum.rs: a wallet listed twice is let through.
AllMayAuthoriseTwice(m, approvals) ==
    \A i \in DOMAIN approvals : MemberHas(m, approvals[i], AuthorisingRole)

\* Every listed wallet may authorise, and none is listed twice.
AllMayAuthorise(m, approvals) ==
    /\ \A i \in DOMAIN approvals : MemberHas(m, approvals[i], AuthorisingRole)
    /\ \A i, j \in DOMAIN approvals : i # j => approvals[i] # approvals[j]

\* A slip of quorum.rs: "more than" for "at least" of one less.
QuorumCheckOneShort(m, n, approvals) ==
    /\ AllMayAuthorise(m, approvals)
    /\ Len(approvals) + 1 >= n

QuorumCheck(m, n, approvals) ==
    /\ AllMayAuthorise(m, approvals)
    /\ Len(approvals) >= n

\* Slips of require_change_authorised: any change of the key's own powers, or any
\* lesser mask whoever holds it, counts as a narrowing.
ChangeAuthorisedAnyMask(m, n, current, target, approvals) ==
    IF target.key = current.key
    THEN /\ AllMayAuthorise(m, approvals)
         /\ \E i \in DOMAIN approvals : MemberHas(m, approvals[i], {"admin"})
    ELSE QuorumCheck(m, n, approvals)
ChangeAuthorisedAnyKey(m, n, current, target, approvals) ==
    IF target.mask \subseteq current.mask
    THEN /\ AllMayAuthorise(m, approvals)
         /\ \E i \in DOMAIN approvals : MemberHas(m, approvals[i], {"admin"})
    ELSE QuorumCheck(m, n, approvals)

\* The immediate path of a delegation change.
ChangeAuthorised(m, n, current, target, approvals) ==
    IF IsNarrowing(current, target)
    THEN /\ AllMayAuthorise(m, approvals)
         /\ \E i \in DOMAIN approvals : MemberHas(m, approvals[i], {"admin"})
    ELSE QuorumCheck(m, n, approvals)

\* Thawing and status writes: a member, or the key for a power it was given.
RequireRoutine(m, d, w, power) ==
    \/ MemberHas(m, w, AuthorisingRole)
    \/ w = d.key /\ power \in d.mask

\* Freezing and unfreezing: the compliance officer alone.
RequireOfficer(m, w) == MemberHas(m, w, {"compliance"})
=============================================================================
