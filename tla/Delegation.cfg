\* The delegation alone, with two keys and two grades of power: an admin may narrow
\* it at once while proposals to widen it circulate, are executed, closed and
\* raised again at the same address.
CONSTANTS
    ada = ada  bob = bob  cyd = cyd  att1 = att1  att2 = att2  key1 = key1  key2 = key2
    n1 = n1  n2 = n2
    Wallet <- MCTwoKeys
    MaxMembers = 4
    MinQuorum = 2
    Memberships <- MCMemberships
    IssuerScope = "issuer"
    TokenScope = "token"
    Scope <- MCScope
    Nonce = {n1}
    Term = {0, 1}
    MinTerm = 1
    MaxTerm = 1
    NoProposal = NoProposal
    NoPolicy = NoPolicy
    MaxTime = 2
    MaxRaised = 2
    MaxJournal = 2
    Keys <- MCKeysAndAdmin
    Attestors <- MCAttestors
    Masks <- MCGrades
    MaxAges = {0, 1}
    MaxAgeLimit = 1
    Rules = {"r1"}
    Reason = {"case"}
    Orders = {}
    Kinds = {"SetDelegation"}
    SignerLists <- MCFewLists
    MaxVersion = 1
SYMMETRY MCSymmetryKeys
SPECIFICATION Spec
CHECK_DEADLOCK FALSE
INVARIANTS EffectsSigned TransitionsChain RoomForTheRest
PROPERTIES LiveProposalsStand GrantsTakeQuorum
