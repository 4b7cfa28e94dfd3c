\* A policy version, the delegation and the reserve terms, decided at the console by
\* two members with a server whose clock may be late.
CONSTANTS
    ada = ada  bob = bob  att1 = att1  att2 = att2  key1 = key1  key2 = key2  n1 = n1  n2 = n2
    Wallet <- MCWallet
    MaxMembers = 4
    MinQuorum = 2
    Memberships <- MCMemberships
    IssuerScope = "issuer"
    TokenScope = "token"
    Scope <- MCScope
    Nonce = {n1, n2}
    Term = {1}
    MinTerm = 1
    MaxTerm = 1
    NoProposal = NoProposal
    NoPolicy = NoPolicy
    MaxTime = 3
    MaxRaised = 2
    MaxJournal = 2
    Keys <- MCKeys
    Attestors <- MCAttestors
    Masks <- MCMasks
    MaxAges = {1}
    MaxAgeLimit = 1
    Rules = {"r1"}
    Reason = {"case"}
    Orders = {}
    Kinds = {"SetPolicy", "SetDelegation", "SetAttestor"}
    SignerLists <- MCLists
    MaxVersion = 3
    Seats <- MCSeats
    Agendas <- MCAgendas
    Skews <- MCSkews
    MaxApprovals = 4
SYMMETRY MCSymmetry
SPECIFICATION MCSpec
CHECK_DEADLOCK FALSE
INVARIANTS ConsentsAsShown ChecksMirrorProgram EffectsWithinTerm PolicyHistory
