\* Transfers over several periods, under three versions with different limits.
CONSTANTS
    ada = ada  bob = bob  cyd = cyd  att1 = att1  att2 = att2  key1 = key1  key2 = key2
    n1 = n1  n2 = n2  hal = hal  ida = ida  a1 = a1  a2 = a2  a3 = a3
    Wallet <- MCHolderWallets
    MaxMembers = 3
    MinQuorum = 2
    Memberships <- MCMemberships
    IssuerScope = "issuer"
    TokenScope = "token"
    Scope <- MCScope
    Nonce = {n1}
    Term = {1}
    MinTerm = 1
    MaxTerm = 1
    NoProposal = NoProposal
    NoPolicy = NoPolicy
    MaxRaised = 0
    Attestors = {att1}
    MaxAges = {1}
    MaxAgeLimit = 1
    Keys = {key1}
    Reason = {"case"}
    Orders = {}
    SignerLists <- MCOneList
    NoAccount = NoAccount
    OwnerOf <- MCOwners
    Jurisdiction = {"A"}
    MaxU64 = 3
    Epoch <- MCEpoch
    Account = {a1, a3}
    Masks <- MCOneMask
    Kinds = {"SetPolicy", "ThawHolder"}
    Rules <- MCLimits
    Statuses <- MCGoodStatus
    Attestations <- MCNoAttestations
    Amounts = {1, 2}
    Routes <- MCRoute
    MaxTransfers = 3
    MaxJournal = 2
    MaxVersion = 3
    MaxTime = 4
SPECIFICATION HoldersSpec
CHECK_DEADLOCK FALSE
INVARIANTS CountersMissNothing TwoLimitsAPeriod
