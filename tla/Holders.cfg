\* Statuses and attestations come, change and end, the key's powers change, members
\* and key thaw and officers freeze between transfers, under policies that ask one
\* source or the other.
CONSTANTS
    ada = ada  bob = bob  cyd = cyd  att1 = att1  att2 = att2  key1 = key1  key2 = key2
    n1 = n1  n2 = n2  hal = hal  ida = ida  a1 = a1  a2 = a2  a3 = a3
    Wallet <- MCHolderWallets
    MaxMembers = 3
    MinQuorum = 2
    Memberships <- MCMemberships
    IssuerScope = "issuer"
    TokenScope = "token"
    Scope <- MCScope
    Nonce = {n1}
    Term = {1}
    MinTerm = 1
    MaxTerm = 1
    NoProposal = NoProposal
    NoPolicy = NoPolicy
    MaxRaised = 0
    Attestors = {att1}
    MaxAges = {1}
    MaxAgeLimit = 1
    Keys = {key1}
    Reason = {"case"}
    Orders = {}
    SignerLists <- MCOneList
    NoAccount = NoAccount
    OwnerOf <- MCOwners
    Jurisdiction = {"A"}
    MaxU64 = 20
    Epoch <- MCEpoch
    Account = {a1, a2, a3}
    Masks <- MCGrades
    Kinds = {"SetPolicy", "ThawHolder", "FreezeHolder", "SetHolderStatus", "SetDelegation"}
    Rules <- MCSources
    Statuses <- MCStatuses
    Attestations <- MCAttestations
    Amounts = {1}
    Routes <- MCRoute
    MaxTransfers = 1
    MaxJournal = 1
    MaxVersion = 2
    MaxTime = 2
SPECIFICATION HoldersSpec
CHECK_DEADLOCK FALSE
INVARIANTS FreezesHold ThawedAreOnboarded
PROPERTIES TransfersEntitled
