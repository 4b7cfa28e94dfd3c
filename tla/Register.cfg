\* Two holders applied for, thawed singly and in batches by two requests at a time,
\* while an admin narrows the key's powers and an officer freezes.
CONSTANTS
    ada = ada  bob = bob  cyd = cyd  att1 = att1  att2 = att2  key1 = key1  key2 = key2
    n1 = n1  n2 = n2  hal = hal  ida = ida  a1 = a1  a2 = a2  a3 = a3
    Wallet <- MCHolderWallets
    MaxMembers = 3
    MinQuorum = 2
    Memberships <- MCMemberships
    IssuerScope = "issuer"
    TokenScope = "token"
    Scope <- MCScope
    Nonce = {n1}
    Term = {1}
    MinTerm = 1
    MaxTerm = 1
    NoProposal = NoProposal
    NoPolicy = NoPolicy
    MaxRaised = 0
    Attestors = {att1}
    MaxAges = {1}
    MaxAgeLimit = 1
    Keys = {key1}
    Reason = {"case"}
    Orders = {}
    SignerLists <- MCOneList
    NoAccount = NoAccount
    OwnerOf <- MCOwners
    Jurisdiction = {"A"}
    MaxU64 = 20
    Epoch <- MCEpoch
    Account = {a1, a3}
    Masks <- MCMayBoth
    Kinds = {"SetDelegation", "FreezeHolder"}
    Rules <- MCNoLimit
    Statuses <- MCAdmission
    Attestations <- MCNoAttestations
    Amounts = {}
    Routes = {}
    MaxTransfers = 0
    MaxJournal = 1
    MaxVersion = 1
    MaxTime = 1
    r1 = r1  r2 = r2
    Requests = {r1, r2}
    Platform = key1
    AtaOf <- MCAta
    Batches <- MCBatches
    MaxRequests = 2
    MaxFeed = 4
SYMMETRY MCSymmetryRequests
SPECIFICATION RegisterSpec
CHECK_DEADLOCK FALSE
INVARIANTS AdmittedOnChain ThawsSettle
