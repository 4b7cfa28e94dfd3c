\* Two mint proposals circulate together, while attestations are published and the
\* attestor is replaced.
CONSTANTS
    ada = ada  bob = bob  cyd = cyd  att1 = att1  att2 = att2  key1 = key1  key2 = key2
    n1 = n1  n2 = n2  hal = hal  ida = ida  a1 = a1  a2 = a2  a3 = a3
    tre = tre  pda = pda  founders = founders  treasurys = treasurys  holders = holders  vault = vault
    Wallet <- MCLedgerTwoAttestors
    MaxMembers = 4
    MinQuorum = 2
    Memberships <- MCMemberships
    IssuerScope = "issuer"
    TokenScope = "token"
    Scope <- MCScope
    Nonce = {n1, n2}
    Term = {1}
    MinTerm = 1
    MaxTerm = 1
    NoProposal = NoProposal
    NoPolicy = NoPolicy
    MaxRaised = 2
    Attestors <- MCBothAttestors
    MaxAges = {1}
    MaxAgeLimit = 1
    Keys = {key1}
    Reason = {"case"}
    Orders <- MCMints
    SignerLists <- MCOneList
    NoAccount = NoAccount
    OwnerOf <- MCLedgerOwners
    Jurisdiction = {"A"}
    MaxU64 = 20
    Epoch <- MCEpoch
    Account = {founders, treasurys, holders, vault}
    Masks <- MCOneMask
    Kinds = {"SetAttestor"}
    Rules <- MCNoLimit
    Statuses <- MCGoodStatus
    Attestations <- MCNoAttestations
    Amounts = {2}
    Routes = {}
    MaxTransfers = 0
    MaxJournal = 2
    MaxVersion = 1
    MaxTime = 2
    FounderAccount = founders
    TreasuryAccount = treasurys
    Vault = vault
    FeeBps = 100
    Decimals = 1
    Sessions <- MCSessions
    ReserveAmounts = {2, 4}
    FirstDates = {0, 1}
    MaxAttestations = 2
SYMMETRY MCSymmetryAttestors
SPECIFICATION LedgerSpec
CHECK_DEADLOCK FALSE
PROPERTIES IssuedWithinReserve
INVARIANTS EffectsOnce PageMirrorsGate
