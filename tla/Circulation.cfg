\* Pauses, seizures and issuances from one proposal after another, with freezes,
\* thaws, a transfer and burns in between.
CONSTANTS
    ada = ada  bob = bob  cyd = cyd  att1 = att1  att2 = att2  key1 = key1  key2 = key2
    n1 = n1  n2 = n2  hal = hal  ida = ida  a1 = a1  a2 = a2  a3 = a3
    tre = tre  pda = pda  founders = founders  treasurys = treasurys  holders = holders  vault = vault
    Wallet <- MCLedgerWallets
    MaxMembers = 3
    MinQuorum = 2
    Memberships <- MCMemberships
    IssuerScope = "issuer"
    TokenScope = "token"
    Scope <- MCScope
    Nonce = {n1}
    Term = {1}
    MinTerm = 1
    MaxTerm = 1
    NoProposal = NoProposal
    NoPolicy = NoPolicy
    MaxRaised = 2
    Attestors = {att1}
    MaxAges = {1}
    MaxAgeLimit = 1
    Keys = {key1}
    Reason = {"case"}
    Orders <- MCCirculation
    SignerLists <- MCOneList
    NoAccount = NoAccount
    OwnerOf <- MCLedgerOwners
    Jurisdiction = {"A"}
    MaxU64 = 20
    Epoch <- MCEpoch
    Account = {founders, treasurys, holders, vault}
    Masks <- MCOneMask
    Kinds = {"FreezeHolder", "Burn", "ThawHolder"}
    Rules <- MCNoLimit
    Statuses <- MCGoodStatus
    Attestations <- MCNoAttestations
    Amounts = {1, 2}
    Routes <- MCTransfers
    MaxTransfers = 1
    MaxJournal = 3
    MaxVersion = 1
    MaxTime = 1
    FounderAccount = founders
    TreasuryAccount = treasurys
    Vault = vault
    FeeBps = 100
    Decimals = 1
    Sessions <- MCSessions
    ReserveAmounts = {3}
    FirstDates = {1}
    MaxAttestations = 1
SPECIFICATION LedgerSpec
CHECK_DEADLOCK FALSE
INVARIANTS ScreenMirrorsProgram
PROPERTIES TotalsTell SeizuresOnlySeize HeldFundsStay
