------------------------------- MODULE Ledger -------------------------------
(***************************************************************************)
(* The token's supply: its reserve and issuance (instructions/             *)
(* create_token.rs, attest_reserve.rs, mint.rs, reserve.rs, fee.rs), its   *)
(* seizures (seize.rs) and pauses (pause.rs), executed from proposals of   *)
(* Governance on the accounts of Holders.                                  *)
(*                                                                         *)
(* Of the token program: it mints to, burns from and transfers between     *)
(* thawed accounts while the mint is not paused, and an owner may burn.    *)
(* An account that does not exist is one that is frozen and empty, since   *)
(* anybody may create it at any time, and it is created so.                *)
(***************************************************************************)
EXTENDS Holders

CONSTANTS
    FounderAccount,  \* the account create_token issues to
    TreasuryAccount, \* the treasury's associated account
    Vault,           \* the associated account of the TokenConfig PDA
    FeeBps,          \* TokenConfig.fee_bps, which nothing changes
    ReserveAmounts,  \* bound: the amounts attested
    FirstDates,      \* bound: the dates of the first attestation
    MaxAttestations  \* bound: how many attestations are published

MintBody == [kind : {"Mint"}, account : Account, amount : Amounts \ {0}]
SeizeBody == [kind : {"Seize"}, account : Account, amount : Amounts \ {0}, reason : Reason]
CirculationBody == [kind : {"Pause", "Resume"}, reason : Reason]

ASSUME LedgerOrdersAssumption == Orders \subseteq MintBody \cup SeizeBody \cup CirculationBody
ASSUME LedgerAccountsAssumption ==
    /\ IsFiniteSet(Account)
    /\ {FounderAccount, TreasuryAccount, Vault} \subseteq Account /\ Vault # FounderAccount
ASSUME FeeAssumption == FeeBps \in 0 .. 10000
ASSUME ReserveAssumption == ReserveAmounts \cup FirstDates \subseteq Nat /\ MaxAttestations \in Nat \ {0}
\* Amounts and the number of attestations are u64.
ASSUME AmountsAssumption ==
    ReserveAmounts \cup Amounts \cup {MaxAttestations} \subseteq 0 .. MaxU64

VARIABLES
    supply,    \* the mint's supply
    balance,   \* of each token account
    paused,    \* the mint's own pause
    pausedAt,  \* TokenConfig.paused_at
    reserves   \* the ReserveAttestation accounts; attestation_count is their number

ReserveAttestation == [amount : Nat, attestor : Wallet, attestedAt : Nat]

token == <<supply, balance, paused, pausedAt, reserves>>
lvars == <<hvars, token>>

-----------------------------------------------------------------------------
\* ReserveCheck::require_within_reserve.
WithinReserve(attestation, total, minting) ==
    /\ attestation.attestedAt <= now
    /\ now - attestation.attestedAt <= terms.maxAge
    /\ SaturatingAdd(total, minting) <= attestation.amount

\* Slips of require_latest: any attestation of the present attestor; the latest
\* one, whoever signed it.
RequireNumbered(index) == reserves[index].attestor = terms.attestor
RequireNewest(index) == index = Len(reserves)

\* require_latest: the last attestation, and by the present attestor.
RequireLatest(index) ==
    /\ index = Len(reserves)
    /\ reserves[index].attestor = terms.attestor

\* TokenConfig::fee_on rounds up; the fee is cut from the amount.
FeeOn(amount) == (amount * FeeBps + 9999) \div 10000

RecipientShare(amount) == amount - FeeOn(amount)

Credited(balances, account, amount) == [balances EXCEPT ![account] = @ + amount]

\* Both mint_to of an issuance.
Issued(balances, account, amount) ==
    Credited(Credited(balances, TreasuryAccount, FeeOn(amount)), account, RecipientShare(amount))

\* A slip of Treasury::credit: an officer's freeze is not looked at.
MayCreditAnyway(amount) == amount \in Nat

\* Treasury::credit thaws the treasury's account for a fee, unless an officer
\* froze it.
MayCredit(amount) ==
    FeeOn(amount) > 0 /\ accountState[TreasuryAccount] = "frozen" =>
      freezes[TreasuryAccount] = NoAccount

StatesAfterFee(states, amount) ==
    IF FeeOn(amount) > 0 THEN [states EXCEPT ![TreasuryAccount] = "thawed"] ELSE states

-----------------------------------------------------------------------------
\* create_token: the first attestation, the founder onboarded, and the initial
\* issuance through the same gate.
LedgerInit ==
    \E amount \in ReserveAmounts, at \in FirstDates, initial \in Amounts \cup {0},
       status \in Statuses :
      LET founder == OwnerOf[FounderAccount]
          ofFounder(w, mine, others) == IF w = founder THEN mine ELSE others
          first == [amount |-> amount, attestor |-> terms.attestor, attestedAt |-> at]
          empty == [a \in Account |-> 0]
          states == [a \in Account |-> IF a = FounderAccount THEN "thawed" ELSE "frozen"]
      IN  /\ Init
          /\ policies[1].author = founder
          /\ ValidStatus(status)
          /\ WithinReserve(first, 0, initial)
          /\ reserves = <<first>>
          /\ statuses = [w \in Wallet |-> ofFounder(w, status, NoAccount)]
          /\ counters = [w \in Wallet |->
               ofFounder(w, [start |-> Epoch, spent |-> 0], NoAccount)]
          /\ freezes = [a \in Account |-> NoAccount]
          /\ attestations = [w \in Wallet |-> Absent]
          /\ transfers = <<>>
          /\ accountState = StatesAfterFee(states, initial)
          /\ balance = Issued(empty, FounderAccount, initial)
          /\ supply = initial
          /\ paused = FALSE /\ pausedAt = 0

-----------------------------------------------------------------------------
\* attest_reserve, signed by the present attestor who saw the present period;
\* the date may be earlier than that of the attestation before.
AttestReserve(attestor, amount, attestedAt, maxAge) ==
    /\ Len(reserves) < MaxAttestations
    /\ attestor = terms.attestor
    /\ maxAge = terms.maxAge
    /\ attestedAt <= now
    /\ reserves' = Append(reserves,
         [amount |-> amount, attestor |-> attestor, attestedAt |-> attestedAt])
    /\ UNCHANGED <<hvars, supply, balance, paused, pausedAt>>

\* propose_action of the kinds this module executes.
ProposeOrder(nonce, proposer, term, order) ==
    /\ Propose(<<TokenScope, nonce>>, order, proposer, term)
    /\ UNCHANGED <<governed, held, token>>

\* Issuance goes to those who may authorise it.
MayReceive(account) == MemberHas(members, OwnerOf[account], AuthorisingRole)

\* A slip of mint: it lifts the pause as a seizure does.
MayIssuePaused(amount) == supply + amount <= MaxU64

\* The token program refuses to mint while paused, and an overflow.
MayIssue(amount) == ~paused /\ supply + amount <= MaxU64

\* mint: the gate, the fee and its treasury, then the recipient,
\* whose account may not be frozen.
MintTokens(slot, account, amount, index, listed) ==
    LET order == [kind |-> "Mint", account |-> account, amount |-> amount]
    IN  /\ Deferred(slot, TokenScope, order, listed)
        /\ MayReceive(account)
        /\ RequireLatest(index)
        /\ WithinReserve(reserves[index], supply, amount)
        /\ MayIssue(amount)
        /\ MayCredit(amount)
        /\ accountState' = StatesAfterFee(accountState, amount)
        /\ accountState'[account] = "thawed"
        /\ balance' = Issued(balance, account, amount)
        /\ supply' = supply + FeeOn(amount) + RecipientShare(amount)
        /\ Executed(slot, order, listed)
        /\ UNCHANGED <<governed, statuses, counters, freezes, attestations, transfers>>
        /\ UNCHANGED <<paused, pausedAt, reserves>>

-----------------------------------------------------------------------------
\* Slips of seize: the vault may be the source; the source stays thawed; the
\* pause is not put back.
AnySource(account) == account \in Account
SourceThawed(states, account) == [states EXCEPT ![Vault] = "thawed", ![account] = "thawed"]
PauseLifted(pause) == FALSE

Seizable(account) == account # Vault

\* A frozen source is thawed for the burn and frozen again; the vault is thawed,
\* even if an officer froze it, and stays so.
StatesAfterSeizure(states, account) == [states EXCEPT ![Vault] = "thawed"]

\* A pause is lifted for the burn and the mint and put back.
PauseAfterSeizure(pause) == pause

\* seize: burnt from the source, minted to the vault.
Seize(slot, account, amount, reason, listed) ==
    LET order == [kind |-> "Seize", account |-> account, amount |-> amount, reason |-> reason]
    IN  /\ Deferred(slot, TokenScope, order, listed)
        /\ Seizable(account)
        /\ amount <= balance[account]
        /\ balance' = Credited([balance EXCEPT ![account] = @ - amount], Vault, amount)
        /\ accountState' = StatesAfterSeizure(accountState, account)
        /\ paused' = PauseAfterSeizure(paused)
        /\ Executed(slot, order, listed)
        /\ UNCHANGED <<governed, statuses, counters, freezes, attestations, transfers>>
        /\ UNCHANGED <<supply, pausedAt, reserves>>

\* A slip of pause and resume: the mint's state is not looked at.
ChangesNothing(kind) == kind \in {"Pause", "Resume"}

\* A pause of a paused mint is refused, and a resumption of one that is not.
ChangesCirculation(kind) == paused = (kind = "Resume")

\* pause and resume.
ChangeCirculation(slot, kind, reason, listed) ==
    LET order == [kind |-> kind, reason |-> reason]
    IN  /\ Deferred(slot, TokenScope, order, listed)
        /\ ChangesCirculation(kind)
        /\ paused' = (kind = "Pause")
        /\ pausedAt' = IF kind = "Pause" THEN now ELSE 0
        /\ Executed(slot, order, listed)
        /\ UNCHANGED <<governed, held, supply, balance, reserves>>

-----------------------------------------------------------------------------
\* A transfer, as the token program makes it around the hook; nobody signs for
\* the vault.
MoveTokens(from, to, amount, version) ==
    /\ from # Vault
    /\ ~paused
    /\ amount <= balance[from]
    /\ TransferTokens(from, to, amount, version)
    /\ balance' = Credited([balance EXCEPT ![from] = @ - amount], to, amount)
    /\ UNCHANGED <<supply, paused, pausedAt, reserves>>

\* An owner burns, with the token program alone.
Burn(account, amount) ==
    /\ account # Vault
    /\ accountState[account] = "thawed" /\ ~paused
    /\ amount <= balance[account]
    /\ balance' = [balance EXCEPT ![account] = @ - amount]
    /\ supply' = supply - amount
    /\ UNCHANGED <<hvars, paused, pausedAt, reserves>>

-----------------------------------------------------------------------------
NextAttestation ==
    \E attestor \in Attestors, amount \in ReserveAmounts, at \in 1 .. MaxTime,
       maxAge \in MaxAges : AttestReserve(attestor, amount, at, maxAge)

OrdersOf(kinds) == {order \in Orders : order.kind \in kinds}

NextOrder ==
    \/ \E order \in Orders, nonce \in Nonce, w \in Wallet, term \in Term :
         ProposeOrder(nonce, w, term, order)
    \/ \E slot \in Slot, listed \in SignerLists :
         \/ \E order \in OrdersOf({"Mint"}), index \in DOMAIN reserves :
              MintTokens(slot, order.account, order.amount, index, listed)
         \/ \E order \in OrdersOf({"Seize"}) :
              Seize(slot, order.account, order.amount, order.reason, listed)
         \/ \E order \in OrdersOf({"Pause", "Resume"}) :
              ChangeCirculation(slot, order.kind, order.reason, listed)

NextMove ==
    \/ \E route \in Routes, amount \in Amounts, version \in 1 .. MaxVersion :
         MoveTokens(route[1], route[2], amount, version)
    \/ \E account \in Account, amount \in {n \in Amounts : "Burn" \in Kinds} :
         Burn(account, amount)

HoldersMove == (NextThaw \/ NextFreeze \/ NextStatus \/ Govern) /\ UNCHANGED token

LedgerNext == NextAttestation \/ NextOrder \/ NextMove \/ HoldersMove

LedgerSpec == LedgerInit /\ [][LedgerNext]_lvars

-----------------------------------------------------------------------------
(* Properties *)

\* Every variable keeps its type.
LedgerTypeOK ==
    /\ HoldersTypeOK
    /\ supply \in Int
    /\ balance \in [Account -> Nat]
    /\ paused \in BOOLEAN
    /\ pausedAt \in Nat
    /\ reserves \in Seq(ReserveAttestation) /\ reserves # <<>>

\* The supply never rises above what the latest attestation covers, and rises
\* only while that attestation is the present attestor's and in its period:
\* whichever proposals circulate together, whatever the attestor, the terms and
\* the fee (FR-022, FR-023, FR-024b, SC-005).
Covers(attestation, total) ==
    /\ attestation.attestor = terms.attestor
    /\ attestation.attestedAt \in now - terms.maxAge .. now
    /\ total <= attestation.amount
IssuedWithinReserve ==
    [][supply' > supply => Covers(reserves[Len(reserves)], supply')]_lvars

\* Tokens come into an account otherwise than by a transfer the hook judged only
\* if it is the treasury's, the vault, or that of a wallet which may authorise.
TokensAppearWithMembers ==
    [][transfers' = transfers =>
         \A a \in Account \ {TreasuryAccount, Vault} :
           balance'[a] > balance[a] =>
             OwnerOf[a] \in Authorising(members)]_lvars

\* What an officer froze stays frozen while the record stands, except the vault,
\* which a seizure thaws.
FreezesHoldOutsideVault ==
    \A a \in Account \ {Vault} : freezes[a] # NoAccount => accountState[a] = "frozen"

\* The step put an action of one of these kinds in the journal; a seizure from one
\* of these accounts.
Entered(kinds) ==
    /\ Len(journal') > Len(journal)
    /\ journal'[Len(journal')].body.kind \in kinds
SeizedFrom(accounts) ==
    Entered({"Seize"}) /\ journal'[Len(journal')].body.account \in accounts

\* A seizure moves its amount into the vault and leaves no other trace: supply,
\* pause, freezes and every account's state but the vault's are as they were,
\* frozen sources and paused mints included (FR-015, FR-016).
SeizuresOnlySeize ==
    [][SeizedFrom(Account) =>
         LET body == journal'[Len(journal')].body
         IN  /\ balance' = [balance EXCEPT ![body.account] = @ - body.amount,
                                           ![Vault] = @ + body.amount]
             /\ supply' = supply /\ paused' = paused /\ pausedAt' = pausedAt
             /\ freezes' = freezes
             /\ \A a \in Account \ {Vault} : accountState'[a] = accountState[a]]_lvars

\* What an officer froze neither comes nor goes but by an executed seizure: not
\* by a transfer, a burn, an issuance or its fee (FR-014).
FrozenFundsStay ==
    [][\A a \in Account \ {Vault} :
         freezes[a] # NoAccount /\ balance'[a] # balance[a] => SeizedFrom({a})]_lvars

\* While the mint is paused nothing but a seizure moves a balance, and nothing
\* changes the supply.  It is paused and resumed by the actions that say so alone,
\* and each of them changes it: no pause in the journal that changed nothing, and no
\* seizure loses one (FR-016).
PauseHolds ==
    [][/\ paused => /\ balance' # balance => SeizedFrom(Account)
                    /\ supply' = supply
       /\ paused' # paused <=> Entered({"Pause", "Resume"})]_lvars

\* What an officer froze and what the pause holds moves by a seizure alone.
HeldFundsStay == FrozenFundsStay /\ PauseHolds

\* The vault holds what was seized and what was transferred to it, and nothing
\* ever leaves it.
SeizedTotal ==
    MapThenSumSet(LAMBDA i : journal[i].body.amount,
      {i \in DOMAIN journal : journal[i].body.kind = "Seize"})
TransferredToVault ==
    MapThenSumSet(LAMBDA i : transfers[i].amount, {i \in DOMAIN transfers : transfers[i].to = Vault})
VaultAccountedFor == balance[Vault] = SeizedTotal + TransferredToVault
=============================================================================
