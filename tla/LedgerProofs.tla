---------------------------- MODULE LedgerProofs ----------------------------
(***************************************************************************)
(* The token's supply, for any accounts, fee, attestations and orders.     *)
(*                                                                         *)
(* A step of the ledger is an attestation, a proposal, one of three kinds  *)
(* of executed order, a move of the token program, or a step of Holders or *)
(* Governance (LedgerSteps).  The invariant LInv takes IInv over from      *)
(* governance; of the freezes it says less than HInv, since a seizure      *)
(* thaws the vault.                                                        *)
(***************************************************************************)
EXTENDS ReservePage, HoldersProofs

LInv == IInv /\ LedgerTypeOK /\ FreezesHoldOutsideVault

TokenTypeOK ==
    /\ supply \in Int
    /\ balance \in [Account -> Nat]
    /\ paused \in BOOLEAN
    /\ pausedAt \in Nat
    /\ reserves \in Seq(ReserveAttestation) /\ reserves # <<>>

LEMMA LedgerTypes == LedgerTypeOK <=> TypeOK /\ HeldTypeOK /\ TokenTypeOK
BY DEF LedgerTypeOK, HoldersTypeOK, HeldTypeOK, TokenTypeOK

-----------------------------------------------------------------------------
(* The kinds of step *)

Proposes ==
    \E nonce \in Nonce, w \in Wallet, term \in Term, order \in Orders :
      ProposeOrder(nonce, w, term, order)
Mints ==
    \E slot \in Slot, listed \in Seq(Wallet), account \in Account, amount \in Nat \ {0},
       index \in DOMAIN reserves : MintTokens(slot, account, amount, index, listed)
Seizes ==
    \E slot \in Slot, listed \in Seq(Wallet), account \in Account, amount \in Nat \ {0},
       reason \in Reason : Seize(slot, account, amount, reason, listed)
Switches ==
    \E slot \in Slot, listed \in Seq(Wallet), kind \in {"Pause", "Resume"}, reason \in Reason :
      ChangeCirculation(slot, kind, reason, listed)
Moves ==
    \E from \in Account, to \in Account, amount \in Nat, version \in 1 .. MaxVersion :
      MoveTokens(from, to, amount, version)
Burns == \E account \in Account, amount \in Nat : Burn(account, amount)

LEMMA LedgerSteps ==
    ASSUME LedgerNext
    PROVE  \/ NextAttestation \/ Proposes \/ Mints \/ Seizes \/ Switches
           \/ Moves \/ Burns \/ HoldersMove
<1>1. Orders \subseteq MintBody \cup SeizeBody \cup CirculationBody /\ Amounts \subseteq Nat
  BY LedgerOrdersAssumption, StatusesAssumption
<1>2. CASE NextOrder
  <2>1. ASSUME NEW slot \in Slot, NEW listed \in SignerLists, NEW order \in OrdersOf({"Mint"}),
               NEW index \in DOMAIN reserves,
               MintTokens(slot, order.account, order.amount, index, listed)
        PROVE  Mints
    <3>1. order.account \in Account /\ order.amount \in Nat \ {0}
      BY <1>1 DEF OrdersOf, MintBody, SeizeBody, CirculationBody
    <3> QED
      BY <2>1, <3>1, SignerListsAssumption DEF Mints
  <2>2. ASSUME NEW slot \in Slot, NEW listed \in SignerLists, NEW order \in OrdersOf({"Seize"}),
               Seize(slot, order.account, order.amount, order.reason, listed)
        PROVE  Seizes
    <3>1. order.account \in Account /\ order.amount \in Nat \ {0} /\ order.reason \in Reason
      BY <1>1 DEF OrdersOf, MintBody, SeizeBody, CirculationBody
    <3> QED
      BY <2>2, <3>1, SignerListsAssumption DEF Seizes
  <2>3. ASSUME NEW slot \in Slot, NEW listed \in SignerLists,
               NEW order \in OrdersOf({"Pause", "Resume"}),
               ChangeCirculation(slot, order.kind, order.reason, listed)
        PROVE  Switches
    <3>1. order.kind \in {"Pause", "Resume"} /\ order.reason \in Reason
      BY <1>1 DEF OrdersOf, MintBody, SeizeBody, CirculationBody
    <3> QED
      BY <2>3, <3>1, SignerListsAssumption DEF Switches
  <2> QED
    BY <1>2, <2>1, <2>2, <2>3 DEF NextOrder, Proposes
<1>3. CASE NextMove
  BY <1>1, <1>3, OwnerAssumption DEF NextMove, Moves, Burns
<1> QED
  BY <1>2, <1>3 DEF LedgerNext

\* Attestations, proposals, switches and the steps of Holders and Governance
\* leave the tokens where they are; seizures and transfers, the supply.
LEMMA TokensStay ==
    /\ NextAttestation \/ Proposes \/ Switches \/ HoldersMove => UNCHANGED <<supply, balance>>
    /\ Seizes \/ Moves => supply' = supply
<1>1. NextAttestation => UNCHANGED <<supply, balance>>
  BY DEF NextAttestation, AttestReserve
<1>2. Proposes => UNCHANGED <<supply, balance>>
  BY DEF Proposes, ProposeOrder, token
<1>3. Switches => UNCHANGED <<supply, balance>>
  BY DEF Switches, ChangeCirculation
<1>4. HoldersMove => UNCHANGED <<supply, balance>>
  BY DEF HoldersMove, token
<1>5. Seizes => supply' = supply
  BY DEF Seizes, Seize
<1>6. Moves => supply' = supply
  BY DEF Moves, MoveTokens
<1> QED
  BY <1>1, <1>2, <1>3, <1>4, <1>5, <1>6

-----------------------------------------------------------------------------
(* Amounts *)

\* A fee is part of the amount, and so is what is left of it.
LEMMA FeeWithin ==
    ASSUME NEW amount \in Nat
    PROVE  /\ FeeOn(amount) \in 0 .. amount
           /\ RecipientShare(amount) \in 0 .. amount
           /\ FeeOn(amount) + RecipientShare(amount) = amount
<1> DEFINE x == amount * FeeBps
<1>1. x \in Nat /\ x <= amount * 10000
  BY FeeAssumption
<1> HIDE DEF x
<1>2. (x + 9999) \div 10000 \in 0 .. amount
  BY <1>1
<1>3. FeeOn(amount) \in 0 .. amount
  BY <1>2 DEF FeeOn, x
<1> QED
  BY <1>3 DEF RecipientShare

\* What an issuance does to the balances.
LEMMA IssuedBalances ==
    ASSUME NEW balances \in [Account -> Nat], NEW account \in Account, NEW amount \in Nat
    PROVE  /\ Issued(balances, account, amount) \in [Account -> Nat]
           /\ \A a \in Account : Issued(balances, account, amount)[a] # balances[a] =>
                 \/ a = TreasuryAccount /\ FeeOn(amount) > 0
                 \/ a = account
<1>1. FeeOn(amount) \in Nat /\ RecipientShare(amount) \in Nat
  BY FeeWithin
<1>2. Credited(balances, TreasuryAccount, FeeOn(amount)) \in [Account -> Nat]
  BY <1>1, LedgerAccountsAssumption DEF Credited
<1>3. \A a \in Account : Credited(balances, TreasuryAccount, FeeOn(amount))[a] # balances[a] =>
        a = TreasuryAccount /\ FeeOn(amount) > 0
  BY <1>1 DEF Credited
<1> QED
  BY <1>1, <1>2, <1>3 DEF Issued, Credited

-----------------------------------------------------------------------------
(* The invariant *)

LEMMA LedgerInitInv ==
    ASSUME LedgerInit
    PROVE  LInv
<1> DEFINE ofFounder(w, mine, others) ==
             IF w = OwnerOf[FounderAccount] THEN mine ELSE others
           empty == [a \in Account |-> 0]
           states == [a \in Account |-> IF a = FounderAccount THEN "thawed" ELSE "frozen"]
<1>1. PICK amount \in ReserveAmounts, at \in FirstDates, initial \in Amounts \cup {0},
           status \in Statuses :
        /\ Init
        /\ reserves = <<[amount |-> amount, attestor |-> terms.attestor, attestedAt |-> at]>>
        /\ statuses = [w \in Wallet |-> ofFounder(w, status, NoAccount)]
        /\ counters = [w \in Wallet |->
             ofFounder(w, [start |-> Epoch, spent |-> 0], NoAccount)]
        /\ freezes = [a \in Account |-> NoAccount]
        /\ attestations = [w \in Wallet |-> Absent]
        /\ transfers = <<>>
        /\ accountState = StatesAfterFee(states, initial)
        /\ balance = Issued(empty, FounderAccount, initial)
        /\ supply = initial
        /\ paused = FALSE /\ pausedAt = 0
  BY DEF LedgerInit
<1>2. IInv
  BY <1>1, InitInv
<1>3. initial \in Nat /\ amount \in Nat /\ at \in Nat /\ status \in StatusRecord /\ terms.attestor \in Wallet
  BY <1>2, StatusesAssumption, ReserveAssumption DEF IInv, TypeOK, Terms
<1>4. HeldTypeOK
  <2>1. accountState \in [Account -> {"frozen", "thawed"}]
    BY <1>1, LedgerAccountsAssumption DEF StatesAfterFee
  <2>2. [start |-> Epoch, spent |-> 0] \in Counter
    BY EpochAssumption DEF Counter
  <2> QED
    BY <1>1, <1>3, <2>1, <2>2 DEF HeldTypeOK
<1>5. TokenTypeOK
  <2>1. balance \in [Account -> Nat]
    <3>1. empty \in [Account -> Nat] /\ FounderAccount \in Account
      BY LedgerAccountsAssumption
    <3> HIDE DEF empty
    <3>2. Issued(empty, FounderAccount, initial) \in [Account -> Nat]
      BY <1>3, <3>1, IssuedBalances
    <3> QED
      BY <1>1, <3>2
  <2> DEFINE first == [amount |-> amount, attestor |-> terms.attestor, attestedAt |-> at]
  <2>2. first \in ReserveAttestation
    BY <1>3 DEF ReserveAttestation
  <2>3. supply = initial /\ paused = FALSE /\ pausedAt = 0 /\ reserves = <<first>>
    BY <1>1
  <2> HIDE DEF first
  <2>4. reserves \in Seq(ReserveAttestation) /\ reserves # <<>>
    BY <2>2, <2>3
  <2>5. paused \in BOOLEAN
    BY <2>3
  <2>6. supply \in Int /\ pausedAt \in Nat
    BY <1>3, <2>3
  <2> QED
    BY <2>1, <2>4, <2>5, <2>6 DEF TokenTypeOK
<1>6. FreezesHoldOutsideVault
  BY <1>1 DEF FreezesHoldOutsideVault
<1> QED
  BY <1>2, <1>4, <1>5, <1>6, LedgerTypes DEF LInv, IInv

\* An order's body takes effect in governance by being executed.
LEMMA OrderKeeps ==
    ASSUME IInv, NEW slot \in Slot, NEW listed \in Seq(Wallet), NEW order \in Body,
           Deferred(slot, TokenScope, order, listed), Executed(slot, order, listed),
           order.kind \in {"Mint", "Seize", "Pause", "Resume"}, UNCHANGED governed
    PROVE  IInv'
<1>1. order \in Orders
  BY DEF Body, DelegationBody, AttestorBody, PolicyBody
<1>2. ExecutedShape
  BY <1>1, ScopeAssumption DEF ExecutedShape, Effect
<1> QED
  BY <1>2, ShapeKeeps DEF Shape

\* Only a body that was proposed can be executed.
LEMMA DeferredIsBody ==
    ASSUME TypeOK, NEW slot \in Slot, NEW scope, NEW body, NEW listed,
           Deferred(slot, scope, body, listed)
    PROVE  body \in Body
BY DEF Deferred, Exists, TypeOK, ProposalsTypeOK, ProposalOf

LEMMA GovernedKept ==
    ASSUME LInv, [LedgerNext]_lvars
    PROVE  IInv'
<1>1. CASE NextAttestation \/ Moves \/ Burns \/ UNCHANGED lvars
  <2>1. CASE NextAttestation
    BY <2>1, ShapeKeeps DEF NextAttestation, AttestReserve, hvars, LInv
  <2>2. CASE Moves
    BY <2>2, ShapeKeeps DEF Moves, MoveTokens, TransferTokens, LInv
  <2>3. CASE Burns \/ UNCHANGED lvars
    BY <2>3, ShapeKeeps DEF Burns, Burn, hvars, lvars, LInv
  <2> QED
    BY <1>1, <2>1, <2>2, <2>3
<1>2. CASE Proposes
  <2>1. RaisedShape
    BY <1>2, ScopeAssumption DEF Proposes, ProposeOrder, RaisedShape, WellAsked, Slot, Body
  <2> QED
    BY <2>1, ShapeKeeps DEF LInv, Shape
<1>3. CASE Mints
  BY <1>3, OrderKeeps, DeferredIsBody DEF Mints, MintTokens, LInv, IInv
<1>4. CASE Seizes
  BY <1>4, OrderKeeps, DeferredIsBody DEF Seizes, Seize, LInv, IInv
<1>5. CASE Switches
  BY <1>5, OrderKeeps, DeferredIsBody DEF Switches, ChangeCirculation, LInv, IInv
<1>6. CASE HoldersMove
  <2>1. [Next]_vars
    BY <1>6, HolderStepsLeaveGovernance DEF HoldersMove, Govern
  <2> QED
    BY <2>1, NextInv DEF LInv
<1> QED
  BY <1>1, <1>2, <1>3, <1>4, <1>5, <1>6, LedgerSteps

LEMMA HeldKept ==
    ASSUME LInv, [LedgerNext]_lvars
    PROVE  HeldTypeOK' /\ FreezesHoldOutsideVault'
<1>1. HeldTypeOK /\ HoldersTypeOK
  BY LedgerTypes DEF LInv, LedgerTypeOK
<1>2. ASSUME HeldTypeOK', FreezesKept
      PROVE  FreezesHoldOutsideVault'
  BY <1>2 DEF LInv, FreezesKept, FreezesHoldOutsideVault
<1>3. CASE UNCHANGED held
  BY <1>1, <1>3 DEF LInv, held, HeldTypeOK, FreezesHoldOutsideVault
<1>4. CASE HoldersMove
  <2>1. CASE NextThaw \/ NextFreeze \/ NextStatus
    BY <1>1, <1>2, <2>1, HolderStepsKeep
  <2>2. CASE Govern
    BY <1>3, <2>2 DEF Govern
  <2> QED
    BY <1>4, <2>1, <2>2 DEF HoldersMove
<1>5. CASE Moves
  <2>1. PICK from \in Account, to \in Account, amount \in Nat, version \in 1 .. MaxVersion :
          TransferTokens(from, to, amount, version)
    BY <1>5 DEF Moves, MoveTokens
  <2> QED
    BY <1>1, <1>2, <2>1, TransferKeeps
<1>6. CASE Mints
  <2>1. PICK amount \in Nat :
          /\ MayCredit(amount)
          /\ accountState' = StatesAfterFee(accountState, amount)
          /\ UNCHANGED <<statuses, counters, freezes, attestations, transfers>>
    BY <1>6 DEF Mints, MintTokens
  <2>2. HeldTypeOK'
    BY <1>1, <2>1 DEF HeldTypeOK, StatesAfterFee
  <2>3. FreezesHoldOutsideVault'
    BY <1>1, <2>1 DEF LInv, HeldTypeOK, FreezesHoldOutsideVault, MayCredit, StatesAfterFee
  <2> QED
    BY <2>2, <2>3
<1>7. CASE Seizes
  <2>1. /\ accountState' = [accountState EXCEPT ![Vault] = "thawed"]
        /\ UNCHANGED <<statuses, counters, freezes, attestations, transfers>>
    BY <1>7 DEF Seizes, Seize, StatesAfterSeizure
  <2> QED
    BY <1>1, <2>1 DEF LInv, HeldTypeOK, FreezesHoldOutsideVault
<1> QED
  BY <1>3, <1>4, <1>5, <1>6, <1>7, LedgerSteps
     DEF lvars, hvars, NextAttestation, AttestReserve, Proposes, ProposeOrder, Switches,
         ChangeCirculation, Burns, Burn

LEMMA TokenKept ==
    ASSUME LInv, [LedgerNext]_lvars
    PROVE  TokenTypeOK'
<1>1. TokenTypeOK /\ TypeOK
  BY LedgerTypes DEF LInv
<1>2. now \in Nat /\ terms.attestor \in Wallet
  BY <1>1 DEF TypeOK, ProposalsTypeOK, Terms
<1>3. CASE UNCHANGED token
  BY <1>1, <1>3 DEF TokenTypeOK, token
<1>4. CASE NextAttestation
  <2>1. PICK amount \in ReserveAmounts, at \in 1 .. MaxTime :
          /\ reserves' = Append(reserves,
               [amount |-> amount, attestor |-> terms.attestor, attestedAt |-> at])
          /\ UNCHANGED <<supply, balance, paused, pausedAt>>
    BY <1>4 DEF NextAttestation, AttestReserve
  <2>2. [amount |-> amount, attestor |-> terms.attestor, attestedAt |-> at] \in ReserveAttestation
    BY <1>2, ReserveAssumption, BoundAssumption DEF ReserveAttestation
  <2> QED
    BY <1>1, <2>1, <2>2 DEF TokenTypeOK
<1>5. CASE Mints
  <2>1. PICK account \in Account, amount \in Nat :
          /\ balance' = Issued(balance, account, amount)
          /\ supply' = supply + FeeOn(amount) + RecipientShare(amount)
          /\ UNCHANGED <<paused, pausedAt, reserves>>
    BY <1>5 DEF Mints, MintTokens
  <2>2. balance' \in [Account -> Nat]
    BY <1>1, <2>1, IssuedBalances DEF TokenTypeOK
  <2>3. FeeOn(amount) \in Int /\ RecipientShare(amount) \in Int
    BY FeeWithin
  <2> QED
    BY <1>1, <2>1, <2>2, <2>3 DEF TokenTypeOK
<1>6. CASE Seizes
  <2>1. PICK account \in Account, amount \in Nat :
          /\ account # Vault
          /\ amount <= balance[account]
          /\ balance' = Credited([balance EXCEPT ![account] = @ - amount], Vault, amount)
          /\ paused' = paused
          /\ UNCHANGED <<supply, pausedAt, reserves>>
    BY <1>6 DEF Seizes, Seize, Seizable, PauseAfterSeizure
  <2>2. balance' \in [Account -> Nat]
    <3>1. [balance EXCEPT ![account] = @ - amount] \in [Account -> Nat]
      BY <1>1, <2>1 DEF TokenTypeOK
    <3> QED
      BY <2>1, <3>1, LedgerAccountsAssumption DEF Credited
  <2> QED
    BY <1>1, <2>1, <2>2 DEF TokenTypeOK
<1>7. CASE Switches
  BY <1>1, <1>2, <1>7 DEF Switches, ChangeCirculation, TokenTypeOK
<1>8. CASE Moves
  <2>1. PICK from \in Account, to \in Account, amount \in Nat :
          /\ amount <= balance[from]
          /\ balance' = Credited([balance EXCEPT ![from] = @ - amount], to, amount)
          /\ UNCHANGED <<supply, paused, pausedAt, reserves>>
    BY <1>8 DEF Moves, MoveTokens
  <2> QED
    BY <1>1, <2>1 DEF TokenTypeOK, Credited
<1>9. CASE Burns
  BY <1>1, <1>9 DEF Burns, Burn, TokenTypeOK
<1> QED
  BY <1>3, <1>4, <1>5, <1>6, <1>7, <1>8, <1>9, LedgerSteps
     DEF lvars, Proposes, ProposeOrder, HoldersMove

LEMMA LedgerNextInv ==
    ASSUME LInv, [LedgerNext]_lvars
    PROVE  LInv'
<1>1. IInv' /\ HeldTypeOK' /\ FreezesHoldOutsideVault' /\ TokenTypeOK'
  BY GovernedKept, HeldKept, TokenKept
<1> QED
  BY <1>1 DEF LInv, IInv, LedgerTypeOK, HoldersTypeOK, HeldTypeOK, TokenTypeOK

THEOREM LedgerInvariance == LedgerSpec => []LInv
<1>1. LedgerInit => LInv
  BY LedgerInitInv
<1>2. LInv /\ [LedgerNext]_lvars => LInv'
  BY LedgerNextInv
<1> QED
  BY <1>1, <1>2, PTL DEF LedgerSpec

-----------------------------------------------------------------------------
(* The theorems *)

\* Every variable of the ledger keeps its type, whatever the accounts, the fee,
\* the attestations and the orders.
THEOREM LedgerTypeCorrect == LedgerSpec => []LedgerTypeOK
<1>1. LInv => LedgerTypeOK
  BY DEF LInv
<1> QED
  BY <1>1, LedgerInvariance, PTL

\* What an officer froze stays frozen while the record stands, except the vault.
THEOREM FreezesOutlastOrders == LedgerSpec => []FreezesHoldOutsideVault
<1>1. LInv => FreezesHoldOutsideVault
  BY DEF LInv
<1> QED
  BY <1>1, LedgerInvariance, PTL

\* Issuances, seizures, pauses and resumptions stand on a quorum, are executed as
\* those who signed them signed them, and once.
THEOREM OrdersTakeQuorum ==
    LedgerSpec => [](EffectsAuthorised /\ EffectsNameTheirSigners /\ EffectsOnce)
<1>1. LInv => EffectsAuthorised /\ EffectsNameTheirSigners /\ EffectsOnce
  BY DEF LInv, IInv, SharedInv
<1> QED
  BY <1>1, LedgerInvariance, PTL

\* The supply rises only within the latest attestation, when it is the present
\* attestor's and in its period.
THEOREM IssuanceWithinReserve == LedgerSpec => IssuedWithinReserve
<1>1. LInv /\ [LedgerNext]_lvars =>
        [supply' > supply => Covers(reserves[Len(reserves)], supply')]_lvars
  <2> SUFFICES ASSUME LInv, LedgerNext, supply' > supply
               PROVE  Covers(reserves[Len(reserves)], supply')
    BY DEF lvars, hvars, token
  <2>1. supply \in Int /\ TypeOK /\ now \in Nat /\ terms.maxAge \in Nat
    BY LedgerTypes DEF LInv, TokenTypeOK, TypeOK, ProposalsTypeOK, Terms
  <2>2. CASE Mints
    <3>1. PICK account \in Account, amount \in Nat, index \in DOMAIN reserves :
            /\ RequireLatest(index)
            /\ WithinReserve(reserves[index], supply, amount)
            /\ MayIssue(amount)
            /\ supply' = supply + FeeOn(amount) + RecipientShare(amount)
      BY <2>2 DEF Mints, MintTokens
    <3> DEFINE latest == reserves[Len(reserves)]
    <3>2. latest \in ReserveAttestation /\ index = Len(reserves)
      BY <3>1, LedgerTypes DEF LInv, TokenTypeOK, RequireLatest
    <3>3. supply' = supply + amount /\ supply + amount <= MaxU64
      BY <2>1, <3>1, FeeWithin DEF MayIssue
    <3>4. /\ latest.attestor = terms.attestor
          /\ latest.attestedAt <= now /\ now - latest.attestedAt <= terms.maxAge
          /\ SaturatingAdd(supply, amount) <= latest.amount
      BY <3>1, <3>2 DEF RequireLatest, WithinReserve
    <3>5. SaturatingAdd(supply, amount) = supply + amount
      BY <2>1, <3>3, WidthAssumption DEF SaturatingAdd
    <3> QED
      BY <2>1, <3>2, <3>3, <3>4, <3>5 DEF Covers, ReserveAttestation
  <2>3. CASE Burns
    BY <2>1, <2>3 DEF Burns, Burn
  <2>4. CASE NextAttestation \/ Proposes \/ Seizes \/ Switches \/ Moves \/ HoldersMove
    BY <2>1, <2>4, TokensStay
  <2> QED
    BY <2>2, <2>3, <2>4, LedgerSteps
<1> QED
  BY <1>1, LedgerInvariance, PTL DEF LedgerSpec, IssuedWithinReserve

\* Apart from transfers, the treasury and the vault, tokens appear with those who
\* may authorise an issuance and with nobody else.
THEOREM TokensReachMembersFirst == LedgerSpec => TokensAppearWithMembers
<1> DEFINE Appear == transfers' = transfers =>
             \A a \in Account \ {TreasuryAccount, Vault} :
               balance'[a] > balance[a] => OwnerOf[a] \in Authorising(members)
<1>1. LInv /\ [LedgerNext]_lvars => [Appear]_lvars
  <2> SUFFICES ASSUME LInv, LedgerNext, transfers' = transfers,
                      NEW a \in Account \ {TreasuryAccount, Vault}, balance'[a] > balance[a]
               PROVE  OwnerOf[a] \in Authorising(members)
    BY DEF lvars, hvars, token
  <2>1. balance \in [Account -> Nat] /\ transfers \in Seq(Transfer)
    BY LedgerTypes DEF LInv, TokenTypeOK, HeldTypeOK
  <2>2. CASE Mints
    <3>1. PICK account \in Account, amount \in Nat :
            MayReceive(account) /\ balance' = Issued(balance, account, amount)
      BY <2>2 DEF Mints, MintTokens
    <3>2. a = account
      BY <2>1, <3>1, IssuedBalances
    <3> QED
      BY <3>1, <3>2, OwnerAssumption DEF MayReceive, Authorising
  <2>3. CASE Seizes
    <3>1. PICK account \in Account, amount \in Nat :
            balance' = Credited([balance EXCEPT ![account] = @ - amount], Vault, amount)
      BY <2>3 DEF Seizes, Seize
    <3> QED
      BY <2>1, <3>1 DEF Credited
  <2>4. CASE Moves
    <3>1. PICK made : transfers' = Append(transfers, made)
      BY <2>4 DEF Moves, MoveTokens, TransferTokens
    <3> QED
      BY <2>1, <3>1
  <2>5. CASE Burns
    BY <2>1, <2>5 DEF Burns, Burn
  <2>6. CASE NextAttestation \/ Proposes \/ Switches \/ HoldersMove
    BY <2>1, <2>6, TokensStay
  <2> QED
    BY <2>2, <2>3, <2>4, <2>5, <2>6, LedgerSteps
<1> QED
  BY <1>1, LedgerInvariance, PTL DEF LedgerSpec, TokensAppearWithMembers

\* What an entry leaves at the end of the journal.
LEMMA LastEntry ==
    ASSUME LInv, NEW body, NEW listed, NEW serial,
           journal' = Append(journal,
             [body |-> body, by |-> listed, at |-> now, serial |-> serial])
    PROVE  /\ Len(journal') = Len(journal) + 1 /\ Len(journal) \in Nat
           /\ journal'[Len(journal')].body = body
<1> DEFINE e == [body |-> body, by |-> listed, at |-> now, serial |-> serial]
<1>1. journal \in Seq(EntryOf(Body)) /\ journal' = Append(journal, e)
  BY DEF LInv, IInv, TypeOK, ProposalsTypeOK
<1>2. e.body = body
  OBVIOUS
<1> HIDE DEF e
<1> QED
  BY <1>1, <1>2

LEMMA SeizureEntry ==
    ASSUME LInv, NEW slot, NEW listed, NEW account, NEW amount, NEW reason,
           Seize(slot, account, amount, reason, listed)
    PROVE  /\ SeizedFrom({account})
           /\ LET body == journal'[Len(journal')].body
              IN  body.account = account /\ body.amount = amount
<1> DEFINE body == [kind |-> "Seize", account |-> account, amount |-> amount, reason |-> reason]
<1>1. Len(journal') = Len(journal) + 1 /\ Len(journal) \in Nat /\ journal'[Len(journal')].body = body
  BY LastEntry DEF Seize, Executed
<1> QED
  BY <1>1 DEF SeizedFrom, Entered

\* An entry of another kind, and no entry.
LEMMA OtherEntry ==
    ASSUME LInv, NEW kinds, NEW body, NEW listed, body.kind \notin kinds,
           \/ Signed(body, listed)
           \/ \E slot \in Slot : Executed(slot, body, listed)
    PROVE  ~Entered(kinds)
<1>1. journal'[Len(journal')].body = body
  BY LastEntry DEF Signed, Executed
<1> QED
  BY <1>1 DEF Entered

LEMMA NoEntry ==
    ASSUME LInv, NEW kinds, UNCHANGED journal
    PROVE  ~Entered(kinds)
<1>1. Len(journal) \in Nat
  BY DEF LInv, IInv, TypeOK, ProposalsTypeOK
<1> QED
  BY <1>1 DEF Entered

\* The kinds of action that move tokens or stop them.
Seizure == {"Seize"}
Switch == {"Pause", "Resume"}

LEMMA SwitchEntry ==
    ASSUME LInv, Switches
    PROVE  Entered(Switch)
<1>1. PICK slot \in Slot, listed \in Seq(Wallet), kind \in Switch, reason \in Reason :
        Executed(slot, [kind |-> kind, reason |-> reason], listed)
  BY DEF Switches, ChangeCirculation, Switch
<1> DEFINE body == [kind |-> kind, reason |-> reason]
<1>2. /\ Len(journal') = Len(journal) + 1 /\ Len(journal) \in Nat
      /\ journal'[Len(journal')].body = body
  BY <1>1, LastEntry DEF Executed
<1> QED
  BY <1>1, <1>2 DEF Entered

LEMMA GovernanceSeizesNothing ==
    ASSUME LInv, Next
    PROVE  ~Entered(Seizure \cup Switch)
<1>1. CASE NextDelegation
  <2>1. PICK target \in DelegationTargets :
          \/ \E listed \in SignerLists :
               \/ Signed(DelegationStored(target), listed)
               \/ \E slot \in Slot : Executed(slot, DelegationStored(target), listed)
          \/ UNCHANGED journal
    BY <1>1 DEF NextDelegation, ProposeSetDelegation, Propose, SetDelegationSigned,
       SetDelegationProposed
  <2>2. DelegationStored(target).kind \notin Seizure \cup Switch
    BY DEF DelegationStored, Seizure, Switch
  <2> QED
    BY <2>1, <2>2, OtherEntry, NoEntry
<1>2. CASE NextAttestor
  <2>1. PICK target \in TermsTargets, reason \in Reason :
          \/ \E nonce \in Nonce, w \in Wallet, term \in Term :
               ProposeSetAttestor(nonce, w, term, target, reason)
          \/ \E listed \in SignerLists :
               \/ SetAttestorSigned(target, reason, listed)
               \/ \E slot \in Slot : SetAttestorProposed(slot, target, reason, listed)
    BY <1>2 DEF NextAttestor
  <2>2. TermsStored(target, reason).kind \notin Seizure \cup Switch
    BY DEF TermsStored, Seizure, Switch
  <2>3. \/ UNCHANGED journal
        \/ \E listed \in SignerLists :
             \/ Signed(TermsStored(target, reason), listed)
             \/ \E slot \in Slot : Executed(slot, TermsStored(target, reason), listed)
    BY <2>1 DEF ProposeSetAttestor, Propose, SetAttestorSigned, SetAttestorProposed
  <2> QED
    BY <2>2, <2>3, OtherEntry, NoEntry
<1>3. CASE NextPolicy
  <2>1. PICK version \in 2 .. MaxVersion, rules \in Rules, reason \in Reason :
          \/ \E nonce \in Nonce, w \in Wallet, term \in Term :
               ProposeSetPolicy(nonce, w, term, version, rules, reason)
          \/ \E listed \in SignerLists :
               \/ SetPolicySigned(version, rules, reason, listed)
               \/ \E slot \in Slot : SetPolicyProposed(slot, version, rules, reason, listed)
    BY <1>3 DEF NextPolicy
  <2>2. PolicyStored(version, rules, reason).kind \notin Seizure \cup Switch
    BY DEF PolicyStored, Seizure, Switch
  <2>3. \/ UNCHANGED journal
        \/ \E listed \in SignerLists :
             \/ Signed(PolicyStored(version, rules, reason), listed)
             \/ \E slot \in Slot : Executed(slot, PolicyStored(version, rules, reason), listed)
    BY <2>1 DEF ProposeSetPolicy, Propose, SetPolicySigned, SetPolicyProposed
  <2> QED
    BY <2>2, <2>3, OtherEntry, NoEntry
<1>4. CASE NextProposal \/ TimePasses
  BY <1>4, NoEntry DEF NextProposal, ApproveAction, Approve, CloseActionProposal,
     CloseProposal, TimePasses, Tick
<1> QED
  BY <1>1, <1>2, <1>3, <1>4 DEF Next

\* A seizure enters the journal with a seizure alone, a pause or a resumption with
\* a switch alone.
LEMMA EntriesFollowOrders ==
    ASSUME LInv, LedgerNext
    PROVE  /\ Entered(Seizure) => Seizes
           /\ Entered(Switch) => Switches
<1>1. Entered(Seizure) \/ Entered(Switch) => Entered(Seizure \cup Switch)
  BY DEF Entered
<1>2. CASE NextAttestation
  BY <1>2, NoEntry DEF NextAttestation, AttestReserve, hvars, vars
<1>3. CASE Proposes
  BY <1>3, NoEntry DEF Proposes, ProposeOrder, Propose
<1>4. CASE Mints
  <2>1. PICK slot \in Slot, listed \in Seq(Wallet), account \in Account, amount \in Nat :
          Executed(slot, [kind |-> "Mint", account |-> account, amount |-> amount], listed)
    BY <1>4 DEF Mints, MintTokens
  <2> DEFINE body == [kind |-> "Mint", account |-> account, amount |-> amount]
  <2>2. body.kind \notin Seizure \cup Switch /\ Executed(slot, body, listed)
    BY <2>1 DEF Seizure, Switch
  <2> HIDE DEF body
  <2>3. ~Entered(Seizure \cup Switch)
    BY <2>2, OtherEntry
  <2> QED
    BY <1>1, <2>3
<1>5. CASE Seizes
  <2>1. Entered(Seizure)
    BY <1>5, SeizureEntry DEF Seizes, SeizedFrom, Seizure
  <2> QED
    BY <1>5, <2>1 DEF Entered, Seizure, Switch
<1>6. CASE Switches
  <2>1. Entered(Switch)
    BY <1>6, SwitchEntry
  <2> QED
    BY <1>6, <2>1 DEF Entered, Seizure, Switch
<1>7. CASE Moves
  BY <1>7, NoEntry DEF Moves, MoveTokens, TransferTokens, vars
<1>8. CASE Burns
  BY <1>8, NoEntry DEF Burns, Burn, hvars, vars
<1>9. CASE HoldersMove
  <2>1. Next \/ UNCHANGED vars
    BY <1>9, HolderStepsLeaveGovernance DEF HoldersMove, Govern
  <2>2. ~Entered(Seizure \cup Switch)
    BY <2>1, GovernanceSeizesNothing, NoEntry DEF vars
  <2> QED
    BY <1>1, <2>2
<1> QED
  BY <1>2, <1>3, <1>4, <1>5, <1>6, <1>7, <1>8, <1>9, LedgerSteps

\* A seizure moves its amount into the vault and leaves no other trace: supply,
\* pause, freezes and every account's state but the vault's are as they were.
THEOREM SeizuresLeaveNoTrace == LedgerSpec => SeizuresOnlySeize
<1> DEFINE NoTrace ==
      SeizedFrom(Account) =>
        LET body == journal'[Len(journal')].body
        IN  /\ balance' = [balance EXCEPT ![body.account] = @ - body.amount,
                                          ![Vault] = @ + body.amount]
            /\ supply' = supply /\ paused' = paused /\ pausedAt' = pausedAt
            /\ freezes' = freezes
            /\ \A a \in Account \ {Vault} : accountState'[a] = accountState[a]
<1>1. LInv /\ [LedgerNext]_lvars => [NoTrace]_lvars
  <2> SUFFICES ASSUME LInv, LedgerNext, SeizedFrom(Account) PROVE NoTrace
    OBVIOUS
  <2>1. PICK slot \in Slot, listed \in Seq(Wallet), account \in Account,
             amount \in Nat \ {0}, reason \in Reason :
          Seize(slot, account, amount, reason, listed)
    BY EntriesFollowOrders DEF Seizes, SeizedFrom, Seizure
  <2>2. /\ account # Vault
        /\ balance' = [[balance EXCEPT ![account] = @ - amount] EXCEPT ![Vault] = @ + amount]
        /\ accountState' = [accountState EXCEPT ![Vault] = "thawed"]
        /\ paused' = paused
        /\ UNCHANGED <<supply, pausedAt, freezes>>
    BY <2>1 DEF Seize, Seizable, Credited, StatesAfterSeizure, PauseAfterSeizure
  <2>3. accountState \in [Account -> {"frozen", "thawed"}]
    BY LedgerTypes DEF LInv, HeldTypeOK
  <2>4. journal'[Len(journal')].body.account = account /\ journal'[Len(journal')].body.amount = amount
    BY <2>1, SeizureEntry
  <2> QED
    BY <2>2, <2>3, <2>4
<1> QED
  BY <1>1, LedgerInvariance, PTL DEF LedgerSpec, SeizuresOnlySeize

\* What an officer froze neither comes nor goes but by an executed seizure: not by
\* a transfer, a burn, an issuance or its fee.
THEOREM FrozenFundsRemain == LedgerSpec => FrozenFundsStay
<1> DEFINE Stay == \A a \in Account \ {Vault} :
             freezes[a] # NoAccount /\ balance'[a] # balance[a] => SeizedFrom({a})
<1>1. LInv /\ [LedgerNext]_lvars => [Stay]_lvars
  <2> SUFFICES ASSUME LInv, LedgerNext, NEW a \in Account \ {Vault},
                      freezes[a] # NoAccount, balance'[a] # balance[a]
               PROVE  SeizedFrom({a})
    BY DEF lvars, hvars, token
  <2>1. balance \in [Account -> Nat] /\ accountState \in [Account -> {"frozen", "thawed"}]
    BY LedgerTypes DEF LInv, TokenTypeOK, HeldTypeOK
  <2>2. accountState[a] = "frozen"
    BY DEF LInv, FreezesHoldOutsideVault
  <2>3. CASE Mints
    <3>1. PICK account \in Account, amount \in Nat :
            /\ MayCredit(amount)
            /\ accountState' = StatesAfterFee(accountState, amount)
            /\ accountState'[account] = "thawed"
            /\ balance' = Issued(balance, account, amount)
      BY <2>3 DEF Mints, MintTokens
    <3>2. (a = TreasuryAccount /\ FeeOn(amount) > 0) \/ a = account
      BY <2>1, <3>1, IssuedBalances
    <3>3. ~(a = TreasuryAccount /\ FeeOn(amount) > 0)
      BY <2>2, <3>1 DEF MayCredit
    <3> QED
      BY <2>1, <2>2, <3>1, <3>2, <3>3 DEF StatesAfterFee
  <2>4. CASE Seizes
    <3>1. PICK slot \in Slot, listed \in Seq(Wallet), account \in Account,
               amount \in Nat \ {0}, reason \in Reason :
            Seize(slot, account, amount, reason, listed)
      BY <2>4 DEF Seizes
    <3>2. balance' = Credited([balance EXCEPT ![account] = @ - amount], Vault, amount)
      BY <3>1 DEF Seize
    <3>3. a = account
      BY <2>1, <3>2 DEF Credited
    <3> QED
      BY <3>1, <3>3, SeizureEntry
  <2>5. CASE Moves
    <3>1. PICK from \in Account, to \in Account, amount \in Nat :
            \E version \in 1 .. MaxVersion : MoveTokens(from, to, amount, version)
      BY <2>5 DEF Moves
    <3>2. accountState[from] = "thawed" /\ accountState[to] = "thawed"
      BY <3>1 DEF MoveTokens, TransferTokens
    <3>3. balance' = Credited([balance EXCEPT ![from] = @ - amount], to, amount)
      BY <3>1 DEF MoveTokens
    <3> QED
      BY <2>1, <2>2, <3>2, <3>3 DEF Credited
  <2>6. CASE Burns
    BY <2>1, <2>2, <2>6 DEF Burns, Burn
  <2>7. CASE NextAttestation \/ Proposes \/ Switches \/ HoldersMove
    BY <2>7, TokensStay
  <2> QED
    BY <2>3, <2>4, <2>5, <2>6, <2>7, LedgerSteps
<1> QED
  BY <1>1, LedgerInvariance, PTL DEF LedgerSpec, FrozenFundsStay

\* While the mint is paused, only a seizure moves a balance and nothing changes the
\* supply; it is paused and resumed by the executed actions that say so, each of which
\* changes it.
THEOREM PausesHold == LedgerSpec => PauseHolds
<1> DEFINE Holds == paused => /\ balance' # balance => SeizedFrom(Account)
                              /\ supply' = supply
           Alternates == paused' # paused <=> Entered({"Pause", "Resume"})
<1>1. LInv /\ [LedgerNext]_lvars => [Holds]_lvars
  <2> SUFFICES ASSUME LInv, LedgerNext, paused
               PROVE  (balance' # balance => SeizedFrom(Account)) /\ supply' = supply
    BY DEF lvars, hvars, token
  <2>1. CASE Mints \/ Moves \/ Burns
    BY <2>1 DEF Mints, MintTokens, MayIssue, Moves, MoveTokens, Burns, Burn
  <2>2. CASE Seizes
    <3>1. PICK account \in Account : SeizedFrom({account})
      BY <2>2, SeizureEntry DEF Seizes
    <3> QED
      BY <2>2, <3>1 DEF SeizedFrom, Seizes, Seize
  <2>3. CASE NextAttestation \/ Proposes \/ Switches \/ HoldersMove
    BY <2>3, TokensStay
  <2> QED
    BY <2>1, <2>2, <2>3, LedgerSteps
<1>2. LInv /\ [LedgerNext]_lvars => [Alternates]_lvars
  <2> SUFFICES ASSUME LInv, LedgerNext PROVE Alternates
    OBVIOUS
  <2>1. CASE Switches
    <3>1. PICK kind \in {"Pause", "Resume"} :
            (paused <=> kind = "Resume") /\ (paused' <=> kind = "Pause")
      BY <2>1 DEF Switches, ChangeCirculation, ChangesCirculation
    <3>2. Entered({"Pause", "Resume"})
      BY <2>1, SwitchEntry DEF Switch
    <3> QED
      BY <3>1, <3>2
  <2>2. CASE ~Switches
    <3>1. ~Entered({"Pause", "Resume"})
      BY <2>2, EntriesFollowOrders DEF Switch
    <3>2. paused' = paused
      BY <2>2, LedgerSteps DEF NextAttestation, AttestReserve, Proposes, ProposeOrder, token,
         Mints, MintTokens, Seizes, Seize, PauseAfterSeizure, Moves, MoveTokens, Burns, Burn,
         HoldersMove
    <3> QED
      BY <3>1, <3>2
  <2> QED
    BY <2>1, <2>2
<1> QED
  BY <1>1, <1>2, LedgerInvariance, PTL DEF LedgerSpec, PauseHolds

\* What an officer froze and what the pause holds moves by a seizure alone.
THEOREM HeldFundsRemain == LedgerSpec => HeldFundsStay
  BY FrozenFundsRemain, PausesHold DEF HeldFundsStay

-----------------------------------------------------------------------------
(* The supply is what the accounts hold.  The sum is taken along any       *)
(* enumeration of the accounts.                                            *)

Enumeration(n, e) ==
    /\ n \in Nat /\ e \in [1 .. n -> Account]
    /\ \A i, j \in 1 .. n : e[i] = e[j] => i = j
    /\ \A a \in Account : \E i \in 1 .. n : e[i] = a

HeldBy(balances, n, e) == SumOf([i \in 1 .. n |-> balances[e[i]]])

SupplyHeld == \A n, e : Enumeration(n, e) => supply = HeldBy(balance, n, e)

\* One amount changes, and the sum with it; no amount is more than the sum.
LEMMA SumMoved ==
    ASSUME NEW m \in Nat, NEW a \in Seq(Nat), NEW b \in Seq(Nat), Len(a) = m, Len(b) = m,
           NEW k \in 1 .. m, \A i \in 1 .. m : i # k => b[i] = a[i]
    PROVE  SumOf(b) + a[k] = SumOf(a) + b[k] /\ a[k] <= SumOf(a)
<1>1. PICK s : RunningSum(s, a, m)
  BY SumOfIs
<1>2. PICK t : RunningSum(t, b, m)
  BY SumOfIs
<1> DEFINE x == a[k]
           y == b[k]
           moved == {n \in 0 .. m : IF n < k THEN t[n] = s[n]
                                    ELSE t[n] + x = s[n] + y /\ x <= s[n]}
<1>3. 0 \in moved
  BY <1>1, <1>2 DEF RunningSum
<1>4. x \in Nat /\ y \in Nat
  BY <1>1, <1>2 DEF RunningSum
<1>5. ASSUME NEW n \in 0 .. m - 1, n \in moved
      PROVE  n + 1 \in moved
  <2>1. n + 1 \in 1 .. m /\ n \in 0 .. m /\ n + 1 \in 0 .. m /\ (n + 1) - 1 = n
    OBVIOUS
  <2> DEFINE c == a[n + 1]
             d == b[n + 1]
             u == s[n]
             v == t[n]
  <2>2. s[n + 1] = u + c /\ t[n + 1] = v + d
    BY <1>1, <1>2, <2>1 DEF RunningSum
  <2>3. c \in Nat /\ d \in Nat /\ u \in Nat /\ v \in Nat
    BY <1>1, <1>2, <2>1 DEF RunningSum
  <2>4. IF n < k THEN v = u ELSE v + x = u + y /\ x <= u
    BY <1>5
  <2>5. IF n + 1 = k THEN c = x /\ d = y ELSE d = c
    BY <2>1
  <2> HIDE DEF c, d, u, v, x, y
  <2>6. IF n + 1 < k THEN v + d = u + c ELSE (v + d) + x = (u + c) + y /\ x <= u + c
    BY <1>4, <2>1, <2>3, <2>4, <2>5
  <2> QED
    BY <2>1, <2>2, <2>6
<1>6. m \in moved
  <2>1. moved \in SUBSET (0 .. m)
    OBVIOUS
  <2> HIDE DEF moved
  <2>2. moved = 0 .. m
    BY <1>3, <1>5, <2>1, EachUpTo
  <2> QED
    BY <2>2
<1> QED
  BY <1>1, <1>2, <1>6 DEF RunningSum

\* One balance changes.
LEMMA OneBalance ==
    ASSUME NEW n, NEW e, Enumeration(n, e), NEW before \in [Account -> Nat],
           NEW after \in [Account -> Nat], NEW account \in Account,
           \A a \in Account : a # account => after[a] = before[a]
    PROVE  /\ HeldBy(before, n, e) \in Nat /\ HeldBy(after, n, e) \in Nat
           /\ HeldBy(after, n, e) + before[account] = HeldBy(before, n, e) + after[account]
           /\ before[account] <= HeldBy(before, n, e)
<1> DEFINE a == [i \in 1 .. n |-> before[e[i]]]
           b == [i \in 1 .. n |-> after[e[i]]]
<1>1. n \in Nat /\ e \in [1 .. n -> Account] /\ \A i, j \in 1 .. n : e[i] = e[j] => i = j
  BY DEF Enumeration
<1>2. PICK k \in 1 .. n : e[k] = account
  BY DEF Enumeration
<1>3. a \in Seq(Nat) /\ b \in Seq(Nat) /\ Len(a) = n /\ Len(b) = n
  BY <1>1
<1>4. /\ \A i \in 1 .. n : i # k => b[i] = a[i]
      /\ a[k] = before[account] /\ b[k] = after[account]
  BY <1>1, <1>2
<1>5. HeldBy(before, n, e) = SumOf(a) /\ HeldBy(after, n, e) = SumOf(b)
  BY DEF HeldBy
<1> HIDE DEF a, b
<1>6. SumOf(a) \in Nat /\ SumOf(b) \in Nat
  BY <1>1, <1>3, SumIsNumber
<1>7. SumOf(b) + a[k] = SumOf(a) + b[k] /\ a[k] <= SumOf(a)
  BY <1>1, <1>3, <1>4, SumMoved
<1> QED
  BY <1>4, <1>5, <1>6, <1>7

LEMMA CreditedHeld ==
    ASSUME NEW n, NEW e, Enumeration(n, e), NEW balances \in [Account -> Nat],
           NEW account \in Account, NEW amount \in Nat
    PROVE  /\ Credited(balances, account, amount) \in [Account -> Nat]
           /\ HeldBy(Credited(balances, account, amount), n, e) = HeldBy(balances, n, e) + amount
<1> DEFINE after == Credited(balances, account, amount)
<1>1. /\ after \in [Account -> Nat] /\ after[account] = balances[account] + amount
      /\ \A a \in Account : a # account => after[a] = balances[a]
  BY DEF Credited
<1>2. balances[account] \in Nat
  OBVIOUS
<1> HIDE DEF after
<1> QED
  BY <1>1, <1>2, OneBalance DEF after

Debited(balances, account, amount) == [balances EXCEPT ![account] = @ - amount]

LEMMA DebitedHeld ==
    ASSUME NEW n, NEW e, Enumeration(n, e), NEW balances \in [Account -> Nat],
           NEW account \in Account, NEW amount \in Nat, amount <= balances[account]
    PROVE  /\ Debited(balances, account, amount) \in [Account -> Nat]
           /\ HeldBy(Debited(balances, account, amount), n, e) = HeldBy(balances, n, e) - amount
<1> DEFINE after == Debited(balances, account, amount)
<1>1. balances[account] \in Nat /\ balances[account] - amount \in Nat
  OBVIOUS
<1>2. /\ after \in [Account -> Nat] /\ after[account] = balances[account] - amount
      /\ \A a \in Account : a # account => after[a] = balances[a]
  BY <1>1 DEF Debited
<1> DEFINE x == balances[account]
           h == HeldBy(balances, n, e)
           g == HeldBy(after, n, e)
<1> HIDE DEF after
<1>3. h \in Nat /\ g \in Nat /\ g + x = h + after[account]
  BY <1>2, OneBalance
<1>4. after[account] = x - amount /\ x \in Nat
  BY <1>1, <1>2
<1> HIDE DEF x, h, g
<1>5. g = h - amount
  BY <1>3, <1>4
<1> QED
  BY <1>2, <1>5 DEF after, g, h

\* An issuance adds the fee and the recipient's share, which are the amount.
LEMMA IssuedHeld ==
    ASSUME NEW n, NEW e, Enumeration(n, e), NEW balances \in [Account -> Nat],
           NEW account \in Account, NEW amount \in Nat
    PROVE  HeldBy(Issued(balances, account, amount), n, e) = HeldBy(balances, n, e) + amount
<1> DEFINE credited == Credited(balances, TreasuryAccount, FeeOn(amount))
<1>1. /\ FeeOn(amount) \in Nat /\ RecipientShare(amount) \in Nat
      /\ FeeOn(amount) + RecipientShare(amount) = amount
  BY FeeWithin
<1>2. /\ credited \in [Account -> Nat]
      /\ HeldBy(credited, n, e) = HeldBy(balances, n, e) + FeeOn(amount)
  BY <1>1, CreditedHeld, LedgerAccountsAssumption
<1>3. HeldBy(balances, n, e) \in Nat
  BY OneBalance
<1> HIDE DEF credited
<1>4. HeldBy(Credited(credited, account, RecipientShare(amount)), n, e)
        = HeldBy(credited, n, e) + RecipientShare(amount)
  BY <1>1, <1>2, CreditedHeld
<1>5. HeldBy(Credited(credited, account, RecipientShare(amount)), n, e)
        = HeldBy(balances, n, e) + amount
  BY <1>1, <1>2, <1>3, <1>4
<1> QED
  BY <1>5 DEF Issued, credited

LEMMA Enumerable == \E n, e : Enumeration(n, e)
<1>1. PICK n \in Nat : ExistsBijection(1 .. n, Account)
  BY LedgerAccountsAssumption, FS_NatBijection
<1>2. PICK e : e \in Bijection(1 .. n, Account)
  BY <1>1 DEF ExistsBijection
<1>3. /\ e \in [1 .. n -> Account]
      /\ \A i, j \in 1 .. n : e[i] = e[j] => i = j
      /\ \A a \in Account : \E i \in 1 .. n : e[i] = a
  BY <1>2 DEF Bijection, Injection, Surjection, IsInjective
<1> QED
  BY <1>3 DEF Enumeration

-----------------------------------------------------------------------------
(* What the page counts on. *)

InRange ==
    /\ supply <= MaxU64
    /\ Len(reserves) <= MaxAttestations
    /\ \A i \in DOMAIN reserves : reserves[i].amount <= MaxU64 /\ reserves[i].attestedAt <= now
    /\ terms.maxAge > 0

PInv == LInv /\ SupplyHeld /\ InRange

LEMMA PageInitInv ==
    ASSUME LedgerInit
    PROVE  PInv
<1> DEFINE empty == [a \in Account |-> 0]
<1>1. PICK amount \in ReserveAmounts, at \in FirstDates, initial \in Amounts \cup {0} :
        /\ Init
        /\ WithinReserve([amount |-> amount, attestor |-> terms.attestor, attestedAt |-> at],
                         0, initial)
        /\ reserves = <<[amount |-> amount, attestor |-> terms.attestor, attestedAt |-> at]>>
        /\ balance = Issued(empty, FounderAccount, initial)
        /\ supply = initial
  BY DEF LedgerInit
<1>2. initial \in Nat /\ initial <= MaxU64 /\ amount \in Nat /\ amount <= MaxU64
  BY WidthAssumption, AmountsAssumption
<1>3. SupplyHeld
  <2> SUFFICES ASSUME NEW n, NEW e, Enumeration(n, e)
               PROVE  supply = HeldBy(balance, n, e)
    BY DEF SupplyHeld
  <2> DEFINE zeros == [i \in 1 .. n |-> empty[e[i]]]
  <2>1. n \in Nat /\ e \in [1 .. n -> Account]
    BY DEF Enumeration
  <2>2. zeros \in Seq(Nat) /\ Len(zeros) = n /\ \A i \in 1 .. n : zeros[i] = 0
    BY <2>1
  <2>3. HeldBy(empty, n, e) = SumOf(zeros)
    BY DEF HeldBy
  <2>4. empty \in [Account -> Nat] /\ FounderAccount \in Account
    BY LedgerAccountsAssumption
  <2> HIDE DEF zeros, empty
  <2>5. HeldBy(empty, n, e) = 0
    BY <2>1, <2>2, <2>3, SumIsNumber
  <2>6. HeldBy(balance, n, e) = 0 + initial
    BY <1>1, <1>2, <2>4, <2>5, IssuedHeld
  <2> QED
    BY <1>1, <1>2, <2>6
<1>4. InRange
  <2>1. /\ reserves[1].amount = amount /\ reserves[1].attestedAt = at
        /\ DOMAIN reserves = {1} /\ Len(reserves) = 1
    BY <1>1
  <2>2. at <= now
    BY <1>1 DEF WithinReserve
  <2>3. terms.maxAge \in 1 .. MaxAgeLimit
    BY <1>1 DEF Init, ValidTerms
  <2>4. terms.maxAge > 0
    BY <2>3
  <2> QED
    BY <1>1, <1>2, <2>1, <2>2, <2>4, ReserveAssumption DEF InRange
<1> QED
  BY <1>3, <1>4, LedgerInitInv DEF PInv

\* The tokens that move are those that are there.
LEMMA SupplyFollows ==
    ASSUME LInv, SupplyHeld, [LedgerNext]_lvars
    PROVE  SupplyHeld'
<1> SUFFICES ASSUME NEW n, NEW e, Enumeration(n, e)
             PROVE  supply' = HeldBy(balance', n, e)
  BY DEF SupplyHeld, HeldBy, Enumeration
<1>1. balance \in [Account -> Nat] /\ supply = HeldBy(balance, n, e)
  BY LedgerTypes DEF LInv, TokenTypeOK, SupplyHeld
<1>2. CASE Mints
  <2>1. PICK account \in Account, amount \in Nat :
          /\ balance' = Issued(balance, account, amount)
          /\ supply' = supply + FeeOn(amount) + RecipientShare(amount)
    BY <1>2 DEF Mints, MintTokens
  <2>2. HeldBy(balance', n, e) = supply + amount
    BY <1>1, <2>1, IssuedHeld
  <2>3. /\ supply \in Int /\ FeeOn(amount) \in Nat /\ RecipientShare(amount) \in Nat
        /\ FeeOn(amount) + RecipientShare(amount) = amount
    <3>1. supply \in Int
      BY LedgerTypes DEF LInv, TokenTypeOK
    <3> QED
      BY <3>1, FeeWithin
  <2> QED
    BY <2>1, <2>2, <2>3
<1>3. ASSUME NEW from \in Account, NEW to \in Account, NEW amount \in Nat,
             amount <= balance[from], UNCHANGED supply,
             balance' = Credited(Debited(balance, from, amount), to, amount)
      PROVE  supply' = HeldBy(balance', n, e)
  <2> DEFINE debited == Debited(balance, from, amount)
  <2>1. debited \in [Account -> Nat] /\ HeldBy(debited, n, e) = HeldBy(balance, n, e) - amount
    BY <1>1, <1>3, DebitedHeld
  <2>2. balance' = Credited(debited, to, amount)
    BY <1>3
  <2> HIDE DEF debited
  <2>3. HeldBy(balance', n, e) = HeldBy(debited, n, e) + amount
    BY <2>1, <2>2, CreditedHeld
  <2>4. supply \in Int
    BY LedgerTypes DEF LInv, TokenTypeOK
  <2> QED
    BY <1>1, <1>3, <2>1, <2>3, <2>4
<1>4. CASE Seizes
  BY <1>3, <1>4, LedgerAccountsAssumption DEF Seizes, Seize, Debited
<1>5. CASE Moves
  BY <1>3, <1>5 DEF Moves, MoveTokens, Debited
<1>6. CASE Burns
  <2>1. PICK account \in Account, amount \in Nat :
          /\ amount <= balance[account]
          /\ balance' = Debited(balance, account, amount)
          /\ supply' = supply - amount
    BY <1>6 DEF Burns, Burn, Debited
  <2>2. HeldBy(balance', n, e) = HeldBy(balance, n, e) - amount
    BY <1>1, <2>1, DebitedHeld
  <2> QED
    BY <1>1, <2>1, <2>2
<1>7. CASE NextAttestation \/ Proposes \/ Switches \/ HoldersMove \/ UNCHANGED lvars
  <2>1. UNCHANGED <<supply, balance>>
    BY <1>7, TokensStay DEF lvars, token
  <2> QED
    BY <1>1, <2>1
<1> QED
  BY <1>2, <1>4, <1>5, <1>6, <1>7, LedgerSteps

\* The clock does not go back, and the terms stay valid.
LEMMA GovernedInTime ==
    ASSUME LInv, [LedgerNext]_lvars, terms.maxAge > 0
    PROVE  now <= now' /\ terms'.maxAge > 0
<1>1. now \in Nat /\ TypeOK
  BY DEF LInv, IInv, TypeOK, ProposalsTypeOK
<1>2. ASSUME Next
      PROVE  now <= now' /\ terms'.maxAge > 0
  <2>1. ASSUME NEW body, NEW listed, Effect(body, listed)
        PROVE  terms'.maxAge > 0
    <3>1. terms' = terms \/ terms'.maxAge \in 1 .. MaxAgeLimit
      BY <2>1 DEF Effect, ValidTerms, governed
    <3> QED
      BY <3>1
  <2>2. CASE RaisedShape \/ ApprovedShape \/ ClosedShape
    <3>1. UNCHANGED <<now, terms>>
      BY <2>2 DEF RaisedShape, Propose, ApprovedShape, Approve, ClosedShape, CloseProposal,
         governed
    <3> QED
      BY <1>1, <3>1
  <2>3. CASE ClockShape
    BY <1>1, <2>3 DEF ClockShape, Tick, governed
  <2>4. CASE SignedShape
    BY <1>1, <2>1, <2>4 DEF SignedShape, Signed
  <2>5. CASE ExecutedShape
    BY <1>1, <2>1, <2>5 DEF ExecutedShape, Executed
  <2> QED
    BY <1>1, <1>2, <2>2, <2>3, <2>4, <2>5, StepShapes
<1>3. CASE HoldersMove
  <2>1. Next \/ UNCHANGED vars
    BY <1>3, HolderStepsLeaveGovernance DEF HoldersMove, Govern
  <2>2. UNCHANGED vars => UNCHANGED <<now, terms>>
    BY DEF vars, governed
  <2> QED
    BY <1>1, <1>2, <2>1, <2>2
<1>4. CASE ~HoldersMove
  <2>1. NextAttestation \/ Burns \/ UNCHANGED lvars => UNCHANGED <<now, terms>>
    BY DEF NextAttestation, AttestReserve, Burns, Burn, lvars, hvars, vars, governed
  <2>2. Proposes => UNCHANGED <<now, terms>>
    BY DEF Proposes, ProposeOrder, Propose, governed
  <2>3. Mints \/ Seizes \/ Switches => UNCHANGED <<now, terms>>
    <3>1. Mints => UNCHANGED <<now, terms>>
      BY DEF Mints, MintTokens, Executed, governed
    <3>2. Seizes => UNCHANGED <<now, terms>>
      BY DEF Seizes, Seize, Executed, governed
    <3>3. Switches => UNCHANGED <<now, terms>>
      BY DEF Switches, ChangeCirculation, Executed, governed
    <3> QED
      BY <3>1, <3>2, <3>3
  <2>4. Moves => UNCHANGED <<now, terms>>
    BY DEF Moves, MoveTokens, TransferTokens, vars, governed
  <2>5. UNCHANGED <<now, terms>>
    BY <1>4, <2>1, <2>2, <2>3, <2>4, LedgerSteps
  <2> QED
    BY <1>1, <2>5
<1> QED
  BY <1>3, <1>4

LEMMA RangeKept ==
    ASSUME LInv, SupplyHeld, InRange, [LedgerNext]_lvars
    PROVE  InRange'
<1>1. /\ supply \in Int /\ supply <= MaxU64 /\ balance \in [Account -> Nat]
      /\ reserves \in Seq(ReserveAttestation) /\ now \in Nat
  BY LedgerTypes DEF LInv, IInv, TypeOK, ProposalsTypeOK, TokenTypeOK, InRange
<1>2. now <= now' /\ terms'.maxAge > 0
  BY GovernedInTime DEF InRange
<1>3. now' \in Nat
  BY LedgerNextInv DEF LInv, IInv, TypeOK, ProposalsTypeOK
<1>4. supply' <= MaxU64
  <2>1. CASE Mints
    <3>1. PICK amount \in Nat :
            /\ supply + amount <= MaxU64
            /\ supply' = supply + FeeOn(amount) + RecipientShare(amount)
      BY <2>1 DEF Mints, MintTokens, MayIssue
    <3>2. /\ FeeOn(amount) \in Nat /\ RecipientShare(amount) \in Nat
          /\ FeeOn(amount) + RecipientShare(amount) = amount
      BY FeeWithin
    <3> DEFINE fee == FeeOn(amount)
               share == RecipientShare(amount)
    <3> HIDE DEF fee, share
    <3>3. supply' = supply + fee + share /\ fee \in Nat /\ share \in Nat /\ fee + share = amount
      BY <3>1, <3>2 DEF fee, share
    <3> QED
      BY <1>1, <3>1, <3>3, WidthAssumption
  <2>2. CASE Burns
    BY <1>1, <2>2, WidthAssumption DEF Burns, Burn
  <2>3. CASE ~Mints /\ ~Burns
    BY <1>1, <2>3, TokensStay, LedgerSteps DEF lvars, token
  <2> QED
    BY <2>1, <2>2, <2>3
<1>5. /\ Len(reserves') <= MaxAttestations
      /\ \A i \in DOMAIN reserves' :
           reserves'[i].amount <= MaxU64 /\ reserves'[i].attestedAt <= now'
  <2>1. ASSUME NEW i \in DOMAIN reserves
        PROVE  reserves[i].amount <= MaxU64 /\ reserves[i].attestedAt <= now'
    <3>1. reserves[i].attestedAt <= now /\ reserves[i].amount <= MaxU64
      BY DEF InRange
    <3>2. reserves[i].attestedAt \in Nat
      <4>1. reserves[i] \in ReserveAttestation
        BY <1>1
      <4> QED
        BY <4>1 DEF ReserveAttestation
    <3> QED
      BY <1>1, <1>2, <1>3, <3>1, <3>2
  <2>2. CASE NextAttestation
    <3>1. PICK attestor \in Attestors, amount \in ReserveAmounts, at \in 1 .. MaxTime :
            /\ Len(reserves) < MaxAttestations
            /\ at <= now
            /\ reserves' = Append(reserves,
                 [amount |-> amount, attestor |-> attestor, attestedAt |-> at])
      BY <2>2 DEF NextAttestation, AttestReserve
    <3>2. amount <= MaxU64 /\ at <= now'
      BY <1>1, <1>2, <1>3, <3>1, WidthAssumption, AmountsAssumption, BoundAssumption
    <3> DEFINE published == [amount |-> amount, attestor |-> attestor, attestedAt |-> at]
    <3>3. published.amount <= MaxU64 /\ published.attestedAt <= now'
      BY <3>2
    <3>4. reserves' = Append(reserves, published)
      BY <3>1
    <3> HIDE DEF published
    <3> QED
      BY <1>1, <2>1, <3>1, <3>3, <3>4, ReserveAssumption
  <2>3. CASE ~NextAttestation
    <3>1. UNCHANGED reserves
      BY <2>3, LedgerSteps DEF Proposes, ProposeOrder, Mints, MintTokens, Seizes, Seize,
         Switches, ChangeCirculation, Moves, MoveTokens, Burns, Burn, HoldersMove, lvars, token
    <3> QED
      BY <2>1, <3>1 DEF InRange
  <2> QED
    BY <2>2, <2>3
<1> QED
  BY <1>2, <1>4, <1>5 DEF InRange

THEOREM PageInvariance == LedgerSpec => []PInv
<1>1. LedgerInit => PInv
  BY PageInitInv
<1>2. PInv /\ [LedgerNext]_lvars => PInv'
  <2>1. SUFFICES ASSUME PInv, [LedgerNext]_lvars PROVE PInv'
    OBVIOUS
  <2>2. LInv' /\ SupplyHeld' /\ InRange'
    BY <2>1, LedgerNextInv, SupplyFollows, RangeKept DEF PInv
  <2> QED
    BY <2>2 DEF PInv
<1> QED
  BY <1>1, <1>2, PTL DEF LedgerSpec

\* The mint's supply is what the accounts hold together, whatever is issued, seized,
\* transferred and burnt, and whichever accounts there are.
THEOREM SupplyIsHeld == LedgerSpec => []SupplyHeld
<1>1. PInv => SupplyHeld
  BY DEF PInv
<1> QED
  BY <1>1, PageInvariance, PTL

\* The record the page reads, and what it makes of it.
ReplacedIn(read) == \E record \in read.latest : record.attestor # read.attestor

LEMMA PageOfLatest ==
    ASSUME PInv
    PROVE  LET last == reserves[Len(reserves)]
           IN  /\ Len(reserves) \in DOMAIN reserves /\ last \in ReserveAttestation
               /\ PublicToken =
                    [circulation |-> supply, reserve |-> last.amount,
                     difference |-> last.amount - supply, attestationMaxAge |-> terms.maxAge,
                     attestation |->
                       {[index |-> Len(reserves), attestor |-> last.attestor,
                         attestedAt |-> last.attestedAt,
                         expiresAt |-> last.attestedAt + terms.maxAge,
                         ageSeconds |-> IF last.attestedAt < now
                                        THEN now - last.attestedAt ELSE 0]},
                     expired |-> Expired(ReadTerms, now),
                     attestorReplaced |-> ReplacedIn(ReadTerms),
                     feeBps |-> FeeBps, paused |-> paused, asOf |-> now]
               /\ Expired(ReadTerms, now) <=> now - last.attestedAt > terms.maxAge
               /\ ReplacedIn(ReadTerms) <=> last.attestor # terms.attestor
<1> DEFINE n == Len(reserves)
           last == reserves[n]
           r == [index |-> n, amount |-> last.amount, attestor |-> last.attestor,
                 attestedAt |-> last.attestedAt]
           read == ReadTerms
           shown == [index |-> n, attestor |-> last.attestor, attestedAt |-> last.attestedAt,
                     expiresAt |-> last.attestedAt + terms.maxAge,
                     ageSeconds |-> IF last.attestedAt < now THEN now - last.attestedAt ELSE 0]
<1>1. reserves \in Seq(ReserveAttestation) /\ reserves # <<>>
  BY LedgerTypes DEF PInv, LInv, TokenTypeOK
<1>2. n \in Nat /\ n # 0 /\ n \in DOMAIN reserves
  BY <1>1
<1>3. last \in ReserveAttestation
  BY <1>1, <1>2
<1>4. read.latest = {r} /\ read.attestor = terms.attestor /\ read.maxAge = terms.maxAge
  <2>1. {n} \ {0} = {n}
    BY <1>2
  <2> QED
    BY <2>1 DEF ReadTerms
<1>5. /\ r.index = n /\ r.amount = last.amount /\ r.attestor = last.attestor
      /\ r.attestedAt = last.attestedAt
  OBVIOUS
<1> HIDE DEF r, read, last, n
<1>6. /\ (CHOOSE record \in read.latest : TRUE) = r /\ read.latest # {}
      /\ Expired(read, now) <=> now - last.attestedAt > terms.maxAge
      /\ ReplacedIn(read) <=> last.attestor # terms.attestor
  BY <1>4, <1>5 DEF Expired, ReplacedIn
<1>7. {[index |-> record.index, attestor |-> record.attestor,
        attestedAt |-> record.attestedAt,
        expiresAt |-> record.attestedAt + read.maxAge,
        ageSeconds |-> IF record.attestedAt < now THEN now - record.attestedAt ELSE 0] :
           record \in read.latest} = {shown}
  BY <1>4, <1>5
<1>8. ReserveStanding(read, supply, now) =
        [circulation |-> supply, reserve |-> last.amount, difference |-> last.amount - supply,
         attestation |-> {shown}, expired |-> Expired(read, now),
         attestorReplaced |-> ReplacedIn(read)]
  BY <1>5, <1>6, <1>7 DEF ReserveStanding, ReplacedIn
<1>9. PublicToken =
        [circulation |-> supply, reserve |-> last.amount, difference |-> last.amount - supply,
         attestationMaxAge |-> terms.maxAge, attestation |-> {shown},
         expired |-> Expired(read, now), attestorReplaced |-> ReplacedIn(read),
         feeBps |-> FeeBps, paused |-> paused, asOf |-> now]
  BY <1>8 DEF PublicToken, read
<1> QED
  BY <1>2, <1>3, <1>6, <1>9 DEF read, last, n

\* The page and the program's gate agree at every instant: only the latest attestation
\* can open the gate, and it does for an amount exactly when the page shows neither that
\* it has expired nor that its attestor was replaced, and at least that much room.
THEOREM PageAgreesWithGate == LedgerSpec => []PageMirrorsGate
<1>1. PInv => PageMirrorsGate
  <2> SUFFICES ASSUME PInv PROVE PageMirrorsGate
    OBVIOUS
  <2> DEFINE n == Len(reserves)
             last == reserves[n]
             page == PublicToken
  <2>1. supply \in Nat
    <3>1. PICK m, e : Enumeration(m, e)
      BY Enumerable
    <3>2. balance \in [Account -> Nat] /\ supply = HeldBy(balance, m, e)
      BY <3>1, LedgerTypes DEF PInv, LInv, TokenTypeOK, SupplyHeld
    <3> QED
      BY <3>1, <3>2, OneBalance, LedgerAccountsAssumption
  <2>2. n \in DOMAIN reserves /\ last \in ReserveAttestation
    BY PageOfLatest
  <2>3. /\ n \in Nat /\ n <= MaxU64
        /\ supply <= MaxU64 /\ last.amount <= MaxU64 /\ last.attestedAt <= now
    <3>1. n \in Nat
      BY LedgerTypes DEF PInv, LInv, TokenTypeOK
    <3>2. n <= MaxAttestations /\ MaxAttestations \in Nat /\ MaxAttestations <= MaxU64
      BY ReserveAssumption, AmountsAssumption, WidthAssumption DEF PInv, InRange
    <3> QED
      BY <2>2, <3>1, <3>2, WidthAssumption DEF PInv, InRange
  <2>4. /\ last.amount \in Nat /\ last.attestor \in Wallet /\ last.attestedAt \in Nat
        /\ now \in Nat /\ terms.maxAge \in Nat /\ terms.maxAge > 0 /\ paused \in BOOLEAN
    BY <2>2, LedgerTypes DEF ReserveAttestation, PInv, LInv, InRange, TokenTypeOK, IInv, TypeOK,
       ProposalsTypeOK, Terms
  <2> DEFINE shown == [index |-> n, attestor |-> last.attestor, attestedAt |-> last.attestedAt,
                       expiresAt |-> last.attestedAt + terms.maxAge,
                       ageSeconds |-> IF last.attestedAt < now
                                      THEN now - last.attestedAt ELSE 0]
  <2>5. /\ page.circulation = supply /\ page.reserve = last.amount
        /\ page.difference = last.amount - supply /\ page.attestation = {shown}
        /\ page.asOf = now
        /\ page.expired <=> now - last.attestedAt > terms.maxAge
        /\ page.attestorReplaced <=> last.attestor # terms.attestor
    BY PageOfLatest
  <2>6. page \in publicTokenSchema
    <3>1. shown \in [index : 0 .. MaxU64, attestor : Wallet, attestedAt : Nat,
                     expiresAt : Nat, ageSeconds : Nat]
      BY <2>3, <2>4
    <3>2. Expired(ReadTerms, now) \in BOOLEAN /\ ReplacedIn(ReadTerms) \in BOOLEAN
      BY DEF Expired, ReplacedIn
    <3> HIDE DEF shown
    <3>3. page = [circulation |-> supply, reserve |-> last.amount,
                  difference |-> last.amount - supply, attestationMaxAge |-> terms.maxAge,
                  attestation |-> {shown},
                  expired |-> Expired(ReadTerms, now),
                  attestorReplaced |-> ReplacedIn(ReadTerms),
                  feeBps |-> FeeBps, paused |-> paused, asOf |-> now]
      BY PageOfLatest DEF shown
    <3> HIDE DEF page, last
    <3> QED
      BY <2>1, <2>3, <2>4, <3>1, <3>2, <3>3, FeeAssumption, WidthAssumption DEF publicTokenSchema
  <2>7. ASSUME NEW amount \in 0 .. MaxU64 - supply
        PROVE  (\E index \in DOMAIN reserves :
                  RequireLatest(index) /\ WithinReserve(reserves[index], supply, amount))
                 <=> ~page.expired /\ ~page.attestorReplaced /\ amount <= page.difference
    <3>1. amount \in Nat /\ SaturatingAdd(supply, amount) = supply + amount
      BY <2>1, <2>7, WidthAssumption DEF SaturatingAdd
    <3>2. (\E index \in DOMAIN reserves :
             RequireLatest(index) /\ WithinReserve(reserves[index], supply, amount))
            <=> last.attestor = terms.attestor /\ WithinReserve(last, supply, amount)
      BY <2>2 DEF RequireLatest
    <3>3. WithinReserve(last, supply, amount)
            <=> now - last.attestedAt <= terms.maxAge /\ supply + amount <= last.amount
      BY <2>3, <3>1 DEF WithinReserve
    <3>4. supply + amount <= last.amount <=> amount <= last.amount - supply
      BY <2>1, <2>4, <3>1
    <3> QED
      BY <2>4, <2>5, <3>2, <3>3, <3>4
  <2>8. page.attestorReplaced <=> ~\E index \in DOMAIN reserves : RequireLatest(index)
    BY <2>2, <2>5 DEF RequireLatest
  <2>9. page.expired <=> ~WithinReserve([last EXCEPT !.amount = MaxU64], 0, 0)
    <3> DEFINE ample == [last EXCEPT !.amount = MaxU64]
    <3>1. ample.amount = MaxU64 /\ ample.attestedAt = last.attestedAt
      BY <2>2 DEF ReserveAttestation
    <3>2. SaturatingAdd(0, 0) <= MaxU64
      BY WidthAssumption DEF SaturatingAdd
    <3> HIDE DEF ample
    <3>3. WithinReserve(ample, 0, 0) <=> now - last.attestedAt <= terms.maxAge
      BY <2>3, <3>1, <3>2 DEF WithinReserve
    <3> QED
      BY <2>4, <2>5, <3>3 DEF ample
  <2>10. \A record \in page.attestation : page.expired <=> page.asOf > record.expiresAt
    <3>1. shown.expiresAt = last.attestedAt + terms.maxAge
      OBVIOUS
    <3>2. now - last.attestedAt > terms.maxAge <=> now > last.attestedAt + terms.maxAge
      BY <2>4
    <3> HIDE DEF shown
    <3> QED
      BY <2>5, <3>1, <3>2
  <2> HIDE DEF page
  <2> QED
    BY <2>6, <2>7, <2>8, <2>9, <2>10 DEF PageMirrorsGate, page
<1> QED
  BY <1>1, PageInvariance, PTL

=============================================================================
