------------------------------ MODULE Holders ------------------------------
(***************************************************************************)
(* Those who hold the token: their onboarding and status                   *)
(* (instructions/thaw_holder.rs, state/holder.rs), an officer's freezes    *)
(* (instructions/freeze.rs, state/freeze.rs) and their transfers, as the   *)
(* hook sees them (hook/execute.rs), under the governance of Governance:   *)
(* its delegation says what the platform's key may do, its policy versions *)
(* what the hook asks.                                                     *)
(*                                                                         *)
(* Of the token program only what the hook relies on is here: an account   *)
(* starts frozen, and a frozen one neither sends nor receives. transfers   *)
(* is history: the transfers on the ledger, which no instruction reads.    *)
(***************************************************************************)
EXTENDS Governance, TransferRules, FiniteSetsExt

CONSTANTS
    Account,      \* the token accounts of the mint
    OwnerOf,      \* their owners
    Statuses,     \* the statuses that thaw_holder and set_holder_status bring
    Attestations, \* bound: what a provider may say of a wallet, as the hook reads it
    Amounts,      \* bound: the amounts transferred
    Routes,       \* bound: the pairs of accounts transferred between
    NoAccount,    \* what an address holds when no account is there
    Epoch,        \* zero of the Unix clock, on the clock of the model
    MaxTransfers  \* bound: how many transfers are ever made

ASSUME OwnerAssumption == OwnerOf \in [Account -> Wallet] /\ Routes \subseteq Account \X Account
\* layout::validate accepts no window of no length.
ASSUME RulesAssumption ==
    /\ Rules \subseteq PolicyView
    /\ \A rules \in Rules : \A limit \in rules.periodLimit : limit.window > 0
ASSUME StatusesAssumption ==
    /\ Statuses \subseteq StatusRecord
    /\ Attestations \subseteq StatusRecord \cup {Unavailable, Absent}
    /\ Amounts \subseteq Nat /\ MaxTransfers \in Nat
\* No window is open since the epoch.
ASSUME EpochAssumption ==
    /\ Epoch \in Int
    /\ \A rules \in Rules : \A limit \in rules.periodLimit : Epoch + limit.window <= 1

VARIABLES
    accountState, \* the token accounts' own state
    statuses,     \* the HolderStatus accounts, by wallet
    counters,     \* the VelocityCounter accounts, by wallet
    freezes,      \* the FreezeRecord accounts, by token account
    attestations, \* what the provider's attestation accounts say, by wallet
    transfers     \* history

Holder == {OwnerOf[a] : a \in Account}
FreezeRecord == [officer : Wallet, wasThawed : BOOLEAN]
Transfer == [from : Account, to : Account, amount : Nat, at : Nat, version : Nat]

ASSUME NoAccountAssumption ==
    NoAccount \notin StatusRecord \cup Counter \cup FreezeRecord

held == <<accountState, statuses, counters, freezes, attestations, transfers>>
hvars == <<vars, held>>

-----------------------------------------------------------------------------
HoldersInit ==
    /\ Init
    /\ accountState = [a \in Account |-> "frozen"]
    /\ statuses = [w \in Wallet |-> NoAccount]
    /\ counters = [w \in Wallet |-> NoAccount]
    /\ freezes = [a \in Account |-> NoAccount]
    /\ attestations = [w \in Wallet |-> Absent]
    /\ transfers = <<>>

-----------------------------------------------------------------------------
\* HolderStatusInput::validate: a status may not have ended already.
ValidStatus(status) == \A at \in status.expires : at > now

\* A slip of thaw_holder: the freeze record is not looked at.
MayThawAnyway(account, authority) ==
    RequireRoutine(members, delegation, authority, "thaw_holder")

\* thaw_holder, signed by a member or by the platform's key if it has the power,
\* of an account that no officer has frozen.
MayThaw(account, authority) ==
    /\ RequireRoutine(members, delegation, authority, "thaw_holder")
    /\ freezes[account] = NoAccount

\* A slip of thaw_holder: the counter starts over.
CounterAfreshAfterThaw(w) == [start |-> Epoch, spent |-> 0]

\* The counter is created beside the first status, and kept from then on.
CounterAfterThaw(w) ==
    IF counters[w] = NoAccount THEN [start |-> Epoch, spent |-> 0] ELSE counters[w]

Thawed(account) ==
    /\ accountState' = [accountState EXCEPT ![account] = "thawed"]
    /\ counters' = [counters EXCEPT ![OwnerOf[account]] = CounterAfterThaw(OwnerOf[account])]
    /\ UNCHANGED <<vars, freezes, attestations, transfers>>

\* thaw_holder of a new holder: the status comes with it.
ThawNewHolder(account, authority, status) ==
    /\ MayThaw(account, authority)
    /\ statuses[OwnerOf[account]] = NoAccount
    /\ ValidStatus(status)
    /\ statuses' = [statuses EXCEPT ![OwnerOf[account]] = status]
    /\ Thawed(account)

\* thaw_holder of another account, or again: it brings no status.
ThawKnownHolder(account, authority) ==
    /\ MayThaw(account, authority)
    /\ statuses[OwnerOf[account]] # NoAccount
    /\ UNCHANGED statuses
    /\ Thawed(account)

\* set_holder_status, of a wallet that has one.
SetHolderStatus(w, authority, status) ==
    /\ RequireRoutine(members, delegation, authority, "set_holder_status")
    /\ statuses[w] # NoAccount
    /\ ValidStatus(status)
    /\ statuses' = [statuses EXCEPT ![w] = status]
    /\ UNCHANGED <<vars, accountState, counters, freezes, attestations, transfers>>

-----------------------------------------------------------------------------
\* freeze_holder: one record to an account, of who froze it and whether it had
\* been thawed.
FreezeHolder(account, officer) ==
    /\ RequireOfficer(members, officer)
    /\ freezes[account] = NoAccount
    /\ freezes' = [freezes EXCEPT ![account] =
         [officer |-> officer, wasThawed |-> accountState[account] = "thawed"]]
    /\ accountState' = [accountState EXCEPT ![account] = "frozen"]
    /\ UNCHANGED <<vars, statuses, counters, attestations, transfers>>

\* A slip of unfreeze_holder: whatever it was, the account is thawed.
StateAfterAnyUnfreeze(account) == "thawed"

\* The state the account was frozen in.
StateAfterUnfreeze(account) ==
    IF freezes[account].wasThawed THEN "thawed" ELSE accountState[account]

\* unfreeze_holder: any officer may, and the record is closed.
UnfreezeHolder(account, officer) ==
    /\ RequireOfficer(members, officer)
    /\ freezes[account] # NoAccount
    /\ accountState' = [accountState EXCEPT ![account] = StateAfterUnfreeze(account)]
    /\ freezes' = [freezes EXCEPT ![account] = NoAccount]
    /\ UNCHANGED <<vars, statuses, counters, attestations, transfers>>

-----------------------------------------------------------------------------
\* The provider attests, corrects or withdraws.
Attest(w, answer) ==
    /\ attestations' = [attestations EXCEPT ![w] = answer]
    /\ UNCHANGED <<vars, accountState, statuses, counters, freezes, transfers>>

\* What the hook reads of a wallet: read_holder and attestation::read.
PartyOf(w) ==
    [provider |-> attestations[w],
     register |-> IF statuses[w] = NoAccount THEN Absent ELSE statuses[w]]

\* The context of a transfer whose account list names one policy version.
ContextOf(sender, recipient, amount, version) ==
    [sender |-> PartyOf(sender), recipient |-> PartyOf(recipient), amount |-> amount,
     velocity |-> {counters[sender]} \ {NoAccount},
     mintPolicyVersion |-> policyVersion, policyVersion |-> version, now |-> now]

\* What the hook decides, on the named version.
HookAllows(sender, recipient, amount, version) ==
    Allowed(policies[version].rules, ContextOf(sender, recipient, amount, version))

\* A transfer between two accounts, and the hook's execute: the token program asks
\* both accounts to be thawed; the sender's counter moves after an allow only.
TransferTokens(from, to, amount, version) ==
    LET sender == OwnerOf[from]
        rules == policies[version].rules
    IN  /\ from # to
        /\ accountState[from] = "thawed" /\ accountState[to] = "thawed"
        /\ policies[version] # NoPolicy
        /\ HookAllows(sender, OwnerOf[to], amount, version)
        /\ counters' = [counters EXCEPT ![sender] =
             IF @ = NoAccount THEN @ ELSE Counted(@, rules, amount, now)]
        /\ transfers' = Append(transfers,
             [from |-> from, to |-> to, amount |-> amount, at |-> now, version |-> version])
        /\ Len(transfers) < MaxTransfers
        /\ UNCHANGED <<vars, accountState, statuses, freezes, attestations>>

-----------------------------------------------------------------------------
\* Kinds bounds these as it does the members' other actions.
NextThaw ==
    \E account \in Account, w \in {x \in Wallet : "ThawHolder" \in Kinds} :
      \/ \E status \in Statuses : ThawNewHolder(account, w, status)
      \/ ThawKnownHolder(account, w)

NextFreeze ==
    \E account \in Account, w \in {x \in Wallet : "FreezeHolder" \in Kinds} :
      FreezeHolder(account, w) \/ UnfreezeHolder(account, w)

NextStatus ==
    \E w \in Holder :
      \/ \E authority \in {x \in Wallet : "SetHolderStatus" \in Kinds}, status \in Statuses :
           SetHolderStatus(w, authority, status)
      \/ \E answer \in Attestations : Attest(w, answer)

NextTransfer ==
    \E route \in Routes, amount \in Amounts, version \in 1 .. MaxVersion :
      TransferTokens(route[1], route[2], amount, version)

Govern == Next /\ UNCHANGED held

HoldersNext == NextThaw \/ NextFreeze \/ NextStatus \/ NextTransfer \/ Govern

HoldersSpec == HoldersInit /\ [][HoldersNext]_hvars

-----------------------------------------------------------------------------
(* Properties *)

\* Every variable keeps its type.
HoldersTypeOK ==
    /\ TypeOK
    /\ accountState \in [Account -> {"frozen", "thawed"}]
    /\ statuses \in [Wallet -> StatusRecord \cup {NoAccount}]
    /\ counters \in [Wallet -> Counter \cup {NoAccount}]
    /\ freezes \in [Account -> FreezeRecord \cup {NoAccount}]
    /\ attestations \in [Wallet -> StatusRecord \cup {Unavailable, Absent}]
    /\ transfers \in Seq(Transfer)

\* What an officer froze stays frozen for as long as the record stands, whoever
\* thaws what in the meantime (FR-014, FR-035).
FreezesHold == \A a \in Account : freezes[a] # NoAccount => accountState[a] = "frozen"

\* No account is thawed whose owner was never onboarded, by whatever sequence of
\* thaws, freezes and unfreezes: its owner has a status and a counter, and has
\* them already when a frozen account is to be thawed on unfreezing (FR-008b).
ThawedNowOrLater(a) ==
    accountState[a] = "thawed" \/ (freezes[a] # NoAccount /\ freezes[a].wasThawed)
ThawedAreOnboarded ==
    \A a \in Account :
      ThawedNowOrLater(a) => statuses[OwnerOf[a]] # NoAccount /\ counters[OwnerOf[a]] # NoAccount

\* What a wallet has sent under one policy version, over some instants: the sum of
\* the amounts of those transfers.
SumOf(amounts) ==
    LET sum[n \in 0 .. Len(amounts)] == IF n = 0 THEN 0 ELSE sum[n - 1] + amounts[n]
    IN  sum[Len(amounts)]

SentBy(t, w, version, instants) ==
    OwnerOf[t.from] = w /\ t.version = version /\ t.at \in instants

SentUnder(log, w, version, instants) ==
    SumOf([i \in DOMAIN log |->
             IF SentBy(log[i], w, version, instants) THEN log[i].amount ELSE 0])

\* The period limits of a policy version that can be exceeded: a saturating sum never
\* is above u64::MAX, so a limit of as much refuses nothing.
LimitsOf(version) == {limit \in policies[version].rules.periodLimit : limit.amount < MaxU64}

\* Since the window of a counter opened, no transfer under the current policy has
\* escaped it.
CountersMissNothing ==
    \A w \in Wallet : counters[w] # NoAccount =>
      \A limit \in LimitsOf(policyVersion) :
        SentUnder(transfers, w, policyVersion, counters[w].start .. now) <= counters[w].spent

\* However a period is laid over the transfers of a wallet, it holds at most two
\* windows' worth of them, since a window starts with a transfer and not with the
\* period; whichever versions, with or without a limit, came in between.
TwoLimitsAPeriod ==
    \A w \in Wallet, from \in 1 .. now, version \in 1 .. policyVersion :
      \A limit \in LimitsOf(version) :
        SentUnder(transfers, w, version, from .. from + limit.window - 1) <= 2 * limit.amount

\* Nothing but a transfer of the wallet itself moves its window: not a repeated
\* thaw, not a status, not the key that onboards (FR-035a).
WindowsMoveByTransfer ==
    [][\A w \in Wallet :
         counters[w] # NoAccount /\ counters'[w] # counters[w] =>
           /\ Len(transfers') = Len(transfers) + 1
           /\ OwnerOf[transfers'[Len(transfers')].from] = w]_hvars

\* Whoever the issuer denies at this moment neither sends nor receives, even
\* under a policy that asks the provider alone (FR-008a1), from no account of
\* theirs (FR-008b1); an account under an officer's freeze does neither; and the
\* transfer was judged by the policy in force.
DeniedByIssuer(w) ==
    /\ statuses[w] # NoAccount /\ statuses[w].denied
    /\ \A at \in statuses[w].expires : now < at
TransfersEntitled ==
    [][transfers' # transfers =>
         LET made == transfers'[Len(transfers')]
         IN  /\ \A a \in {made.from, made.to} :
                  freezes[a] = NoAccount /\ ~DeniedByIssuer(OwnerOf[a])
             /\ made.version = policyVersion]_hvars
=============================================================================
