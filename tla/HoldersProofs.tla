--------------------------- MODULE HoldersProofs ---------------------------
(***************************************************************************)
(* Onboarding, freezes and transfers, for any wallets, accounts, policies  *)
(* and governance.                                                         *)
(*                                                                         *)
(* No variable of Governance is touched by a holder's step, so IInv comes  *)
(* from GovernanceProofs; HInv adds what ties an account to its freeze     *)
(* record and to its owner's status.                                       *)
(***************************************************************************)
EXTENDS Holders, GovernanceProofs, WellFoundedInduction

-----------------------------------------------------------------------------
(* The hook's decision *)

\* Of the numbers in a set there is a least one.
LEMMA LeastExists ==
    ASSUME NEW S \in SUBSET Nat, S # {}
    PROVE  \E i \in S : \A j \in S : i <= j
<1> DEFINE Less == {x \in Nat \X Nat : x[1] < x[2]}
<1>1. IsWellFoundedOn(Less, Nat)
  BY NatLessThanWellFounded DEF OpToRel
<1>2. PICK i \in S : \A j \in S : ~(<<j, i>> \in Less)
  <2> HIDE DEF Less
  <2> QED
    BY <1>1, WFMin
<1>3. ASSUME NEW j \in S
      PROVE  i <= j
  <2>1. <<j, i>> \in Nat \X Nat /\ <<j, i>>[1] = j /\ <<j, i>>[2] = i
    OBVIOUS
  <2>2. ~(j < i)
    BY <1>2, <2>1
  <2> QED
    BY <2>2
<1> QED
  BY <1>3

\* And choosing it finds it.
LEMMA LeastChosen ==
    ASSUME NEW S \in SUBSET Nat, S # {},
           NEW first, first = CHOOSE i \in S : \A j \in S : i <= j
    PROVE  first \in S /\ \A j \in S : first <= j
<1>1. \E i \in S : \A j \in S : i <= j
  BY LeastExists
<1> QED
  BY <1>1, Zenon

\* A transfer is allowed if and only if no check fails.
LEMMA AllowedIffNoneFails ==
    ASSUME NEW p, NEW c
    PROVE  Allowed(p, c) <=> \A i \in 1 .. 13 : ~Checks(p, c)[i][2]
<1> DEFINE checks == Checks(p, c)
           failed == {i \in DOMAIN checks : checks[i][2]}
           first == CHOOSE i \in failed : \A j \in failed : i <= j
<1>1. DOMAIN checks = 1 .. 13
  BY DEF Checks
<1>2. \A i \in 1 .. 13 : checks[i][1] # "allowed"
  BY DEF Checks
<1>3. failed # {} => first \in failed
  <2>1. failed \in SUBSET Nat
    BY <1>1
  <2> HIDE DEF failed
  <2> QED
    BY <2>1, LeastChosen
<1>4. Allowed(p, c) <=> failed = {}
  BY <1>1, <1>2, <1>3 DEF Allowed, Evaluate
<1> QED
  BY <1>1, <1>4

\* A transfer is allowed if and only if what each check asks for is so.
LEMMA AllowedMeans ==
    ASSUME NEW p \in PolicyView, NEW c
    PROVE  Allowed(p, c) <=>
             /\ c.policyVersion = c.mintPolicyVersion
             /\ \A party \in {c.sender, c.recipient} :
                  /\ ~NothingKnown(party, p, c.now)
                  /\ ~OnlyUnaccepted(party, p, c.now)
                  /\ ~OutOfReach(party)
                  /\ ~Denied(party, p, c.now)
             /\ ~TierTooLow(c.recipient, p, c.now)
             /\ ~JurisdictionRefused(c.recipient, p, c.now)
             /\ \A limit \in p.transferLimit : ~(c.amount > limit)
             /\ p.periodLimit = {} \/ c.velocity # {}
             /\ ~PeriodExceeded(p, c)
             /\ ~p.unknownKind
<1>1. \A i \in 1 .. 13 : i \in {1, 2, 3, 4, 5, 6, 7, 8, 9, 10, 11, 12, 13}
  OBVIOUS
<1>2. Allowed(p, c) <=> \A i \in {1, 2, 3, 4, 5, 6, 7, 8, 9, 10, 11, 12, 13} : ~Checks(p, c)[i][2]
  BY <1>1, AllowedIffNoneFails
<1> DEFINE n(i) == Checks(p, c)[i][2]
<1>3. /\ n(1) <=> c.policyVersion # c.mintPolicyVersion
      /\ n(2) <=> NothingKnown(c.sender, p, c.now)
      /\ n(3) <=> NothingKnown(c.recipient, p, c.now)
      /\ n(4) <=> OnlyUnaccepted(c.sender, p, c.now) \/ OnlyUnaccepted(c.recipient, p, c.now)
      /\ n(5) <=> OutOfReach(c.sender) \/ OutOfReach(c.recipient)
  BY DEF Checks
<1>4. /\ n(6) <=> Denied(c.sender, p, c.now)
      /\ n(7) <=> Denied(c.recipient, p, c.now)
      /\ n(8) <=> TierTooLow(c.recipient, p, c.now)
      /\ n(9) <=> JurisdictionRefused(c.recipient, p, c.now)
  BY DEF Checks
<1>5. /\ n(10) <=> \E limit \in p.transferLimit : c.amount > limit
      /\ n(11) <=> p.periodLimit # {} /\ c.velocity = {}
      /\ n(12) <=> PeriodExceeded(p, c)
      /\ n(13) <=> p.unknownKind
  BY DEF Checks
<1>6. Allowed(p, c) <=>
        /\ ~n(1) /\ ~n(2) /\ ~n(3) /\ ~n(4) /\ ~n(5) /\ ~n(6) /\ ~n(7)
        /\ ~n(8) /\ ~n(9) /\ ~n(10) /\ ~n(11) /\ ~n(12) /\ ~n(13)
  BY <1>2
<1> HIDE DEF n
<1> QED
  BY <1>3, <1>4, <1>5, <1>6

-----------------------------------------------------------------------------
(* The invariant *)

HInv == IInv /\ HoldersTypeOK /\ FreezesHold /\ ThawedAreOnboarded

\* The holders' own variables keep their types.
HeldTypeOK ==
    /\ accountState \in [Account -> {"frozen", "thawed"}]
    /\ statuses \in [Wallet -> StatusRecord \cup {NoAccount}]
    /\ counters \in [Wallet -> Counter \cup {NoAccount}]
    /\ freezes \in [Account -> FreezeRecord \cup {NoAccount}]
    /\ attestations \in [Wallet -> StatusRecord \cup {Unavailable, Absent}]
    /\ transfers \in Seq(Transfer)

LEMMA HeldTypes == HoldersTypeOK <=> TypeOK /\ HeldTypeOK
BY DEF HoldersTypeOK, HeldTypeOK

LEMMA HoldersInitInv ==
    ASSUME HoldersInit
    PROVE  HInv
<1>1. IInv
  BY InitInv DEF HoldersInit
<1>2. HeldTypeOK
  BY DEF HoldersInit, HeldTypeOK
<1>3. FreezesHold /\ ThawedAreOnboarded
  BY DEF HoldersInit, FreezesHold, ThawedAreOnboarded, ThawedNowOrLater
<1> QED
  BY <1>1, <1>2, <1>3, HeldTypes DEF HInv, IInv

\* A counter that is created is a counter, and so is one that has counted.
LEMMA FreshCounter ==
    ASSUME HeldTypeOK, NEW w \in Wallet
    PROVE  CounterAfterThaw(w) \in Counter
BY EpochAssumption DEF CounterAfterThaw, HeldTypeOK, Counter

LEMMA CountedIsCounter ==
    ASSUME NEW counter \in Counter, NEW rules, NEW amount \in Nat, NEW t \in Nat
    PROVE  Counted(counter, rules, amount, t) \in Counter
<1>1. SaturatingAdd(counter.spent, amount) \in Nat
  BY WidthAssumption DEF SaturatingAdd, Counter
<1> QED
  BY <1>1 DEF Counted, Counter

-----------------------------------------------------------------------------
\* An account under a freeze record was frozen by this step or is as it was.
FreezesKept ==
    \A a \in Account : freezes'[a] # NoAccount =>
      \/ accountState'[a] = "frozen"
      \/ freezes[a] # NoAccount /\ accountState'[a] = accountState[a]

(* One lemma to an action. *)

\* A thaw: the account had no freeze record, and afterwards its owner has a
\* status and a counter.
LEMMA ThawKeeps ==
    ASSUME HoldersTypeOK, NEW account \in Account, NEW authority \in Wallet,
           \/ \E status \in Statuses : ThawNewHolder(account, authority, status)
           \/ ThawKnownHolder(account, authority)
    PROVE  HeldTypeOK' /\ FreezesKept /\ (ThawedAreOnboarded => ThawedAreOnboarded')
<1> DEFINE w == OwnerOf[account]
<1>1. HeldTypeOK /\ w \in Wallet
  BY HeldTypes, OwnerAssumption
<1>2. /\ freezes[account] = NoAccount
      /\ accountState' = [accountState EXCEPT ![account] = "thawed"]
      /\ counters' = [counters EXCEPT ![w] = CounterAfterThaw(w)]
      /\ UNCHANGED <<freezes, attestations, transfers>>
  BY DEF ThawNewHolder, ThawKnownHolder, Thawed, MayThaw
<1>3. /\ statuses' \in [Wallet -> StatusRecord \cup {NoAccount}]
      /\ statuses'[w] # NoAccount
      /\ \A x \in Wallet : statuses[x] # NoAccount => statuses'[x] # NoAccount
  <2>1. CASE UNCHANGED statuses /\ statuses[w] # NoAccount
    BY <1>1, <2>1 DEF HeldTypeOK
  <2>2. CASE \E status \in Statuses : statuses' = [statuses EXCEPT ![w] = status]
    <3>1. PICK status \in Statuses : statuses' = [statuses EXCEPT ![w] = status]
      BY <2>2
    <3>2. status \in StatusRecord /\ status # NoAccount
      BY StatusesAssumption, NoAccountAssumption
    <3> QED
      BY <1>1, <3>1, <3>2 DEF HeldTypeOK
  <2> QED
    BY <2>1, <2>2 DEF ThawNewHolder, ThawKnownHolder
<1>4. CounterAfterThaw(w) \in Counter /\ CounterAfterThaw(w) # NoAccount
  BY <1>1, FreshCounter, NoAccountAssumption
<1>5. \A x \in Wallet : counters[x] # NoAccount => counters'[x] # NoAccount
  BY <1>1, <1>2, <1>4 DEF HeldTypeOK
<1>6. HeldTypeOK'
  BY <1>1, <1>2, <1>3, <1>4 DEF HeldTypeOK
<1>7. FreezesKept
  BY <1>1, <1>2 DEF FreezesKept, HeldTypeOK
<1>8. ThawedAreOnboarded => ThawedAreOnboarded'
  <2> SUFFICES ASSUME ThawedAreOnboarded, NEW a \in Account,
                      ThawedNowOrLater(a)'
               PROVE  statuses'[OwnerOf[a]] # NoAccount /\ counters'[OwnerOf[a]] # NoAccount
    BY DEF ThawedAreOnboarded
  <2>1. OwnerOf[a] \in Wallet
    BY OwnerAssumption
  <2>2. CASE a = account
    BY <1>1, <1>2, <1>3, <1>4, <2>2 DEF HeldTypeOK
  <2>3. CASE a # account
    <3>1. ThawedNowOrLater(a)
      BY <1>1, <1>2, <2>3 DEF HeldTypeOK, ThawedNowOrLater
    <3> QED
      BY <1>3, <1>5, <2>1, <3>1 DEF ThawedAreOnboarded
  <2> QED
    BY <2>2, <2>3
<1> QED
  BY <1>6, <1>7, <1>8

\* A freeze: the record remembers a thawed account, whose owner was onboarded.
LEMMA FreezeKeeps ==
    ASSUME HoldersTypeOK, NEW account \in Account, NEW officer \in Wallet, FreezeHolder(account, officer)
    PROVE  HeldTypeOK' /\ FreezesKept /\ (ThawedAreOnboarded => ThawedAreOnboarded')
<1> DEFINE record == [officer |-> officer, wasThawed |-> accountState[account] = "thawed"]
<1>1. HeldTypeOK
  BY HeldTypes
<1>2. /\ accountState' = [accountState EXCEPT ![account] = "frozen"]
      /\ freezes' = [freezes EXCEPT ![account] = record]
      /\ UNCHANGED <<statuses, counters, attestations, transfers>>
  BY DEF FreezeHolder
<1>3. record \in FreezeRecord /\ (record.wasThawed <=> accountState[account] = "thawed")
  BY DEF FreezeRecord
<1> HIDE DEF record
<1>4. HeldTypeOK'
  BY <1>1, <1>2, <1>3 DEF HeldTypeOK
<1>5. FreezesKept
  BY <1>1, <1>2 DEF FreezesKept, HeldTypeOK
<1>6. ASSUME NEW a \in Account,
             ThawedNowOrLater(a)'
      PROVE  ThawedNowOrLater(a)
  BY <1>1, <1>2, <1>3, <1>6 DEF HeldTypeOK, ThawedNowOrLater
<1>7. ThawedAreOnboarded => ThawedAreOnboarded'
  BY <1>2, <1>6 DEF ThawedAreOnboarded
<1> QED
  BY <1>4, <1>5, <1>7

\* An unfreeze thaws what the record remembers as thawed, and nothing else.
LEMMA UnfreezeKeeps ==
    ASSUME HoldersTypeOK, NEW account \in Account, NEW officer \in Wallet, UnfreezeHolder(account, officer)
    PROVE  HeldTypeOK' /\ FreezesKept /\ (ThawedAreOnboarded => ThawedAreOnboarded')
<1>1. HeldTypeOK
  BY HeldTypes
<1>2. /\ freezes[account] # NoAccount
      /\ accountState' = [accountState EXCEPT ![account] = StateAfterUnfreeze(account)]
      /\ freezes' = [freezes EXCEPT ![account] = NoAccount]
      /\ UNCHANGED <<statuses, counters, attestations, transfers>>
  BY DEF UnfreezeHolder
<1>3. /\ StateAfterUnfreeze(account) \in {"frozen", "thawed"}
      /\ StateAfterUnfreeze(account) = "thawed" =>
           freezes[account].wasThawed \/ accountState[account] = "thawed"
  BY <1>1 DEF StateAfterUnfreeze, HeldTypeOK
<1>4. HeldTypeOK'
  BY <1>1, <1>2, <1>3 DEF HeldTypeOK
<1>5. FreezesKept
  BY <1>1, <1>2 DEF FreezesKept, HeldTypeOK
<1>6. ASSUME NEW a \in Account,
             ThawedNowOrLater(a)'
      PROVE  ThawedNowOrLater(a)
  BY <1>1, <1>2, <1>3, <1>6 DEF HeldTypeOK, ThawedNowOrLater
<1>7. ThawedAreOnboarded => ThawedAreOnboarded'
  BY <1>2, <1>6 DEF ThawedAreOnboarded
<1> QED
  BY <1>4, <1>5, <1>7

\* A status is changed where there is one, and an attestation is nobody's status.
LEMMA StatusKeeps ==
    ASSUME HoldersTypeOK, NEW w \in Wallet,
           \/ \E authority \in Wallet, status \in Statuses : SetHolderStatus(w, authority, status)
           \/ \E answer \in Attestations : Attest(w, answer)
    PROVE  HeldTypeOK' /\ FreezesKept /\ (ThawedAreOnboarded => ThawedAreOnboarded')
<1>1. HeldTypeOK
  BY HeldTypes
<1>2. CASE \E authority \in Wallet, status \in Statuses : SetHolderStatus(w, authority, status)
  <2>1. PICK status \in Statuses :
          /\ statuses' = [statuses EXCEPT ![w] = status]
          /\ UNCHANGED <<accountState, counters, freezes, attestations, transfers>>
    BY <1>2 DEF SetHolderStatus
  <2>2. status \in StatusRecord /\ status # NoAccount
    BY StatusesAssumption, NoAccountAssumption
  <2>3. \A x \in Wallet : statuses[x] # NoAccount => statuses'[x] # NoAccount
    BY <1>1, <2>1, <2>2 DEF HeldTypeOK
  <2> QED
    BY <1>1, <2>1, <2>2, <2>3, OwnerAssumption
       DEF HeldTypeOK, FreezesKept, ThawedAreOnboarded, ThawedNowOrLater
<1>3. CASE \E answer \in Attestations : Attest(w, answer)
  <2>1. PICK answer \in Attestations :
          /\ attestations' = [attestations EXCEPT ![w] = answer]
          /\ UNCHANGED <<accountState, statuses, counters, freezes, transfers>>
    BY <1>3 DEF Attest
  <2>2. answer \in StatusRecord \cup {Unavailable, Absent}
    BY StatusesAssumption
  <2> QED
    BY <1>1, <2>1, <2>2 DEF HeldTypeOK, FreezesKept, ThawedAreOnboarded, ThawedNowOrLater
<1> QED
  BY <1>2, <1>3

\* A transfer moves the sender's counter and nothing else.
LEMMA TransferKeeps ==
    ASSUME HoldersTypeOK, NEW from \in Account, NEW to \in Account, NEW amount \in Nat,
           NEW version \in 1 .. MaxVersion, TransferTokens(from, to, amount, version)
    PROVE  HeldTypeOK' /\ FreezesKept /\ (ThawedAreOnboarded => ThawedAreOnboarded')
<1> DEFINE sender == OwnerOf[from]
           rules == policies[version].rules
           counted == IF counters[sender] = NoAccount THEN NoAccount
                      ELSE Counted(counters[sender], rules, amount, now)
           made == [from |-> from, to |-> to, amount |-> amount, at |-> now, version |-> version]
<1>1. HeldTypeOK /\ sender \in Wallet /\ now \in Nat
  BY HeldTypes, OwnerAssumption DEF HoldersTypeOK, TypeOK, ProposalsTypeOK
<1>2. /\ counters' = [counters EXCEPT ![sender] = counted]
      /\ transfers' = Append(transfers, made)
      /\ UNCHANGED <<accountState, statuses, freezes, attestations>>
  BY DEF TransferTokens
<1>3. /\ counted \in Counter \cup {NoAccount}
      /\ counters[sender] # NoAccount => counted # NoAccount
  <2>1. CASE counters[sender] = NoAccount
    BY <2>1
  <2>2. CASE counters[sender] # NoAccount
    <3>1. counters[sender] \in Counter
      BY <1>1, <2>2 DEF HeldTypeOK
    <3>2. Counted(counters[sender], rules, amount, now) \in Counter
      BY <1>1, <3>1, CountedIsCounter
    <3> QED
      BY <2>2, <3>2, NoAccountAssumption
  <2> QED
    BY <2>1, <2>2
<1>4. made \in Transfer
  BY <1>1, VersionAssumption DEF Transfer
<1> HIDE DEF counted, made
<1>5. \A x \in Wallet : counters[x] # NoAccount => counters'[x] # NoAccount
  BY <1>1, <1>2, <1>3 DEF HeldTypeOK
<1>6. HeldTypeOK'
  BY <1>1, <1>2, <1>3, <1>4 DEF HeldTypeOK
<1> QED
  BY <1>2, <1>5, <1>6, OwnerAssumption DEF HeldTypeOK, FreezesKept, ThawedAreOnboarded, ThawedNowOrLater

-----------------------------------------------------------------------------
\* What the steps of holders keep, all of them.
LEMMA HolderStepsKeep ==
    ASSUME HoldersTypeOK, NextThaw \/ NextFreeze \/ NextStatus \/ NextTransfer
    PROVE  HeldTypeOK' /\ FreezesKept /\ (ThawedAreOnboarded => ThawedAreOnboarded')
<1>1. CASE NextThaw
  BY <1>1, ThawKeeps DEF NextThaw
<1>2. CASE NextFreeze
  BY <1>2, FreezeKeeps, UnfreezeKeeps DEF NextFreeze
<1>3. CASE NextStatus
  <2>1. Holder \subseteq Wallet
    BY OwnerAssumption DEF Holder
  <2> QED
    BY <1>3, <2>1, StatusKeeps DEF NextStatus
<1>4. CASE NextTransfer
  <2>1. PICK route \in Routes, amount \in Amounts, version \in 1 .. MaxVersion :
          TransferTokens(route[1], route[2], amount, version)
    BY <1>4 DEF NextTransfer
  <2>2. route[1] \in Account /\ route[2] \in Account /\ amount \in Nat
    BY OwnerAssumption, StatusesAssumption
  <2> QED
    BY <2>1, <2>2, TransferKeeps
<1> QED
  BY <1>1, <1>2, <1>3, <1>4

\* What a step of each kind leaves alone.
LEMMA HolderStepsLeaveGovernance ==
    ASSUME NextThaw \/ NextFreeze \/ NextStatus \/ NextTransfer
    PROVE  UNCHANGED vars
BY DEF NextThaw, NextFreeze, NextStatus, NextTransfer, ThawNewHolder, ThawKnownHolder, Thawed,
       FreezeHolder, UnfreezeHolder, SetHolderStatus, Attest, TransferTokens

LEMMA HoldersNextInv ==
    ASSUME HInv, [HoldersNext]_hvars
    PROVE  HInv'
<1>1. IInv'
  <2>1. [Next]_vars
    BY HolderStepsLeaveGovernance DEF HoldersNext, Govern, hvars
  <2> QED
    BY <2>1, NextInv DEF HInv
<1>2. /\ HoldersTypeOK => HeldTypeOK' /\ FreezesKept
      /\ HoldersTypeOK /\ ThawedAreOnboarded => ThawedAreOnboarded'
  <2>1. CASE NextThaw \/ NextFreeze \/ NextStatus \/ NextTransfer
    BY <2>1, HolderStepsKeep
  <2>2. CASE UNCHANGED held
    BY <2>2, HeldTypes DEF HeldTypeOK, FreezesKept, ThawedAreOnboarded, ThawedNowOrLater, held
  <2> QED
    BY <2>1, <2>2 DEF HoldersNext, Govern, hvars
<1>3. FreezesHold'
  BY <1>2 DEF HInv, FreezesKept, FreezesHold
<1> QED
  BY <1>1, <1>2, <1>3 DEF HInv, IInv, HoldersTypeOK, HeldTypeOK

THEOREM HoldersInvariance == HoldersSpec => []HInv
<1>1. HoldersInit => HInv
  BY HoldersInitInv
<1>2. HInv /\ [HoldersNext]_hvars => HInv'
  BY HoldersNextInv
<1> QED
  BY <1>1, <1>2, PTL DEF HoldersSpec

\* Every variable keeps its type.
THEOREM HoldersTypeCorrect == HoldersSpec => []HoldersTypeOK
<1>1. HInv => HoldersTypeOK
  BY DEF HInv
<1> QED
  BY <1>1, HoldersInvariance, PTL

\* An account under an officer's freeze is frozen, however many routine thaws and
\* other freezes are made and whoever holds the routine powers meanwhile.
THEOREM OfficersFreezesHold == HoldersSpec => []FreezesHold
<1>1. HInv => FreezesHold
  BY DEF HInv
<1> QED
  BY <1>1, HoldersInvariance, PTL

\* A thawed account's owner was onboarded, and has the status and the counter
\* without which the hook would have nothing to judge by.
THEOREM ThawedMeansOnboarded == HoldersSpec => []ThawedAreOnboarded
<1>1. HInv => ThawedAreOnboarded
  BY DEF HInv
<1> QED
  BY <1>1, HoldersInvariance, PTL

-----------------------------------------------------------------------------
\* A party the issuer's own register denies is denied, whatever the policy accepts.
LEMMA IssuersDenialCounts ==
    ASSUME HeldTypeOK, NEW w \in Wallet, NEW rules, DeniedByIssuer(w)
    PROVE  Denied(PartyOf(w), rules, now)
<1>1. statuses[w] \in StatusRecord
  BY DEF HeldTypeOK, DeniedByIssuer
<1>2. /\ PartyOf(w)["register"] = statuses[w]
      /\ statuses[w].state = "record" /\ statuses[w].denied
      /\ IsCurrent(statuses[w], now)
  BY <1>1 DEF PartyOf, DeniedByIssuer, StatusRecord, IsCurrent
<1>3. "register" \in Fresh(PartyOf(w), rules, now)
  BY <1>2 DEF Fresh, Source
<1> QED
  BY <1>2, <1>3 DEF Denied

\* No transfer is made from or to an account an officer froze or a wallet the
\* issuer denies, nor under any policy but the one in force.
THEOREM TransfersAreEntitled == HoldersSpec => TransfersEntitled
<1> DEFINE Entitled ==
             transfers' # transfers =>
               LET made == transfers'[Len(transfers')]
               IN  /\ \A a \in {made.from, made.to} :
                        freezes[a] = NoAccount /\ ~DeniedByIssuer(OwnerOf[a])
                   /\ made.version = policyVersion
<1>1. ASSUME HInv, NEW from \in Account, NEW to \in Account, NEW amount \in Nat,
             NEW version \in 1 .. MaxVersion, TransferTokens(from, to, amount, version)
      PROVE  Entitled
  <2> DEFINE made == [from |-> from, to |-> to, amount |-> amount, at |-> now,
                      version |-> version]
             rules == policies[version].rules
             context == ContextOf(OwnerOf[from], OwnerOf[to], amount, version)
  <2>1. HeldTypeOK
    BY <1>1, HeldTypes DEF HInv
  <2>2. transfers'[Len(transfers')] = made
    BY <1>1, <2>1 DEF TransferTokens, HeldTypeOK
  <2>3. freezes[from] = NoAccount /\ freezes[to] = NoAccount
    BY <1>1 DEF TransferTokens, HInv, FreezesHold
  <2>4. rules \in PolicyView
    <3>1. policies[version] \in Policy
      BY <1>1 DEF TransferTokens, HInv, HoldersTypeOK, TypeOK
    <3> QED
      BY <3>1, RulesAssumption DEF Policy
  <2>5. Allowed(rules, context)
    BY <1>1 DEF TransferTokens, HookAllows
  <2>6. /\ context.sender = PartyOf(OwnerOf[from]) /\ context.recipient = PartyOf(OwnerOf[to])
        /\ context.policyVersion = version /\ context.mintPolicyVersion = policyVersion
        /\ context.now = now
    BY DEF ContextOf
  <2> HIDE DEF rules, context
  <2>7. /\ version = policyVersion
        /\ ~Denied(PartyOf(OwnerOf[from]), rules, now)
        /\ ~Denied(PartyOf(OwnerOf[to]), rules, now)
    BY <2>4, <2>5, <2>6, AllowedMeans
  <2>8. ~DeniedByIssuer(OwnerOf[from]) /\ ~DeniedByIssuer(OwnerOf[to])
    BY <2>1, <2>7, IssuersDenialCounts, OwnerAssumption
  <2> QED
    BY <2>2, <2>3, <2>7, <2>8
<1>2. HInv /\ [HoldersNext]_hvars => [Entitled]_hvars
  <2> SUFFICES ASSUME HInv, HoldersNext
               PROVE  Entitled
    OBVIOUS
  <2>1. CASE NextTransfer
    <3>1. PICK route \in Routes, amount \in Amounts, version \in 1 .. MaxVersion :
            TransferTokens(route[1], route[2], amount, version)
      BY <2>1 DEF NextTransfer
    <3>2. route[1] \in Account /\ route[2] \in Account /\ amount \in Nat
      BY OwnerAssumption, StatusesAssumption
    <3> QED
      BY <1>1, <3>1, <3>2
  <2>2. CASE transfers' = transfers
    BY <2>2
  <2>3. NextTransfer \/ transfers' = transfers
    BY DEF HoldersNext, Govern, held, NextThaw, NextFreeze, NextStatus, ThawNewHolder,
           ThawKnownHolder, Thawed, FreezeHolder, UnfreezeHolder, SetHolderStatus, Attest
  <2> QED
    BY <2>1, <2>2, <2>3
<1> QED
  BY <1>2, HoldersInvariance, PTL DEF HoldersSpec, TransfersEntitled

\* A holder's window moves with the holder's own transfers only.
THEOREM WindowsMoveWithTransfers == HoldersSpec => WindowsMoveByTransfer
<1> DEFINE Moved ==
             \A w \in Wallet :
               counters[w] # NoAccount /\ counters'[w] # counters[w] =>
                 /\ Len(transfers') = Len(transfers) + 1
                 /\ OwnerOf[transfers'[Len(transfers')].from] = w
<1>1. HInv /\ [HoldersNext]_hvars => [Moved]_hvars
  <2> SUFFICES ASSUME HInv, HoldersNext, NEW w \in Wallet,
                      counters[w] # NoAccount, counters'[w] # counters[w]
               PROVE  /\ Len(transfers') = Len(transfers) + 1
                      /\ OwnerOf[transfers'[Len(transfers')].from] = w
    OBVIOUS
  <2>1. HeldTypeOK
    BY HeldTypes DEF HInv
  <2>2. CASE NextTransfer
    <3>1. PICK route \in Routes, amount \in Amounts, version \in 1 .. MaxVersion :
            TransferTokens(route[1], route[2], amount, version)
      BY <2>2 DEF NextTransfer
    <3>2. route[1] \in Account /\ OwnerOf[route[1]] \in Wallet
      BY OwnerAssumption
    <3>3. w = OwnerOf[route[1]]
      BY <2>1, <3>1, <3>2 DEF TransferTokens, HeldTypeOK
    <3> QED
      BY <2>1, <3>1, <3>3 DEF TransferTokens, HeldTypeOK
  <2>3. CASE NextThaw
    <3>1. PICK account \in Account :
            counters' = [counters EXCEPT ![OwnerOf[account]] = CounterAfterThaw(OwnerOf[account])]
      BY <2>3 DEF NextThaw, ThawNewHolder, ThawKnownHolder, Thawed
    <3> QED
      BY <2>1, <3>1 DEF CounterAfterThaw, HeldTypeOK
  <2>4. CASE UNCHANGED counters
    BY <2>4
  <2>5. NextTransfer \/ NextThaw \/ UNCHANGED counters
    BY DEF HoldersNext, Govern, held, NextFreeze, NextStatus, FreezeHolder, UnfreezeHolder,
           SetHolderStatus, Attest
  <2> QED
    BY <2>2, <2>3, <2>4, <2>5
<1> QED
  BY <1>1, HoldersInvariance, PTL DEF HoldersSpec, WindowsMoveByTransfer

-----------------------------------------------------------------------------
(* Sums. *)

\* The running sums of a sequence of amounts.
Sums(amounts, sum) ==
    sum = [n \in 0 .. Len(amounts) |-> IF n = 0 THEN 0 ELSE sum[n - 1] + amounts[n]]

\* Induction up to a bound, on the set of numbers that have the property.
LEMMA EachUpTo ==
    ASSUME NEW m \in Nat, NEW S \in SUBSET (0 .. m), 0 \in S,
           \A n \in 0 .. m - 1 : n \in S => n + 1 \in S
    PROVE  S = 0 .. m
<1> DEFINE outside == {n \in 0 .. m : n \notin S}
<1> SUFFICES ASSUME outside # {}
             PROVE  FALSE
  OBVIOUS
<1>1. PICK n \in outside : \A j \in outside : n <= j
  <2>1. outside \in SUBSET Nat
    OBVIOUS
  <2> HIDE DEF outside
  <2> QED
    BY <2>1, LeastExists
<1>2. n # 0 /\ n - 1 \in 0 .. m - 1 /\ n - 1 \notin outside
  BY <1>1
<1> QED
  BY <1>1, <1>2

LEMMA SumsExist ==
    ASSUME NEW amounts \in Seq(Nat)
    PROVE  \E sum : Sums(amounts, sum)
<1> DEFINE Step(n, sum) == sum[n] = IF n = 0 THEN 0 ELSE sum[n - 1] + amounts[n]
           upto == {m \in 0 .. Len(amounts) :
                      \E sum \in [0 .. m -> Nat] : \A n \in 0 .. m : Step(n, sum)}
<1>1. Len(amounts) \in Nat
  OBVIOUS
<1>2. 0 \in upto
  <2> DEFINE none == [n \in 0 .. 0 |-> 0]
  <2>1. none \in [0 .. 0 -> Nat] /\ \A n \in 0 .. 0 : Step(n, none)
    OBVIOUS
  <2> HIDE DEF none, Step
  <2> QED
    BY <1>1, <2>1
<1>3. ASSUME NEW m \in 0 .. Len(amounts) - 1, m \in upto
      PROVE  m + 1 \in upto
  <2>1. PICK before \in [0 .. m -> Nat] : \A n \in 0 .. m : Step(n, before)
    BY <1>3
  <2> DEFINE sum == [n \in 0 .. m + 1 |-> IF n = m + 1 THEN before[m] + amounts[n] ELSE before[n]]
  <2>2. amounts[m + 1] \in Nat /\ before[m] \in Nat /\ m \in Nat
    BY <1>1
  <2>3. sum \in [0 .. m + 1 -> Nat]
    BY <2>2
  <2>4. ASSUME NEW n \in 0 .. m
        PROVE  Step(n, sum)
    <3>1. sum[n] = before[n] /\ (n # 0 => n - 1 \in 0 .. m /\ sum[n - 1] = before[n - 1])
      BY <2>2
    <3>2. Step(n, before)
      BY <2>1
    <3> HIDE DEF sum
    <3> QED
      BY <3>1, <3>2
  <2>5. Step(m + 1, sum)
    BY <2>2
  <2>6. \A n \in 0 .. m + 1 : n = m + 1 \/ n \in 0 .. m
    BY <2>2
  <2> HIDE DEF sum, Step
  <2>7. m + 1 \in 0 .. Len(amounts) /\ \A n \in 0 .. m + 1 : Step(n, sum)
    BY <1>1, <2>4, <2>5, <2>6
  <2> QED
    BY <2>3, <2>7
<1>4. Len(amounts) \in upto
  <2>1. upto \in SUBSET (0 .. Len(amounts))
    OBVIOUS
  <2> HIDE DEF upto
  <2>2. upto = 0 .. Len(amounts)
    BY <1>1, <1>2, <1>3, <2>1, EachUpTo
  <2> QED
    BY <1>1, <2>2
<1>5. PICK sum \in [0 .. Len(amounts) -> Nat] : \A n \in 0 .. Len(amounts) : Step(n, sum)
  BY <1>4
<1> QED
  BY <1>5 DEF Sums

\* What the proofs use of them.
RunningSum(sum, amounts, m) ==
    /\ sum \in [0 .. m -> Nat]
    /\ SumOf(amounts) = sum[m]
    /\ sum[0] = 0
    /\ \A n \in 1 .. m : amounts[n] \in Nat /\ sum[n] = sum[n - 1] + amounts[n]

LEMMA SumOfIs ==
    ASSUME NEW amounts \in Seq(Nat)
    PROVE  \E sum : RunningSum(sum, amounts, Len(amounts))
<1> DEFINE chosen == CHOOSE sum : Sums(amounts, sum)
<1>1. Sums(amounts, chosen)
  <2>1. \E sum : Sums(amounts, sum)
    BY SumsExist
  <2> QED
    BY <2>1, Zenon
<1>2. SumOf(amounts) = chosen[Len(amounts)]
  BY Zenon DEF SumOf, Sums
<1> HIDE DEF chosen
<1>3. Len(amounts) \in Nat
  OBVIOUS
<1>4. DOMAIN chosen = 0 .. Len(amounts) /\ chosen = [n \in 0 .. Len(amounts) |-> chosen[n]]
  BY <1>1 DEF Sums
<1>5. /\ chosen[0] = 0
      /\ \A n \in 1 .. Len(amounts) : chosen[n] = chosen[n - 1] + amounts[n]
  BY <1>1, <1>3 DEF Sums
<1>6. \A n \in 0 .. Len(amounts) : chosen[n] \in Nat
  <2> DEFINE numbers == {x \in 0 .. Len(amounts) : chosen[x] \in Nat}
  <2>1. 0 \in numbers
    BY <1>3, <1>5
  <2>2. ASSUME NEW n \in 0 .. Len(amounts) - 1, n \in numbers
        PROVE  n + 1 \in numbers
    <3>1. n + 1 \in 1 .. Len(amounts) /\ n + 1 \in 0 .. Len(amounts) /\ (n + 1) - 1 = n
      BY <1>3
    <3>2. chosen[n + 1] = chosen[n] + amounts[n + 1] /\ amounts[n + 1] \in Nat
      BY <1>5, <3>1
    <3> QED
      BY <2>2, <3>1, <3>2
  <2>3. numbers \in SUBSET (0 .. Len(amounts))
    OBVIOUS
  <2> HIDE DEF numbers
  <2>4. numbers = 0 .. Len(amounts)
    BY <1>3, <2>1, <2>2, <2>3, EachUpTo
  <2> QED
    BY <2>4 DEF numbers
<1>7. chosen \in [0 .. Len(amounts) -> Nat]
  BY <1>4, <1>6
<1>8. \A n \in 1 .. Len(amounts) : amounts[n] \in Nat
  OBVIOUS
<1> QED
  BY <1>2, <1>5, <1>7, <1>8 DEF RunningSum

\* A sum is at most those of two sequences that between them cover it.
LEMMA SumCovered ==
    ASSUME NEW m \in Nat, NEW a \in Seq(Nat), NEW b \in Seq(Nat), NEW c \in Seq(Nat),
           Len(a) = m, Len(b) = m, Len(c) = m, \A i \in 1 .. m : a[i] <= b[i] + c[i]
    PROVE  SumOf(a) <= SumOf(b) + SumOf(c)
<1>1. PICK s : RunningSum(s, a, m)
  BY SumOfIs
<1>2. PICK t : RunningSum(t, b, m)
  BY SumOfIs
<1>3. PICK u : RunningSum(u, c, m)
  BY SumOfIs
<1> DEFINE covered == {n \in 0 .. m : s[n] <= t[n] + u[n]}
<1>4. 0 \in covered
  BY <1>1, <1>2, <1>3 DEF RunningSum
<1>5. ASSUME NEW n \in 0 .. m - 1, n \in covered
      PROVE  n + 1 \in covered
  <2>1. n + 1 \in 1 .. m /\ n \in 0 .. m /\ n + 1 \in 0 .. m /\ (n + 1) - 1 = n
    OBVIOUS
  <2>2. s[n + 1] = s[n] + a[n + 1] /\ t[n + 1] = t[n] + b[n + 1] /\ u[n + 1] = u[n] + c[n + 1]
    BY <1>1, <1>2, <1>3, <2>1 DEF RunningSum
  <2>3. a[n + 1] <= b[n + 1] + c[n + 1]
    BY <2>1
  <2>4. s[n] <= t[n] + u[n]
    BY <1>5
  <2>5. /\ s[n] \in Nat /\ t[n] \in Nat /\ u[n] \in Nat
        /\ a[n + 1] \in Nat /\ b[n + 1] \in Nat /\ c[n + 1] \in Nat
    BY <1>1, <1>2, <1>3, <2>1 DEF RunningSum
  <2>6. s[n] + a[n + 1] <= (t[n] + b[n + 1]) + (u[n] + c[n + 1])
    <3> DEFINE v == s[n]  w == a[n + 1]  x == t[n]  y == b[n + 1]  p == u[n]  q == c[n + 1]
    <3>1. v \in Nat /\ w \in Nat /\ x \in Nat /\ y \in Nat /\ p \in Nat /\ q \in Nat
      BY <2>5
    <3>2. v <= x + p /\ w <= y + q
      BY <2>3, <2>4
    <3> HIDE DEF v, w, x, y, p, q
    <3>3. v + w <= (x + y) + (p + q)
      BY <3>1, <3>2
    <3> QED
      BY <3>3 DEF v, w, x, y, p, q
  <2>7. s[n + 1] <= t[n + 1] + u[n + 1]
    BY <2>2, <2>6
  <2> QED
    BY <2>1, <2>7
<1>6. m \in covered
  <2>1. covered \in SUBSET (0 .. m)
    OBVIOUS
  <2> HIDE DEF covered
  <2>2. covered = 0 .. m
    BY <1>4, <1>5, <2>1, EachUpTo
  <2> QED
    BY <2>2
<1> QED
  BY <1>1, <1>2, <1>3, <1>6 DEF covered, RunningSum

\* One more amount adds just that.
LEMMA SumProlonged ==
    ASSUME NEW m \in Nat, NEW a \in Seq(Nat), NEW b \in Seq(Nat), Len(a) = m, Len(b) = m + 1,
           \A i \in 1 .. m : b[i] = a[i]
    PROVE  SumOf(b) = SumOf(a) + b[m + 1]
<1>1. PICK s : RunningSum(s, a, m)
  BY SumOfIs
<1>2. PICK t : RunningSum(t, b, m + 1)
  BY SumOfIs
<1> DEFINE same == {n \in 0 .. m : t[n] = s[n]}
<1>3. 0 \in same
  BY <1>1, <1>2 DEF RunningSum
<1>4. ASSUME NEW n \in 0 .. m - 1, n \in same
      PROVE  n + 1 \in same
  <2>1. /\ n + 1 \in 1 .. m /\ n + 1 \in 1 .. m + 1 /\ n + 1 \in 0 .. m
        /\ (n + 1) - 1 = n
    OBVIOUS
  <2>2. s[n + 1] = s[n] + a[n + 1] /\ t[n + 1] = t[n] + b[n + 1]
    BY <1>1, <1>2, <2>1 DEF RunningSum
  <2>3. b[n + 1] = a[n + 1]
    BY <2>1
  <2> QED
    BY <1>4, <2>1, <2>2, <2>3
<1>5. m \in same
  <2>1. same \in SUBSET (0 .. m)
    OBVIOUS
  <2> HIDE DEF same
  <2>2. same = 0 .. m
    BY <1>3, <1>4, <2>1, EachUpTo
  <2> QED
    BY <2>2
<1>6. t[m + 1] = t[m] + b[m + 1]
  BY <1>2 DEF RunningSum
<1> QED
  BY <1>1, <1>2, <1>5, <1>6 DEF RunningSum

\* Where there is nothing to add up the sum is nothing, and it is a number always.
LEMMA SumIsNumber ==
    ASSUME NEW m \in Nat, NEW a \in Seq(Nat), Len(a) = m
    PROVE  /\ SumOf(a) \in Nat
           /\ (\A i \in 1 .. m : a[i] = 0) => SumOf(a) = 0
<1>1. PICK s : RunningSum(s, a, m)
  BY SumOfIs
<1> DEFINE nothing == {n \in 0 .. m : s[n] = 0}
<1>2. ASSUME \A i \in 1 .. m : a[i] = 0
      PROVE  s[m] = 0
  <2>1. 0 \in nothing
    BY <1>1 DEF RunningSum
  <2>2. ASSUME NEW n \in 0 .. m - 1, n \in nothing
        PROVE  n + 1 \in nothing
    <3>1. n + 1 \in 1 .. m /\ n + 1 \in 0 .. m /\ (n + 1) - 1 = n
      OBVIOUS
    <3> QED
      BY <1>1, <1>2, <2>2, <3>1 DEF RunningSum
  <2>3. nothing \in SUBSET (0 .. m)
    OBVIOUS
  <2> HIDE DEF nothing
  <2>4. nothing = 0 .. m
    BY <2>1, <2>2, <2>3, EachUpTo
  <2> QED
    BY <2>4 DEF nothing
<1>3. s[m] \in Nat
  BY <1>1 DEF RunningSum
<1> QED
  BY <1>1, <1>2, <1>3 DEF RunningSum

-----------------------------------------------------------------------------
(* What a wallet has sent, as the log of transfers grows. *)

LEMMA LogEntries ==
    ASSUME NEW log \in Seq(Transfer), NEW i \in 1 .. Len(log)
    PROVE  /\ log[i] \in Transfer /\ log[i].amount \in Nat /\ log[i].at \in Nat
           /\ log[i].version \in Nat /\ log[i].from \in Account
<1>1. log[i] \in Transfer
  OBVIOUS
<1> QED
  BY <1>1 DEF Transfer

\* The amounts that add up to it.
AmountsOf(a, log, w, version, instants) ==
    /\ a \in Seq(Nat) /\ Len(a) = Len(log)
    /\ SentUnder(log, w, version, instants) = SumOf(a)
    /\ \A i \in 1 .. Len(log) :
         a[i] = IF SentBy(log[i], w, version, instants) THEN log[i].amount ELSE 0

LEMMA SentIsSum ==
    ASSUME NEW log \in Seq(Transfer), NEW w, NEW version, NEW instants
    PROVE  \E a : AmountsOf(a, log, w, version, instants)
<1> DEFINE amounts == [i \in DOMAIN log |->
                         IF SentBy(log[i], w, version, instants) THEN log[i].amount ELSE 0]
<1>1. Len(log) \in Nat /\ DOMAIN log = 1 .. Len(log)
  OBVIOUS
<1>2. \A i \in 1 .. Len(log) : log[i].amount \in Nat
  BY LogEntries
<1>3. amounts \in Seq(Nat) /\ Len(amounts) = Len(log)
  BY <1>1, <1>2
<1>4. SentUnder(log, w, version, instants) = SumOf(amounts)
  BY Zenon DEF SentUnder
<1>5. \A i \in 1 .. Len(log) :
        amounts[i] = IF SentBy(log[i], w, version, instants) THEN log[i].amount ELSE 0
  BY <1>1
<1> HIDE DEF amounts
<1>6. AmountsOf(amounts, log, w, version, instants)
  BY <1>3, <1>4, <1>5 DEF AmountsOf
<1> QED
  BY <1>6

\* What was sent is at most what was sent in two parts that cover it; it is a number;
\* and nothing, when no transfer counts.
LEMMA SentCovered ==
    ASSUME NEW log \in Seq(Transfer), NEW w, NEW version, NEW all, NEW part, NEW rest,
           \A i \in 1 .. Len(log) :
             SentBy(log[i], w, version, all) =>
               SentBy(log[i], w, version, part) \/ SentBy(log[i], w, version, rest)
    PROVE  SentUnder(log, w, version, all)
             <= SentUnder(log, w, version, part) + SentUnder(log, w, version, rest)
<1>1. PICK a : AmountsOf(a, log, w, version, all)
  BY SentIsSum
<1>2. PICK b : AmountsOf(b, log, w, version, part)
  BY SentIsSum
<1>3. PICK c : AmountsOf(c, log, w, version, rest)
  BY SentIsSum
<1>4. ASSUME NEW i \in 1 .. Len(log)
      PROVE  a[i] <= b[i] + c[i]
  <2>1. log[i].amount \in Nat
    BY LogEntries
  <2>2. /\ a[i] = IF SentBy(log[i], w, version, all) THEN log[i].amount ELSE 0
        /\ b[i] = IF SentBy(log[i], w, version, part) THEN log[i].amount ELSE 0
        /\ c[i] = IF SentBy(log[i], w, version, rest) THEN log[i].amount ELSE 0
    BY <1>1, <1>2, <1>3 DEF AmountsOf
  <2> QED
    BY <2>1, <2>2
<1>5. /\ Len(log) \in Nat /\ Len(a) = Len(log) /\ Len(b) = Len(log) /\ Len(c) = Len(log)
      /\ a \in Seq(Nat) /\ b \in Seq(Nat) /\ c \in Seq(Nat)
  BY <1>1, <1>2, <1>3 DEF AmountsOf
<1>6. SumOf(a) <= SumOf(b) + SumOf(c)
  BY <1>4, <1>5, SumCovered
<1> QED
  BY <1>1, <1>2, <1>3, <1>6 DEF AmountsOf

LEMMA SentNothing ==
    ASSUME NEW log \in Seq(Transfer), NEW w, NEW version, NEW instants
    PROVE  /\ SentUnder(log, w, version, instants) \in Nat
           /\ (\A i \in 1 .. Len(log) : ~SentBy(log[i], w, version, instants)) =>
                SentUnder(log, w, version, instants) = 0
<1>1. PICK a : AmountsOf(a, log, w, version, instants)
  BY SentIsSum
<1>2. SumOf(a) \in Nat /\ ((\A i \in 1 .. Len(log) : a[i] = 0) => SumOf(a) = 0)
  <2>1. Len(log) \in Nat /\ a \in Seq(Nat) /\ Len(a) = Len(log)
    BY <1>1 DEF AmountsOf
  <2> QED
    BY <2>1, SumIsNumber
<1> QED
  BY <1>1, <1>2 DEF AmountsOf

LEMMA SentWithin ==
    ASSUME NEW log \in Seq(Transfer), NEW w, NEW version, NEW part, NEW all,
           \A i \in 1 .. Len(log) :
             SentBy(log[i], w, version, part) => SentBy(log[i], w, version, all)
    PROVE  SentUnder(log, w, version, part) <= SentUnder(log, w, version, all)
<1>1. SentUnder(log, w, version, part)
        <= SentUnder(log, w, version, all) + SentUnder(log, w, version, {})
  BY SentCovered
<1>2. SentUnder(log, w, version, {}) = 0
  BY SentNothing DEF SentBy
<1>3. SentUnder(log, w, version, part) \in Nat /\ SentUnder(log, w, version, all) \in Nat
  BY SentNothing
<1> QED
  BY <1>1, <1>2, <1>3

\* One more transfer.
LEMMA SentProlonged ==
    ASSUME NEW log \in Seq(Transfer), NEW made \in Transfer,
           NEW w, NEW version, NEW instants
    PROVE  SentUnder(Append(log, made), w, version, instants) =
             SentUnder(log, w, version, instants)
               + IF SentBy(made, w, version, instants) THEN made.amount ELSE 0
<1> DEFINE m == Len(log)
           longer == Append(log, made)
<1>1. m \in Nat /\ longer \in Seq(Transfer) /\ Len(longer) = m + 1
      /\ longer[m + 1] = made /\ \A i \in 1 .. m : longer[i] = log[i]
  OBVIOUS
<1>2. PICK a : AmountsOf(a, log, w, version, instants)
  BY SentIsSum
<1> HIDE DEF longer
<1>3. PICK b : AmountsOf(b, longer, w, version, instants)
  BY <1>1, SentIsSum
<1>4. /\ a \in Seq(Nat) /\ Len(a) = m /\ b \in Seq(Nat) /\ Len(b) = m + 1
      /\ \A i \in 1 .. m : b[i] = a[i]
  <2>1. a \in Seq(Nat) /\ Len(a) = m /\ b \in Seq(Nat) /\ Len(b) = m + 1
    BY <1>1, <1>2, <1>3 DEF AmountsOf
  <2>2. ASSUME NEW i \in 1 .. m
        PROVE  b[i] = a[i]
    <3>1. i \in 1 .. Len(longer) /\ longer[i] = log[i]
      BY <1>1
    <3>2. /\ a[i] = IF SentBy(log[i], w, version, instants) THEN log[i].amount ELSE 0
          /\ b[i] = IF SentBy(longer[i], w, version, instants) THEN longer[i].amount ELSE 0
      BY <1>2, <1>3, <3>1 DEF AmountsOf
    <3> QED
      BY <3>1, <3>2
  <2> QED
    BY <2>1, <2>2
<1>5. b[m + 1] = IF SentBy(made, w, version, instants) THEN made.amount ELSE 0
  BY <1>1, <1>3 DEF AmountsOf
<1> HIDE DEF m
<1>6. SumOf(b) = SumOf(a) + b[m + 1]
  BY <1>1, <1>4, SumProlonged
<1> QED
  BY <1>2, <1>3, <1>5, <1>6 DEF longer, AmountsOf

-----------------------------------------------------------------------------
(* One wallet, one policy version, one limit. *)

AllBy(log, t) == \A i \in 1 .. Len(log) : log[i].at <= t
Sent(entry, w, version) == OwnerOf[entry.from] = w /\ entry.version = version

\* The counter has seen every transfer of its window and the window every transfer:
\* what the window holds is within the counter and within the limit, and so is what
\* the instants of one window's length before it hold.
Kept(log, w, c, version, limit, t) ==
    /\ c.start <= t
    /\ \A i \in 1 .. Len(log) : Sent(log[i], w, version) => log[i].at < c.start + limit.window
    /\ SentUnder(log, w, version, c.start .. t) <= c.spent
    /\ SentUnder(log, w, version, c.start .. t) <= limit.amount
    /\ SentUnder(log, w, version, c.start - limit.window + 1 .. c.start - 1) <= limit.amount

PeriodsKept(log, w, version, limit) ==
    \A from \in Int :
      SentUnder(log, w, version, from .. from + limit.window - 1) <= 2 * limit.amount

LimitRecord == [amount : Nat, window : Nat \ {0}]

\* Before the first transfer under a version there is nothing to count.
LEMMA NothingSentKept ==
    ASSUME NEW log \in Seq(Transfer), NEW w, NEW version, NEW c \in Counter,
           NEW limit \in LimitRecord, NEW t \in Int, c.start <= t,
           \A i \in 1 .. Len(log) : ~Sent(log[i], w, version)
    PROVE  Kept(log, w, c, version, limit, t) /\ PeriodsKept(log, w, version, limit)
<1>1. \A instants : SentUnder(log, w, version, instants) = 0
  BY SentNothing DEF SentBy, Sent
<1>2. limit.amount \in Nat /\ c.spent \in Nat
  BY DEF LimitRecord, Counter
<1> QED
  BY <1>1, <1>2 DEF Kept, PeriodsKept

\* Time passes, and nothing was sent in what is still to come.
LEMMA KeptInTime ==
    ASSUME NEW log \in Seq(Transfer), NEW w, NEW version, NEW c \in Counter,
           NEW limit \in LimitRecord, NEW t \in Int, NEW u \in Int, t <= u,
           AllBy(log, t), Kept(log, w, c, version, limit, t)
    PROVE  Kept(log, w, c, version, limit, u)
<1>1. c.start \in Int /\ c.spent \in Nat /\ limit.amount \in Nat
  BY DEF Counter, LimitRecord
<1>2. ASSUME NEW i \in 1 .. Len(log), SentBy(log[i], w, version, c.start .. u)
      PROVE  SentBy(log[i], w, version, c.start .. t)
  <2>1. log[i].at \in Nat /\ log[i].at <= t
    BY LogEntries DEF AllBy
  <2> QED
    BY <1>1, <1>2, <2>1 DEF SentBy
<1>3. SentUnder(log, w, version, c.start .. u) <= SentUnder(log, w, version, c.start .. t)
  BY <1>2, SentWithin
<1>4. /\ SentUnder(log, w, version, c.start .. u) \in Nat
      /\ SentUnder(log, w, version, c.start .. t) \in Nat
  BY SentNothing
<1> QED
  BY <1>1, <1>3, <1>4 DEF Kept

\* A transfer of another wallet, or under another version, counts nowhere here.
LEMMA OthersKept ==
    ASSUME NEW log \in Seq(Transfer), NEW made \in Transfer, NEW w, NEW version,
           ~Sent(made, w, version), NEW limit
    PROVE  /\ PeriodsKept(log, w, version, limit) => PeriodsKept(Append(log, made), w, version, limit)
           /\ \A c, t : Kept(log, w, c, version, limit, t) =>
                Kept(Append(log, made), w, c, version, limit, t)
<1> DEFINE longer == Append(log, made)
<1>1. \A instants : SentUnder(longer, w, version, instants) = SentUnder(log, w, version, instants)
  <2>1. ASSUME NEW instants
        PROVE  SentUnder(longer, w, version, instants) = SentUnder(log, w, version, instants)
    <3>1. ~SentBy(made, w, version, instants)
      BY DEF Sent, SentBy
    <3>2. SentUnder(log, w, version, instants) \in Nat
      BY SentNothing
    <3> QED
      BY <3>1, <3>2, SentProlonged
  <2> QED
    BY <2>1
<1>2. ASSUME NEW i \in 1 .. Len(longer)
      PROVE  longer[i] = made \/ (i \in 1 .. Len(log) /\ longer[i] = log[i])
  OBVIOUS
<1> HIDE DEF longer
<1>3. PeriodsKept(log, w, version, limit) => PeriodsKept(longer, w, version, limit)
  BY <1>1 DEF PeriodsKept
<1>4. ASSUME NEW c, NEW t, Kept(log, w, c, version, limit, t)
      PROVE  Kept(longer, w, c, version, limit, t)
  BY <1>1, <1>2, <1>4 DEF Kept
<1> QED
  BY <1>3, <1>4 DEF longer

\* A transfer within its window: the counter goes up by what the window does.
LEMMA CountedInWindow ==
    ASSUME NEW log \in Seq(Transfer), NEW made \in Transfer, NEW w, NEW version,
           NEW c \in Counter, NEW d \in Counter, NEW limit \in LimitRecord,
           Sent(made, w, version), AllBy(log, made.at), Kept(log, w, c, version, limit, made.at),
           made.at < c.start + limit.window, d.start = c.start,
           d.spent = c.spent + made.amount, d.spent <= limit.amount
    PROVE  Kept(Append(log, made), w, d, version, limit, made.at)
<1> DEFINE longer == Append(log, made)
           t == made.at
           s == c.start
           before == s - limit.window + 1 .. s - 1
<1>1. /\ t \in Nat /\ made.amount \in Nat /\ s \in Int /\ limit.window \in Nat
      /\ limit.amount \in Nat /\ c.spent \in Nat /\ d.spent \in Nat
  BY DEF Transfer, Counter, LimitRecord
<1>2. ASSUME NEW i \in 1 .. Len(longer)
      PROVE  longer[i] = made \/ (i \in 1 .. Len(log) /\ longer[i] = log[i])
  OBVIOUS
<1>3. SentUnder(longer, w, version, s .. t) = SentUnder(log, w, version, s .. t) + made.amount
  <2>1. SentBy(made, w, version, s .. t)
    BY <1>1 DEF Sent, SentBy, Kept
  <2> QED
    BY <2>1, SentProlonged
<1>4. SentUnder(longer, w, version, before) = SentUnder(log, w, version, before)
  <2>1. ~SentBy(made, w, version, before)
    BY <1>1 DEF SentBy, Kept
  <2>2. SentUnder(log, w, version, before) \in Nat
    BY SentNothing
  <2> QED
    BY <2>1, <2>2, SentProlonged
<1>5. SentUnder(log, w, version, s .. t) \in Nat
  BY SentNothing
<1> HIDE DEF longer
<1>6. SentUnder(longer, w, version, s .. t) <= d.spent /\ SentUnder(longer, w, version, s .. t) <= limit.amount
  <2>1. SentUnder(log, w, version, s .. t) <= c.spent
    BY DEF Kept
  <2> QED
    BY <1>1, <1>3, <1>5, <2>1
<1>7. SentUnder(longer, w, version, before) <= limit.amount
  BY <1>4 DEF Kept
<1>8. \A i \in 1 .. Len(longer) : Sent(longer[i], w, version) => longer[i].at < s + limit.window
  BY <1>2 DEF Kept
<1>9. s <= t
  BY DEF Kept
<1>10. Kept(longer, w, d, version, limit, t)
  BY <1>6, <1>7, <1>8, <1>9 DEF Kept
<1> QED
  BY <1>10 DEF longer

\* A transfer after it: the window starts with the transfer, and the last one lies
\* wholly before.
LEMMA CountedAfresh ==
    ASSUME NEW log \in Seq(Transfer), NEW made \in Transfer, NEW w, NEW version,
           NEW c \in Counter, NEW d \in Counter, NEW limit \in LimitRecord,
           Sent(made, w, version), AllBy(log, made.at), Kept(log, w, c, version, limit, made.at),
           c.start + limit.window <= made.at, d.start = made.at,
           d.spent = made.amount, d.spent <= limit.amount
    PROVE  Kept(Append(log, made), w, d, version, limit, made.at)
<1> DEFINE longer == Append(log, made)
           t == made.at
           s == c.start
           before == t - limit.window + 1 .. t - 1
<1>1. /\ t \in Nat /\ made.amount \in Nat /\ s \in Int /\ limit.window \in Nat /\ limit.window > 0
      /\ limit.amount \in Nat /\ c.spent \in Nat /\ d.spent \in Nat
  BY DEF Transfer, Counter, LimitRecord
<1>2. ASSUME NEW i \in 1 .. Len(longer)
      PROVE  longer[i] = made \/ (i \in 1 .. Len(log) /\ longer[i] = log[i])
  OBVIOUS
<1>3. ASSUME NEW i \in 1 .. Len(log), Sent(log[i], w, version)
      PROVE  log[i].at \in Nat /\ log[i].at < s + limit.window /\ log[i].at < t
  <2>1. log[i].at \in Nat
    BY LogEntries
  <2>2. log[i].at < s + limit.window
    BY <1>3 DEF Kept
  <2>3. s + limit.window <= t
    OBVIOUS
  <2> HIDE DEF s, t
  <2> QED
    BY <1>1, <2>1, <2>2, <2>3
<1>4. SentUnder(longer, w, version, t .. t) = made.amount
  <2>1. SentBy(made, w, version, t .. t)
    BY <1>1 DEF Sent, SentBy
  <2>2. \A i \in 1 .. Len(log) : ~SentBy(log[i], w, version, t .. t)
    BY <1>1, <1>3 DEF SentBy, Sent
  <2>3. SentUnder(log, w, version, t .. t) = 0
    BY <2>2, SentNothing
  <2> QED
    BY <1>1, <2>1, <2>3, SentProlonged
<1>5. SentUnder(longer, w, version, before) <= limit.amount
  <2>1. ~SentBy(made, w, version, before)
    BY <1>1 DEF SentBy
  <2>2. ASSUME NEW i \in 1 .. Len(log), SentBy(log[i], w, version, before)
        PROVE  SentBy(log[i], w, version, s .. t)
    <3> DEFINE at == log[i].at
               window == limit.window
    <3>1. at \in t - window + 1 .. t - 1
      BY <2>2 DEF SentBy
    <3>2. at \in Int /\ t \in Int /\ s \in Int /\ window \in Int /\ s + window <= t
      BY <1>1, LogEntries
    <3> HIDE DEF at, t, s, window
    <3>3. at \in s .. t
      BY <3>1, <3>2
    <3> QED
      BY <2>2, <3>3 DEF SentBy, at
  <2>3. SentUnder(log, w, version, before) <= SentUnder(log, w, version, s .. t)
    BY <2>2, SentWithin
  <2>4. SentUnder(log, w, version, before) \in Nat /\ SentUnder(log, w, version, s .. t) \in Nat
    BY SentNothing
  <2>5. SentUnder(longer, w, version, before) = SentUnder(log, w, version, before)
    BY <2>1, <2>4, SentProlonged
  <2>6. SentUnder(log, w, version, s .. t) <= limit.amount
    BY DEF Kept
  <2> QED
    BY <1>1, <2>3, <2>4, <2>5, <2>6
<1> HIDE DEF longer
<1>6. ASSUME NEW i \in 1 .. Len(longer), Sent(longer[i], w, version)
      PROVE  longer[i].at < t + limit.window
  BY <1>1, <1>2, <1>3, <1>6
<1>7. Kept(longer, w, d, version, limit, t)
  BY <1>1, <1>4, <1>5, <1>6 DEF Kept
<1> QED
  BY <1>7 DEF longer

\* A period that holds the last transfer lies within that transfer's window and the
\* length of one before it, each of which holds at most the limit.
LEMMA PeriodsKeptByLast ==
    ASSUME NEW log \in Seq(Transfer), NEW made \in Transfer, NEW w, NEW version,
           NEW d \in Counter, NEW limit \in LimitRecord,
           AllBy(log, made.at), PeriodsKept(log, w, version, limit),
           Kept(Append(log, made), w, d, version, limit, made.at)
    PROVE  PeriodsKept(Append(log, made), w, version, limit)
<1> DEFINE longer == Append(log, made)
           t == made.at
           s == d.start
           before == s - limit.window + 1 .. s - 1
<1> SUFFICES ASSUME NEW from \in Int
             PROVE  SentUnder(longer, w, version, from .. from + limit.window - 1) <= 2 * limit.amount
  BY DEF PeriodsKept
<1> DEFINE period == from .. from + limit.window - 1
<1>1. /\ t \in Nat /\ s \in Int /\ limit.window \in Nat /\ limit.amount \in Nat
      /\ longer \in Seq(Transfer)
  BY DEF Transfer, Counter, LimitRecord
<1>2. CASE ~SentBy(made, w, version, period)
  <2>1. SentUnder(log, w, version, period) \in Nat
    BY SentNothing
  <2>2. SentUnder(longer, w, version, period) = SentUnder(log, w, version, period)
    BY <1>2, <2>1, SentProlonged
  <2> QED
    BY <2>2 DEF PeriodsKept
<1>3. CASE SentBy(made, w, version, period)
  <2>1. from <= t /\ t <= from + limit.window - 1
    BY <1>1, <1>3 DEF SentBy
  <2>2. ASSUME NEW i \in 1 .. Len(longer)
        PROVE  longer[i].at <= t /\ longer[i].at \in Nat
    <3>1. longer[i] = made \/ (i \in 1 .. Len(log) /\ longer[i] = log[i])
      OBVIOUS
    <3> QED
      BY <1>1, <3>1, LogEntries DEF AllBy
  <2>3. s <= t
    BY DEF Kept
  <2>4. ASSUME NEW i \in 1 .. Len(longer), SentBy(longer[i], w, version, period)
        PROVE  SentBy(longer[i], w, version, s .. t) \/ SentBy(longer[i], w, version, before)
    <3> DEFINE at == longer[i].at
    <3>1. at \in Nat /\ at <= t /\ at \in period
      BY <2>2, <2>4 DEF SentBy
    <3> HIDE DEF at
    <3>2. at \in s .. t \/ at \in before
      BY <1>1, <2>1, <2>3, <3>1
    <3> QED
      BY <2>4, <3>2 DEF SentBy, at
  <2> HIDE DEF longer, period, before
  <2>5. SentUnder(longer, w, version, period)
          <= SentUnder(longer, w, version, s .. t) + SentUnder(longer, w, version, before)
    BY <1>1, <2>4, SentCovered
  <2>6. /\ SentUnder(longer, w, version, period) \in Nat
        /\ SentUnder(longer, w, version, s .. t) \in Nat
        /\ SentUnder(longer, w, version, before) \in Nat
    BY <1>1, SentNothing
  <2>7. /\ SentUnder(longer, w, version, s .. t) <= limit.amount
        /\ SentUnder(longer, w, version, before) <= limit.amount
    BY DEF Kept, longer, before
  <2> QED
    BY <1>1, <2>5, <2>6, <2>7 DEF period
<1> QED
  BY <1>2, <1>3

-----------------------------------------------------------------------------
(* Every wallet, every version, every limit. *)

\* The log holds nothing that is still to come, and nothing of a wallet that has
\* no counter.
LogWithin ==
    \A i \in 1 .. Len(transfers) :
      /\ transfers[i].at <= now /\ transfers[i].version <= policyVersion
      /\ counters[OwnerOf[transfers[i].from]] # NoAccount

\* A window starts at the epoch or with a transfer.
WindowsStarted ==
    \A w \in Wallet : counters[w] # NoAccount =>
      counters[w].start = Epoch \/ counters[w].start <= now

WindowsKept ==
    \A w \in Wallet : counters[w] # NoAccount =>
      \A limit \in LimitsOf(policyVersion) :
        Kept(transfers, w, counters[w], policyVersion, limit, now)

AllPeriodsKept ==
    \A w \in Wallet, version \in 1 .. policyVersion :
      \A limit \in LimitsOf(version) : PeriodsKept(transfers, w, version, limit)

WInv == LogWithin /\ WindowsStarted /\ WindowsKept /\ AllPeriodsKept

\* A limit that can be exceeded is the only one of its version, and the epoch is too
\* far back for its first window to be open.
LEMMA LimitsAre ==
    ASSUME NEW rules \in Rules, NEW limit \in rules.periodLimit, limit.amount < MaxU64
    PROVE  /\ limit \in LimitRecord
           /\ rules.periodLimit = {limit}
           /\ Epoch + limit.window <= 1 /\ Epoch <= 0
<1>1. rules.periodLimit \in Option([amount : Nat, window : Nat])
  BY RulesAssumption DEF PolicyView
<1>2. limit.window > 0 /\ Epoch + limit.window <= 1
  BY RulesAssumption, EpochAssumption
<1>3. limit \in [amount : Nat, window : Nat] /\ rules.periodLimit = {limit}
  BY <1>1 DEF Option
<1>4. limit \in LimitRecord
  BY <1>2, <1>3 DEF LimitRecord
<1> QED
  BY <1>2, <1>3, <1>4, EpochAssumption DEF LimitRecord

\* The holders' steps leave the governance to itself, so what it keeps it keeps here.
LEMMA HoldersAreGoverned == HoldersSpec => Spec
<1>1. HoldersInit => Init
  BY DEF HoldersInit
<1>2. [HoldersNext]_hvars => [Next]_vars
  BY HolderStepsLeaveGovernance DEF HoldersNext, Govern, hvars
<1> QED
  BY <1>1, <1>2, PTL DEF HoldersSpec, Spec

\* A step of the governance: time goes on, and a version is written beyond the others.
LEMMA PolicySteps ==
    ASSUME TypeOK, Next
    PROVE  /\ now <= now' /\ policyVersion <= policyVersion'
           /\ \A v \in 1 .. policyVersion : policies'[v] = policies[v]
           /\ policyVersion' \in {policyVersion, policyVersion + 1}
<1>1. now \in Nat /\ policyVersion \in 1 .. MaxVersion /\ MaxVersion \in Nat
      /\ policies \in [1 .. MaxVersion -> Policy \cup {NoPolicy}]
  BY VersionAssumption DEF TypeOK, ProposalsTypeOK
<1>2. now' = now \/ now' = now + 1
  BY StepShapes DEF RaisedShape, ApprovedShape, ClosedShape, ClockShape, SignedShape,
     ExecutedShape, Propose, Approve, CloseProposal, Tick, Signed, Executed
<1>3. \/ UNCHANGED <<policyVersion, policies>>
      \/ \E version \in 2 .. MaxVersion : \E rules, author : WritePolicy(version, rules, author)
  BY StepShapes DEF RaisedShape, ApprovedShape, ClosedShape, ClockShape, SignedShape,
     ExecutedShape, Effect, governed
<1>4. CASE UNCHANGED <<policyVersion, policies>>
  BY <1>1, <1>2, <1>4
<1>5. CASE \E version \in 2 .. MaxVersion : \E rules, author : WritePolicy(version, rules, author)
  <2>1. PICK version \in 2 .. MaxVersion :
          /\ version = policyVersion + 1 /\ policyVersion' = version
          /\ \E written : policies' = [policies EXCEPT ![version] = written]
    BY <1>5 DEF WritePolicy, VersionIsNext
  <2> QED
    BY <1>1, <1>2, <2>1
<1> QED
  BY <1>3, <1>4, <1>5


-----------------------------------------------------------------------------
(* One lemma to a kind of step. *)

\* The limits of a version that is written are limits of rules.
LEMMA LimitsOfWritten ==
    ASSUME HInv, PolicyHistory, NEW version \in 1 .. policyVersion, NEW limit \in LimitsOf(version)
    PROVE  /\ policies[version].rules \in Rules
           /\ limit \in policies[version].rules.periodLimit /\ limit.amount < MaxU64
<1>1. version \in 1 .. MaxVersion
  BY VersionAssumption DEF HInv, HoldersTypeOK, TypeOK
<1>2. policies[version] \in Policy
  BY <1>1 DEF HInv, HoldersTypeOK, TypeOK, PolicyHistory
<1> QED
  BY <1>2 DEF Policy, LimitsOf

LEMMA QuietWindows ==
    ASSUME WInv, UNCHANGED <<counters, transfers, now, policyVersion, policies>>
    PROVE  WInv'
BY DEF WInv, LogWithin, WindowsStarted, WindowsKept, AllPeriodsKept, LimitsOf

\* The governance moves: the windows grow no fuller with time, and under a version
\* just written nothing was sent yet.
LEMMA GovernWindows ==
    ASSUME HInv, HInv', PolicyHistory, PolicyHistory', WInv, Next, UNCHANGED held
    PROVE  WInv'
<1>1. /\ now <= now' /\ policyVersion <= policyVersion'
      /\ \A v \in 1 .. policyVersion : policies'[v] = policies[v]
      /\ policyVersion' \in {policyVersion, policyVersion + 1}
  BY PolicySteps DEF HInv, HoldersTypeOK
<1>2. /\ now \in Nat /\ now' \in Nat /\ policyVersion \in Nat /\ policyVersion' \in Nat
      /\ policyVersion' \in 1 .. policyVersion'
      /\ transfers \in Seq(Transfer) /\ counters \in [Wallet -> Counter \cup {NoAccount}]
  BY VersionAssumption DEF HInv, HoldersTypeOK, TypeOK, ProposalsTypeOK
<1>3. transfers' = transfers /\ counters' = counters
  BY DEF held
<1>4. ASSUME NEW version \in 1 .. policyVersion', NEW limit \in LimitsOf(version)'
      PROVE  /\ limit \in LimitRecord /\ Epoch <= 0
             /\ version \in 1 .. policyVersion => limit \in LimitsOf(version)
  <2>1. policies'[version].rules \in Rules
        /\ limit \in policies'[version].rules.periodLimit /\ limit.amount < MaxU64
    <3>1. version \in 1 .. MaxVersion
      BY VersionAssumption DEF HInv, HoldersTypeOK, TypeOK
    <3>2. policies'[version] \in Policy
      BY <3>1 DEF HInv, HoldersTypeOK, TypeOK, PolicyHistory
    <3> QED
      BY <3>2, <1>4 DEF Policy, LimitsOf
  <2>2. version \in 1 .. policyVersion => limit \in LimitsOf(version)
    BY <1>1, <2>1 DEF LimitsOf
  <2> QED
    BY <2>1, <2>2, LimitsAre
<1>5. ASSUME NEW i \in 1 .. Len(transfers)
      PROVE  /\ transfers[i].at \in Nat /\ transfers[i].version \in Nat
             /\ transfers[i].at <= now /\ transfers[i].version <= policyVersion
             /\ counters[OwnerOf[transfers[i].from]] # NoAccount
  BY <1>2, LogEntries DEF WInv, LogWithin
<1>6. LogWithin'
  BY <1>1, <1>2, <1>3, <1>5 DEF LogWithin
<1>7. WindowsStarted'
  <2> SUFFICES ASSUME NEW w \in Wallet, counters[w] # NoAccount
               PROVE  counters[w].start = Epoch \/ counters[w].start <= now'
    BY <1>3 DEF WindowsStarted
  <2>1. counters[w].start \in Int
    BY <1>2 DEF Counter
  <2> QED
    BY <1>1, <1>2, <2>1 DEF WInv, WindowsStarted
<1>8. ASSUME policyVersion' # policyVersion, NEW w, NEW i \in 1 .. Len(transfers)
      PROVE  ~Sent(transfers[i], w, policyVersion')
  BY <1>1, <1>2, <1>5, <1>8 DEF Sent
<1>9. WindowsKept'
  <2> SUFFICES ASSUME NEW w \in Wallet, counters[w] # NoAccount,
                      NEW limit \in LimitsOf(policyVersion)'
               PROVE  Kept(transfers, w, counters[w], policyVersion', limit, now')
    BY <1>3 DEF WindowsKept
  <2>1. counters[w] \in Counter /\ limit \in LimitRecord
    BY <1>2, <1>4
  <2>2. CASE policyVersion' = policyVersion
    <3>1. limit \in LimitsOf(policyVersion)
      BY <1>2, <1>4, <2>2
    <3>2. Kept(transfers, w, counters[w], policyVersion, limit, now)
      BY <3>1 DEF WInv, WindowsKept
    <3>3. AllBy(transfers, now)
      BY <1>5 DEF AllBy
    <3> QED
      BY <1>1, <1>2, <2>1, <2>2, <3>2, <3>3, KeptInTime
  <2>3. CASE policyVersion' # policyVersion
    <3>1. counters[w].start <= now'
      <4>1. counters[w].start = Epoch \/ counters[w].start <= now
        BY DEF WInv, WindowsStarted
      <4>2. Epoch <= 0 /\ counters[w].start \in Int
        BY <1>2, <1>4, <2>1 DEF Counter
      <4> QED
        BY <1>1, <1>2, <4>1, <4>2, EpochAssumption
    <3>2. \A i \in 1 .. Len(transfers) : ~Sent(transfers[i], w, policyVersion')
      BY <1>8, <2>3
    <3>3. now' \in Int
      BY <1>2
    <3> QED
      BY <1>2, <2>1, <3>1, <3>2, <3>3, NothingSentKept
  <2> QED
    BY <2>2, <2>3
<1>10. AllPeriodsKept'
  <2> SUFFICES ASSUME NEW w \in Wallet, NEW version \in 1 .. policyVersion',
                      NEW limit \in LimitsOf(version)'
               PROVE  PeriodsKept(transfers, w, version, limit)
    BY <1>3 DEF AllPeriodsKept
  <2>1. CASE version \in 1 .. policyVersion
    BY <1>4, <2>1 DEF WInv, AllPeriodsKept
  <2>2. CASE version \notin 1 .. policyVersion
    <3> DEFINE none == [start |-> 0, spent |-> 0]
    <3>1. version = policyVersion' /\ policyVersion' # policyVersion
      BY <1>1, <1>2, <2>2
    <3>2. none \in Counter /\ none.start <= 0 /\ 0 \in Int
      BY DEF Counter
    <3> HIDE DEF none
    <3> QED
      BY <1>2, <1>4, <1>8, <3>1, <3>2, NothingSentKept
  <2> QED
    BY <2>1, <2>2
<1> QED
  BY <1>6, <1>7, <1>9, <1>10 DEF WInv

\* A thaw: the counter it may create is one of a wallet that has sent nothing.
LEMMA ThawWindows ==
    ASSUME HInv, PolicyHistory, WInv, NEW account \in Account,
           counters' = [counters EXCEPT ![OwnerOf[account]] = CounterAfterThaw(OwnerOf[account])],
           UNCHANGED <<now, policyVersion, policies, transfers>>
    PROVE  WInv'
<1> DEFINE x == OwnerOf[account]
           fresh == [start |-> Epoch, spent |-> 0]
<1>1. CASE counters[x] # NoAccount
  <2>1. counters' = counters
    BY <1>1 DEF CounterAfterThaw, HInv, HoldersTypeOK
  <2> QED
    BY <2>1, QuietWindows
<1>2. CASE counters[x] = NoAccount
  <2>1. /\ now \in Nat /\ policyVersion \in 1 .. policyVersion
        /\ transfers \in Seq(Transfer) /\ counters \in [Wallet -> Counter \cup {NoAccount}]
        /\ x \in Wallet
    BY VersionAssumption, OwnerAssumption DEF HInv, HoldersTypeOK, TypeOK, ProposalsTypeOK
  <2>2. fresh \in Counter /\ fresh # NoAccount /\ fresh.start = Epoch
    BY EpochAssumption, NoAccountAssumption DEF Counter
  <2>3. counters' = [counters EXCEPT ![x] = fresh]
    BY <1>2 DEF CounterAfterThaw
  <2> HIDE DEF fresh
  <2>4. \A w \in Wallet : counters'[w] = IF w = x THEN fresh ELSE counters[w]
    BY <2>1, <2>3
  <2>5. LogWithin'
    <3> SUFFICES ASSUME NEW i \in 1 .. Len(transfers)
                 PROVE  /\ transfers[i].at <= now /\ transfers[i].version <= policyVersion
                        /\ counters'[OwnerOf[transfers[i].from]] # NoAccount
      BY DEF LogWithin
    <3>1. OwnerOf[transfers[i].from] \in Wallet
      BY <2>1, LogEntries, OwnerAssumption
    <3> QED
      BY <2>2, <2>4, <3>1 DEF WInv, LogWithin
  <2>6. WindowsStarted'
    BY <2>2, <2>4 DEF WInv, WindowsStarted
  <2>7. ASSUME NEW i \in 1 .. Len(transfers)
        PROVE  ~Sent(transfers[i], x, policyVersion)
    BY <1>2 DEF WInv, LogWithin, Sent
  <2>8. WindowsKept'
    <3> SUFFICES ASSUME NEW w \in Wallet, counters'[w] # NoAccount,
                        NEW limit \in LimitsOf(policyVersion)
                 PROVE  Kept(transfers, w, counters'[w], policyVersion, limit, now)
      BY DEF WindowsKept, LimitsOf
    <3>1. CASE w # x
      BY <2>4, <3>1 DEF WInv, WindowsKept
    <3>2. CASE w = x
      <4>1. limit \in LimitRecord /\ Epoch <= 0
        BY <2>1, LimitsOfWritten, LimitsAre
      <4>2. fresh.start <= now /\ now \in Int
        BY <2>1, <2>2, <4>1, EpochAssumption
      <4>3. Kept(transfers, x, fresh, policyVersion, limit, now)
        BY <2>1, <2>2, <2>7, <4>1, <4>2, NothingSentKept
      <4> QED
        BY <2>4, <3>2, <4>3
    <3> QED
      BY <3>1, <3>2
  <2>9. AllPeriodsKept'
    BY DEF WInv, AllPeriodsKept, LimitsOf
  <2> QED
    BY <2>5, <2>6, <2>8, <2>9 DEF WInv
<1> QED
  BY <1>1, <1>2


\* A transfer: the counter of its sender counts it, in the window that is open or in
\* one that it opens.
LEMMA TransferWindows ==
    ASSUME HInv, PolicyHistory, WInv, NEW from \in Account, NEW to \in Account,
           NEW amount \in Nat, NEW version \in 1 .. MaxVersion,
           TransferTokens(from, to, amount, version)
    PROVE  WInv'
<1> DEFINE x == OwnerOf[from]
           c == counters[x]
           rules == policies[version].rules
           d == Counted(c, rules, amount, now)
           made == [from |-> from, to |-> to, amount |-> amount, at |-> now, version |-> version]
           context == ContextOf(x, OwnerOf[to], amount, version)
           longer == Append(transfers, made)
<1>1. /\ now \in Nat /\ policyVersion \in 1 .. policyVersion /\ x \in Wallet
      /\ transfers \in Seq(Transfer) /\ counters \in [Wallet -> Counter \cup {NoAccount}]
      /\ version \in Nat
  BY VersionAssumption, OwnerAssumption DEF HInv, HoldersTypeOK, TypeOK, ProposalsTypeOK
<1>2. rules \in Rules /\ rules \in PolicyView
  <2>1. policies[version] \in Policy
    BY DEF TransferTokens, HInv, HoldersTypeOK, TypeOK
  <2> QED
    BY <2>1, RulesAssumption DEF Policy
<1>3. version = policyVersion /\ ~PeriodExceeded(rules, context)
  <2>1. Allowed(rules, context)
    BY DEF TransferTokens, HookAllows
  <2>2. context.policyVersion = version /\ context.mintPolicyVersion = policyVersion
    BY DEF ContextOf
  <2> HIDE DEF rules, context
  <2> QED
    BY <1>2, <2>1, <2>2, AllowedMeans
<1>4. c # NoAccount /\ c \in Counter
  <2>1. ThawedNowOrLater(from)
    BY DEF TransferTokens, ThawedNowOrLater
  <2> QED
    BY <1>1, <2>1 DEF HInv, ThawedAreOnboarded
<1>5. d \in Counter /\ d # NoAccount
  BY <1>1, <1>4, CountedIsCounter, NoAccountAssumption
<1>6. made \in Transfer /\ Sent(made, x, policyVersion)
      /\ made.at = now /\ made.amount = amount /\ made.version = policyVersion
      /\ \A w, v : Sent(made, w, v) => w = x /\ v = policyVersion
      /\ OwnerOf[made.from] = x
  BY <1>1, <1>3 DEF Transfer, Sent
<1>7. transfers' = longer
      /\ UNCHANGED <<now, policyVersion, policies>>
  BY DEF TransferTokens, vars, issuerVars, governed
<1>8. \A w \in Wallet : counters'[w] = IF w = x THEN d ELSE counters[w]
  BY <1>1, <1>4 DEF TransferTokens
<1>9. context.velocity = {c} /\ context.now = now /\ context.amount = amount
  BY <1>4 DEF ContextOf
<1>10. d.start = c.start \/ d.start = now
  BY <1>4 DEF Counted, Counter
<1>11. AllBy(transfers, now)
  BY DEF AllBy, WInv, LogWithin
<1>12. ASSUME NEW i \in 1 .. Len(longer)
       PROVE  longer[i] = made \/ (i \in 1 .. Len(transfers) /\ longer[i] = transfers[i])
  BY <1>1
<1> HIDE DEF made, context, d, longer
<1>13. ASSUME NEW limit \in LimitsOf(policyVersion)
       PROVE  /\ limit \in LimitRecord
              /\ Kept(longer, x, d, policyVersion, limit, now)
  <2>1. limit \in LimitRecord /\ rules.periodLimit = {limit} /\ limit.amount < MaxU64
    BY <1>1, <1>2, <1>3, LimitsOfWritten, LimitsAre
  <2>2. Kept(transfers, x, c, policyVersion, limit, now)
    BY <1>1, <1>4 DEF WInv, WindowsKept
  <2>3. /\ c.start \in Int /\ c.spent \in Nat /\ limit.amount \in Nat /\ limit.window \in Nat
        /\ limit.amount < MaxU64 /\ MaxU64 \in Nat
    BY <1>4, <2>1, WidthAssumption DEF Counter, LimitRecord
  <2>4. ~(SaturatingAdd(IF WindowOpen(c, limit, now) THEN c.spent ELSE 0, amount) > limit.amount)
    BY <1>3, <1>9, <2>1 DEF PeriodExceeded
  <2>5. CASE WindowOpen(c, limit, now)
    <3>1. d = [c EXCEPT !.spent = SaturatingAdd(c.spent, amount)]
      BY <2>1, <2>5 DEF d, Counted
    <3>2. c.spent + amount <= limit.amount /\ SaturatingAdd(c.spent, amount) = c.spent + amount
      BY <2>3, <2>4, <2>5 DEF SaturatingAdd
    <3>3. d.start = c.start /\ d.spent = c.spent + amount /\ d.spent <= limit.amount
      BY <1>4, <3>1, <3>2 DEF Counter
    <3>4. now < c.start + limit.window
      BY <2>5 DEF WindowOpen
    <3> QED
      BY <1>1, <1>4, <1>5, <1>6, <1>11, <2>1, <2>2, <3>3, <3>4, CountedInWindow DEF longer
  <2>6. CASE ~WindowOpen(c, limit, now)
    <3>1. d = [start |-> now, spent |-> amount]
      BY <2>1, <2>6 DEF d, Counted
    <3>2. amount <= limit.amount
      BY <2>3, <2>4, <2>6 DEF SaturatingAdd
    <3>3. c.start + limit.window <= now
      BY <1>1, <2>3, <2>6 DEF WindowOpen
    <3>4. d.start = now /\ d.spent = amount /\ d.spent <= limit.amount
      BY <3>1, <3>2
    <3> QED
      BY <1>1, <1>4, <1>5, <1>6, <1>11, <2>1, <2>2, <3>3, <3>4, CountedAfresh DEF longer
  <2> QED
    BY <2>1, <2>5, <2>6
<1>14. LogWithin'
  <2> SUFFICES ASSUME NEW i \in 1 .. Len(longer)
               PROVE  /\ longer[i].at <= now /\ longer[i].version <= policyVersion
                      /\ counters'[OwnerOf[longer[i].from]] # NoAccount
    BY <1>7 DEF LogWithin
  <2>1. CASE longer[i] = made
    BY <1>1, <1>5, <1>6, <1>8, <2>1
  <2>2. CASE i \in 1 .. Len(transfers) /\ longer[i] = transfers[i]
    <3>1. OwnerOf[transfers[i].from] \in Wallet
      BY <1>1, <2>2, LogEntries, OwnerAssumption
    <3> QED
      BY <1>5, <1>8, <2>2, <3>1 DEF WInv, LogWithin
  <2> QED
    BY <1>12, <2>1, <2>2
<1>15. WindowsStarted'
  <2> SUFFICES ASSUME NEW w \in Wallet, counters'[w] # NoAccount
               PROVE  counters'[w].start = Epoch \/ counters'[w].start <= now
    BY <1>7 DEF WindowsStarted
  <2>1. CASE w = x
    BY <1>1, <1>4, <1>8, <1>10, <2>1 DEF WInv, WindowsStarted
  <2>2. CASE w # x
    BY <1>8, <2>2 DEF WInv, WindowsStarted
  <2> QED
    BY <2>1, <2>2
<1>16. WindowsKept'
  <2> SUFFICES ASSUME NEW w \in Wallet, counters'[w] # NoAccount,
                      NEW limit \in LimitsOf(policyVersion)
               PROVE  Kept(longer, w, counters'[w], policyVersion, limit, now)
    BY <1>7 DEF WindowsKept, LimitsOf
  <2>1. CASE w = x
    BY <1>8, <1>13, <2>1
  <2>2. CASE w # x
    <3>1. counters'[w] = counters[w]
      BY <1>8, <2>2
    <3>2. Kept(transfers, w, counters[w], policyVersion, limit, now)
      BY <3>1 DEF WInv, WindowsKept
    <3>3. ~Sent(made, w, policyVersion)
      BY <1>6, <2>2
    <3> QED
      BY <1>1, <1>6, <3>1, <3>2, <3>3, OthersKept DEF longer
  <2> QED
    BY <2>1, <2>2
<1>17. AllPeriodsKept'
  <2> SUFFICES ASSUME NEW w \in Wallet, NEW v \in 1 .. policyVersion, NEW limit \in LimitsOf(v)
               PROVE  PeriodsKept(longer, w, v, limit)
    BY <1>7 DEF AllPeriodsKept, LimitsOf
  <2>1. PeriodsKept(transfers, w, v, limit)
    BY DEF WInv, AllPeriodsKept
  <2>2. CASE w = x /\ v = policyVersion
    <3>1. limit \in LimitRecord /\ Kept(longer, x, d, policyVersion, limit, now)
      BY <1>13, <2>2
    <3> QED
      BY <1>1, <1>5, <1>6, <1>11, <2>1, <2>2, <3>1, PeriodsKeptByLast DEF longer
  <2>3. CASE ~(w = x /\ v = policyVersion)
    <3>1. ~Sent(made, w, v)
      BY <1>6, <2>3
    <3> QED
      BY <1>1, <1>6, <2>1, <3>1, OthersKept DEF longer
  <2> QED
    BY <2>2, <2>3
<1> QED
  BY <1>14, <1>15, <1>16, <1>17 DEF WInv

-----------------------------------------------------------------------------
LEMMA WindowsInit ==
    ASSUME HoldersInit
    PROVE  WInv
<1>1. transfers = <<>> /\ Len(transfers) = 0 /\ transfers \in Seq(Transfer) /\ policyVersion = 1
  BY DEF HoldersInit, Init
<1>2. counters = [w \in Wallet |-> NoAccount]
  BY DEF HoldersInit
<1>3. LogWithin /\ WindowsStarted /\ WindowsKept
  BY <1>1, <1>2 DEF LogWithin, WindowsStarted, WindowsKept
<1>4. AllPeriodsKept
  <2> SUFFICES ASSUME NEW w \in Wallet, NEW version \in 1 .. policyVersion,
                      NEW limit \in LimitsOf(version)
               PROVE  PeriodsKept(transfers, w, version, limit)
    BY DEF AllPeriodsKept
  <2>1. HInv
    BY HoldersInitInv
  <2>2. limit \in LimitRecord
    <3>1. version = 1
      BY <1>1
    <3>2. PICK rules \in Rules : policies[1].rules = rules
      BY VersionAssumption DEF HoldersInit, Init
    <3> QED
      BY <3>1, <3>2, LimitsAre DEF LimitsOf
  <2> DEFINE none == [start |-> 0, spent |-> 0]
  <2>3. none \in Counter /\ none.start <= 0 /\ 0 \in Int
    BY DEF Counter
  <2>4. \A i \in 1 .. Len(transfers) : ~Sent(transfers[i], w, version)
    BY <1>1
  <2> HIDE DEF none
  <2> QED
    BY <1>1, <2>2, <2>3, <2>4, NothingSentKept
<1> QED
  BY <1>3, <1>4 DEF WInv

LEMMA WindowsNext ==
    ASSUME HInv, HInv', PolicyHistory, PolicyHistory', WInv, [HoldersNext]_hvars
    PROVE  WInv'
<1>1. CASE NextTransfer
  <2>1. PICK route \in Routes, amount \in Amounts, version \in 1 .. MaxVersion :
          TransferTokens(route[1], route[2], amount, version)
    BY <1>1 DEF NextTransfer
  <2>2. route[1] \in Account /\ route[2] \in Account /\ amount \in Nat
    BY OwnerAssumption, StatusesAssumption
  <2> QED
    BY <2>1, <2>2, TransferWindows
<1>2. CASE NextThaw
  <2>1. PICK account \in Account :
          /\ counters' = [counters EXCEPT ![OwnerOf[account]] = CounterAfterThaw(OwnerOf[account])]
          /\ UNCHANGED <<vars, transfers>>
    BY <1>2 DEF NextThaw, ThawNewHolder, ThawKnownHolder, Thawed
  <2>2. UNCHANGED <<now, policyVersion, policies, transfers>>
    BY <2>1 DEF vars, governed
  <2> QED
    BY <2>1, <2>2, ThawWindows
<1>3. CASE NextFreeze \/ NextStatus \/ UNCHANGED hvars
  <2>1. UNCHANGED <<vars, counters, transfers>>
    BY <1>3 DEF NextFreeze, NextStatus, FreezeHolder, UnfreezeHolder, SetHolderStatus, Attest,
       hvars, held
  <2>2. UNCHANGED <<counters, transfers, now, policyVersion, policies>>
    BY <2>1 DEF vars, governed
  <2> QED
    BY <2>2, QuietWindows
<1>4. CASE Govern
  BY <1>4, GovernWindows DEF Govern
<1> QED
  BY <1>1, <1>2, <1>3, <1>4 DEF HoldersNext

\* No window is behind its wallet's transfers, and no period holds more than two
\* limits.
THEOREM WindowsInvariance == HoldersSpec => []WInv
<1>1. HoldersInit => WInv
  BY WindowsInit
<1>2. HInv /\ HInv' /\ PolicyHistory /\ PolicyHistory' /\ WInv /\ [HoldersNext]_hvars => WInv'
  BY WindowsNext
<1>3. HoldersSpec => []PolicyHistory
  BY HoldersAreGoverned, VersionsWithoutGaps, PTL
<1> QED
  BY <1>1, <1>2, <1>3, HoldersInvariance, PTL DEF HoldersSpec

\* Since a wallet's window opened, no transfer of the wallet under the policy in force
\* has escaped its counter, whatever thaws, statuses and versions came in between.
THEOREM CountersSeeAll == HoldersSpec => []CountersMissNothing
<1>1. WInv => CountersMissNothing
  BY DEF WInv, WindowsKept, Kept, CountersMissNothing
<1> QED
  BY <1>1, WindowsInvariance, PTL

\* However a period of the length of a limit's window is laid over the transfers of a
\* wallet, it holds at most twice the limit.
THEOREM PeriodsHoldTwoLimits == HoldersSpec => []TwoLimitsAPeriod
<1>1. HoldersTypeOK /\ WInv => TwoLimitsAPeriod
  <2>1. HoldersTypeOK => \A from \in 1 .. now : from \in Int
    OBVIOUS
  <2> QED
    BY <2>1 DEF WInv, AllPeriodsKept, PeriodsKept, TwoLimitsAPeriod
<1> QED
  BY <1>1, HoldersTypeCorrect, WindowsInvariance, PTL

=============================================================================
