--------------------------- MODULE VerdictsProofs ---------------------------
(***************************************************************************)
(* What the verdicts of the hook rest on, for every policy, every record   *)
(* and every counter.                                                      *)
(***************************************************************************)
EXTENDS PolicyAccount, FiniteSetTheorems, SequenceTheorems, WellFoundedInduction, TLAPS

-----------------------------------------------------------------------------
(* The hook's decision, for every policy, every record and every counter *)

\* Of the numbers in a set there is a least one.
LEMMA LeastExists ==
    ASSUME NEW S \in SUBSET Nat, S # {}
    PROVE  \E i \in S : \A j \in S : i <= j
<1> DEFINE Less == {x \in Nat \X Nat : x[1] < x[2]}
<1>1. IsWellFoundedOn(Less, Nat)
  BY NatLessThanWellFounded DEF OpToRel
<1>2. PICK i \in S : \A j \in S : ~(<<j, i>> \in Less)
  <2> HIDE DEF Less
  <2> QED
    BY <1>1, WFMin
<1>3. ASSUME NEW j \in S
      PROVE  i <= j
  <2>1. <<j, i>> \in Nat \X Nat /\ <<j, i>>[1] = j /\ <<j, i>>[2] = i
    OBVIOUS
  <2>2. ~(j < i)
    BY <1>2, <2>1
  <2> QED
    BY <2>2
<1> QED
  BY <1>3

\* And choosing it finds it.
LEMMA LeastChosen ==
    ASSUME NEW S \in SUBSET Nat, S # {},
           NEW first, first = CHOOSE i \in S : \A j \in S : i <= j
    PROVE  first \in S /\ \A j \in S : first <= j
<1>1. \E i \in S : \A j \in S : i <= j
  BY LeastExists
<1> QED
  BY <1>1, Zenon

\* A transfer is allowed if and only if no check fails.
LEMMA AllowedIffNoneFails ==
    ASSUME NEW p, NEW c
    PROVE  Allowed(p, c) <=> \A i \in 1 .. 13 : ~Checks(p, c)[i][2]
<1> DEFINE checks == Checks(p, c)
           failed == {i \in DOMAIN checks : checks[i][2]}
           first == CHOOSE i \in failed : \A j \in failed : i <= j
<1>1. DOMAIN checks = 1 .. 13
  BY DEF Checks
<1>2. \A i \in 1 .. 13 : checks[i][1] # "allowed"
  BY DEF Checks
<1>3. failed # {} => first \in failed
  <2>1. failed \in SUBSET Nat
    BY <1>1
  <2> HIDE DEF failed
  <2> QED
    BY <2>1, LeastChosen
<1>4. Allowed(p, c) <=> failed = {}
  BY <1>1, <1>2, <1>3 DEF Allowed, Evaluate
<1> QED
  BY <1>1, <1>4

\* A refusal carries the code of the first check that fails.
LEMMA RefusalIsFirst ==
    ASSUME NEW p, NEW c, ~Allowed(p, c)
    PROVE  \E i \in 1 .. 13 :
             /\ Evaluate(p, c) = Checks(p, c)[i][1]
             /\ \A j \in 1 .. 13 : Checks(p, c)[j][2] => i <= j
             /\ Checks(p, c)[i][2]
<1> DEFINE checks == Checks(p, c)
           failed == {i \in DOMAIN checks : checks[i][2]}
           first == CHOOSE i \in failed : \A j \in failed : i <= j
<1>1. DOMAIN checks = 1 .. 13
  BY DEF Checks
<1>2. failed # {}
  BY DEF Allowed, Evaluate
<1>3. first \in failed /\ \A j \in failed : first <= j
  <2>1. failed \in SUBSET Nat
    BY <1>1
  <2> HIDE DEF failed
  <2> QED
    BY <1>2, <2>1, LeastChosen
<1>4. Evaluate(p, c) = checks[first][1]
  BY <1>2 DEF Evaluate
<1>5. first \in 1 .. 13 /\ checks[first][2]
  BY <1>1, <1>3
<1>6. \A j \in 1 .. 13 : checks[j][2] => first <= j
  BY <1>1, <1>3
<1> HIDE DEF first
<1>7. /\ Evaluate(p, c) = Checks(p, c)[first][1]
      /\ \A j \in 1 .. 13 : Checks(p, c)[j][2] => first <= j
      /\ Checks(p, c)[first][2]
  BY <1>4, <1>5, <1>6
<1> QED
  BY <1>5, <1>7

\* A transfer is allowed if and only if what each check asks for is so.
LEMMA AllowedMeans ==
    ASSUME NEW p \in PolicyView, NEW c
    PROVE  Allowed(p, c) <=>
             /\ c.policyVersion = c.mintPolicyVersion
             /\ \A party \in {c.sender, c.recipient} :
                  /\ ~NothingKnown(party, p, c.now)
                  /\ ~OnlyUnaccepted(party, p, c.now)
                  /\ ~OutOfReach(party)
                  /\ ~Denied(party, p, c.now)
             /\ ~TierTooLow(c.recipient, p, c.now)
             /\ ~JurisdictionRefused(c.recipient, p, c.now)
             /\ \A limit \in p.transferLimit : ~(c.amount > limit)
             /\ p.periodLimit = {} \/ c.velocity # {}
             /\ ~PeriodExceeded(p, c)
             /\ ~p.unknownKind
<1>1. \A i \in 1 .. 13 : i \in {1, 2, 3, 4, 5, 6, 7, 8, 9, 10, 11, 12, 13}
  OBVIOUS
<1>2. Allowed(p, c) <=> \A i \in {1, 2, 3, 4, 5, 6, 7, 8, 9, 10, 11, 12, 13} : ~Checks(p, c)[i][2]
  BY <1>1, AllowedIffNoneFails
<1> DEFINE n(i) == Checks(p, c)[i][2]
<1>3. /\ n(1) <=> c.policyVersion # c.mintPolicyVersion
      /\ n(2) <=> NothingKnown(c.sender, p, c.now)
      /\ n(3) <=> NothingKnown(c.recipient, p, c.now)
      /\ n(4) <=> OnlyUnaccepted(c.sender, p, c.now) \/ OnlyUnaccepted(c.recipient, p, c.now)
      /\ n(5) <=> OutOfReach(c.sender) \/ OutOfReach(c.recipient)
  BY DEF Checks
<1>4. /\ n(6) <=> Denied(c.sender, p, c.now)
      /\ n(7) <=> Denied(c.recipient, p, c.now)
      /\ n(8) <=> TierTooLow(c.recipient, p, c.now)
      /\ n(9) <=> JurisdictionRefused(c.recipient, p, c.now)
  BY DEF Checks
<1>5. /\ n(10) <=> \E limit \in p.transferLimit : c.amount > limit
      /\ n(11) <=> p.periodLimit # {} /\ c.velocity = {}
      /\ n(12) <=> PeriodExceeded(p, c)
      /\ n(13) <=> p.unknownKind
  BY DEF Checks
<1>6. Allowed(p, c) <=>
        /\ ~n(1) /\ ~n(2) /\ ~n(3) /\ ~n(4) /\ ~n(5) /\ ~n(6) /\ ~n(7)
        /\ ~n(8) /\ ~n(9) /\ ~n(10) /\ ~n(11) /\ ~n(12) /\ ~n(13)
  BY <1>2
<1> HIDE DEF n
<1> QED
  BY <1>3, <1>4, <1>5, <1>6

\* A record in force later was in force before.
LEMMA FreshOnlyEnds ==
    ASSUME NEW p \in PolicyView, NEW party \in PartyContext, NEW t \in Nat
    PROVE  Fresh(party, p, t + 1) \subseteq Fresh(party, p, t)
<1> SUFFICES ASSUME NEW s \in Fresh(party, p, t + 1)
             PROVE  s \in Fresh(party, p, t)
  OBVIOUS
<1>1. s \in Source /\ party[s].state = "record"
  BY DEF Fresh
<1>2. party[s] \in StatusRecord
  BY <1>1 DEF PartyContext, Source, Unavailable, Absent
<1>3. party[s].expires \subseteq Nat /\ party[s].issued \in Nat /\ p.maxAge \subseteq Nat
  BY <1>2 DEF StatusRecord, Option, PolicyView
<1>4. IsCurrent(party[s], t + 1) => IsCurrent(party[s], t)
  BY <1>3 DEF IsCurrent
<1>5. ProviderCurrent(party[s], p, t + 1) => ProviderCurrent(party[s], p, t)
  BY <1>3, <1>4 DEF ProviderCurrent
<1> QED
  BY <1>1, <1>4, <1>5 DEF Fresh

\* Time passing opens no window and counts nothing twice.
LEMMA PeriodOnlyEases ==
    ASSUME NEW p \in PolicyView, NEW c, NEW d,
           c.now \in Nat, d.now = c.now + 1,
           c.amount \in Nat, d.amount = c.amount,
           c.velocity \in Option(Counter), d.velocity = c.velocity,
           PeriodExceeded(p, d)
    PROVE  PeriodExceeded(p, c)
<1>1. PICK limit \in p.periodLimit, counter \in d.velocity :
        LET spent == IF WindowOpen(counter, limit, d.now) THEN counter.spent ELSE 0
        IN  SaturatingAdd(spent, d.amount) > limit.amount
  BY DEF PeriodExceeded
<1>2. limit \in [amount : Nat, window : Nat] /\ counter \in Counter
  BY DEF PolicyView, Option
<1>3. WindowOpen(counter, limit, d.now) => WindowOpen(counter, limit, c.now)
  BY <1>2 DEF WindowOpen, Counter
<1>4. \A a, b \in Nat : a <= b => SaturatingAdd(a, c.amount) <= SaturatingAdd(b, c.amount)
  BY WidthAssumption DEF SaturatingAdd
<1>5. \A a \in Nat : SaturatingAdd(a, c.amount) \in Nat
  BY WidthAssumption DEF SaturatingAdd
<1>6. LET spent == IF WindowOpen(counter, limit, c.now) THEN counter.spent ELSE 0
      IN  SaturatingAdd(spent, c.amount) > limit.amount
  <2>1. counter.spent \in Nat /\ limit.amount \in Nat /\ 0 <= counter.spent
    BY <1>2 DEF Counter
  <2> QED
    BY <1>1, <1>3, <1>4, <1>5, <2>1
<1> QED
  BY <1>6 DEF PeriodExceeded

-----------------------------------------------------------------------------
(* What a verdict rests on *)

\* The policy and the context keep their types: a later attempt differs in its
\* instant only.
THEOREM VerdictsTypeCorrect == Spec => []TypeOK
<1>1. Init => TypeOK
  <2>1. ASSUME NEW family \in Families, policy \in family.policies, ctx \in Attempt(family)
        PROVE  TypeOK
    BY <2>1, StartAssumption, FamiliesAssumption DEF Attempt, Context, TypeOK
  <2> QED
    BY <2>1 DEF Init
<1>2. TypeOK /\ [AttemptLater]_vars => TypeOK'
  BY DEF TypeOK, Context, AttemptLater, vars
<1> QED
  BY <1>1, <1>2, PTL DEF Spec

\* The code's reading of a record and the reference's are one.
LEMMA FreshIsInForce ==
    ASSUME TypeOK, NEW role \in {"sender", "recipient"}
    PROVE  Fresh(ctx[role], policy, ctx.now) =
             {s \in Source : ctx[role][s].state = "record" /\ InForce(s, ctx[role][s])}
<1>1. ctx[role] \in PartyContext /\ ctx.now \in Nat
  BY DEF TypeOK, Context
<1>2. policy.maxAge \in Option(Nat)
  BY DEF TypeOK, PolicyView
<1>3. ASSUME NEW s \in Source, ctx[role][s].state = "record"
      PROVE  s \in Fresh(ctx[role], policy, ctx.now) <=> InForce(s, ctx[role][s])
  <2> DEFINE record == ctx[role][s]
  <2>1. record \in StatusRecord
    BY <1>1, <1>3 DEF PartyContext, Source, Unavailable, Absent
  <2>2. record.expires \in Option(Nat) /\ record.issued \in Nat
    BY <2>1 DEF StatusRecord
  <2>3. IsCurrent(record, ctx.now) <=>
          (record.expires = {} \/ \E at \in record.expires : ctx.now < at)
    BY <2>2 DEF IsCurrent, Option
  <2>4. \A age \in policy.maxAge :
          ctx.now - record.issued <= age <=> ctx.now <= record.issued + age
    BY <1>1, <1>2, <2>2 DEF Option
  <2> QED
    BY <1>3, <2>3, <2>4 DEF Fresh, ProviderCurrent, InForce
<1> QED
  BY <1>3 DEF Fresh

\* Of the checks, those on the records pass exactly when the records allow.
LEMMA RecordChecks ==
    ASSUME TypeOK
    PROVE  RecordsAllow <=>
             /\ \A party \in {ctx.sender, ctx.recipient} :
                  /\ ~NothingKnown(party, policy, ctx.now)
                  /\ ~OnlyUnaccepted(party, policy, ctx.now)
                  /\ ~OutOfReach(party)
                  /\ ~Denied(party, policy, ctx.now)
             /\ ~TierTooLow(ctx.recipient, policy, ctx.now)
             /\ ~JurisdictionRefused(ctx.recipient, policy, ctx.now)
<1> DEFINE Allows(role) ==
             LET party == ctx[role]
                 fresh == Fresh(party, policy, ctx.now)
             IN  /\ \A s \in Source : party[s].state # "unavailable"
                 /\ \A s \in fresh : ~party[s].denied
                 /\ fresh \cap policy.sources # {}
           GoodEnough ==
             \A s \in Accepted(ctx.recipient, policy, ctx.now) :
               /\ ctx.recipient[s].tier >= policy.minTier
               /\ \A allowed \in policy.jurisdictions :
                    ctx.recipient[s].jurisdiction \in allowed
<1>1. RecordsAllow <=> Allows("sender") /\ Allows("recipient") /\ GoodEnough
  BY FreshIsInForce DEF RecordsAllow, Accepted
<1>2. ASSUME NEW role \in {"sender", "recipient"}
      PROVE  Allows(role) <=>
               /\ ~NothingKnown(ctx[role], policy, ctx.now)
               /\ ~OnlyUnaccepted(ctx[role], policy, ctx.now)
               /\ ~OutOfReach(ctx[role])
               /\ ~Denied(ctx[role], policy, ctx.now)
  BY DEF NothingKnown, OnlyUnaccepted, OutOfReach, Denied, Accepted
<1>3. ASSUME Accepted(ctx.recipient, policy, ctx.now) # {}
      PROVE  GoodEnough <=> /\ ~TierTooLow(ctx.recipient, policy, ctx.now)
                            /\ ~JurisdictionRefused(ctx.recipient, policy, ctx.now)
  <2>1. policy.minTier \in Nat
    BY DEF TypeOK, PolicyView
  <2>2. ASSUME NEW s \in Accepted(ctx.recipient, policy, ctx.now)
        PROVE  ctx.recipient[s].tier \in Nat
    <3>1. ctx.recipient \in PartyContext
      BY DEF TypeOK, Context
    <3>2. s \in Source /\ ctx.recipient[s].state = "record"
      BY DEF Accepted, Fresh
    <3>3. ctx.recipient[s] \in StatusRecord
      BY <3>1, <3>2 DEF PartyContext, Source, Unavailable, Absent
    <3> QED
      BY <3>3 DEF StatusRecord
  <2> QED
    BY <1>3, <2>1, <2>2 DEF TierTooLow, JurisdictionRefused
<1>4. Allows("recipient") => Accepted(ctx.recipient, policy, ctx.now) # {}
  BY DEF Accepted
<1> HIDE DEF Allows, GoodEnough
<1>5. /\ ctx["sender"] = ctx.sender /\ ctx["recipient"] = ctx.recipient
      /\ "sender" \in {"sender", "recipient"} /\ "recipient" \in {"sender", "recipient"}
  OBVIOUS
<1>6. /\ ~NothingKnown(ctx.recipient, policy, ctx.now)
      /\ ~OnlyUnaccepted(ctx.recipient, policy, ctx.now)
      /\ ~OutOfReach(ctx.recipient)
      => Accepted(ctx.recipient, policy, ctx.now) # {}
  BY DEF NothingKnown, OnlyUnaccepted
<1> QED
  BY <1>1, <1>2, <1>3, <1>4, <1>5, <1>6

\* Whatever the policy and the records, a transfer is allowed on good records
\* alone, and refused on them for amount, version or an unknown rule only.
THEOREM VerdictsRestOnRecords == Spec => []AllowedOnRecordsAlone
<1>1. TypeOK => AllowedOnRecordsAlone
  <2> SUFFICES ASSUME TypeOK
               PROVE  AllowedOnRecordsAlone
    OBVIOUS
  <2>1. policy \in PolicyView
    BY DEF TypeOK, Context
  <2>2. policy.periodLimit = {} => ~PeriodExceeded(policy, ctx)
    BY DEF PeriodExceeded
  <2> QED
    BY <2>1, <2>2, AllowedMeans, RecordChecks DEF AllowedOnRecordsAlone
<1> QED
  BY <1>1, VerdictsTypeCorrect, PTL

\* Under any policy that accepts both sources, the second takes away and never
\* adds: what is allowed on both is allowed on either.
THEOREM SecondSourceOnlyNarrows == Spec => []SecondSourceNarrows
<1>1. TypeOK => SecondSourceNarrows
  <2> SUFFICES ASSUME TypeOK, Allowed(policy, ctx), NEW s \in policy.sources,
                      \A party \in {ctx.sender, ctx.recipient} :
                        s \in Fresh(party, policy, ctx.now)
               PROVE  Allowed([policy EXCEPT !.sources = {s}], ctx)
    BY DEF SecondSourceNarrows
  <2> DEFINE alone == [policy EXCEPT !.sources = {s}]
  <2>1. policy \in PolicyView /\ s \in Source
    BY DEF TypeOK, PolicyView
  <2>2. /\ alone \in PolicyView
        /\ alone.sources = {s} /\ alone.minTier = policy.minTier
        /\ alone.maxAge = policy.maxAge /\ alone.jurisdictions = policy.jurisdictions
        /\ alone.transferLimit = policy.transferLimit
        /\ alone.periodLimit = policy.periodLimit
        /\ alone.unknownKind = policy.unknownKind
    BY <2>1 DEF PolicyView
  <2> HIDE DEF alone
  <2>3. ASSUME NEW party \in {ctx.sender, ctx.recipient}
        PROVE  /\ Fresh(party, alone, ctx.now) = Fresh(party, policy, ctx.now)
               /\ Accepted(party, alone, ctx.now) = {s}
               /\ s \in Accepted(party, policy, ctx.now)
    <3>1. Fresh(party, alone, ctx.now) = Fresh(party, policy, ctx.now)
      BY <2>2 DEF Fresh, ProviderCurrent
    <3> QED
      BY <2>2, <3>1 DEF Accepted
  <2>4. ASSUME NEW party \in {ctx.sender, ctx.recipient}
        PROVE  /\ ~NothingKnown(party, alone, ctx.now)
               /\ ~OnlyUnaccepted(party, alone, ctx.now)
               /\ ~OutOfReach(party)
               /\ ~Denied(party, alone, ctx.now)
    BY <2>1, <2>3, AllowedMeans DEF NothingKnown, OnlyUnaccepted, Denied
  <2>5. /\ ~TierTooLow(ctx.recipient, alone, ctx.now)
        /\ ~JurisdictionRefused(ctx.recipient, alone, ctx.now)
    BY <2>1, <2>2, <2>3, AllowedMeans DEF TierTooLow, JurisdictionRefused
  <2>6. ~PeriodExceeded(alone, ctx)
    BY <2>1, <2>2, AllowedMeans DEF PeriodExceeded
  <2> QED
    BY <2>1, <2>2, <2>4, <2>5, <2>6, AllowedMeans DEF alone
<1> QED
  BY <1>1, VerdictsTypeCorrect, PTL

\* A transfer allowed now and refused later has lost a status: whatever the
\* policy and the records, nothing else changes with time.
THEOREM AgeingLosesStatusOnly == Spec => AgeingOnlyLosesStatus
<1> DEFINE lost == {"SENDER_STATUS_MISSING", "RECIPIENT_STATUS_MISSING",
                    "STATUS_SOURCE_NOT_ACCEPTED"}
           Ageing == Allowed(policy, ctx) /\ ~Allowed(policy', ctx')
                       => Evaluate(policy', ctx') \in lost
<1>1. TypeOK /\ [AttemptLater]_vars => [Ageing]_vars
  <2> SUFFICES ASSUME TypeOK, AttemptLater,
                      Allowed(policy, ctx), ~Allowed(policy, ctx')
               PROVE  Evaluate(policy, ctx') \in lost
    BY DEF AttemptLater, vars
  <2>1. /\ policy \in PolicyView /\ ctx.now \in Nat /\ ctx.amount \in Nat
        /\ ctx.velocity \in Option(Counter)
        /\ ctx.sender \in PartyContext /\ ctx.recipient \in PartyContext
    BY DEF TypeOK, Context
  <2>2. /\ ctx'.now = ctx.now + 1 /\ ctx'.amount = ctx.amount
        /\ ctx'.velocity = ctx.velocity
        /\ ctx'.sender = ctx.sender /\ ctx'.recipient = ctx.recipient
        /\ ctx'.policyVersion = ctx.policyVersion
        /\ ctx'.mintPolicyVersion = ctx.mintPolicyVersion
    BY DEF TypeOK, Context, AttemptLater
  <2> DEFINE Lost(party) == \/ NothingKnown(party, policy, ctx.now + 1)
                            \/ OnlyUnaccepted(party, policy, ctx.now + 1)
  <2>3. ASSUME NEW party \in {ctx.sender, ctx.recipient}
        PROVE  /\ ~OutOfReach(party)
               /\ ~Denied(party, policy, ctx.now + 1)
               /\ Accepted(party, policy, ctx.now + 1) \subseteq Accepted(party, policy, ctx.now)
               /\ ~Lost(party) => Accepted(party, policy, ctx.now + 1) # {}
    <3>1. Fresh(party, policy, ctx.now + 1) \subseteq Fresh(party, policy, ctx.now)
      BY <2>1, FreshOnlyEnds
    <3>2. ~OutOfReach(party) /\ ~Denied(party, policy, ctx.now)
      BY <2>1, AllowedMeans
    <3> QED
      BY <3>1, <3>2 DEF Denied, Accepted, NothingKnown, OnlyUnaccepted
  <2>4. Lost(ctx.sender) \/ Lost(ctx.recipient)
    <3> SUFFICES ASSUME ~Lost(ctx.sender), ~Lost(ctx.recipient)
                 PROVE  FALSE
      OBVIOUS
    <3>1. /\ ~TierTooLow(ctx.recipient, policy, ctx.now + 1)
          /\ ~JurisdictionRefused(ctx.recipient, policy, ctx.now + 1)
      <4>1. /\ ~TierTooLow(ctx.recipient, policy, ctx.now)
            /\ ~JurisdictionRefused(ctx.recipient, policy, ctx.now)
        BY <2>1, AllowedMeans
      <4>2. /\ Accepted(ctx.recipient, policy, ctx.now + 1) # {}
            /\ Accepted(ctx.recipient, policy, ctx.now + 1)
                 \subseteq Accepted(ctx.recipient, policy, ctx.now)
        BY <2>3
      <4> QED
        BY <4>1, <4>2 DEF TierTooLow, JurisdictionRefused
    <3>2. ~PeriodExceeded(policy, ctx')
      BY <2>1, <2>2, AllowedMeans, PeriodOnlyEases
    <3>3. \A party \in {ctx.sender, ctx.recipient} :
            /\ ~NothingKnown(party, policy, ctx.now + 1)
            /\ ~OnlyUnaccepted(party, policy, ctx.now + 1)
            /\ ~OutOfReach(party)
            /\ ~Denied(party, policy, ctx.now + 1)
      BY <2>3
    <3> QED
      BY <2>1, <2>2, <3>1, <3>2, <3>3, AllowedMeans
  <2>5. PICK i \in 1 .. 13 :
          /\ Evaluate(policy, ctx') = Checks(policy, ctx')[i][1]
          /\ \A j \in 1 .. 13 : Checks(policy, ctx')[j][2] => i <= j
          /\ Checks(policy, ctx')[i][2]
    BY RefusalIsFirst
  <2>6. /\ Checks(policy, ctx')[1][2] <=> ctx.policyVersion # ctx.mintPolicyVersion
        /\ Checks(policy, ctx')[2][2] <=> NothingKnown(ctx.sender, policy, ctx.now + 1)
        /\ Checks(policy, ctx')[3][2] <=> NothingKnown(ctx.recipient, policy, ctx.now + 1)
        /\ Checks(policy, ctx')[4][2] <=>
             \/ OnlyUnaccepted(ctx.sender, policy, ctx.now + 1)
             \/ OnlyUnaccepted(ctx.recipient, policy, ctx.now + 1)
    BY <2>2 DEF Checks
  <2>7. i \in {2, 3, 4}
    <3>1. i <= 4
      BY <2>4, <2>5, <2>6
    <3>2. i # 1
      BY <2>1, <2>5, <2>6, AllowedMeans
    <3> QED
      BY <3>1, <3>2
  <2>8. /\ Checks(policy, ctx')[2][1] = "SENDER_STATUS_MISSING"
        /\ Checks(policy, ctx')[3][1] = "RECIPIENT_STATUS_MISSING"
        /\ Checks(policy, ctx')[4][1] = "STATUS_SOURCE_NOT_ACCEPTED"
    BY DEF Checks
  <2> QED
    BY <2>5, <2>7, <2>8
<1> QED
  BY <1>1, VerdictsTypeCorrect, PTL DEF Spec, AgeingOnlyLosesStatus
-----------------------------------------------------------------------------
(* The wizard's evaluator *)

\* A policy as the wizard holds it says what the hook's says.
SamePolicy(w, p) ==
    /\ w.sources = p.sources /\ w.minTier = p.minTier /\ w.maxAge = p.maxAge
    /\ w.jurisdictions = p.jurisdictions /\ w.transferLimit = p.transferLimit
    /\ w.periodLimit = p.periodLimit

\* What the wizard notes of a source.
Fact(party, s) ==
    [source |-> s, denied |-> party[s].denied, tier |-> party[s].tier,
     jurisdiction |-> party[s].jurisdiction]

\* Both see the same sources of a party in force, and accept the same of them.
LEMMA SameFacts ==
    ASSUME NEW p \in PolicyView, NEW w, SamePolicy(w, p), NEW party \in PartyContext,
           NEW now \in Nat
    PROVE  LET view == Wizard!viewParty(party, w, now)
           IN  /\ view.fresh = {Fact(party, s) : s \in Fresh(party, p, now)}
               /\ view.accepted = {Fact(party, s) : s \in Accepted(party, p, now)}
               /\ view.unavailable <=> OutOfReach(party)
<1> DEFINE view == Wizard!viewParty(party, w, now)
           known == {s \in {"provider", "register"} :
                       /\ party[s].state = "record"
                       /\ IF s = "provider"
                          THEN Wizard!isProviderCurrent(party.provider, w.maxAge, now)
                          ELSE Wizard!isCurrent(party.register.expires, now)}
           facts == {Fact(party, s) : s \in known}
<1>1. ASSUME NEW s \in Source, party[s].state = "record"
      PROVE  Wizard!isCurrent(party[s].expires, now) <=> IsCurrent(party[s], now)
  <2>1. party[s] \in StatusRecord
    BY <1>1 DEF PartyContext, Source, Unavailable, Absent
  <2> QED
    BY <2>1 DEF StatusRecord, Option, IsCurrent, Wizard!isCurrent
<1>2. ASSUME party["provider"].state = "record"
      PROVE  Wizard!isProviderCurrent(party["provider"], w.maxAge, now)
               <=> ProviderCurrent(party["provider"], p, now)
  <2>1. w.maxAge = p.maxAge /\ p.maxAge \in Option(Nat)
    BY DEF SamePolicy, PolicyView
  <2> QED
    BY <1>1, <1>2, <2>1 DEF Source, Option, Wizard!isProviderCurrent, ProviderCurrent
<1>3. party.provider = party["provider"] /\ party.register = party["register"]
  OBVIOUS
<1>4. known = Fresh(party, p, now)
  BY <1>1, <1>2, <1>3 DEF Fresh, Source
<1>5. view.fresh = facts
  BY DEF Wizard!viewParty, Fact
<1>6. view.accepted = {fact \in facts : fact.source \in w.sources}
  BY DEF Wizard!viewParty, Fact
<1>7. view.unavailable <=> OutOfReach(party)
  BY <1>3 DEF Wizard!viewParty, OutOfReach, Source
<1>8. {fact \in facts : fact.source \in w.sources}
        = {Fact(party, s) : s \in known \cap w.sources}
  BY DEF Fact
<1> HIDE DEF known, view
<1> QED
  BY <1>4, <1>5, <1>6, <1>7, <1>8 DEF Accepted, SamePolicy, view

\* The lowest tier is too low exactly when one of them is.
LEMMA SameTier ==
    ASSUME NEW p \in PolicyView, NEW w, SamePolicy(w, p), NEW party \in PartyContext,
           NEW now \in Nat
    PROVE  Wizard!mergedTier(Wizard!viewParty(party, w, now)) < w.minTier
             <=> TierTooLow(party, p, now)
<1> DEFINE view == Wizard!viewParty(party, w, now)
           accepted == Accepted(party, p, now)
           tiers == {fact.tier : fact \in view.accepted}
<1>1. view.accepted = {Fact(party, s) : s \in accepted}
  BY SameFacts
<1>2. ASSUME NEW s \in accepted
      PROVE  party[s].tier \in Nat
  <2>1. s \in Source /\ party[s].state = "record"
    BY DEF Accepted, Fresh
  <2>2. party[s] \in StatusRecord
    BY <2>1 DEF PartyContext, Source, Unavailable, Absent
  <2> QED
    BY <2>2 DEF StatusRecord
<1>3. tiers = {party[s].tier : s \in accepted}
  <2>1. \A s : Fact(party, s).tier = party[s].tier
    BY DEF Fact
  <2> HIDE DEF view, accepted
  <2> QED
    BY <1>1, <2>1
<1>4. w.minTier = p.minTier /\ p.minTier \in Nat
  BY DEF SamePolicy, PolicyView
<1>5. Wizard!mergedTier(view) = IF view.accepted = {} THEN 0 ELSE Min(tiers)
  BY DEF Wizard!mergedTier, Wizard!Min, Min
<1> HIDE DEF view, accepted
<1>6. ASSUME accepted = {}
      PROVE  Wizard!mergedTier(view) < w.minTier <=> TierTooLow(party, p, now)
  BY <1>1, <1>4, <1>5, <1>6 DEF TierTooLow, accepted
<1>7. ASSUME accepted # {}
      PROVE  Wizard!mergedTier(view) < w.minTier <=> TierTooLow(party, p, now)
  <2>1. tiers \in SUBSET Nat /\ tiers # {} /\ view.accepted # {}
    BY <1>1, <1>2, <1>3, <1>7
  <2> HIDE DEF tiers
  <2>2. Min(tiers) \in tiers /\ \A t \in tiers : Min(tiers) <= t
    BY <2>1, LeastChosen DEF Min
  <2>3. Min(tiers) < p.minTier <=> \E t \in tiers : t < p.minTier
    <3>1. \A t \in tiers : t \in Nat
      BY <2>1
    <3> QED
      BY <1>4, <2>2, <3>1
  <2>4. (\E t \in tiers : t < p.minTier) <=> \E s \in accepted : party[s].tier < p.minTier
    BY <1>3
  <2> QED
    BY <1>4, <1>5, <1>7, <2>1, <2>3, <2>4 DEF TierTooLow, accepted
<1> QED
  BY <1>6, <1>7 DEF view

\* The two sums exceed the limit together, but past the width.
LEMMA SamePeriod ==
    ASSUME NEW w, NEW p \in PolicyView, NEW c \in Context, SamePolicy(w, p),
           \A limit \in p.periodLimit : limit.amount <= MaxU64
    PROVE  /\ PeriodExceeded(p, c) => Wizard!periodExceeded(w, c)
           /\ Wizard!periodExceeded(w, c) /\ ~PeriodExceeded(p, c) =>
                \E limit \in p.periodLimit, counter \in c.velocity :
                  /\ limit.amount = MaxU64
                  /\ WindowOpen(counter, limit, c.now) /\ counter.spent + c.amount > MaxU64
<1> DEFINE spent(counter, limit) == IF WindowOpen(counter, limit, c.now) THEN counter.spent ELSE 0
<1>1. PeriodExceeded(p, c) <=> \E limit \in p.periodLimit, counter \in c.velocity :
        SaturatingAdd(spent(counter, limit), c.amount) > limit.amount
  BY DEF PeriodExceeded
<1>2. Wizard!periodExceeded(w, c) <=> \E limit \in p.periodLimit, counter \in c.velocity :
        spent(counter, limit) + c.amount > limit.amount
  BY DEF Wizard!periodExceeded, SamePolicy, WindowOpen
<1>3. ASSUME NEW limit \in p.periodLimit, NEW counter \in c.velocity
      PROVE  /\ spent(counter, limit) \in Nat /\ limit.amount \in Nat /\ c.amount \in 0 .. MaxU64
             /\ MaxU64 \in Nat /\ limit.amount <= MaxU64
             /\ spent(counter, limit) # 0 =>
                  WindowOpen(counter, limit, c.now) /\ spent(counter, limit) = counter.spent
  BY WidthAssumption DEF PolicyView, Context, Option, Counter
<1> HIDE DEF spent
<1>4. ASSUME NEW limit \in p.periodLimit, NEW counter \in c.velocity
      PROVE  /\ SaturatingAdd(spent(counter, limit), c.amount) > limit.amount =>
                  spent(counter, limit) + c.amount > limit.amount
             /\ /\ spent(counter, limit) + c.amount > limit.amount
                /\ ~(SaturatingAdd(spent(counter, limit), c.amount) > limit.amount)
                => /\ limit.amount = MaxU64 /\ spent(counter, limit) + c.amount > MaxU64
                   /\ spent(counter, limit) # 0
  BY <1>3 DEF SaturatingAdd
<1> QED
  BY <1>1, <1>2, <1>3, <1>4

\* Check for check, the wizard's table is the hook's.
LEMMA SameChecks ==
    ASSUME NEW w, NEW p \in PolicyView, NEW c \in Context, SamePolicy(w, p), ~p.unknownKind
    PROVE  LET sender == Wizard!viewParty(c.sender, w, c.now)
               recipient == Wizard!viewParty(c.recipient, w, c.now)
               fails(i) == Wizard!CHECKS(Wizard!REFUSAL_CODES[i], w, c, sender, recipient)
           IN  /\ \A i \in 1 .. 13 \ {12} : fails(i) <=> Checks(p, c)[i][2]
               /\ fails(12) <=> Wizard!periodExceeded(w, c)
               /\ Checks(p, c)[12][2] <=> PeriodExceeded(p, c)
               /\ ~fails(14) /\ ~fails(15)
<1> DEFINE sender == Wizard!viewParty(c.sender, w, c.now)
           recipient == Wizard!viewParty(c.recipient, w, c.now)
           fails(i) == Wizard!CHECKS(Wizard!REFUSAL_CODES[i], w, c, sender, recipient)
           n(i) == Checks(p, c)[i][2]
<1>1. c.sender \in PartyContext /\ c.recipient \in PartyContext /\ c.now \in Nat
  BY DEF Context
<1>2. /\ sender.fresh = {Fact(c.sender, s) : s \in Fresh(c.sender, p, c.now)}
      /\ sender.accepted = {Fact(c.sender, s) : s \in Accepted(c.sender, p, c.now)}
      /\ sender.unavailable <=> OutOfReach(c.sender)
  BY <1>1, SameFacts
<1>3. /\ recipient.fresh = {Fact(c.recipient, s) : s \in Fresh(c.recipient, p, c.now)}
      /\ recipient.accepted = {Fact(c.recipient, s) : s \in Accepted(c.recipient, p, c.now)}
      /\ recipient.unavailable <=> OutOfReach(c.recipient)
  BY <1>1, SameFacts
<1>4. Wizard!mergedTier(recipient) < w.minTier <=> TierTooLow(c.recipient, p, c.now)
  BY <1>1, SameTier
<1> HIDE DEF sender, recipient
<1>5. \A party, s : /\ Fact(party, s).denied = party[s].denied
                    /\ Fact(party, s).jurisdiction = party[s].jurisdiction
  BY DEF Fact
<1>6. /\ Wizard!nothingKnown(sender) <=> NothingKnown(c.sender, p, c.now)
      /\ Wizard!onlyUnaccepted(sender) <=> OnlyUnaccepted(c.sender, p, c.now)
      /\ Wizard!nothingKnown(recipient) <=> NothingKnown(c.recipient, p, c.now)
      /\ Wizard!onlyUnaccepted(recipient) <=> OnlyUnaccepted(c.recipient, p, c.now)
  BY <1>2, <1>3 DEF Wizard!nothingKnown, Wizard!onlyUnaccepted, NothingKnown, OnlyUnaccepted
<1>7. /\ (\E fact \in sender.fresh : fact.denied) <=> Denied(c.sender, p, c.now)
      /\ (\E fact \in recipient.fresh : fact.denied) <=> Denied(c.recipient, p, c.now)
  <2>1. (\E fact \in sender.fresh : fact.denied)
          <=> \E s \in Fresh(c.sender, p, c.now) : Fact(c.sender, s).denied
    BY <1>2
  <2>2. (\E fact \in recipient.fresh : fact.denied)
          <=> \E s \in Fresh(c.recipient, p, c.now) : Fact(c.recipient, s).denied
    BY <1>3
  <2> QED
    BY <1>5, <2>1, <2>2 DEF Denied
<1>8. (\E allowed \in w.jurisdictions, fact \in recipient.accepted :
         fact.jurisdiction \notin allowed)
        <=> JurisdictionRefused(c.recipient, p, c.now)
  BY <1>3, <1>5 DEF JurisdictionRefused, SamePolicy
<1>9. /\ n(1) <=> c.policyVersion # c.mintPolicyVersion
      /\ n(2) <=> NothingKnown(c.sender, p, c.now)
      /\ n(3) <=> NothingKnown(c.recipient, p, c.now)
      /\ n(4) <=> OnlyUnaccepted(c.sender, p, c.now) \/ OnlyUnaccepted(c.recipient, p, c.now)
      /\ n(5) <=> OutOfReach(c.sender) \/ OutOfReach(c.recipient)
      /\ n(6) <=> Denied(c.sender, p, c.now)
      /\ n(7) <=> Denied(c.recipient, p, c.now)
  BY DEF Checks
<1>10. /\ n(8) <=> TierTooLow(c.recipient, p, c.now)
       /\ n(9) <=> JurisdictionRefused(c.recipient, p, c.now)
       /\ n(10) <=> \E limit \in p.transferLimit : c.amount > limit
       /\ n(11) <=> p.periodLimit # {} /\ c.velocity = {}
       /\ n(12) <=> PeriodExceeded(p, c)
       /\ n(13) <=> p.unknownKind
  BY DEF Checks
<1>11. /\ fails(1) <=> c.policyVersion # c.mintPolicyVersion
       /\ fails(2) <=> Wizard!nothingKnown(sender)
       /\ fails(3) <=> Wizard!nothingKnown(recipient)
       /\ fails(4) <=> Wizard!onlyUnaccepted(sender) \/ Wizard!onlyUnaccepted(recipient)
       /\ fails(5) <=> sender.unavailable \/ recipient.unavailable
       /\ fails(6) <=> \E fact \in sender.fresh : fact.denied
       /\ fails(7) <=> \E fact \in recipient.fresh : fact.denied
  BY DEF Wizard!CHECKS, Wizard!REFUSAL_CODES
<1>12. /\ fails(8) <=> Wizard!mergedTier(recipient) < w.minTier
       /\ fails(9) <=> \E allowed \in w.jurisdictions, fact \in recipient.accepted :
                         fact.jurisdiction \notin allowed
       /\ fails(10) <=> \E limit \in w.transferLimit : c.amount > limit
       /\ fails(11) <=> w.periodLimit # {} /\ c.velocity = {}
       /\ fails(12) <=> Wizard!periodExceeded(w, c)
       /\ ~fails(13) /\ ~fails(14) /\ ~fails(15)
  BY DEF Wizard!CHECKS, Wizard!REFUSAL_CODES
<1> HIDE DEF fails, n
<1>13. /\ fails(1) <=> n(1)
       /\ fails(2) <=> n(2)
       /\ fails(3) <=> n(3)
       /\ fails(4) <=> n(4)
       /\ fails(5) <=> n(5)
       /\ fails(6) <=> n(6)
       /\ fails(7) <=> n(7)
  BY <1>2, <1>3, <1>6, <1>7, <1>9, <1>11
<1>14. /\ fails(8) <=> n(8)
       /\ fails(9) <=> n(9)
       /\ fails(10) <=> n(10)
       /\ fails(11) <=> n(11)
       /\ fails(13) <=> n(13)
  BY <1>4, <1>8, <1>10, <1>12 DEF SamePolicy
<1>15. \A i \in 1 .. 13 \ {12} : i \in {1, 2, 3, 4, 5, 6, 7, 8, 9, 10, 11, 13}
  OBVIOUS
<1>16. \A i \in 1 .. 13 \ {12} : fails(i) <=> n(i)
  BY <1>13, <1>14, <1>15
<1> QED
  BY <1>10, <1>12, <1>16 DEF fails, n, sender, recipient

\* The two verdicts on a policy that says the same to both.
LEMMA SameVerdict ==
    ASSUME NEW w, NEW p \in PolicyView, NEW c \in Context, SamePolicy(w, p), ~p.unknownKind,
           \A limit \in p.periodLimit : limit.amount <= MaxU64
    PROVE  \/ Evaluate(p, c) = Wizard!evaluateTransfer(w, c)
           \/ /\ Evaluate(p, c) = "allowed"
              /\ Wizard!evaluateTransfer(w, c) = "PERIOD_LIMIT_EXCEEDED"
              /\ \E limit \in p.periodLimit, counter \in c.velocity :
                   /\ limit.amount = MaxU64
                   /\ WindowOpen(counter, limit, c.now) /\ counter.spent + c.amount > MaxU64
<1> DEFINE sender == Wizard!viewParty(c.sender, w, c.now)
           recipient == Wizard!viewParty(c.recipient, w, c.now)
           codes == Wizard!REFUSAL_CODES
           fails(i) == Wizard!CHECKS(codes[i], w, c, sender, recipient)
           refused == {i \in DOMAIN codes : fails(i)}
           checks == Checks(p, c)
           failed == {i \in DOMAIN checks : checks[i][2]}
           Past == \E limit \in p.periodLimit, counter \in c.velocity :
                     /\ limit.amount = MaxU64
                     /\ WindowOpen(counter, limit, c.now) /\ counter.spent + c.amount > MaxU64
<1>1. DOMAIN codes = 1 .. 15 /\ DOMAIN checks = 1 .. 13
  BY DEF Wizard!REFUSAL_CODES, Checks
<1>2. \A i \in 1 .. 13 : codes[i] = checks[i][1]
  <2>1. \A i \in 1 .. 13 : i \in {1, 2, 3, 4, 5, 6, 7, 8, 9, 10, 11, 12, 13}
    OBVIOUS
  <2>2. \A i \in {1, 2, 3, 4, 5, 6, 7, 8, 9, 10, 11, 12, 13} : codes[i] = checks[i][1]
    BY DEF Wizard!REFUSAL_CODES, Checks
  <2> QED
    BY <2>1, <2>2
<1>3. Wizard!evaluateTransfer(w, c) = IF refused = {} THEN "allowed" ELSE codes[Min(refused)]
  BY DEF Wizard!evaluateTransfer, Wizard!Min, Min
<1>4. Evaluate(p, c) = IF failed = {} THEN "allowed" ELSE checks[Min(failed)][1]
  BY DEF Evaluate, Min
<1>5. /\ \A i \in 1 .. 13 \ {12} : fails(i) <=> checks[i][2]
      /\ fails(12) <=> Wizard!periodExceeded(w, c)
      /\ checks[12][2] <=> PeriodExceeded(p, c)
      /\ ~fails(14) /\ ~fails(15)
  BY SameChecks
<1>6. checks[13][2] <=> p.unknownKind
  BY DEF Checks
<1>7. codes[12] = "PERIOD_LIMIT_EXCEEDED"
  BY DEF Wizard!REFUSAL_CODES
<1>8. /\ PeriodExceeded(p, c) => Wizard!periodExceeded(w, c)
      /\ Wizard!periodExceeded(w, c) /\ ~PeriodExceeded(p, c) => Past
  BY SamePeriod
<1> HIDE DEF fails, codes, checks, Past
<1>9. /\ refused \subseteq 1 .. 12 /\ failed \subseteq 1 .. 12 /\ failed \subseteq refused
      /\ refused \subseteq failed \cup {12}
  BY <1>1, <1>5, <1>6, <1>8
<1>10. ASSUME NEW S \in SUBSET (1 .. 12), S # {}
       PROVE  Min(S) \in S /\ \A i \in S : Min(S) <= i
  <2>1. S \in SUBSET Nat
    OBVIOUS
  <2> QED
    BY <1>10, <2>1, LeastChosen DEF Min
<1>11. 12 \in refused /\ 12 \notin failed => Past
  BY <1>1, <1>5, <1>8
<1> HIDE DEF refused, failed
<1>12. CASE failed = {} /\ refused # {}
  <2>1. refused = {12} /\ Min(refused) = 12
    BY <1>9, <1>10, <1>12
  <2> QED
    BY <1>3, <1>4, <1>7, <1>11, <1>12, <2>1 DEF Past
<1>13. CASE failed # {}
  <2>1. Min(failed) \in failed /\ \A i \in failed : Min(failed) <= i
    BY <1>9, <1>10, <1>13
  <2>2. refused # {} /\ Min(refused) \in refused /\ \A i \in refused : Min(refused) <= i
    BY <1>9, <1>10, <1>13
  <2>3. Min(failed) = Min(refused) /\ Min(failed) \in 1 .. 13
    <3>1. PICK a, b : a = Min(failed) /\ b = Min(refused)
      OBVIOUS
    <3>2. a \in 1 .. 12 /\ b \in 1 .. 12 /\ b <= a
      BY <1>9, <2>1, <2>2, <3>1
    <3>3. a <= b
      <4>1. CASE b \in failed
        BY <2>1, <3>1, <4>1
      <4>2. CASE b = 12
        BY <3>2, <4>2
      <4> QED
        BY <1>9, <2>2, <3>1, <4>1, <4>2
    <3> QED
      BY <3>1, <3>2, <3>3
  <2> QED
    BY <1>2, <1>3, <1>4, <1>13, <2>2, <2>3
<1>14. CASE failed = {} /\ refused = {}
  BY <1>3, <1>4, <1>14
<1> QED
  BY <1>12, <1>13, <1>14

-----------------------------------------------------------------------------
(* What a policy is spelled with *)

\* Codes that each exceed the one before are in order.
LEMMA AscendingFromNeighbours ==
    ASSUME NEW codes \in Seq(Nat), \A i \in DOMAIN codes : i > 1 => codes[i] > codes[i - 1]
    PROVE  Ascending(codes)
<1> SUFFICES ASSUME NEW i \in DOMAIN codes, NEW j \in DOMAIN codes, i < j, ~(codes[i] < codes[j])
             PROVE  FALSE
  BY DEF Ascending
<1> DEFINE worse == {k \in DOMAIN codes : i < k /\ ~(codes[i] < codes[k])}
<1>1. DOMAIN codes = 1 .. Len(codes) /\ Len(codes) \in Nat /\ \A k \in DOMAIN codes : codes[k] \in Nat
  OBVIOUS
<1>2. worse \in SUBSET Nat /\ j \in worse
  BY <1>1
<1>3. PICK k \in worse : \A l \in worse : k <= l
  <2> HIDE DEF worse
  <2> QED
    BY <1>2, LeastExists
<1>4. k \in DOMAIN codes /\ i < k /\ ~(codes[i] < codes[k]) /\ k > 1 /\ k - 1 \in DOMAIN codes
  BY <1>1, <1>3
<1>5. codes[k] > codes[k - 1]
  BY <1>4
<1>6. CASE k - 1 = i
  BY <1>1, <1>4, <1>5, <1>6
<1>7. CASE k - 1 # i
  <2>1. k - 1 \notin worse
    BY <1>1, <1>3, <1>4
  <2>2. codes[i] < codes[k - 1]
    BY <1>1, <1>4, <1>7, <2>1
  <2> QED
    BY <1>1, <1>4, <1>5, <2>2
<1> QED
  BY <1>6, <1>7

\* Countries in order are in one order.
LEMMA OneOrder ==
    ASSUME NEW n \in Nat, NEW f, NEW g, DOMAIN f = 1 .. n, DOMAIN g = 1 .. n,
           \A i \in 1 .. n : f[i] \in Nat /\ g[i] \in Nat,
           Ascending(f), Ascending(g), ToSet(f) = ToSet(g)
    PROVE  \A i \in 1 .. n : f[i] = g[i]
<1> DEFINE apart == {i \in 1 .. n : f[i] # g[i]}
<1> SUFFICES ASSUME apart # {}
             PROVE  FALSE
  OBVIOUS
<1>1. apart \in SUBSET Nat
  OBVIOUS
<1>2. PICK k \in apart : \A l \in apart : k <= l
  <2> HIDE DEF apart
  <2> QED
    BY <1>1, LeastExists
<1>3. k \in 1 .. n /\ f[k] # g[k] /\ \A l \in 1 .. n : l < k => f[l] = g[l]
  BY <1>2
<1>4. (\E l \in 1 .. n : f[k] = g[l]) /\ (\E l \in 1 .. n : g[k] = f[l])
  <2>1. f[k] \in ToSet(f) /\ g[k] \in ToSet(g)
    BY <1>3 DEF ToSet
  <2> QED
    BY <2>1 DEF ToSet
<1>5. /\ \A i, j \in 1 .. n : i < j => f[i] < f[j]
      /\ \A i, j \in 1 .. n : i < j => g[i] < g[j]
  BY DEF Ascending
<1>6. CASE f[k] < g[k]
  <2>1. PICK l \in 1 .. n : f[k] = g[l]
    BY <1>4
  <2>2. ~(k < l)
    <3> SUFFICES ASSUME k < l
                 PROVE  FALSE
      OBVIOUS
    <3>1. g[k] < g[l]
      BY <1>3, <1>5
    <3> QED
      BY <1>3, <1>6, <2>1, <3>1
  <2>3. l # k
    BY <1>3, <2>1
  <2>4. l < k
    BY <1>3, <2>2, <2>3
  <2> QED
    BY <1>3, <1>5, <2>1, <2>4
<1>7. CASE g[k] < f[k]
  <2>1. PICK l \in 1 .. n : g[k] = f[l]
    BY <1>4
  <2>2. ~(k < l)
    <3> SUFFICES ASSUME k < l
                 PROVE  FALSE
      OBVIOUS
    <3>1. f[k] < f[l]
      BY <1>3, <1>5
    <3> QED
      BY <1>3, <1>7, <2>1, <3>1
  <2>3. l # k
    BY <1>3, <2>1
  <2>4. l < k
    BY <1>3, <2>2, <2>3
  <2> QED
    BY <1>3, <1>5, <2>1, <2>4
<1> QED
  BY <1>3, <1>6, <1>7

\* Sorting what is sorted changes nothing.
LEMMA SortedStays ==
    ASSUME NEW codes \in Seq(Nat), Ascending(codes)
    PROVE  Sorted(ToSet(codes)) = codes /\ IsInjective(codes)
<1> DEFINE n == Len(codes)
           countries == ToSet(codes)
           Good(s) == Ascending(s) /\ ToSet(s) = countries
<1>1. n \in Nat /\ DOMAIN codes = 1 .. n /\ \A i \in 1 .. n : codes[i] \in Nat
  OBVIOUS
<1>2. \A i, j \in 1 .. n : i # j => codes[i] # codes[j]
  BY <1>1 DEF Ascending
<1>3. Cardinality(countries) = n
  <2>1. 0 \in Int /\ 1 \in Int /\ n \in Int
    BY <1>1
  <2>2. IsFiniteSet(1 .. n) /\ Cardinality(1 .. n) = n
    BY <1>1, <2>1, FS_Interval
  <2>3. codes \in Bijection(1 .. n, countries)
    BY <1>1, <1>2 DEF ToSet, Bijection, Injection, Surjection, IsInjective
  <2>4. ExistsBijection(1 .. n, countries)
    BY <2>3 DEF ExistsBijection
  <2> QED
    BY <2>2, <2>4, FS_Bijection
<1>4. codes \in [1 .. n -> countries]
  BY <1>1 DEF ToSet
<1>5. Good(codes)
  OBVIOUS
<1> DEFINE chosen == CHOOSE s \in [1 .. n -> countries] : Good(s)
<1>6. chosen \in [1 .. n -> countries] /\ Good(chosen)
  <2> HIDE DEF Good
  <2> QED
    BY <1>4, <1>5
<1>7. Sorted(countries) = chosen
  BY <1>3 DEF Sorted
<1> HIDE DEF chosen
<1>8. countries \subseteq Nat
  BY <1>1 DEF ToSet
<1>9. DOMAIN chosen = 1 .. n /\ \A i \in 1 .. n : chosen[i] \in Nat
  BY <1>6, <1>8
<1>10. \A i \in 1 .. n : chosen[i] = codes[i]
  <2>1. Ascending(chosen) /\ ToSet(chosen) = ToSet(codes)
    BY <1>6
  <2> HIDE DEF n, countries, Good
  <2> QED
    BY <1>1, <1>9, <2>1, OneOrder
<1>11. chosen = codes
  BY <1>1, <1>4, <1>6, <1>10
<1> QED
  BY <1>1, <1>2, <1>7, <1>11 DEF IsInjective

\* A set of sources has its declared order.
LEMMA DeclaredSources ==
    ASSUME NEW S \in SUBSET Source, S # {}
    PROVE  ToSet(Declared(S)) = S /\ Declared(S) # <<>> /\ IsInjective(Declared(S))
<1> DEFINE all == {STATUS_SOURCES} \cup {<<x>> : x \in Source}
<1>1. \A s \in all : s # <<>> /\ IsInjective(s)
  BY DEF STATUS_SOURCES, Source, IsInjective
<1>2. S = {"provider"} \/ S = {"register"} \/ S = {"provider", "register"}
  BY DEF Source
<1>3. /\ ToSet(STATUS_SOURCES) = {"provider", "register"}
      /\ ToSet(<<"provider">>) = {"provider"} /\ ToSet(<<"register">>) = {"register"}
  BY DEF ToSet, STATUS_SOURCES
<1>4. \E s \in all : ToSet(s) = S
  BY <1>2, <1>3 DEF Source
<1> HIDE DEF all
<1>5. PICK chosen : chosen = CHOOSE s \in all : ToSet(s) = S
  OBVIOUS
<1>6. chosen \in all /\ ToSet(chosen) = S
  BY <1>4, <1>5
<1>7. Declared(S) = chosen
  BY <1>5 DEF Declared, all
<1> QED
  BY <1>1, <1>6, <1>7

\* A mask is the sum of the bits of its sources.
LEMMA MaskOfSources ==
    ASSUME NEW mask \in 1 .. STATUS_SOURCE_ALL
    PROVE  /\ SourcesOf(mask) \in SUBSET Source /\ SourcesOf(mask) # {}
           /\ StatusSourceMask(Declared(SourcesOf(mask))) = mask
<1>1. mask = 1 \/ mask = 2 \/ mask = 3
  BY DEF STATUS_SOURCE_ALL
<1>2. /\ (1 \div 1) % 2 = 1 /\ (1 \div 2) % 2 = 0
      /\ (2 \div 1) % 2 = 0 /\ (2 \div 2) % 2 = 1
      /\ (3 \div 1) % 2 = 1 /\ (3 \div 2) % 2 = 1
  OBVIOUS
<1>3. STATUS_SOURCE["provider"] = 1 /\ STATUS_SOURCE["register"] = 2
  BY DEF STATUS_SOURCE
<1>4. /\ "provider" \in SourcesOf(mask) <=> (mask \div 1) % 2 = 1
      /\ "register" \in SourcesOf(mask) <=> (mask \div 2) % 2 = 1
      /\ SourcesOf(mask) \in SUBSET Source
  BY <1>3 DEF SourcesOf, Source
<1>5. "provider" \in SourcesOf(mask) \/ "register" \in SourcesOf(mask)
  BY <1>1, <1>2, <1>4
<1>6. ToSet(Declared(SourcesOf(mask))) = SourcesOf(mask)
  BY <1>4, <1>5, DeclaredSources
<1>7. StatusSourceMask(Declared(SourcesOf(mask))) =
        (IF "provider" \in SourcesOf(mask) THEN 1 ELSE 0)
          + (IF "register" \in SourcesOf(mask) THEN 2 ELSE 0)
  BY <1>3, <1>6 DEF StatusSourceMask
<1> QED
  BY <1>1, <1>2, <1>4, <1>5, <1>7

\* The countries of a rule that was written: in order, and spelling its parameters.
LEMMA WrittenCountries ==
    ASSUME NEW p \in [1 .. Fields -> 0 .. MaxU64], ValidJurisdictions(p)
    PROVE  LET codes == CodesOf(p)
           IN  /\ codes \in Seq(Nat) /\ Ascending(codes)
               /\ Len(codes) \in 1 .. Fields /\ ToSet(codes) \subseteq Capitals
               /\ Params(codes) = p
<1> DEFINE codes == CodesOf(p)
           ends == {i \in 1 .. Fields : p[i] = 0}
<1>1. /\ Fields \in Nat /\ MaxU64 \in Nat
      /\ \A i \in 1 .. Fields : p[i] \in Nat
      /\ DOMAIN p = 1 .. Fields
  BY LayoutAssumption, WidthAssumption
<1>2. /\ codes # <<>> /\ ZeroTail(p, Len(codes))
      /\ \A i \in DOMAIN codes : codes[i] \in Capitals /\ (i > 1 => codes[i] > codes[i - 1])
  BY DEF ValidJurisdictions
<1>3. /\ codes \in Seq(Nat) /\ Len(codes) \in 1 .. Fields
      /\ \A i \in 1 .. Len(codes) : codes[i] = p[i]
  <2>1. CASE ends = {}
    <3>1. codes = p
      BY <2>1 DEF CodesOf
    <3>2. p \in Seq(Nat) /\ Len(p) = Fields
      BY <1>1
    <3> QED
      BY <1>1, <3>1, <3>2, LayoutAssumption
  <2>2. CASE ends # {}
    <3> DEFINE m == Min(ends)
    <3>1. ends \in SUBSET Nat
      BY <1>1
    <3>2. m \in ends
      <4> HIDE DEF ends
      <4> QED
        BY <2>2, <3>1, LeastChosen DEF Min
    <3>3. m \in 1 .. Fields
      BY <3>2
    <3>4. codes = SubSeq(p, 1, m - 1)
      BY <2>2 DEF CodesOf
    <3> HIDE DEF m
    <3>5. m - 1 \in Int /\ \A i \in 1 .. m - 1 : p[i] \in Nat
      BY <1>1, <3>3
    <3>6. /\ codes \in Seq(Nat) /\ Len(codes) = IF 1 <= m - 1 THEN (m - 1) - 1 + 1 ELSE 0
          /\ \A i \in 1 .. (m - 1) - 1 + 1 : codes[i] = p[1 + i - 1]
      <4> HIDE DEF codes
      <4> QED
        BY <3>4, <3>5, SubSeqProperties
    <3>7. m # 1
      BY <1>2, <3>6
    <3>8. Len(codes) = m - 1 /\ \A i \in 1 .. m - 1 : codes[i] = p[i]
      <4> HIDE DEF codes
      <4> QED
        BY <1>1, <3>3, <3>6, <3>7
    <3> HIDE DEF codes
    <3> QED
      BY <1>1, <3>3, <3>6, <3>7, <3>8
  <2> QED
    BY <2>1, <2>2
<1> HIDE DEF codes
<1>4. Ascending(codes)
  BY <1>2, <1>3, AscendingFromNeighbours
<1>5. ToSet(codes) \subseteq Capitals
  BY <1>2 DEF ToSet
<1>6. Params(codes) = p
  <2>1. \A i \in 1 .. Fields : (IF i <= Len(codes) THEN codes[i] ELSE 0) = p[i]
    BY <1>1, <1>2, <1>3 DEF ZeroTail
  <2> QED
    BY <1>1, <2>1 DEF Params
<1> QED
  BY <1>3, <1>4, <1>5, <1>6 DEF codes

\* The first slot of a kind, where there is one.
LEMMA FirstIsASlot ==
    ASSUME NEW slots \in Seq(RuleSlot), NEW kind
    PROVE  \/ /\ FirstOf(slots, kind) = {}
              /\ \A i \in DOMAIN slots : slots[i].kind # kind
           \/ \E i \in DOMAIN slots :
                slots[i].kind = kind /\ FirstOf(slots, kind) = {slots[i].params}
<1> DEFINE found == {i \in DOMAIN slots : slots[i].kind = kind}
<1>1. FirstOf(slots, kind) = IF found = {} THEN {} ELSE {slots[Min(found)].params}
  BY DEF FirstOf
<1>2. found \in SUBSET Nat
  OBVIOUS
<1>3. CASE found # {}
  <2>1. Min(found) \in found
    <3> HIDE DEF found
    <3> QED
      BY <1>2, <1>3, LeastChosen DEF Min
  <2>2. PICK i : i = Min(found)
    OBVIOUS
  <2> QED
    BY <1>1, <1>3, <2>1, <2>2
<1> QED
  BY <1>1, <1>3

\* What validate makes sure of, parameter by parameter.
LEMMA WrittenRules ==
    ASSUME NEW slots \in Seq(RuleSlot), Validate(slots)
    PROVE  /\ \A i \in DOMAIN slots : slots[i].kind \in 0 .. 4
           /\ \A kind \in 1 .. 4 : \A p \in FirstOf(slots, kind) : p \in [1 .. Fields -> 0 .. MaxU64]
           /\ \A p \in FirstOf(slots, STATUS) : ValidStatusParams(p)
           /\ \A p \in FirstOf(slots, JURISDICTIONS) : ValidJurisdictions(p)
           /\ \A p \in FirstOf(slots, TRANSFER_LIMIT) : ValidTransferLimit(p)
           /\ \A p \in FirstOf(slots, PERIOD_LIMIT) : ValidPeriodLimit(p)
           /\ \A kind \in 1 .. 4 : \A p, q \in FirstOf(slots, kind) : p = q
           /\ FirstOf(slots, STATUS) # {}
<1>1. /\ EMPTY = 0 /\ STATUS = 1 /\ JURISDICTIONS = 2 /\ TRANSFER_LIMIT = 3 /\ PERIOD_LIMIT = 4
  BY DEF EMPTY, STATUS, JURISDICTIONS, TRANSFER_LIMIT, PERIOD_LIMIT
<1>2. \A i \in DOMAIN slots : slots[i] \in RuleSlot
  OBVIOUS
<1>3. \A i \in DOMAIN slots :
        /\ slots[i].kind \in {0, 1, 2, 3, 4}
        /\ slots[i].kind = 1 => ValidStatusParams(slots[i].params)
        /\ slots[i].kind = 2 => ValidJurisdictions(slots[i].params)
        /\ slots[i].kind = 3 => ValidTransferLimit(slots[i].params)
        /\ slots[i].kind = 4 => ValidPeriodLimit(slots[i].params)
  BY <1>1 DEF Validate
<1>4. \E i \in DOMAIN slots : slots[i].kind = STATUS
  BY DEF Validate
<1>5. ASSUME NEW kind \in 1 .. 4
      PROVE  /\ \A p \in FirstOf(slots, kind) : \E i \in DOMAIN slots :
                  slots[i].kind = kind /\ p = slots[i].params
             /\ \A p, q \in FirstOf(slots, kind) : p = q
  BY FirstIsASlot
<1>6. \A kind \in 1 .. 4 : \A p \in FirstOf(slots, kind) : p \in [1 .. Fields -> 0 .. MaxU64]
  BY <1>2, <1>5 DEF RuleSlot
<1>7. FirstOf(slots, STATUS) # {}
  BY <1>4, FirstIsASlot
<1>8. \A i \in DOMAIN slots : slots[i].kind \in 0 .. 4
  BY <1>3
<1>9. 1 \in 1 .. 4 /\ 2 \in 1 .. 4 /\ 3 \in 1 .. 4 /\ 4 \in 1 .. 4
  OBVIOUS
<1> QED
  BY <1>1, <1>3, <1>5, <1>6, <1>7, <1>8, <1>9

\* The body a decoder makes of slots, before the schema looks at it.
BodyOf(slots) ==
    [status |-> {ReadStatus(p) : p \in FirstOf(slots, STATUS)},
     jurisdictions |-> {CodesOf(p) : p \in FirstOf(slots, JURISDICTIONS)},
     transferLimit |-> {p[1] : p \in FirstOf(slots, TRANSFER_LIMIT)},
     periodLimit |-> {[amount |-> p[1], windowSeconds |-> p[2]] :
                        p \in FirstOf(slots, PERIOD_LIMIT)}]

\* The status rule that was written is one the schema takes, and leaves as it is.
LEMMA StatusTaken ==
    ASSUME NEW p \in [1 .. Fields -> 0 .. MaxU64], ValidStatusParams(p)
    PROVE  LET status == ReadStatus(p)
           IN  /\ AcceptedStatus(status)
               /\ p[1] \in 1 .. STATUS_SOURCE_ALL
               /\ ToSet(status.sources) = SourcesOf(p[1])
               /\ [status EXCEPT !.sources = Declared(ToSet(status.sources))] = status
               /\ Params(StatusParams(status)) = p
<1> DEFINE status == ReadStatus(p)
           sources == SourcesOf(p[1])
<1>1. /\ p[1] \in 1 .. STATUS_SOURCE_ALL
      /\ p[3] = 0 \/ p[3] \in MinAge .. MaxAge
      /\ "provider" \in sources => p[3] # 0
      /\ ZeroTail(p, 3)
  BY DEF ValidStatusParams
<1>2. /\ sources \in SUBSET Source /\ sources # {}
      /\ StatusSourceMask(Declared(sources)) = p[1]
  BY <1>1, MaskOfSources
<1>3. ToSet(Declared(sources)) = sources /\ Declared(sources) # <<>> /\ IsInjective(Declared(sources))
  BY <1>2, DeclaredSources
<1>4. /\ status = [sources |-> Declared(sources), minTier |-> p[2], maxAge |-> {p[3]} \ {0}]
      /\ status.sources = Declared(sources)
      /\ status.minTier = p[2] /\ status.maxAge = {p[3]} \ {0}
  BY DEF ReadStatus
<1> HIDE DEF status, sources
<1>5. AcceptedStatus(status)
  BY <1>1, <1>3, <1>4 DEF AcceptedStatus
<1>6. [status EXCEPT !.sources = Declared(ToSet(status.sources))] = status
  BY <1>3, <1>4
<1>7. Params(StatusParams(status)) = p
  <2> DEFINE age == IF status.maxAge = {} THEN 0 ELSE CHOOSE a \in status.maxAge : TRUE
  <2>1. age = p[3]
    BY <1>4
  <2> HIDE DEF age
  <2>2. StatusParams(status) = <<p[1], p[2], p[3]>>
    BY <1>2, <1>4, <2>1 DEF StatusParams, age
  <2>3. Fields \in Nat /\ Fields >= 4
    BY LayoutAssumption
  <2>4. \A i \in 1 .. Fields :
          (IF i <= Len(StatusParams(status)) THEN StatusParams(status)[i] ELSE 0) = p[i]
    <3>1. \A i \in 1 .. Fields : i = 1 \/ i = 2 \/ i = 3 \/ i \in 4 .. Fields
      BY <2>3
    <3>2. \A i \in 4 .. Fields : p[i] = 0
      BY <1>1 DEF ZeroTail
    <3> QED
      BY <2>2, <2>3, <3>1, <3>2
  <2> QED
    BY <2>3, <2>4 DEF Params
<1> QED
  BY <1>1, <1>3, <1>4, <1>5, <1>6, <1>7 DEF status, sources

\* What was written decodes, to that body.
LEMMA WrittenDecodes ==
    ASSUME NEW slots \in Seq(RuleSlot), Validate(slots)
    PROVE  /\ PolicyRulesSchema(BodyOf(slots)) = {BodyOf(slots)}
           /\ DecodeRules(slots) = {BodyOf(slots)}
<1> DEFINE body == BodyOf(slots)
<1>1. /\ EMPTY = 0 /\ STATUS = 1 /\ JURISDICTIONS = 2 /\ TRANSFER_LIMIT = 3 /\ PERIOD_LIMIT = 4
      /\ 1 \in 1 .. 4 /\ 2 \in 1 .. 4 /\ 3 \in 1 .. 4 /\ 4 \in 1 .. 4
  BY DEF EMPTY, STATUS, JURISDICTIONS, TRANSFER_LIMIT, PERIOD_LIMIT
<1>2. Fields \in Nat /\ Fields >= 4 /\ MaxU64 \in Nat
  BY LayoutAssumption, WidthAssumption
<1>3. /\ body.status = {ReadStatus(p) : p \in FirstOf(slots, STATUS)}
      /\ body.jurisdictions = {CodesOf(p) : p \in FirstOf(slots, JURISDICTIONS)}
      /\ body.transferLimit = {p[1] : p \in FirstOf(slots, TRANSFER_LIMIT)}
      /\ body.periodLimit = {[amount |-> p[1], windowSeconds |-> p[2]] :
                               p \in FirstOf(slots, PERIOD_LIMIT)}
      /\ body = [status |-> body.status, jurisdictions |-> body.jurisdictions,
                 transferLimit |-> body.transferLimit, periodLimit |-> body.periodLimit]
  BY DEF BodyOf
<1> HIDE DEF body
<1>4. \A p \in FirstOf(slots, STATUS) :
        LET status == ReadStatus(p)
        IN  /\ AcceptedStatus(status) /\ p[1] \in 1 .. STATUS_SOURCE_ALL
            /\ [status EXCEPT !.sources = Declared(ToSet(status.sources))] = status
  <2> SUFFICES ASSUME NEW p \in FirstOf(slots, STATUS)
               PROVE  LET status == ReadStatus(p)
                      IN  /\ AcceptedStatus(status) /\ p[1] \in 1 .. STATUS_SOURCE_ALL
                          /\ [status EXCEPT !.sources = Declared(ToSet(status.sources))] = status
    OBVIOUS
  <2>1. p \in [1 .. Fields -> 0 .. MaxU64] /\ ValidStatusParams(p)
    BY <1>1, WrittenRules
  <2> QED
    BY <2>1, StatusTaken
<1>5. ASSUME NEW codes \in body.jurisdictions
      PROVE  AcceptedJurisdictions(codes) /\ Sorted(ToSet(codes)) = codes
  <2>1. PICK p \in FirstOf(slots, JURISDICTIONS) : codes = CodesOf(p)
    BY <1>3
  <2>2. p \in [1 .. Fields -> 0 .. MaxU64] /\ ValidJurisdictions(p)
    BY <1>1, WrittenRules
  <2>3. /\ codes \in Seq(Nat) /\ Ascending(codes)
        /\ Len(codes) \in 1 .. Fields /\ ToSet(codes) \subseteq Capitals
    BY <2>1, <2>2, WrittenCountries
  <2> QED
    BY <2>3, SortedStays DEF AcceptedJurisdictions
<1>6. \A amount \in body.transferLimit : AcceptedAmount(amount)
  <2> SUFFICES ASSUME NEW p \in FirstOf(slots, TRANSFER_LIMIT)
               PROVE  AcceptedAmount(p[1])
    BY <1>3
  <2>1. p \in [1 .. Fields -> 0 .. MaxU64] /\ ValidTransferLimit(p)
    BY <1>1, WrittenRules
  <2>2. p[1] \in 0 .. MaxU64 /\ p[1] > 0
    BY <1>2, <2>1 DEF ValidTransferLimit
  <2> QED
    BY <1>2, <2>2 DEF AcceptedAmount
<1>7. \A limit \in body.periodLimit : AcceptedPeriod(limit)
  <2> SUFFICES ASSUME NEW p \in FirstOf(slots, PERIOD_LIMIT)
               PROVE  AcceptedPeriod([amount |-> p[1], windowSeconds |-> p[2]])
    BY <1>3
  <2>1. p \in [1 .. Fields -> 0 .. MaxU64] /\ ValidPeriodLimit(p)
    BY <1>1, WrittenRules
  <2>2. p[1] \in 0 .. MaxU64 /\ p[1] > 0 /\ p[2] \in MinPeriod .. MaxPeriod
    BY <1>2, <2>1 DEF ValidPeriodLimit
  <2> QED
    BY <1>2, <2>2 DEF AcceptedAmount, AcceptedPeriod
<1>8. body.status # {} /\ \A status \in body.status : AcceptedStatus(status)
  <2>1. FirstOf(slots, STATUS) # {}
    BY WrittenRules
  <2> QED
    BY <1>3, <1>4, <2>1
<1>9. {[status EXCEPT !.sources = Declared(ToSet(status.sources))] : status \in body.status}
        = body.status
  BY <1>3, <1>4
<1>10. {Sorted(ToSet(codes)) : codes \in body.jurisdictions} = body.jurisdictions
  BY <1>5
<1>11. [body EXCEPT
          !.status = {[status EXCEPT !.sources = Declared(ToSet(status.sources))] : status \in @},
          !.jurisdictions = {Sorted(ToSet(codes)) : codes \in @}] = body
  BY <1>3, <1>9, <1>10
<1>12. PolicyRulesSchema(body) = {body}
  BY <1>5, <1>6, <1>7, <1>8, <1>11 DEF PolicyRulesSchema
<1>13. DecodeRules(slots) = PolicyRulesSchema(body)
  <2>1. Len(slots) = MaxSlots /\ Packed(slots)
    BY DEF Validate
  <2>2. \A i \in DOMAIN slots : slots[i].kind <= PERIOD_LIMIT
    BY <1>1, WrittenRules
  <2> QED
    BY <1>4, <2>1, <2>2 DEF DecodeRules, BodyOf, body
<1> QED
  BY <1>12, <1>13 DEF body

\* And the body says to the wizard what the slots say to the hook.
LEMMA DecodedIsRead ==
    ASSUME NEW slots \in Seq(RuleSlot), Validate(slots)
    PROVE  /\ SamePolicy(PolicyOf(BodyOf(slots)), ReadPolicy(slots))
           /\ ~ReadPolicy(slots).unknownKind
           /\ \A limit \in ReadPolicy(slots).periodLimit : limit.amount <= MaxU64
<1> DEFINE body == BodyOf(slots)
           read == ReadPolicy(slots)
           status == FirstOf(slots, STATUS)
<1>1. /\ EMPTY = 0 /\ STATUS = 1 /\ JURISDICTIONS = 2 /\ TRANSFER_LIMIT = 3 /\ PERIOD_LIMIT = 4
      /\ 1 \in 1 .. 4 /\ 2 \in 1 .. 4 /\ 3 \in 1 .. 4 /\ 4 \in 1 .. 4
  BY DEF EMPTY, STATUS, JURISDICTIONS, TRANSFER_LIMIT, PERIOD_LIMIT
<1>2. PICK p \in status : status = {p}
  BY <1>1, WrittenRules
<1>3. p \in [1 .. Fields -> 0 .. MaxU64] /\ ValidStatusParams(p)
  BY <1>1, WrittenRules
<1>4. ToSet(ReadStatus(p).sources) = SourcesOf(p[1])
  BY <1>3, StatusTaken
<1>5. /\ ReadStatus(p).minTier = p[2] /\ ReadStatus(p).maxAge = {p[3]} \ {0}
      /\ body.status = {ReadStatus(p)}
  BY <1>2 DEF ReadStatus, BodyOf
<1>6. (CHOOSE s \in body.status : TRUE) = ReadStatus(p)
  BY <1>5
<1>7. /\ PolicyOf(body).sources = SourcesOf(p[1])
      /\ PolicyOf(body).minTier = p[2] /\ PolicyOf(body).maxAge = {p[3]} \ {0}
  BY <1>4, <1>5, <1>6 DEF PolicyOf
<1>8. /\ read.sources = UNION {SourcesOf(q[1]) : q \in {p}}
      /\ read.minTier = (CHOOSE q \in {p} : TRUE)[2]
      /\ read.maxAge = {q[3] : q \in {p}} \ {0}
  <2>1. status # {}
    BY <1>2
  <2> QED
    BY <1>2, <2>1 DEF ReadPolicy
<1>9. /\ read.sources = SourcesOf(p[1]) /\ read.minTier = p[2]
      /\ read.maxAge = {p[3]} \ {0}
  BY <1>8
<1>10. PolicyOf(body).jurisdictions = read.jurisdictions
  BY DEF PolicyOf, ReadPolicy, BodyOf
<1>11. PolicyOf(body).transferLimit = read.transferLimit
  BY DEF PolicyOf, ReadPolicy, BodyOf
<1>12. PolicyOf(body).periodLimit = read.periodLimit
  <2>1. /\ PolicyOf(body).periodLimit = {[amount |-> l.amount, window |-> l.windowSeconds] :
             l \in {[amount |-> q[1], windowSeconds |-> q[2]] : q \in FirstOf(slots, PERIOD_LIMIT)}}
        /\ read.periodLimit =
             {[amount |-> q[1], window |-> q[2]] : q \in FirstOf(slots, PERIOD_LIMIT)}
    BY DEF PolicyOf, ReadPolicy, BodyOf
  <2>2. ASSUME NEW x
        PROVE  x \in PolicyOf(body).periodLimit <=> x \in read.periodLimit
    <3>1. x \in PolicyOf(body).periodLimit <=> \E q \in FirstOf(slots, PERIOD_LIMIT) :
            LET l == [amount |-> q[1], windowSeconds |-> q[2]]
            IN  x = [amount |-> l.amount, window |-> l.windowSeconds]
      BY <2>1
    <3> QED
      BY <2>1, <3>1
  <2> QED
    BY <2>2
<1>13. ~read.unknownKind
  <2>1. \A i \in DOMAIN slots : ~(slots[i].kind > PERIOD_LIMIT)
    BY <1>1, WrittenRules
  <2> QED
    BY <2>1 DEF ReadPolicy
<1>14. \A limit \in read.periodLimit : limit.amount <= MaxU64
  <2>1. \A q \in FirstOf(slots, PERIOD_LIMIT) : q[1] \in 0 .. MaxU64
    BY <1>1, WrittenRules, LayoutAssumption
  <2> QED
    BY <2>1, WidthAssumption DEF ReadPolicy
<1> QED
  BY <1>7, <1>9, <1>10, <1>11, <1>12, <1>13, <1>14 DEF SamePolicy

\* What an account is known to hold: slots of stored rules, the policy the hook reads
\* of them and, once they are written, slots that validate accepts.
AInv ==
    /\ TypeOK
    /\ rules \in Seq(RuleSlot) /\ policy = ReadPolicy(rules)
    /\ written \in BOOLEAN
    /\ written => Validate(rules)

LEMMA AccountInvariance == AccountSpec => []AInv
<1>1. Submitted => AInv
  <2> SUFFICES ASSUME NEW family \in Families, rules \in family.rules,
                      policy = ReadPolicy(rules), ctx \in Attempt(family), written = FALSE
               PROVE  AInv
    BY DEF Submitted
  <2>1. policy \in family.policies /\ rules \in Seq(RuleSlot)
    BY SpelledAssumption
  <2>2. TypeOK
    BY <2>1, StartAssumption, FamiliesAssumption DEF Attempt, Context, TypeOK
  <2> QED
    BY <2>1, <2>2 DEF AInv
<1>2. AInv /\ [Write \/ Judge]_accountVars => AInv'
  <2>1. AInv /\ Write => AInv'
    BY DEF AInv, Write, TypeOK
  <2>2. AInv /\ Judge => AInv'
    BY DEF AInv, Judge, AttemptLater, TypeOK, Context
  <2>3. AInv /\ UNCHANGED accountVars => AInv'
    BY DEF AInv, accountVars, TypeOK
  <2> QED
    BY <2>1, <2>2, <2>3
<1> QED
  BY <1>1, <1>2, PTL DEF AccountSpec

\* The wizard judges a transfer as the hook does under every policy that can be written,
\* every record and every counter, but for sums wider than an amount (evaluate.rs
\* against evaluate.ts).
THEOREM TwinsAlike == AccountSpec => []TwinsAgree
<1>1. AInv => TwinsAgree
  <2> SUFFICES ASSUME AInv, written, NEW body \in DecodeRules(rules)
               PROVE  \/ Evaluate(policy, ctx) = Wizard!evaluateTransfer(PolicyOf(body), ctx)
                      \/ /\ Evaluate(policy, ctx) = "allowed"
                         /\ Wizard!evaluateTransfer(PolicyOf(body), ctx) = "PERIOD_LIMIT_EXCEEDED"
                         /\ PastTheWidth
    BY DEF TwinsAgree
  <2>1. /\ rules \in Seq(RuleSlot) /\ Validate(rules) /\ policy = ReadPolicy(rules)
        /\ policy \in PolicyView /\ ctx \in Context
    BY DEF AInv, TypeOK
  <2>2. body = BodyOf(rules)
    BY <2>1, WrittenDecodes
  <2>3. /\ SamePolicy(PolicyOf(body), policy) /\ ~policy.unknownKind
        /\ \A limit \in policy.periodLimit : limit.amount <= MaxU64
    BY <2>1, <2>2, DecodedIsRead
  <2> QED
    BY <2>1, <2>3, SameVerdict DEF PastTheWidth
<1> QED
  BY <1>1, AccountInvariance, PTL

\* The rules that were written fill the first slots, in the order of their kinds.
LEMMA PackedKinds ==
    ASSUME NEW slots \in Seq(RuleSlot), Validate(slots)
    PROVE  /\ slots[1].kind = 1
           /\ \A i \in 5 .. MaxSlots : slots[i].kind = 0
           /\ \/ slots[2].kind = 2 /\ slots[3].kind = 3 /\ slots[4].kind \in {0, 4}
              \/ slots[2].kind = 2 /\ slots[3].kind \in {0, 4} /\ slots[4].kind = 0
              \/ slots[2].kind = 3 /\ slots[3].kind \in {0, 4} /\ slots[4].kind = 0
              \/ slots[2].kind \in {0, 4} /\ slots[3].kind = 0 /\ slots[4].kind = 0
<1> DEFINE k(i) == slots[i].kind
<1>1. MaxSlots \in Nat /\ MaxSlots >= 4 /\ DOMAIN slots = 1 .. MaxSlots
  BY LayoutAssumption DEF Validate
<1>2. \A i \in 1 .. MaxSlots : k(i) \in 0 .. 4
  BY <1>1, WrittenRules
<1>3. \A i \in 1 .. MaxSlots : \A j \in 1 .. i - 1 : k(i) # 0 => k(j) \in 1 .. k(i) - 1
  BY <1>1 DEF Validate, Packed, EMPTY
<1>4. PICK s \in 1 .. MaxSlots : k(s) = 1
  BY <1>1 DEF Validate, STATUS
<1> HIDE DEF k
<1>5. s = 1
  <2> SUFFICES ASSUME s # 1
               PROVE  FALSE
    OBVIOUS
  <2>1. 1 \in 1 .. s - 1
    BY <1>1
  <2> QED
    BY <1>3, <1>4, <2>1
<1>6. k(1) = 1
  BY <1>4, <1>5
<1>7. /\ k(2) \in 0 .. 4 /\ k(3) \in 0 .. 4 /\ k(4) \in 0 .. 4
      /\ k(2) # 0 => 1 < k(2)
      /\ k(3) # 0 => k(2) # 0 /\ k(2) < k(3)
      /\ k(4) # 0 => k(3) # 0 /\ k(3) < k(4)
  <2>1. /\ 2 \in 1 .. MaxSlots /\ 3 \in 1 .. MaxSlots /\ 4 \in 1 .. MaxSlots
        /\ 1 \in 1 .. 2 - 1 /\ 2 \in 1 .. 3 - 1 /\ 3 \in 1 .. 4 - 1
    BY <1>1
  <2>2. k(2) \in 0 .. 4 /\ k(3) \in 0 .. 4 /\ k(4) \in 0 .. 4
    BY <1>2, <2>1
  <2>3. k(2) # 0 => k(1) \in 1 .. k(2) - 1
    BY <1>3, <2>1
  <2>4. k(3) # 0 => k(2) \in 1 .. k(3) - 1
    BY <1>3, <2>1
  <2>5. k(4) # 0 => k(3) \in 1 .. k(4) - 1
    BY <1>3, <2>1
  <2> QED
    BY <1>6, <2>2, <2>3, <2>4, <2>5
<1>8. ASSUME NEW i \in 5 .. MaxSlots, k(i) # 0
      PROVE  FALSE
  <2>1. /\ i \in 1 .. MaxSlots /\ 4 \in 1 .. i - 1 /\ k(i) \in 0 .. 4
    BY <1>1, <1>2
  <2>2. k(4) \in 1 .. k(i) - 1
    BY <1>3, <1>8, <2>1
  <2> QED
    BY <1>7, <2>1, <2>2
<1>9. \/ k(2) = 2 /\ k(3) = 3 /\ k(4) \in {0, 4}
      \/ k(2) = 2 /\ k(3) \in {0, 4} /\ k(4) = 0
      \/ k(2) = 3 /\ k(3) \in {0, 4} /\ k(4) = 0
      \/ k(2) \in {0, 4} /\ k(3) = 0 /\ k(4) = 0
  BY <1>7
<1> QED
  BY <1>6, <1>8, <1>9 DEF k

\* The slots the encoder makes of the rules of one kind.
SpelledAs(slots, kind) ==
    LET body == BodyOf(slots)
    IN  CASE kind = 1 -> {Slot(STATUS, StatusParams(s)) : s \in body.status}
          [] kind = 2 -> {Slot(JURISDICTIONS, codes) : codes \in body.jurisdictions}
          [] kind = 3 -> {Slot(TRANSFER_LIMIT, <<a>>) : a \in body.transferLimit}
          [] kind = 4 -> {Slot(PERIOD_LIMIT, <<l.amount, l.windowSeconds>>) :
                            l \in body.periodLimit}

\* They are the slot of that kind.
LEMMA SpelledAsWritten ==
    ASSUME NEW slots \in Seq(RuleSlot), Validate(slots), NEW kind \in 1 .. 4
    PROVE  /\ (\A i \in DOMAIN slots : slots[i].kind # kind) => SpelledAs(slots, kind) = {}
           /\ \A i \in DOMAIN slots : slots[i].kind = kind => SpelledAs(slots, kind) = {slots[i]}
<1>1. /\ EMPTY = 0 /\ STATUS = 1 /\ JURISDICTIONS = 2 /\ TRANSFER_LIMIT = 3 /\ PERIOD_LIMIT = 4
      /\ 1 \in 1 .. 4 /\ 2 \in 1 .. 4 /\ 3 \in 1 .. 4 /\ 4 \in 1 .. 4
  BY DEF EMPTY, STATUS, JURISDICTIONS, TRANSFER_LIMIT, PERIOD_LIMIT
<1>2. Fields \in Nat /\ Fields >= 4
  BY LayoutAssumption
<1> DEFINE first == FirstOf(slots, kind)
<1>3. /\ kind = 1 => SpelledAs(slots, kind) =
           {Slot(1, StatusParams(s)) : s \in {ReadStatus(p) : p \in first}}
      /\ kind = 2 => SpelledAs(slots, kind) =
           {Slot(2, codes) : codes \in {CodesOf(p) : p \in first}}
      /\ kind = 3 => SpelledAs(slots, kind) = {Slot(3, <<a>>) : a \in {p[1] : p \in first}}
      /\ kind = 4 => SpelledAs(slots, kind) =
           {Slot(4, <<l.amount, l.windowSeconds>>) :
              l \in {[amount |-> p[1], windowSeconds |-> p[2]] : p \in first}}
  <2> DEFINE body == BodyOf(slots)
  <2>1. /\ kind = 1 => SpelledAs(slots, kind) = {Slot(1, StatusParams(s)) : s \in body.status}
        /\ kind = 2 => SpelledAs(slots, kind) = {Slot(2, codes) : codes \in body.jurisdictions}
        /\ kind = 3 => SpelledAs(slots, kind) = {Slot(3, <<a>>) : a \in body.transferLimit}
        /\ kind = 4 => SpelledAs(slots, kind) =
             {Slot(4, <<l.amount, l.windowSeconds>>) : l \in body.periodLimit}
    <3>1. kind = 1 => SpelledAs(slots, kind) = {Slot(1, StatusParams(s)) : s \in body.status}
      BY <1>1 DEF SpelledAs
    <3>2. kind = 2 => SpelledAs(slots, kind) = {Slot(2, codes) : codes \in body.jurisdictions}
      BY <1>1 DEF SpelledAs
    <3>3. kind = 3 => SpelledAs(slots, kind) = {Slot(3, <<a>>) : a \in body.transferLimit}
      BY <1>1 DEF SpelledAs
    <3>4. kind = 4 => SpelledAs(slots, kind) =
            {Slot(4, <<l.amount, l.windowSeconds>>) : l \in body.periodLimit}
      BY <1>1 DEF SpelledAs
    <3> QED
      BY <3>1, <3>2, <3>3, <3>4
  <2>2. /\ kind = 1 => body.status = {ReadStatus(p) : p \in first}
        /\ kind = 2 => body.jurisdictions = {CodesOf(p) : p \in first}
        /\ kind = 3 => body.transferLimit = {p[1] : p \in first}
        /\ kind = 4 => body.periodLimit =
             {[amount |-> p[1], windowSeconds |-> p[2]] : p \in first}
    BY <1>1 DEF BodyOf
  <2> HIDE DEF body, first
  <2> QED
    BY <2>1, <2>2
<1>4. kind = 1 \/ kind = 2 \/ kind = 3 \/ kind = 4
  OBVIOUS
<1>5. ASSUME \A i \in DOMAIN slots : slots[i].kind # kind
      PROVE  SpelledAs(slots, kind) = {}
  <2>1. first = {}
    BY <1>5, FirstIsASlot
  <2> HIDE DEF first
  <2> QED
    BY <1>3, <1>4, <2>1
<1>6. ASSUME NEW i \in DOMAIN slots, slots[i].kind = kind
      PROVE  SpelledAs(slots, kind) = {slots[i]}
  <2> DEFINE p == slots[i].params
  <2>1. PICK j \in DOMAIN slots : slots[j].kind = kind /\ first = {slots[j].params}
    BY <1>6, FirstIsASlot
  <2>2. \A l \in DOMAIN slots : slots[l].kind # 0 =>
          \A m \in 1 .. l - 1 : slots[m].kind \in 1 .. slots[l].kind - 1
    BY <1>1 DEF Validate, Packed
  <2>3. i \in Nat /\ j \in Nat /\ i >= 1 /\ j >= 1
    OBVIOUS
  <2>4. ~(j < i)
    <3> SUFFICES ASSUME j < i
                 PROVE  FALSE
      OBVIOUS
    <3>1. j \in 1 .. i - 1
      BY <2>3
    <3> QED
      BY <1>6, <2>1, <2>2, <3>1
  <2>5. ~(i < j)
    <3> SUFFICES ASSUME i < j
                 PROVE  FALSE
      OBVIOUS
    <3>1. i \in 1 .. j - 1
      BY <2>3
    <3> QED
      BY <1>6, <2>1, <2>2, <3>1
  <2>6. first = {p}
    BY <2>1, <2>3, <2>4, <2>5
  <2>7. slots[i] \in RuleSlot /\ slots[i].op = 0
    BY DEF Validate, Packed
  <2>8. slots[i] = [kind |-> kind, op |-> 0, params |-> p] /\ p \in [1 .. Fields -> 0 .. MaxU64]
    BY <1>6, <2>7 DEF RuleSlot
  <2> HIDE DEF p, first
  <2>9. CASE kind = 1
    <3>1. ValidStatusParams(p)
      BY <1>1, <2>6, <2>9, WrittenRules DEF first
    <3>2. Params(StatusParams(ReadStatus(p))) = p
      BY <2>8, <3>1, StatusTaken
    <3>3. Slot(1, StatusParams(ReadStatus(p))) = slots[i]
      BY <2>8, <2>9, <3>2 DEF Slot
    <3> QED
      BY <1>3, <2>6, <2>9, <3>3
  <2>10. CASE kind = 2
    <3>1. ValidJurisdictions(p)
      BY <1>1, <2>6, <2>10, WrittenRules DEF first
    <3>2. Params(CodesOf(p)) = p
      BY <2>8, <3>1, WrittenCountries
    <3>3. Slot(2, CodesOf(p)) = slots[i]
      BY <2>8, <2>10, <3>2 DEF Slot
    <3> QED
      BY <1>3, <2>6, <2>10, <3>3
  <2>11. CASE kind = 3
    <3>1. ValidTransferLimit(p)
      BY <1>1, <2>6, <2>11, WrittenRules DEF first
    <3>2. Params(<<p[1]>>) = p
      <4>1. \A l \in 1 .. Fields : (IF l <= Len(<<p[1]>>) THEN <<p[1]>>[l] ELSE 0) = p[l]
        BY <1>2, <3>1 DEF ValidTransferLimit, ZeroTail
      <4> QED
        BY <2>8, <4>1 DEF Params
    <3>3. Slot(3, <<p[1]>>) = slots[i]
      BY <2>8, <2>11, <3>2 DEF Slot
    <3>4. {q[1] : q \in first} = {p[1]}
      BY <2>6
    <3> QED
      BY <1>3, <2>11, <3>3, <3>4
  <2>12. CASE kind = 4
    <3>1. ValidPeriodLimit(p)
      BY <1>1, <2>6, <2>12, WrittenRules DEF first
    <3>2. Params(<<p[1], p[2]>>) = p
      <4>1. \A l \in 1 .. Fields :
              (IF l <= Len(<<p[1], p[2]>>) THEN <<p[1], p[2]>>[l] ELSE 0) = p[l]
        <5>1. \A l \in 1 .. Fields : l = 1 \/ l = 2 \/ l \in 3 .. Fields
          BY <1>2
        <5>2. \A l \in 3 .. Fields : p[l] = 0
          BY <3>1 DEF ValidPeriodLimit, ZeroTail
        <5> QED
          BY <1>2, <5>1, <5>2
      <4> QED
        BY <2>8, <4>1 DEF Params
    <3>3. Slot(4, <<p[1], p[2]>>) = slots[i]
      BY <2>8, <2>12, <3>2 DEF Slot
    <3>4. SpelledAs(slots, kind) = {Slot(4, <<l.amount, l.windowSeconds>>) :
                                     l \in {[amount |-> p[1], windowSeconds |-> p[2]]}}
      <4>1. {[amount |-> q[1], windowSeconds |-> q[2]] : q \in first}
              = {[amount |-> p[1], windowSeconds |-> p[2]]}
        BY <2>6
      <4> QED
        BY <1>3, <2>12, <4>1
    <3> QED
      BY <3>3, <3>4
  <2> QED
    BY <1>4, <2>9, <2>10, <2>11, <2>12
<1> QED
  BY <1>5, <1>6

\* Ones and nones, joined.
LEMMA JoinedOnes ==
    ASSUME NEW a \in RuleSlot, NEW b \in RuleSlot, NEW c \in RuleSlot, NEW d \in RuleSlot
    PROVE  /\ <<a>> \o <<b>> \o <<c>> \o <<d>> = <<a, b, c, d>>
           /\ <<a>> \o <<b>> \o <<c>> \o <<>> = <<a, b, c>>
           /\ <<a>> \o <<b>> \o <<>> \o <<c>> = <<a, b, c>>
           /\ <<a>> \o <<>> \o <<b>> \o <<c>> = <<a, b, c>>
           /\ <<a>> \o <<b>> \o <<>> \o <<>> = <<a, b>>
           /\ <<a>> \o <<>> \o <<b>> \o <<>> = <<a, b>>
           /\ <<a>> \o <<>> \o <<>> \o <<b>> = <<a, b>>
           /\ <<a>> \o <<>> \o <<>> \o <<>> = <<a>>
<1>1. /\ <<a>> \in Seq(RuleSlot) /\ <<b>> \in Seq(RuleSlot) /\ <<c>> \in Seq(RuleSlot)
      /\ <<a, b>> \in Seq(RuleSlot) /\ <<a, b, c>> \in Seq(RuleSlot)
  OBVIOUS
<1>2. <<a>> \o <<b>> = <<a, b>>
  <2>1. Len(<<a>>) = 1 /\ Len(<<b>>) = 1 /\ <<a>> \in Seq(RuleSlot)
    OBVIOUS
  <2>2. PICK s : s = <<a>> \o <<b>>
    OBVIOUS
  <2>3. /\ s \in Seq(RuleSlot) /\ Len(s) = 2
        /\ \A i \in 1 .. 2 : s[i] = IF i <= 1 THEN <<a>>[i] ELSE <<b>>[i - 1]
    BY <2>1, <2>2, ConcatProperties
  <2>4. s[1] = a /\ s[2] = b
    BY <2>3
  <2>5. <<a, b>> \in Seq(RuleSlot) /\ Len(<<a, b>>) = 2
    OBVIOUS
  <2>6. \A i \in 1 .. 2 : s[i] = <<a, b>>[i]
    BY <2>4
  <2> QED
    BY <2>2, <2>3, <2>5, <2>6, SeqEqual
<1>5. <<a, b>> \o <<c>> = <<a, b, c>>
  <2>1. Len(<<a, b>>) = 2 /\ Len(<<c>>) = 1 /\ <<a, b>> \in Seq(RuleSlot)
    OBVIOUS
  <2>2. PICK s : s = <<a, b>> \o <<c>>
    OBVIOUS
  <2>3. /\ s \in Seq(RuleSlot) /\ Len(s) = 3
        /\ \A i \in 1 .. 3 : s[i] = IF i <= 2 THEN <<a, b>>[i] ELSE <<c>>[i - 2]
    BY <2>1, <2>2, ConcatProperties
  <2>4. s[1] = a /\ s[2] = b /\ s[3] = c
    BY <2>3
  <2>5. <<a, b, c>> \in Seq(RuleSlot) /\ Len(<<a, b, c>>) = 3
    OBVIOUS
  <2>6. \A i \in 1 .. 3 : s[i] = <<a, b, c>>[i]
    BY <2>4
  <2> QED
    BY <2>2, <2>3, <2>5, <2>6, SeqEqual
<1>6. <<a, b, c>> \o <<d>> = <<a, b, c, d>>
  <2>1. Len(<<a, b, c>>) = 3 /\ Len(<<d>>) = 1 /\ <<a, b, c>> \in Seq(RuleSlot)
    OBVIOUS
  <2>2. PICK s : s = <<a, b, c>> \o <<d>>
    OBVIOUS
  <2>3. /\ s \in Seq(RuleSlot) /\ Len(s) = 4
        /\ \A i \in 1 .. 4 : s[i] = IF i <= 3 THEN <<a, b, c>>[i] ELSE <<d>>[i - 3]
    BY <2>1, <2>2, ConcatProperties
  <2>4. s[1] = a /\ s[2] = b /\ s[3] = c /\ s[4] = d
    BY <2>3
  <2>5. <<a, b, c, d>> \in Seq(RuleSlot) /\ Len(<<a, b, c, d>>) = 4
    OBVIOUS
  <2>6. \A i \in 1 .. 4 : s[i] = <<a, b, c, d>>[i]
    BY <2>4
  <2> QED
    BY <2>2, <2>3, <2>5, <2>6, SeqEqual
<1>3. \A s \in Seq(RuleSlot) : s \o <<>> = s
  BY ConcatEmptySeq
<1>4. <<a>> \o <<>> = <<a>> /\ <<a, b>> \o <<>> = <<a, b>> /\ <<a, b, c>> \o <<>> = <<a, b, c>>
  BY <1>1, <1>3, Zenon
<1> QED
  BY <1>2, <1>4, <1>5, <1>6, Zenon

\* And encodes back to the slots it was.
LEMMA WrittenEncodesBack ==
    ASSUME NEW slots \in Seq(RuleSlot), Validate(slots)
    PROVE  EncodeRules(BodyOf(slots)) = {slots}
<1> DEFINE body == BodyOf(slots)
           S(kind) == SpelledAs(slots, kind)
           one(T) == IF T = {} THEN <<>> ELSE <<CHOOSE slot \in T : TRUE>>
           joined(a, b, c, d) ==
             LET all == a \o b \o c \o d
             IN  [i \in 1 .. MaxSlots |-> IF i <= Len(all) THEN all[i] ELSE EmptySlot]
           E(r) == joined(one({Slot(STATUS, StatusParams(s)) : s \in r.status}),
                          one({Slot(JURISDICTIONS, codes) : codes \in r.jurisdictions}),
                          one({Slot(TRANSFER_LIMIT, <<a>>) : a \in r.transferLimit}),
                          one({Slot(PERIOD_LIMIT, <<l.amount, l.windowSeconds>>) :
                                 l \in r.periodLimit}))
           used == one(S(1)) \o one(S(2)) \o one(S(3)) \o one(S(4))
           Fills(m) == /\ Len(used) = m /\ \A i \in 1 .. m : used[i] = slots[i]
                       /\ \A i \in m + 1 .. 4 : slots[i].kind = 0
           spelled == [i \in 1 .. MaxSlots |-> IF i <= Len(used) THEN used[i] ELSE EmptySlot]
<1>1. /\ MaxSlots \in Nat /\ MaxSlots >= 4
      /\ DOMAIN slots = 1 .. MaxSlots /\ slots = [i \in 1 .. MaxSlots |-> slots[i]]
      /\ 1 \in 1 .. MaxSlots /\ 2 \in 1 .. MaxSlots /\ 3 \in 1 .. MaxSlots /\ 4 \in 1 .. MaxSlots
  BY LayoutAssumption DEF Validate
<1>2. EncodeRules(body) = {spelled}
  <2>1. PolicyRulesSchema(body) = {body}
    BY WrittenDecodes
  <2>2. /\ S(1) = {Slot(STATUS, StatusParams(s)) : s \in body.status}
        /\ S(2) = {Slot(JURISDICTIONS, codes) : codes \in body.jurisdictions}
        /\ S(3) = {Slot(TRANSFER_LIMIT, <<a>>) : a \in body.transferLimit}
        /\ S(4) = {Slot(PERIOD_LIMIT, <<l.amount, l.windowSeconds>>) : l \in body.periodLimit}
    <3>1. S(1) = {Slot(STATUS, StatusParams(s)) : s \in body.status}
      BY DEF SpelledAs
    <3>2. S(2) = {Slot(JURISDICTIONS, codes) : codes \in body.jurisdictions}
      BY DEF SpelledAs
    <3>3. S(3) = {Slot(TRANSFER_LIMIT, <<a>>) : a \in body.transferLimit}
      BY DEF SpelledAs
    <3>4. S(4) = {Slot(PERIOD_LIMIT, <<l.amount, l.windowSeconds>>) : l \in body.periodLimit}
      BY DEF SpelledAs
    <3> QED
      BY <3>1, <3>2, <3>3, <3>4
  <2>3. EncodeRules(body) = {E(r) : r \in PolicyRulesSchema(body)}
    <3> HIDE DEF body
    <3> QED
      BY DEF EncodeRules
  <2>4. spelled = joined(one(S(1)), one(S(2)), one(S(3)), one(S(4)))
    <3> HIDE DEF one, S
    <3> QED
      OBVIOUS
  <2> HIDE DEF body, S, one, joined, spelled
  <2>5. E(body) = spelled
    BY <2>2, <2>4
  <2> HIDE DEF E
  <2> QED
    BY <2>1, <2>3, <2>5
<1> HIDE DEF body
<1>3. /\ slots[1].kind = 1
      /\ \A i \in 5 .. MaxSlots : slots[i].kind = 0
      /\ \/ slots[2].kind = 2 /\ slots[3].kind = 3 /\ slots[4].kind \in {0, 4}
         \/ slots[2].kind = 2 /\ slots[3].kind \in {0, 4} /\ slots[4].kind = 0
         \/ slots[2].kind = 3 /\ slots[3].kind \in {0, 4} /\ slots[4].kind = 0
         \/ slots[2].kind \in {0, 4} /\ slots[3].kind = 0 /\ slots[4].kind = 0
  BY PackedKinds
<1>4. \A i \in 1 .. MaxSlots : slots[i].kind = 0 => slots[i] = EmptySlot
  BY <1>1 DEF Validate, Packed, EMPTY
<1>5. \A i \in 1 .. MaxSlots : i \in {1, 2, 3, 4} \/ i \in 5 .. MaxSlots
  BY <1>1
<1>6. ASSUME NEW kind \in 1 .. 4
      PROVE  /\ (\A i \in {1, 2, 3, 4} : slots[i].kind # kind) => one(S(kind)) = <<>>
             /\ \A i \in {1, 2, 3, 4} : slots[i].kind = kind => one(S(kind)) = <<slots[i]>>
  <2>1. /\ (\A i \in DOMAIN slots : slots[i].kind # kind) => S(kind) = {}
        /\ \A i \in DOMAIN slots : slots[i].kind = kind => S(kind) = {slots[i]}
    BY SpelledAsWritten
  <2> HIDE DEF S, one
  <2>2. \A i \in {1, 2, 3, 4} : i \in DOMAIN slots
    BY <1>1
  <2>3. \A i \in 5 .. MaxSlots : slots[i].kind # kind
    BY <1>3
  <2> HIDE DEF S
  <2>4. /\ (\A i \in {1, 2, 3, 4} : slots[i].kind # kind) => S(kind) = {}
        /\ \A i \in {1, 2, 3, 4} : slots[i].kind = kind => S(kind) = {slots[i]}
    BY <1>1, <1>5, <2>1, <2>2, <2>3
  <2> QED
    BY <2>4 DEF one
<1> HIDE DEF one, S
<1>7. 1 \in 1 .. 4 /\ 2 \in 1 .. 4 /\ 3 \in 1 .. 4 /\ 4 \in 1 .. 4
  OBVIOUS
<1>8. one(S(1)) = <<slots[1]>>
  BY <1>3, <1>6, <1>7
<1>9. /\ slots[1] \in RuleSlot /\ slots[2] \in RuleSlot
      /\ slots[3] \in RuleSlot /\ slots[4] \in RuleSlot
  BY <1>1
<1>10. ASSUME slots[2].kind = 2 /\ slots[3].kind = 3 /\ slots[4].kind = 4
      PROVE  Fills(4)
  <2>1. one(S(2)) = <<slots[2]>> /\ one(S(3)) = <<slots[3]>> /\ one(S(4)) = <<slots[4]>>
    BY <1>3, <1>6, <1>7, <1>10
  <2>2. <<slots[1]>> \o <<slots[2]>> \o <<slots[3]>> \o <<slots[4]>>
          = <<slots[1], slots[2], slots[3], slots[4]>>
    BY <1>9, JoinedOnes, Zenon
  <2>3. used = <<slots[1], slots[2], slots[3], slots[4]>>
    BY <1>8, <2>1, <2>2, Zenon DEF used
  <2> HIDE DEF used
  <2> QED
    BY <1>10, <2>3
<1>11. ASSUME slots[2].kind = 2 /\ slots[3].kind = 3 /\ slots[4].kind = 0
      PROVE  Fills(3)
  <2>1. one(S(2)) = <<slots[2]>> /\ one(S(3)) = <<slots[3]>> /\ one(S(4)) = <<>>
    BY <1>3, <1>6, <1>7, <1>11
  <2>2. <<slots[1]>> \o <<slots[2]>> \o <<slots[3]>> \o <<>> = <<slots[1], slots[2], slots[3]>>
    BY <1>9, JoinedOnes, Zenon
  <2>3. used = <<slots[1], slots[2], slots[3]>>
    BY <1>8, <2>1, <2>2, Zenon DEF used
  <2> HIDE DEF used
  <2> QED
    BY <1>11, <2>3
<1>12. ASSUME slots[2].kind = 2 /\ slots[3].kind = 4 /\ slots[4].kind = 0
      PROVE  Fills(3)
  <2>1. one(S(2)) = <<slots[2]>> /\ one(S(3)) = <<>> /\ one(S(4)) = <<slots[3]>>
    BY <1>3, <1>6, <1>7, <1>12
  <2>2. <<slots[1]>> \o <<slots[2]>> \o <<>> \o <<slots[3]>> = <<slots[1], slots[2], slots[3]>>
    BY <1>9, JoinedOnes, Zenon
  <2>3. used = <<slots[1], slots[2], slots[3]>>
    BY <1>8, <2>1, <2>2, Zenon DEF used
  <2> HIDE DEF used
  <2> QED
    BY <1>12, <2>3
<1>13. ASSUME slots[2].kind = 3 /\ slots[3].kind = 4 /\ slots[4].kind = 0
      PROVE  Fills(3)
  <2>1. one(S(2)) = <<>> /\ one(S(3)) = <<slots[2]>> /\ one(S(4)) = <<slots[3]>>
    BY <1>3, <1>6, <1>7, <1>13
  <2>2. <<slots[1]>> \o <<>> \o <<slots[2]>> \o <<slots[3]>> = <<slots[1], slots[2], slots[3]>>
    BY <1>9, JoinedOnes, Zenon
  <2>3. used = <<slots[1], slots[2], slots[3]>>
    BY <1>8, <2>1, <2>2, Zenon DEF used
  <2> HIDE DEF used
  <2> QED
    BY <1>13, <2>3
<1>14. ASSUME slots[2].kind = 2 /\ slots[3].kind = 0 /\ slots[4].kind = 0
      PROVE  Fills(2)
  <2>1. one(S(2)) = <<slots[2]>> /\ one(S(3)) = <<>> /\ one(S(4)) = <<>>
    BY <1>3, <1>6, <1>7, <1>14
  <2>2. <<slots[1]>> \o <<slots[2]>> \o <<>> \o <<>> = <<slots[1], slots[2]>>
    BY <1>9, JoinedOnes, Zenon
  <2>3. used = <<slots[1], slots[2]>>
    BY <1>8, <2>1, <2>2, Zenon DEF used
  <2> HIDE DEF used
  <2> QED
    BY <1>14, <2>3
<1>15. ASSUME slots[2].kind = 3 /\ slots[3].kind = 0 /\ slots[4].kind = 0
      PROVE  Fills(2)
  <2>1. one(S(2)) = <<>> /\ one(S(3)) = <<slots[2]>> /\ one(S(4)) = <<>>
    BY <1>3, <1>6, <1>7, <1>15
  <2>2. <<slots[1]>> \o <<>> \o <<slots[2]>> \o <<>> = <<slots[1], slots[2]>>
    BY <1>9, JoinedOnes, Zenon
  <2>3. used = <<slots[1], slots[2]>>
    BY <1>8, <2>1, <2>2, Zenon DEF used
  <2> HIDE DEF used
  <2> QED
    BY <1>15, <2>3
<1>16. ASSUME slots[2].kind = 4 /\ slots[3].kind = 0 /\ slots[4].kind = 0
      PROVE  Fills(2)
  <2>1. one(S(2)) = <<>> /\ one(S(3)) = <<>> /\ one(S(4)) = <<slots[2]>>
    BY <1>3, <1>6, <1>7, <1>16
  <2>2. <<slots[1]>> \o <<>> \o <<>> \o <<slots[2]>> = <<slots[1], slots[2]>>
    BY <1>9, JoinedOnes, Zenon
  <2>3. used = <<slots[1], slots[2]>>
    BY <1>8, <2>1, <2>2, Zenon DEF used
  <2> HIDE DEF used
  <2> QED
    BY <1>16, <2>3
<1>17. ASSUME slots[2].kind = 0 /\ slots[3].kind = 0 /\ slots[4].kind = 0
      PROVE  Fills(1)
  <2>1. one(S(2)) = <<>> /\ one(S(3)) = <<>> /\ one(S(4)) = <<>>
    BY <1>3, <1>6, <1>7, <1>17
  <2>2. <<slots[1]>> \o <<>> \o <<>> \o <<>> = <<slots[1]>>
    BY <1>9, JoinedOnes, Zenon
  <2>3. used = <<slots[1]>>
    BY <1>8, <2>1, <2>2, Zenon DEF used
  <2> HIDE DEF used
  <2> QED
    BY <1>17, <2>3
<1> HIDE DEF used
<1>18. PICK m \in 1 .. 4 : Fills(m)
  <2> HIDE DEF Fills
  <2> QED
    BY <1>3, <1>10, <1>11, <1>12, <1>13, <1>14, <1>15, <1>16, <1>17
<1>19. \A i \in 1 .. MaxSlots : spelled[i] = slots[i]
  <2> SUFFICES ASSUME NEW i \in 1 .. MaxSlots
               PROVE  (IF i <= Len(used) THEN used[i] ELSE EmptySlot) = slots[i]
    OBVIOUS
  <2>1. CASE i \in 1 .. m
    BY <1>18, <2>1
  <2>2. CASE i \notin 1 .. m
    <3>1. i \in m + 1 .. 4 \/ i \in 5 .. MaxSlots
      BY <1>1, <2>2
    <3>2. slots[i].kind = 0
      BY <1>3, <1>18, <3>1
    <3>3. ~(i <= Len(used))
      <4>1. Len(used) = m /\ i \in Nat /\ 1 <= i
        BY <1>1, <1>18
      <4> QED
        BY <2>2, <4>1
    <3> QED
      BY <1>4, <3>2, <3>3
  <2> QED
    BY <2>1, <2>2
<1>20. spelled = slots
  BY <1>1, <1>19
<1> QED
  BY <1>2, <1>20 DEF body

\* A policy has one spelling, whatever its rules: what can be written decodes, and
\* encodes back to the same slots (layout.rs against layout.ts).
THEOREM SpelledOnce == AccountSpec => []OneSpelling
<1>1. AInv => OneSpelling
  BY WrittenDecodes, WrittenEncodesBack DEF AInv, OneSpelling
<1> QED
  BY <1>1, AccountInvariance, PTL
=============================================================================
