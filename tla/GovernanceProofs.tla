-------------------------- MODULE GovernanceProofs --------------------------
(***************************************************************************)
(* What governance promises for every set of wallets, every membership and *)
(* every history: types, and that no action takes effect but on the        *)
(* signatures of those who gave them.                                      *)
(*                                                                         *)
(* First lemmas about deferred signing, for every body a component may     *)
(* have: what an approval list counts, and what each operator of Proposals *)
(* does to the shared part of an inductive invariant.                      *)
(*                                                                         *)
(* Then each action of Governance is one of six shapes (StepShapes): a     *)
(* proposal is raised, approved or closed, the clock moves, or a body takes *)
(* effect, signed at once or from a proposal.  An invariant is shown for   *)
(* each shape.                                                             *)
(***************************************************************************)
EXTENDS Governance, FiniteSetTheorems, SequenceTheorems, TLAPS

-----------------------------------------------------------------------------
(* Approval lists *)

\* A list that names nobody twice counts as many wallets as it is long, which is
\* what lets quorum.rs and add_approval count list entries.
LEMMA DistinctCardinality ==
    ASSUME NEW s \in Seq(Wallet),
           \A i, j \in DOMAIN s : i # j => s[i] # s[j]
    PROVE  IsFiniteSet(Signers(s)) /\ Cardinality(Signers(s)) = Len(s)
<1>1. Len(s) \in Nat /\ DOMAIN s = 1 .. Len(s)
  OBVIOUS
<1>2. IsFiniteSet(1 .. Len(s)) /\ Cardinality(1 .. Len(s)) = Len(s)
  <2>1. 0 \in Int /\ 1 \in Int /\ Len(s) \in Int
    BY <1>1
  <2> QED
    BY <1>1, <2>1, FS_Interval
<1>3. s \in Bijection(1 .. Len(s), Signers(s))
  BY <1>1 DEF Signers, Bijection, Injection, Surjection, IsInjective
<1>4. ExistsBijection(1 .. Len(s), Signers(s))
  BY <1>3 DEF ExistsBijection
<1> QED
  BY <1>2, <1>4, FS_Bijection

\* An approval goes to the end of the list and to nobody else's account.
LEMMA AppendSigner ==
    ASSUME NEW s \in Seq(Wallet), NEW w \in Wallet
    PROVE  /\ Append(s, w) \in Seq(Wallet)
           /\ Signers(Append(s, w)) = Signers(s) \cup {w}
           /\ Signers(s) \subseteq Wallet
<1>1. Append(s, w) \in Seq(Wallet)
  OBVIOUS
<1>2. /\ DOMAIN s = 1 .. Len(s) /\ Len(s) \in Nat
      /\ DOMAIN Append(s, w) = 1 .. Len(s) + 1
      /\ Append(s, w)[Len(s) + 1] = w
      /\ \A i \in 1 .. Len(s) : Append(s, w)[i] = s[i]
  OBVIOUS
<1>3. Signers(s) \subseteq Wallet
  BY DEF Signers
<1>4. Signers(Append(s, w)) \subseteq Signers(s) \cup {w}
  BY <1>2 DEF Signers
<1>5. Signers(s) \cup {w} \subseteq Signers(Append(s, w))
  <2>1. \A i \in DOMAIN s : i \in DOMAIN Append(s, w) /\ Append(s, w)[i] = s[i]
    BY <1>2
  <2>2. w \in Signers(Append(s, w))
    BY <1>2 DEF Signers
  <2> QED
    BY <2>1, <2>2 DEF Signers
<1> QED
  BY <1>1, <1>3, <1>4, <1>5

\* What was approved before stays where it was.
LEMMA AppendPrefix ==
    ASSUME NEW s \in Seq(Wallet), NEW w \in Wallet
    PROVE  SubSeq(Append(s, w), 1, Len(s)) = s
<1> DEFINE t == Append(s, w)
<1>1. Len(s) \in Nat /\ 1 \in Int /\ Len(s) \in Int
  OBVIOUS
<1>2. \A i \in 1 .. Len(s) : t[i] \in Wallet /\ t[i] = s[i]
  OBVIOUS
<1> HIDE DEF t
<1>3. /\ SubSeq(t, 1, Len(s)) \in Seq(Wallet)
      /\ Len(SubSeq(t, 1, Len(s))) = IF 1 <= Len(s) THEN Len(s) - 1 + 1 ELSE 0
      /\ \A i \in 1 .. Len(s) - 1 + 1 : SubSeq(t, 1, Len(s))[i] = t[1 + i - 1]
  BY <1>1, <1>2, SubSeqProperties
<1>4. /\ Len(SubSeq(t, 1, Len(s))) = Len(s)
      /\ \A i \in 1 .. Len(s) : SubSeq(t, 1, Len(s))[i] = s[i]
  BY <1>1, <1>2, <1>3
<1>5. SubSeq(t, 1, Len(s)) = s
  BY <1>3, <1>4, SeqEqual
<1> QED
  BY <1>5 DEF t

\* A list of wallets that may all authorise still is one after a new one signs.
LEMMA AppendMayAuthorise ==
    ASSUME NEW m, NEW s \in Seq(Wallet), NEW w \in Wallet,
           AllMayAuthorise(m, s), MemberHas(m, w, AuthorisingRole), w \notin Signers(s)
    PROVE  AllMayAuthorise(m, Append(s, w))
<1> DEFINE t == Append(s, w)
<1>1. /\ DOMAIN s = 1 .. Len(s) /\ Len(s) \in Nat
      /\ DOMAIN t = 1 .. Len(s) + 1
      /\ t[Len(s) + 1] = w
      /\ \A i \in 1 .. Len(s) : t[i] = s[i]
  OBVIOUS
<1> HIDE DEF t
<1>2. \A i \in DOMAIN s : s[i] # w
  BY DEF Signers
<1>3. \A i \in DOMAIN t : MemberHas(m, t[i], AuthorisingRole)
  BY <1>1 DEF AllMayAuthorise
<1>4. \A i, j \in DOMAIN t : i # j => t[i] # t[j]
  <2> SUFFICES ASSUME NEW i \in DOMAIN t, NEW j \in DOMAIN t, i # j
               PROVE  t[i] # t[j]
    OBVIOUS
  <2>1. CASE i \in DOMAIN s /\ j \in DOMAIN s
    BY <1>1, <2>1 DEF AllMayAuthorise
  <2>2. CASE i \notin DOMAIN s /\ j \in DOMAIN s
    BY <1>1, <1>2, <2>2
  <2>3. CASE i \in DOMAIN s /\ j \notin DOMAIN s
    BY <1>1, <1>2, <2>3
  <2> QED
    BY <1>1, <2>1, <2>2, <2>3
<1> QED
  BY <1>3, <1>4 DEF AllMayAuthorise, t

-----------------------------------------------------------------------------
(* The shared part of an inductive invariant *)

\* Nobody signs anything who may not authorise.
BallotsAuthorised ==
    \A i \in DOMAIN ballots : ballots[i].signers \subseteq Authorising(members)

\* What every executed proposal promises, with the bookkeeping it follows from.
SharedInv(Bodies) ==
    /\ ProposalsTypeOK(Bodies)
    /\ BallotsAuthorised
    /\ Bookkeeping
    /\ EffectsNameTheirSigners
    /\ EffectsOnce
    /\ EffectsWithinTerm

\* The membership is one the program accepted, and no instruction changes it.
Founded ==
    /\ ValidMembership(members)
    /\ quorumN \in ValidQuorums(members)

LEMMA ProposalsInitShared ==
    ASSUME NEW Bodies, ProposalsInit
    PROVE  SharedInv(Bodies) /\ Founded
<1>1. IsFiniteSet(Authorising(members))
  BY WalletAssumption, FS_Subset DEF Authorising
<1>2. quorumN \in Nat
  BY <1>1, FS_CardinalityType, QuorumAssumption DEF ProposalsInit, ValidQuorums
<1>3. ProposalsTypeOK(Bodies)
  BY <1>2, MembershipsAssumption DEF ProposalsInit, ProposalsTypeOK
<1>4. Bookkeeping /\ BallotsAuthorised
  BY DEF ProposalsInit, Bookkeeping, BallotsAuthorised, Exists
<1>5. journal = <<>>
  BY DEF ProposalsInit
<1>6. EffectsNameTheirSigners /\ EffectsOnce /\ EffectsWithinTerm
  BY <1>5 DEF EffectsNameTheirSigners, EffectsOnce, EffectsWithinTerm
<1> QED
  BY <1>3, <1>4, <1>6 DEF SharedInv, Founded, ProposalsInit

\* A new proposal gets a serial of its own, which no entry of the journal bears.
LEMMA ProposeShared ==
    ASSUME NEW Bodies, NoProposal \notin ProposalOf(Bodies), SharedInv(Bodies),
           NEW slot \in Slot, NEW body \in Bodies, NEW w \in Wallet, NEW term,
           Propose(slot, body, w, term)
    PROVE  SharedInv(Bodies)'
<1> DEFINE account == [body |-> body, approvals |-> <<w>>, expiresAt |-> now + term,
                       executedAt |-> 0, serial |-> Len(ballots) + 1]
           ballot == [slot |-> slot, body |-> body, signers |-> {w},
                      expiresAt |-> now + term, after |-> Len(journal)]
<1> USE DEF SharedInv
<1>1. term \in Nat /\ now \in Nat /\ Len(journal) \in Nat /\ Len(ballots) \in Nat
  BY TermAssumption DEF Propose, ProposalsTypeOK
<1>2. ballot \in BallotOf(Bodies) /\ account \in ProposalOf(Bodies)
  BY <1>1 DEF BallotOf, ProposalOf
<1>3. /\ proposals' = [proposals EXCEPT ![slot] = account]
      /\ ballots' = Append(ballots, ballot)
      /\ UNCHANGED <<members, quorumN, now, journal>>
  BY DEF Propose, issuerVars
<1> HIDE DEF account, ballot
<1>4. /\ ballots \in Seq(BallotOf(Bodies))
      /\ DOMAIN ballots = 1 .. Len(ballots)
      /\ DOMAIN ballots' = 1 .. Len(ballots) + 1
      /\ ballots'[Len(ballots) + 1] = ballot
      /\ \A i \in 1 .. Len(ballots) : ballots'[i] = ballots[i]
  BY <1>2, <1>3 DEF ProposalsTypeOK
<1>5. ProposalsTypeOK(Bodies)'
  BY <1>2, <1>3, <1>4 DEF ProposalsTypeOK
<1>6. \A i \in DOMAIN journal :
        journal[i].serial # 0 =>
          journal[i].serial \in DOMAIN ballots /\ journal[i].serial # Len(ballots) + 1
  BY <1>1, <1>4 DEF EffectsNameTheirSigners
<1>7. Bookkeeping'
  <2> SUFFICES ASSUME NEW s \in Slot, Exists(s)'
               PROVE  AccountMatchesBallot(s)'
    BY DEF Bookkeeping
  <2>1. CASE s = slot
    <3>1. proposals'[s] = account
      BY <1>3, <2>1 DEF ProposalsTypeOK
    <3>2. account.serial = Len(ballots) + 1 /\ account.approvals = <<w>>
      BY DEF account
    <3>3. Signers(<<w>>) = {w} /\ AllMayAuthorise(members, <<w>>)
      BY DEF Signers, AllMayAuthorise, Propose, MayAct
    <3>4. ballot.slot = slot /\ ballot.body = account.body
          /\ ballot.expiresAt = account.expiresAt /\ ballot.signers = {w}
      BY DEF account, ballot
    <3>5. \A i \in DOMAIN journal : journal[i].serial # Len(ballots) + 1
      BY <1>1, <1>6
    <3>6. proposals'[s].serial \in DOMAIN ballots' /\ ballots'[proposals'[s].serial] = ballot
      BY <1>1, <1>4, <3>1, <3>2
    <3>7. AllMayAuthorise(members', proposals'[s].approvals)
      BY <1>3, <3>1, <3>2, <3>3
    <3>8. Signers(proposals'[s].approvals) = ballot.signers
      BY <3>1, <3>2, <3>3, <3>4
    <3>9. \A i \in DOMAIN journal' : journal'[i].serial # proposals'[s].serial
      BY <1>3, <3>1, <3>2, <3>5
    <3> QED
      BY <2>1, <3>1, <3>4, <3>6, <3>7, <3>8, <3>9 DEF AccountMatchesBallot
  <2>2. CASE s # slot
    <3>1. proposals'[s] = proposals[s]
      BY <1>3, <2>2 DEF ProposalsTypeOK
    <3>2. AccountMatchesBallot(s)
      BY <3>1 DEF Bookkeeping, Exists
    <3> QED
      BY <1>3, <1>4, <3>1, <3>2 DEF AccountMatchesBallot
  <2> QED
    BY <2>1, <2>2
<1>8. EffectsNameTheirSigners'
  BY <1>3, <1>4, <1>6 DEF EffectsNameTheirSigners, NamesItsSigners
<1>9. EffectsOnce' /\ EffectsWithinTerm'
  BY <1>3, <1>4, <1>6 DEF EffectsOnce, EffectsWithinTerm
<1>10. BallotsAuthorised'
  <2>1. ballot.signers \subseteq Authorising(members)
    BY DEF ballot, Authorising, Propose, MayAct
  <2>2. ballot.signers \subseteq Authorising(members)'
    BY <1>3, <2>1 DEF Authorising
  <2>3. \A i \in 1 .. Len(ballots) : ballots[i].signers \subseteq Authorising(members)'
    BY <1>3, <1>4 DEF BallotsAuthorised, Authorising
  <2> QED
    BY <1>4, <2>2, <2>3 DEF BallotsAuthorised
<1> QED
  BY <1>5, <1>7, <1>8, <1>9, <1>10

\* An approval changes one account and its own ballot alike; as the account is
\* live, no entry of the journal rests on that ballot yet.
LEMMA ApproveShared ==
    ASSUME NEW Bodies, NoProposal \notin ProposalOf(Bodies), SharedInv(Bodies),
           NEW slot \in Slot, NEW w \in Wallet, Approve(slot, w)
    PROVE  SharedInv(Bodies)'
<1> DEFINE p == proposals[slot]
           q == [p EXCEPT !.approvals = Append(@, w)]
           b == ballots[p.serial]
           c == [b EXCEPT !.signers = @ \cup {w}]
<1> USE DEF SharedInv
<1>1. p \in ProposalOf(Bodies)
  BY DEF Approve, Exists, ProposalsTypeOK
<1>2. AccountMatchesBallot(slot)
  BY DEF Approve, Bookkeeping
<1>3. /\ proposals' = [proposals EXCEPT ![slot] = q]
      /\ ballots' = [ballots EXCEPT ![p.serial] = c]
      /\ UNCHANGED <<members, quorumN, now, journal>>
  BY DEF Approve, issuerVars
<1>4. /\ p.serial \in DOMAIN ballots /\ b \in BallotOf(Bodies)
      /\ b.signers = Signers(p.approvals)
      /\ b.slot = slot /\ b.body = p.body /\ b.expiresAt = p.expiresAt
  BY <1>2 DEF AccountMatchesBallot, ProposalsTypeOK
<1>5. p.approvals \in Seq(Wallet) /\ q.approvals = Append(p.approvals, w)
  BY <1>1 DEF ProposalOf
<1>6. /\ q.approvals \in Seq(Wallet)
      /\ Signers(q.approvals) = Signers(p.approvals) \cup {w}
  BY <1>5, AppendSigner
<1>7. /\ q \in ProposalOf(Bodies)
      /\ q.serial = p.serial /\ q.body = p.body /\ q.expiresAt = p.expiresAt
  BY <1>1, <1>6 DEF ProposalOf
<1>8. /\ c \in BallotOf(Bodies)
      /\ c.slot = slot /\ c.body = p.body /\ c.expiresAt = p.expiresAt
      /\ c.signers = Signers(q.approvals)
  BY <1>4, <1>6 DEF BallotOf
<1>9. \A i \in DOMAIN journal : journal[i].serial # p.serial
  BY <1>2 DEF AccountMatchesBallot, Approve, Live
<1>10. AllMayAuthorise(members, q.approvals)
  BY <1>2, <1>5, AppendMayAuthorise DEF AccountMatchesBallot, Approve, MayAct, Takes
<1> HIDE DEF q, c
<1>11. /\ DOMAIN ballots' = DOMAIN ballots
       /\ ballots'[p.serial] = c
       /\ \A k \in DOMAIN ballots : k # p.serial => ballots'[k] = ballots[k]
  BY <1>3, <1>4
<1>12. ProposalsTypeOK(Bodies)'
  <2>1. proposals' \in [Slot -> ProposalOf(Bodies) \cup {NoProposal}]
    BY <1>3, <1>7 DEF ProposalsTypeOK
  <2>2. ballots' \in Seq(BallotOf(Bodies))
    <3>1. ballots \in Seq(BallotOf(Bodies)) /\ p.serial \in 1 .. Len(ballots)
      BY <1>4 DEF ProposalsTypeOK
    <3> QED
      BY <1>3, <1>8, <3>1
  <2> QED
    BY <1>3, <2>1, <2>2 DEF ProposalsTypeOK
<1>13. Bookkeeping'
  <2> SUFFICES ASSUME NEW s \in Slot, Exists(s)'
               PROVE  AccountMatchesBallot(s)'
    BY DEF Bookkeeping
  <2>1. CASE s = slot
    <3>1. proposals'[s] = q
      BY <1>3, <2>1 DEF ProposalsTypeOK
    <3> QED
      BY <1>3, <1>4, <1>7, <1>8, <1>9, <1>10, <1>11, <2>1, <3>1 DEF AccountMatchesBallot
  <2>2. CASE s # slot
    <3>1. proposals'[s] = proposals[s]
      BY <1>3, <2>2 DEF ProposalsTypeOK
    <3>2. AccountMatchesBallot(s)
      BY <3>1 DEF Bookkeeping, Exists
    <3>3. proposals[s].serial # p.serial
      BY <1>4, <2>2, <3>2 DEF AccountMatchesBallot
    <3> QED
      BY <1>3, <1>11, <3>1, <3>2, <3>3 DEF AccountMatchesBallot
  <2> QED
    BY <2>1, <2>2
<1>14. EffectsNameTheirSigners'
  BY <1>3, <1>9, <1>11 DEF EffectsNameTheirSigners, NamesItsSigners
<1>15. EffectsOnce' /\ EffectsWithinTerm'
  BY <1>3, <1>9, <1>11 DEF EffectsOnce, EffectsWithinTerm, EffectsNameTheirSigners
<1>16. BallotsAuthorised'
  <2>1. c.signers \subseteq Authorising(members)
    BY <1>4, <1>6, <1>8 DEF BallotsAuthorised, Authorising, Approve, MayAct
  <2>2. Authorising(members)' = Authorising(members)
    BY <1>3 DEF Authorising
  <2> QED
    BY <1>11, <2>1, <2>2 DEF BallotsAuthorised
<1> QED
  BY <1>12, <1>13, <1>14, <1>15, <1>16

\* Closing an account takes nothing from the history.
LEMMA CloseShared ==
    ASSUME NEW Bodies, SharedInv(Bodies), NEW slot \in Slot, NEW w \in Wallet,
           CloseProposal(slot, w)
    PROVE  SharedInv(Bodies)'
<1> USE DEF SharedInv
<1>1. /\ proposals' = [proposals EXCEPT ![slot] = NoProposal]
      /\ UNCHANGED <<members, quorumN, now, ballots, journal>>
  BY DEF CloseProposal, issuerVars
<1>2. ProposalsTypeOK(Bodies)'
  BY <1>1 DEF ProposalsTypeOK
<1>3. Bookkeeping'
  <2> SUFFICES ASSUME NEW s \in Slot, Exists(s)'
               PROVE  AccountMatchesBallot(s)'
    BY DEF Bookkeeping
  <2>1. proposals'[s] = proposals[s] /\ Exists(s)
    BY <1>1 DEF ProposalsTypeOK, Exists
  <2> QED
    BY <1>1, <2>1 DEF Bookkeeping, AccountMatchesBallot
<1>4. EffectsNameTheirSigners' /\ EffectsOnce' /\ EffectsWithinTerm'
  BY <1>1 DEF EffectsNameTheirSigners, NamesItsSigners, EffectsOnce, EffectsWithinTerm
<1>5. BallotsAuthorised'
  BY <1>1 DEF BallotsAuthorised
<1> QED
  BY <1>2, <1>3, <1>4, <1>5

\* Nothing the invariant says depends on the present time.
LEMMA TickShared ==
    ASSUME NEW Bodies, SharedInv(Bodies), Tick
    PROVE  SharedInv(Bodies)'
<1> USE DEF SharedInv
<1>1. now' \in Nat \ {0} /\ UNCHANGED <<members, quorumN, proposals, ballots, journal>>
  BY DEF Tick, issuerVars, ProposalsTypeOK
<1>2. ProposalsTypeOK(Bodies)'
  BY <1>1 DEF ProposalsTypeOK
<1>3. Bookkeeping'
  BY <1>1 DEF Bookkeeping, Exists, AccountMatchesBallot
<1>4. EffectsNameTheirSigners' /\ EffectsOnce' /\ EffectsWithinTerm'
  BY <1>1 DEF EffectsNameTheirSigners, NamesItsSigners, EffectsOnce, EffectsWithinTerm
<1>5. BallotsAuthorised'
  BY <1>1 DEF BallotsAuthorised
<1> QED
  BY <1>2, <1>3, <1>4, <1>5

\* An action signed at once spends no ballot.
LEMMA SignedShared ==
    ASSUME NEW Bodies, SharedInv(Bodies), NEW body \in Bodies, NEW listed \in Seq(Wallet),
           Signed(body, listed)
    PROVE  SharedInv(Bodies)'
<1> DEFINE e == [body |-> body, by |-> listed, at |-> now, serial |-> 0]
<1> USE DEF SharedInv
<1>1. /\ journal' = Append(journal, e)
      /\ UNCHANGED <<members, quorumN, now, proposals, ballots>>
  BY DEF Signed, issuerVars
<1>2. e \in EntryOf(Bodies) /\ e.serial = 0
  BY DEF EntryOf, ProposalsTypeOK
<1> HIDE DEF e
<1>3. /\ DOMAIN journal = 1 .. Len(journal) /\ Len(journal) \in Nat
      /\ DOMAIN journal' = 1 .. Len(journal) + 1
      /\ journal'[Len(journal) + 1] = e
      /\ \A i \in 1 .. Len(journal) : journal'[i] = journal[i]
  BY <1>1, <1>2 DEF ProposalsTypeOK
<1>4. \A i \in DOMAIN journal' :
        \/ i \in DOMAIN journal /\ journal'[i] = journal[i]
        \/ i = Len(journal) + 1 /\ journal'[i].serial = 0
  BY <1>2, <1>3
<1>5. ProposalsTypeOK(Bodies)'
  BY <1>1, <1>2 DEF ProposalsTypeOK
<1>6. Bookkeeping'
  <2> SUFFICES ASSUME NEW s \in Slot, Exists(s)'
               PROVE  AccountMatchesBallot(s)'
    BY DEF Bookkeeping
  <2>1. AccountMatchesBallot(s)
    BY <1>1 DEF Bookkeeping, Exists
  <2>2. proposals[s].serial \in 1 .. Len(ballots) /\ Len(ballots) \in Nat
    BY <2>1 DEF AccountMatchesBallot, ProposalsTypeOK
  <2>3. proposals[s].executedAt = 0 =>
          \A i \in DOMAIN journal' : journal'[i].serial # proposals[s].serial
    BY <1>4, <2>1, <2>2 DEF AccountMatchesBallot
  <2> QED
    BY <1>1, <2>1, <2>3 DEF AccountMatchesBallot
<1>7. EffectsNameTheirSigners'
  BY <1>1, <1>4 DEF EffectsNameTheirSigners, NamesItsSigners
<1>8. EffectsOnce'
  <2> SUFFICES ASSUME NEW i \in DOMAIN journal', NEW j \in DOMAIN journal',
                      i # j, journal'[i].serial # 0
               PROVE  journal'[i].serial # journal'[j].serial
    BY DEF EffectsOnce
  <2>1. i \in DOMAIN journal /\ journal'[i] = journal[i]
    BY <1>4
  <2> QED
    BY <1>4, <2>1 DEF EffectsOnce
<1>9. EffectsWithinTerm'
  BY <1>1, <1>4 DEF EffectsWithinTerm
<1>10. BallotsAuthorised'
  BY <1>1 DEF BallotsAuthorised
<1> QED
  BY <1>5, <1>6, <1>7, <1>8, <1>9, <1>10

\* Executing a proposal spends its ballot, which no entry rested on before.
LEMMA ExecutedShared ==
    ASSUME NEW Bodies, NoProposal \notin ProposalOf(Bodies), SharedInv(Bodies),
           NEW slot \in Slot, NEW scope, NEW body \in Bodies, NEW listed,
           Deferred(slot, scope, body, listed), Executed(slot, body, listed)
    PROVE  SharedInv(Bodies)'
<1> DEFINE p == proposals[slot]
           q == [p EXCEPT !.executedAt = now]
           e == [body |-> body, by |-> listed, at |-> now, serial |-> p.serial]
<1> USE DEF SharedInv
<1>1. p \in ProposalOf(Bodies)
  BY DEF Deferred, Exists, ProposalsTypeOK
<1>2. AccountMatchesBallot(slot)
  BY DEF Deferred, Bookkeeping
<1>3. /\ journal' = Append(journal, e)
      /\ proposals' = [proposals EXCEPT ![slot] = q]
      /\ UNCHANGED <<members, quorumN, now, ballots>>
  BY DEF Executed, issuerVars
<1>4. /\ listed = p.approvals /\ p.body = body /\ p.executedAt = 0 /\ now <= p.expiresAt
      /\ QuorumCheck(members, quorumN, p.approvals)
  BY DEF Deferred, Live
<1>5. /\ e \in EntryOf(Bodies) /\ e.serial = p.serial /\ e.by = p.approvals
      /\ e.body = p.body /\ e.at = now /\ p.serial # 0
  BY <1>1, <1>4 DEF EntryOf, ProposalOf, ProposalsTypeOK
<1>6. /\ q \in ProposalOf(Bodies) /\ q.executedAt # 0
      /\ q.serial = p.serial /\ q.body = p.body /\ q.expiresAt = p.expiresAt
      /\ q.approvals = p.approvals
  BY <1>1 DEF ProposalOf, ProposalsTypeOK
<1>7. \A i \in DOMAIN journal : journal[i].serial # p.serial
  BY <1>2, <1>4 DEF AccountMatchesBallot
<1> HIDE DEF e, q
<1>8. /\ DOMAIN journal = 1 .. Len(journal) /\ Len(journal) \in Nat
      /\ DOMAIN journal' = 1 .. Len(journal) + 1
      /\ journal'[Len(journal) + 1] = e
      /\ \A i \in 1 .. Len(journal) : journal'[i] = journal[i]
  BY <1>3, <1>5 DEF ProposalsTypeOK
<1>9. \A i \in DOMAIN journal' :
        \/ i \in DOMAIN journal /\ journal'[i] = journal[i]
        \/ i = Len(journal) + 1 /\ journal'[i] = e
  BY <1>8
<1>10. ProposalsTypeOK(Bodies)'
  <2>1. proposals' \in [Slot -> ProposalOf(Bodies) \cup {NoProposal}]
    BY <1>3, <1>6 DEF ProposalsTypeOK
  <2> QED
    BY <1>3, <1>5, <2>1 DEF ProposalsTypeOK
<1>11. Bookkeeping'
  <2> SUFFICES ASSUME NEW s \in Slot, Exists(s)'
               PROVE  AccountMatchesBallot(s)'
    BY DEF Bookkeeping
  <2>1. CASE s = slot
    <3>1. proposals'[s] = q
      BY <1>3, <2>1 DEF ProposalsTypeOK
    <3> QED
      BY <1>2, <1>3, <1>6, <2>1, <3>1 DEF AccountMatchesBallot
  <2>2. CASE s # slot
    <3>1. proposals'[s] = proposals[s]
      BY <1>3, <2>2 DEF ProposalsTypeOK
    <3>2. AccountMatchesBallot(s)
      BY <3>1 DEF Bookkeeping, Exists
    <3>3. proposals[s].serial # p.serial
      BY <1>2, <2>2, <3>2 DEF AccountMatchesBallot
    <3> QED
      BY <1>3, <1>5, <1>9, <3>1, <3>2, <3>3 DEF AccountMatchesBallot
  <2> QED
    BY <2>1, <2>2
<1>12. NamesItsSigners(e)
  <2>1. AllMayAuthorise(members, p.approvals) /\ Len(p.approvals) >= quorumN
    BY <1>4 DEF QuorumCheck
  <2>2. p.approvals \in Seq(Wallet)
    BY <1>1 DEF ProposalOf
  <2>3. Cardinality(Signers(p.approvals)) >= quorumN
    BY <2>1, <2>2, DistinctCardinality DEF AllMayAuthorise
  <2>4. Signers(p.approvals) \subseteq Authorising(members)
    BY <2>1, <2>2 DEF AllMayAuthorise, Signers, Authorising
  <2> QED
    BY <1>2, <1>5, <2>3, <2>4 DEF NamesItsSigners, AccountMatchesBallot
<1>13. EffectsNameTheirSigners'
  <2>1. p.serial \in DOMAIN ballots
    BY <1>2 DEF AccountMatchesBallot
  <2> QED
    BY <1>3, <1>5, <1>9, <1>12, <2>1 DEF EffectsNameTheirSigners, NamesItsSigners
<1>14. EffectsOnce'
  BY <1>5, <1>7, <1>9 DEF EffectsOnce
<1>15. EffectsWithinTerm'
  <2>1. now <= ballots[p.serial].expiresAt
    BY <1>2, <1>4 DEF AccountMatchesBallot
  <2> QED
    BY <1>3, <1>5, <1>9, <2>1 DEF EffectsWithinTerm
<1>16. BallotsAuthorised'
  BY <1>3 DEF BallotsAuthorised
<1> QED
  BY <1>10, <1>11, <1>13, <1>14, <1>15, <1>16

-----------------------------------------------------------------------------
(* What follows from it *)

\* The slots of a proposal hold every member that may authorise, so the ones that
\* have not signed always find room.
LEMMA RoomFromShared ==
    ASSUME NEW Bodies, SharedInv(Bodies), Founded
    PROVE  RoomForTheRest
<1> SUFFICES ASSUME NEW slot \in Slot, Exists(slot)
             PROVE  LET p == proposals[slot]
                        rest == Authorising(members) \ Signers(p.approvals)
                    IN  /\ Len(p.approvals) + Cardinality(rest) <= MaxMembers
                        /\ Cardinality(Signers(p.approvals) \cup rest) >= quorumN
  BY DEF RoomForTheRest
<1> DEFINE s == proposals[slot].approvals
           all == Authorising(members)
           rest == all \ Signers(s)
<1>1. s \in Seq(Wallet) /\ AllMayAuthorise(members, s)
  BY DEF SharedInv, ProposalsTypeOK, ProposalOf, Bookkeeping, AccountMatchesBallot, Exists
<1> HIDE DEF s
<1>2. IsFiniteSet(Signers(s)) /\ Cardinality(Signers(s)) = Len(s)
  BY <1>1, DistinctCardinality DEF AllMayAuthorise
<1>3. Signers(s) \subseteq all
  BY <1>1 DEF Signers, AllMayAuthorise, Authorising
<1>4. all \subseteq MembersOf(members) /\ MembersOf(members) \subseteq Wallet
  BY DEF Authorising, MembersOf, MemberHas
<1>5. /\ IsFiniteSet(MembersOf(members)) /\ IsFiniteSet(all)
      /\ Cardinality(all) <= Cardinality(MembersOf(members))
  BY <1>4, WalletAssumption, FS_Subset
<1>6. /\ Cardinality(all) \in Nat /\ Cardinality(MembersOf(members)) \in Nat
      /\ Cardinality(MembersOf(members)) <= MaxMembers /\ Cardinality(all) >= quorumN
  BY <1>5, FS_CardinalityType, MembersAssumption, QuorumAssumption
  DEF Founded, ValidMembership, ValidQuorums
<1>7. Cardinality(rest) = Cardinality(all) - Len(s)
  <2>1. all \cap Signers(s) = Signers(s)
    BY <1>3
  <2>2. Cardinality(rest) = Cardinality(all) - Cardinality(all \cap Signers(s))
    BY <1>5, FS_Difference
  <2> QED
    BY <1>2, <2>1, <2>2
<1>8. Signers(s) \cup rest = all
  BY <1>3
<1>9. Len(s) \in Nat
  BY <1>1
<1>10. Len(s) + Cardinality(rest) <= MaxMembers
  BY <1>5, <1>6, <1>7, <1>9, MembersAssumption
<1>11. Cardinality(Signers(s) \cup rest) >= quorumN
  BY <1>6, <1>8
<1> QED
  BY <1>10, <1>11 DEF s

\* An account that a step does not touch stands.
LEMMA UntouchedStands ==
    ASSUME NEW Bodies, SharedInv(Bodies), NEW s \in Slot, proposals'[s] = proposals[s]
    PROVE  StandsUntilOver(s)
<1> SUFFICES ASSUME Exists(s)
             PROVE  /\ proposals[s] # NoProposal
                    /\ SubSeq(proposals[s].approvals, 1, Len(proposals[s].approvals))
                         = proposals[s].approvals
  BY DEF StandsUntilOver
<1>1. proposals[s].approvals \in Seq(Wallet)
  BY DEF Exists, SharedInv, ProposalsTypeOK, ProposalOf
<1> QED
  BY <1>1, SubSeqFull DEF Exists

\* What each operator of Proposals does to a live account: nothing, or one more
\* approval at the end, or the execution that ends it.
LEMMA ProposeStands ==
    ASSUME NEW Bodies, SharedInv(Bodies), NEW s \in Slot, NEW slot \in Slot,
           NEW body, NEW w, NEW term, Propose(slot, body, w, term)
    PROVE  StandsUntilOver(s)
<1>1. CASE s = slot
  BY <1>1 DEF Propose, Free, StandsUntilOver
<1>2. CASE s # slot
  BY <1>2, UntouchedStands DEF Propose, SharedInv, ProposalsTypeOK
<1> QED
  BY <1>1, <1>2

LEMMA ApproveStands ==
    ASSUME NEW Bodies, NoProposal \notin ProposalOf(Bodies), SharedInv(Bodies),
           NEW s \in Slot, NEW slot \in Slot, NEW w \in Wallet, Approve(slot, w)
    PROVE  StandsUntilOver(s)
<1>1. CASE s = slot
  <2> DEFINE p == proposals[s]
             q == [p EXCEPT !.approvals = Append(@, w)]
  <2>1. p \in ProposalOf(Bodies) /\ proposals'[s] = q
    BY <1>1 DEF Approve, Exists, SharedInv, ProposalsTypeOK
  <2>2. /\ q.body = p.body /\ q.expiresAt = p.expiresAt /\ q.serial = p.serial
        /\ q.approvals = Append(p.approvals, w) /\ p.approvals \in Seq(Wallet)
    BY <2>1 DEF ProposalOf
  <2>3. q \in ProposalOf(Bodies)
    <3>1. Append(p.approvals, w) \in Seq(Wallet)
      BY <2>2, AppendSigner
    <3> QED
      BY <2>1, <3>1 DEF ProposalOf
  <2>4. SubSeq(q.approvals, 1, Len(p.approvals)) = p.approvals
    BY <2>2, AppendPrefix
  <2> QED
    BY <2>1, <2>2, <2>3, <2>4 DEF StandsUntilOver
<1>2. CASE s # slot
  BY <1>2, UntouchedStands DEF Approve, SharedInv, ProposalsTypeOK
<1> QED
  BY <1>1, <1>2

LEMMA CloseStands ==
    ASSUME NEW Bodies, SharedInv(Bodies), NEW s \in Slot, NEW slot \in Slot, NEW w,
           CloseProposal(slot, w)
    PROVE  StandsUntilOver(s)
<1>1. CASE s = slot
  <2>1. Exists(slot) => proposals[slot].expiresAt \in Nat /\ now \in Nat
    BY DEF Exists, SharedInv, ProposalsTypeOK, ProposalOf
  <2> QED
    BY <1>1, <2>1 DEF CloseProposal, Closable, StandsUntilOver, Live
<1>2. CASE s # slot
  BY <1>2, UntouchedStands DEF CloseProposal, SharedInv, ProposalsTypeOK
<1> QED
  BY <1>1, <1>2

LEMMA ExecutedStands ==
    ASSUME NEW Bodies, NoProposal \notin ProposalOf(Bodies), SharedInv(Bodies),
           NEW s \in Slot, NEW slot \in Slot, NEW body, NEW listed,
           Exists(slot), Executed(slot, body, listed)
    PROVE  StandsUntilOver(s)
<1>1. CASE s = slot
  <2> DEFINE p == proposals[s]
             q == [p EXCEPT !.executedAt = now]
  <2>1. p \in ProposalOf(Bodies) /\ proposals'[s] = q /\ now \in Nat
    BY <1>1 DEF Executed, Exists, SharedInv, ProposalsTypeOK
  <2>2. /\ q.body = p.body /\ q.expiresAt = p.expiresAt /\ q.serial = p.serial
        /\ q.approvals = p.approvals /\ p.approvals \in Seq(Wallet)
        /\ q \in ProposalOf(Bodies)
    BY <2>1 DEF ProposalOf
  <2> QED
    BY <2>1, <2>2, SubSeqFull DEF StandsUntilOver
<1>2. CASE s # slot
  BY <1>2, UntouchedStands DEF Executed, SharedInv, ProposalsTypeOK
<1> QED
  BY <1>1, <1>2

-----------------------------------------------------------------------------
(* The shapes of a step *)

\* The governed state moves as a body asks.
Effect(body, listed) ==
    \/ /\ body \in DelegationBody
       /\ delegation = body.from /\ delegation' = body.to
       /\ ValidDelegation(members, body.to)
       /\ UNCHANGED <<terms, policyVersion, policies>>
    \/ /\ body \in AttestorBody
       /\ terms = body.from /\ terms' = body.to
       /\ ValidTerms(members, body.to)
       /\ UNCHANGED <<delegation, policyVersion, policies>>
    \/ /\ body \in PolicyBody
       /\ body.version \in 2 .. MaxVersion
       /\ WritePolicy(body.version, body.rules, listed[1])
       /\ UNCHANGED <<delegation, terms>>
    \/ body \in Orders /\ UNCHANGED governed

\* Who may sign a body at once.
SignedBy(body, listed) ==
    \/ QuorumCheck(members, quorumN, listed)
    \/ /\ body \in DelegationBody
       /\ IsNarrowing(body.from, body.to)
       /\ AllMayAuthorise(members, listed)
       /\ \E i \in DOMAIN listed : MemberHas(members, listed[i], {"admin"})

\* What the checks of a proposal leave: the new value is one the program takes, and
\* not the one it starts from.
WellAsked(m, body) ==
    \/ /\ body \in DelegationBody
       /\ ValidDelegation(m, body.to) /\ body.to # body.from
    \/ /\ body \in AttestorBody
       /\ ValidTerms(m, body.to) /\ body.to # body.from
    \/ body \in PolicyBody /\ body.version \in 2 .. MaxVersion
    \/ body \in Orders

RaisedShape ==
    /\ \E slot \in Slot, body \in Body, w \in Wallet, term \in Term :
         WellAsked(members, body) /\ Propose(slot, body, w, term)
    /\ UNCHANGED governed
ApprovedShape ==
    (\E slot \in Slot, w \in Wallet : Approve(slot, w)) /\ UNCHANGED governed
ClosedShape ==
    (\E slot \in Slot, w \in Wallet : CloseProposal(slot, w)) /\ UNCHANGED governed
ClockShape == Tick /\ UNCHANGED governed
SignedShape ==
    \E body \in Body, listed \in Seq(Wallet) :
      SignedBy(body, listed) /\ Effect(body, listed) /\ Signed(body, listed)
ExecutedShape ==
    \E slot \in Slot, scope \in Scope, body \in Body, listed \in Seq(Wallet) :
      /\ Deferred(slot, scope, body, listed)
      /\ Effect(body, listed)
      /\ Executed(slot, body, listed)

Shape ==
    \/ RaisedShape \/ ApprovedShape \/ ClosedShape
    \/ ClockShape \/ SignedShape \/ ExecutedShape

\* What is proposed or signed is a body, and says where the change starts.
LEMMA StoredBodies ==
    ASSUME TypeOK
    PROVE  /\ \A target \in DelegationTargets :
                DelegationAllowed(target) =>
                  /\ DelegationStored(target) \in DelegationBody
                  /\ DelegationStored(target).from = delegation
                  /\ DelegationStored(target).to = target
           /\ \A target \in TermsTargets, reason \in Reason :
                /\ TermsStored(target, reason) \in AttestorBody
                /\ TermsStored(target, reason).from = terms
                /\ TermsStored(target, reason).to = target
           /\ \A version \in 2 .. MaxVersion, rules \in Rules, reason \in Reason :
                /\ PolicyStored(version, rules, reason) \in PolicyBody
                /\ PolicyStored(version, rules, reason).version = version
                /\ PolicyStored(version, rules, reason).rules = rules
<1>1. ASSUME NEW target \in DelegationTargets, DelegationAllowed(target)
      PROVE  DelegationStored(target) \in DelegationBody
  <2>1. target \in Delegation
    BY <1>1, TargetsAssumption DEF DelegationTargets, Delegation, DelegationAllowed, ValidDelegation
  <2> QED
    BY <2>1 DEF TypeOK, DelegationStored, DelegationBody
<1>2. ASSUME NEW target \in TermsTargets, NEW reason \in Reason
      PROVE  TermsStored(target, reason) \in AttestorBody
  <2>1. target \in Terms
    BY TargetsAssumption, MaxAgeAssumption DEF TermsTargets, Terms
  <2> QED
    BY <2>1 DEF TypeOK, TermsStored, AttestorBody
<1>3. ASSUME NEW version \in 2 .. MaxVersion, NEW rules \in Rules, NEW reason \in Reason
      PROVE  PolicyStored(version, rules, reason) \in PolicyBody
  BY VersionAssumption DEF PolicyStored, PolicyBody
<1> QED
  BY <1>1, <1>2, <1>3 DEF DelegationStored, TermsStored, PolicyStored

LEMMA StepShapes ==
    ASSUME TypeOK, Next
    PROVE  \/ RaisedShape \/ ApprovedShape \/ ClosedShape \/ ClockShape
           \/ SignedShape \/ ExecutedShape
<1> USE StoredBodies, ScopeAssumption, SignerListsAssumption
<1>1. \A nonce \in Nonce :
        <<IssuerScope, nonce>> \in Slot /\ <<TokenScope, nonce>> \in Slot
  BY DEF Slot
<1>2. DelegationBody \subseteq Body /\ AttestorBody \subseteq Body /\ PolicyBody \subseteq Body
  BY DEF Body
<1>3. CASE NextDelegation
  <2>1. PICK target \in DelegationTargets :
          \/ \E nonce \in Nonce, w \in Wallet, term \in Term :
               ProposeSetDelegation(nonce, w, term, target)
          \/ \E listed \in SignerLists :
               \/ SetDelegationSigned(target, listed)
               \/ \E slot \in Slot : SetDelegationProposed(slot, target, listed)
    BY <1>3 DEF NextDelegation
  <2>2. ASSUME NEW nonce \in Nonce, NEW w \in Wallet, NEW term \in Term,
               ProposeSetDelegation(nonce, w, term, target)
        PROVE  RaisedShape
    <3>1. WellAsked(members, DelegationStored(target))
      BY <2>2 DEF ProposeSetDelegation, WellAsked, DelegationAllowed
    <3> QED
      BY <1>1, <1>2, <2>2, <3>1 DEF ProposeSetDelegation, RaisedShape
  <2>3. ASSUME NEW listed \in SignerLists, SetDelegationSigned(target, listed)
        PROVE  SignedShape
    BY <1>2, <2>3
    DEF SetDelegationSigned, SignedShape, SignedBy, Effect, ChangeAuthorised, DelegationAllowed
  <2>4. ASSUME NEW listed \in SignerLists, NEW slot \in Slot,
               SetDelegationProposed(slot, target, listed)
        PROVE  ExecutedShape
    BY <1>2, <2>4 DEF SetDelegationProposed, ExecutedShape, Effect, DelegationAllowed
  <2> QED
    BY <2>1, <2>2, <2>3, <2>4
<1>4. CASE NextAttestor
  <2>1. PICK target \in TermsTargets, reason \in Reason :
          \/ \E nonce \in Nonce, w \in Wallet, term \in Term :
               ProposeSetAttestor(nonce, w, term, target, reason)
          \/ \E listed \in SignerLists :
               \/ SetAttestorSigned(target, reason, listed)
               \/ \E slot \in Slot : SetAttestorProposed(slot, target, reason, listed)
    BY <1>4 DEF NextAttestor
  <2>2. ASSUME NEW nonce \in Nonce, NEW w \in Wallet, NEW term \in Term,
               ProposeSetAttestor(nonce, w, term, target, reason)
        PROVE  RaisedShape
    <3>1. WellAsked(members, TermsStored(target, reason))
      BY <2>2 DEF ProposeSetAttestor, WellAsked, TermsAllowed
    <3> QED
      BY <1>1, <1>2, <2>2, <3>1 DEF ProposeSetAttestor, RaisedShape
  <2>3. ASSUME NEW listed \in SignerLists, SetAttestorSigned(target, reason, listed)
        PROVE  SignedShape
    BY <1>2, <2>3 DEF SetAttestorSigned, SignedShape, SignedBy, Effect, TermsAllowed
  <2>4. ASSUME NEW listed \in SignerLists, NEW slot \in Slot,
               SetAttestorProposed(slot, target, reason, listed)
        PROVE  ExecutedShape
    BY <1>2, <2>4 DEF SetAttestorProposed, ExecutedShape, Effect, TermsAllowed
  <2> QED
    BY <2>1, <2>2, <2>3, <2>4
<1>5. CASE NextPolicy
  <2>1. PICK version \in 2 .. MaxVersion, rules \in Rules, reason \in Reason :
          \/ \E nonce \in Nonce, w \in Wallet, term \in Term :
               ProposeSetPolicy(nonce, w, term, version, rules, reason)
          \/ \E listed \in SignerLists :
               \/ SetPolicySigned(version, rules, reason, listed)
               \/ \E slot \in Slot : SetPolicyProposed(slot, version, rules, reason, listed)
    BY <1>5 DEF NextPolicy
  <2>2. ASSUME NEW nonce \in Nonce, NEW w \in Wallet, NEW term \in Term,
               ProposeSetPolicy(nonce, w, term, version, rules, reason)
        PROVE  RaisedShape
    <3>1. WellAsked(members, PolicyStored(version, rules, reason))
      BY <2>2 DEF WellAsked
    <3> QED
      BY <1>1, <1>2, <2>2, <3>1 DEF ProposeSetPolicy, RaisedShape
  <2>3. ASSUME NEW listed \in SignerLists, SetPolicySigned(version, rules, reason, listed)
        PROVE  SignedShape
    BY <1>2, <2>3 DEF SetPolicySigned, SignedShape, SignedBy, Effect
  <2>4. ASSUME NEW listed \in SignerLists, NEW slot \in Slot,
               SetPolicyProposed(slot, version, rules, reason, listed)
        PROVE  ExecutedShape
    BY <1>2, <2>4 DEF SetPolicyProposed, ExecutedShape, Effect
  <2> QED
    BY <2>1, <2>2, <2>3, <2>4
<1>6. CASE NextProposal
  BY <1>6 DEF NextProposal, ApproveAction, CloseActionProposal, ApprovedShape, ClosedShape
<1>7. CASE TimePasses
  BY <1>7 DEF TimePasses, ClockShape
<1> QED
  BY <1>3, <1>4, <1>5, <1>6, <1>7 DEF Next

-----------------------------------------------------------------------------
(* The inductive invariant *)

\* The key and the attestor are none of those who authorise.
OutsideStaysOut ==
    /\ members[delegation.key] = {}
    /\ members[terms.attestor] = {"attestor"}

IInv ==
    /\ TypeOK
    /\ SharedInv(Body)
    /\ Founded
    /\ EffectsAuthorised
    /\ OutsideStaysOut

LEMMA AttestorIsOnlyThat ==
    ASSUME NEW m \in Membership, ValidMembership(m), NEW t, ValidTerms(m, t), t.attestor \in Wallet
    PROVE  m[t.attestor] = {"attestor"}
BY DEF ValidMembership, ValidTerms, MemberHas

LEMMA InitInv ==
    ASSUME Init
    PROVE  IInv
<1> USE DEF Init
<1>1. SharedInv(Body) /\ Founded
  BY ProposalsInitShared
<1>2. delegation \in Delegation /\ terms \in Terms
  <2>1. delegation \in Delegation
    BY TargetsAssumption DEF DelegationTargets, Delegation, ValidDelegation
  <2>2. terms \in Terms
    BY TargetsAssumption, MaxAgeAssumption DEF TermsTargets, Terms
  <2> QED
    BY <2>1, <2>2
<1>3. policyVersion \in 1 .. MaxVersion
  BY VersionAssumption
<1>4. policies \in [1 .. MaxVersion -> Policy \cup {NoPolicy}]
  <2>1. PICK rules \in Rules, founder \in Wallet :
          policies = [v \in 1 .. MaxVersion |->
            IF v = 1 THEN [rules |-> rules, author |-> founder] ELSE NoPolicy]
    OBVIOUS
  <2>2. [rules |-> rules, author |-> founder] \in Policy
    BY DEF Policy
  <2> QED
    BY <2>1, <2>2
<1>5. TypeOK
  BY <1>1, <1>2, <1>3, <1>4 DEF TypeOK, SharedInv
<1>6. EffectsAuthorised
  BY DEF EffectsAuthorised, ProposalsInit
<1>7. OutsideStaysOut
  <2>1. members \in Membership /\ terms.attestor \in Wallet
    BY <1>1, <1>2 DEF SharedInv, ProposalsTypeOK, Terms
  <2> QED
    BY <1>1, <2>1, AttestorIsOnlyThat DEF OutsideStaysOut, Founded, ValidDelegation
<1> QED
  BY <1>1, <1>5, <1>6, <1>7 DEF IInv

\* A body taking effect keeps the governed part well formed.
LEMMA EffectKeeps ==
    ASSUME IInv, NEW body \in Body, NEW listed \in Seq(Wallet), listed # <<>>,
           Effect(body, listed), UNCHANGED issuerVars, ProposalsTypeOK(Body)'
    PROVE  TypeOK' /\ OutsideStaysOut'
<1>1. CASE body \in DelegationBody /\ delegation' = body.to /\ ValidDelegation(members, body.to)
           /\ UNCHANGED <<terms, policyVersion, policies>>
  <2>1. body.to \in Delegation
    BY <1>1 DEF DelegationBody
  <2> QED
    BY <1>1, <2>1 DEF IInv, TypeOK, OutsideStaysOut, issuerVars, ValidDelegation
<1>2. CASE body \in AttestorBody /\ terms' = body.to /\ ValidTerms(members, body.to)
           /\ UNCHANGED <<delegation, policyVersion, policies>>
  <2>1. body.to \in Terms /\ body.to.attestor \in Wallet
    BY <1>2 DEF AttestorBody, Terms
  <2>2. members[body.to.attestor] = {"attestor"}
    BY <1>2, <2>1, AttestorIsOnlyThat DEF IInv, Founded, TypeOK, ProposalsTypeOK
  <2> QED
    BY <1>2, <2>1, <2>2 DEF IInv, TypeOK, OutsideStaysOut, issuerVars
<1>3. CASE body \in PolicyBody /\ body.version \in 2 .. MaxVersion
           /\ WritePolicy(body.version, body.rules, listed[1])
           /\ UNCHANGED <<delegation, terms>>
  <2>1. listed[1] \in Wallet /\ body.rules \in Rules
    BY <1>3 DEF PolicyBody
  <2>2. [rules |-> body.rules, author |-> listed[1]] \in Policy
    BY <2>1 DEF Policy
  <2> QED
    BY <1>3, <2>2 DEF IInv, TypeOK, OutsideStaysOut, issuerVars, WritePolicy, VersionIsNext
<1>4. CASE body \in Orders /\ UNCHANGED governed
  BY <1>4 DEF IInv, TypeOK, OutsideStaysOut, issuerVars, governed
<1> QED
  BY <1>1, <1>2, <1>3, <1>4 DEF Effect

\* A quorum is at least one wallet, and as many different ones as the list is long.
LEMMA QuorumStands ==
    ASSUME NEW m, NEW n \in Nat \ {0}, NEW listed \in Seq(Wallet), QuorumCheck(m, n, listed)
    PROVE  /\ listed # <<>>
           /\ \A i \in DOMAIN listed : MemberHas(m, listed[i], AuthorisingRole)
           /\ Cardinality(Signers(listed)) >= n
<1>1. Cardinality(Signers(listed)) = Len(listed)
  BY DistinctCardinality DEF QuorumCheck, AllMayAuthorise
<1> QED
  BY <1>1 DEF QuorumCheck, AllMayAuthorise

LEMMA QuorumIsPositive ==
    ASSUME Founded
    PROVE  quorumN \in Nat \ {0}
<1>1. IsFiniteSet(Authorising(members))
  BY WalletAssumption, FS_Subset DEF Authorising
<1> QED
  BY <1>1, FS_CardinalityType, QuorumAssumption DEF Founded, ValidQuorums

\* An entry that stands on a quorum keeps doing so, and one added must.
LEMMA EntryAdded ==
    ASSUME EffectsAuthorised, journal \in Seq(EntryOf(Body)), NEW e \in EntryOf(Body),
           journal' = Append(journal, e), UNCHANGED issuerVars, StandsOnQuorum(e)
    PROVE  EffectsAuthorised'
<1>1. \A i \in DOMAIN journal' : StandsOnQuorum(journal'[i])
  <2>1. /\ DOMAIN journal = 1 .. Len(journal) /\ Len(journal) \in Nat
        /\ DOMAIN journal' = 1 .. Len(journal) + 1
        /\ journal'[Len(journal) + 1] = e
        /\ \A i \in 1 .. Len(journal) : journal'[i] = journal[i]
    OBVIOUS
  <2>2. \A i \in DOMAIN journal' : i \in DOMAIN journal \/ journal'[i] = e
    BY <2>1
  <2> QED
    BY <2>1, <2>2 DEF EffectsAuthorised
<1> QED
  BY <1>1 DEF EffectsAuthorised, StandsOnQuorum, issuerVars

LEMMA SignedKeeps ==
    ASSUME IInv, SignedShape
    PROVE  IInv'
<1>1. PICK body \in Body, listed \in Seq(Wallet) :
        SignedBy(body, listed) /\ Effect(body, listed) /\ Signed(body, listed)
  BY DEF SignedShape
<1>2. SharedInv(Body)'
  BY <1>1, SignedShared DEF IInv
<1>3. UNCHANGED issuerVars
  BY <1>1 DEF Signed
<1>4. /\ listed # <<>>
      /\ \A i \in DOMAIN listed : MemberHas(members, listed[i], AuthorisingRole)
      /\ \/ Cardinality(Signers(listed)) >= quorumN
         \/ /\ body \in DelegationBody
            /\ IsNarrowing(body.from, body.to)
            /\ \E i \in DOMAIN listed : MemberHas(members, listed[i], {"admin"})
  <2>1. CASE QuorumCheck(members, quorumN, listed)
    BY <2>1, QuorumIsPositive, QuorumStands DEF IInv
  <2>2. CASE ~QuorumCheck(members, quorumN, listed)
    BY <1>1, <2>2 DEF SignedBy, AllMayAuthorise
  <2> QED
    BY <2>1, <2>2
<1>5. TypeOK' /\ OutsideStaysOut'
  BY <1>1, <1>2, <1>3, <1>4, EffectKeeps DEF SharedInv
<1>6. EffectsAuthorised'
  <2> DEFINE e == [body |-> body, by |-> listed, at |-> now, serial |-> 0]
  <2>1. e \in EntryOf(Body) /\ journal \in Seq(EntryOf(Body)) /\ journal' = Append(journal, e)
    BY <1>1 DEF EntryOf, Signed, IInv, TypeOK, ProposalsTypeOK
  <2>2. body \in DelegationBody => body.kind = "SetDelegation"
    BY DEF DelegationBody
  <2>3. StandsOnQuorum(e)
    BY <1>4, <2>2 DEF StandsOnQuorum
  <2> HIDE DEF e
  <2> QED
    BY <1>3, <2>1, <2>3, EntryAdded DEF IInv
<1> QED
  BY <1>2, <1>3, <1>5, <1>6 DEF IInv, Founded, issuerVars

LEMMA ExecutedKeeps ==
    ASSUME IInv, ExecutedShape
    PROVE  IInv'
<1>1. PICK slot \in Slot, scope \in Scope, body \in Body, listed \in Seq(Wallet) :
        Deferred(slot, scope, body, listed) /\ Effect(body, listed) /\ Executed(slot, body, listed)
  BY DEF ExecutedShape
<1>2. SharedInv(Body)'
  BY <1>1, ExecutedShared, NoProposalAssumption DEF IInv
<1>3. UNCHANGED issuerVars
  BY <1>1 DEF Executed
<1>4. QuorumCheck(members, quorumN, listed)
  BY <1>1 DEF Deferred
<1>5. /\ listed # <<>>
      /\ \A i \in DOMAIN listed : MemberHas(members, listed[i], AuthorisingRole)
      /\ Cardinality(Signers(listed)) >= quorumN
  BY <1>4, QuorumIsPositive, QuorumStands DEF IInv
<1>6. TypeOK' /\ OutsideStaysOut'
  BY <1>1, <1>2, <1>3, <1>5, EffectKeeps DEF SharedInv
<1>7. EffectsAuthorised'
  <2> DEFINE e == [body |-> body, by |-> listed, at |-> now, serial |-> proposals[slot].serial]
  <2>1. proposals[slot].serial \in Nat
    BY <1>1 DEF Deferred, Exists, IInv, TypeOK, ProposalsTypeOK, ProposalOf
  <2>2. e \in EntryOf(Body) /\ journal \in Seq(EntryOf(Body)) /\ journal' = Append(journal, e)
    BY <1>1, <2>1 DEF EntryOf, Executed, IInv, TypeOK, ProposalsTypeOK
  <2>3. StandsOnQuorum(e)
    BY <1>5 DEF StandsOnQuorum
  <2> HIDE DEF e
  <2> QED
    BY <1>3, <2>2, <2>3, EntryAdded DEF IInv
<1> QED
  BY <1>2, <1>3, <1>6, <1>7 DEF IInv, Founded, issuerVars

\* The other shapes leave the journal and what is governed alone.
LEMMA QuietKeeps ==
    ASSUME IInv, SharedInv(Body)', UNCHANGED <<issuerVars, governed, journal>>
    PROVE  IInv'
<1>1. TypeOK' /\ OutsideStaysOut' /\ Founded'
  BY DEF IInv, SharedInv, TypeOK, OutsideStaysOut, Founded, issuerVars, governed
<1>2. EffectsAuthorised'
  BY DEF IInv, EffectsAuthorised, StandsOnQuorum, issuerVars
<1> QED
  BY <1>1, <1>2 DEF IInv

LEMMA ShapeKeeps ==
    ASSUME IInv, Shape \/ UNCHANGED vars
    PROVE  IInv'
<1> USE NoProposalAssumption
<1>1. CASE RaisedShape
  <2>1. PICK slot \in Slot, body \in Body, w \in Wallet, term \in Term :
          Propose(slot, body, w, term)
    BY <1>1 DEF RaisedShape
  <2>2. SharedInv(Body)'
    BY <2>1, ProposeShared DEF IInv
  <2> QED
    BY <1>1, <2>1, <2>2, QuietKeeps DEF RaisedShape, Propose
<1>2. CASE ApprovedShape
  <2>1. SharedInv(Body)'
    BY <1>2, ApproveShared DEF IInv, ApprovedShape
  <2> QED
    BY <1>2, <2>1, QuietKeeps DEF ApprovedShape, Approve
<1>3. CASE ClosedShape
  <2>1. SharedInv(Body)'
    BY <1>3, CloseShared DEF IInv, ClosedShape
  <2> QED
    BY <1>3, <2>1, QuietKeeps DEF ClosedShape, CloseProposal
<1>4. CASE ClockShape
  <2>1. SharedInv(Body)'
    BY <1>4, TickShared DEF IInv, ClockShape
  <2> QED
    BY <1>4, <2>1, QuietKeeps DEF ClockShape, Tick
<1>5. CASE UNCHANGED vars
  <2>1. SharedInv(Body)'
    BY <1>5 DEF IInv, SharedInv, vars, issuerVars, ProposalsTypeOK, BallotsAuthorised,
         Bookkeeping, AccountMatchesBallot, Exists, EffectsNameTheirSigners,
         NamesItsSigners, EffectsOnce, EffectsWithinTerm
  <2> QED
    BY <1>5, <2>1, QuietKeeps DEF vars
<1> QED
  BY <1>1, <1>2, <1>3, <1>4, <1>5, SignedKeeps, ExecutedKeeps DEF Shape

LEMMA NextInv ==
    ASSUME IInv, [Next]_vars
    PROVE  IInv'
BY ShapeKeeps, StepShapes DEF IInv, Shape

\* The invariant holds throughout: the rest of the theorems read off from it.
THEOREM Invariance == Spec => []IInv
<1>1. Init => IInv
  BY InitInv
<1>2. IInv /\ [Next]_vars => IInv'
  BY NextInv
<1> QED
  BY <1>1, <1>2, PTL DEF Spec

-----------------------------------------------------------------------------
(* The theorems *)

\* Every variable keeps its type, for any membership and any bounds.
THEOREM TypeCorrect == Spec => []TypeOK
<1>1. IInv => TypeOK
  BY DEF IInv
<1> QED
  BY <1>1, Invariance, PTL

\* No action takes effect on fewer than quorum_n different wallets that may
\* authorise, but for a narrowing of the delegation signed at once with an admin.
THEOREM ActionsTakeQuorum == Spec => []EffectsAuthorised
<1>1. IInv => EffectsAuthorised
  BY DEF IInv
<1> QED
  BY <1>1, Invariance, PTL

\* So everything that takes effect was signed for: by a quorum, or by an admin for
\* a narrowing; and what executes a proposal names exactly those who signed that very
\* proposal.
THEOREM EffectsAreSigned == Spec => []EffectsSigned
<1>1. IInv => EffectsSigned
  BY DEF IInv, SharedInv, EffectsSigned
<1> QED
  BY <1>1, Invariance, PTL

\* A proposal takes effect within its term.
THEOREM ExecutedInTime == Spec => []EffectsWithinTerm
<1>1. IInv => EffectsWithinTerm
  BY DEF IInv, SharedInv
<1> QED
  BY <1>1, Invariance, PTL

\* A proposal is executed once; and the bookkeeping of accounts and signatures this
\* rests on never fails.
THEOREM ProposalsSpentOnce == Spec => [](EffectsOnce /\ Bookkeeping)
<1>1. IInv => EffectsOnce /\ Bookkeeping
  BY DEF IInv, SharedInv
<1> QED
  BY <1>1, Invariance, PTL

\* A live proposal always has room for the members that have not signed it, and
\* they are enough for its quorum.
THEOREM QuorumReachable == Spec => []RoomForTheRest
<1>1. IInv => RoomForTheRest
  BY RoomFromShared DEF IInv
<1> QED
  BY <1>1, Invariance, PTL

\* The operational key and the attestor are members of no quorum, at any time.
THEOREM DutiesSeparate == Spec => []SeparationOfDuties
<1>1. IInv => SeparationOfDuties
  <2> SUFFICES ASSUME IInv
               PROVE  SeparationOfDuties
    OBVIOUS
  <2>1. \A w \in Authorising(members) : members[w] \cap AuthorisingRole # {}
    BY DEF Authorising, MemberHas
  <2>2. delegation.key \notin Authorising(members) /\ terms.attestor \notin Authorising(members)
    BY <2>1 DEF IInv, OutsideStaysOut, AuthorisingRole
  <2> QED
    BY <2>2 DEF IInv, OutsideStaysOut, SharedInv, BallotsAuthorised, SeparationOfDuties
<1> QED
  BY <1>1, Invariance, PTL

\* A live proposal is revoked by the clock alone: no step takes it away or changes it.
THEOREM ProposalsStand == Spec => LiveProposalsStand
<1>1. IInv /\ [Next]_vars => [\A slot \in Slot : StandsUntilOver(slot)]_vars
  <2> SUFFICES ASSUME IInv, Next, NEW s \in Slot
               PROVE  StandsUntilOver(s)
    OBVIOUS
  <2> USE NoProposalAssumption
  <2>1. SharedInv(Body)
    BY DEF IInv
  <2>2. CASE RaisedShape
    BY <2>1, <2>2, ProposeStands DEF RaisedShape
  <2>3. CASE ApprovedShape
    BY <2>1, <2>3, ApproveStands DEF ApprovedShape
  <2>4. CASE ClosedShape
    BY <2>1, <2>4, CloseStands DEF ClosedShape
  <2>5. CASE ClockShape
    BY <2>1, <2>5, UntouchedStands DEF ClockShape, Tick
  <2>6. CASE SignedShape
    BY <2>1, <2>6, UntouchedStands DEF SignedShape, Signed
  <2>7. CASE ExecutedShape
    BY <2>1, <2>7, ExecutedStands DEF ExecutedShape, Deferred
  <2> QED
    BY <2>2, <2>3, <2>4, <2>5, <2>6, <2>7, StepShapes DEF IInv
<1> QED
  BY <1>1, Invariance, PTL DEF Spec, LiveProposalsStand

\* No step gives the operational key a power, or gives the powers to another key,
\* without leaving an entry on which a quorum stands.
THEOREM GrantsStandOnQuorum == Spec => GrantsTakeQuorum
<1> DEFINE Standing == \E i \in DOMAIN journal' \ DOMAIN journal :
             Cardinality({w \in Signers(journal'[i].by) :
                            MemberHas(members, w, AuthorisingRole)}) >= quorumN
<1>1. ASSUME IInv, NEW e \in EntryOf(Body), journal' = Append(journal, e),
             QuorumCheck(members, quorumN, e.by)
      PROVE  Standing
  <2>1. e.by \in Seq(Wallet)
    BY <1>1 DEF EntryOf
  <2>2. /\ \A i \in DOMAIN e.by : MemberHas(members, e.by[i], AuthorisingRole)
        /\ Cardinality(Signers(e.by)) >= quorumN
    BY <1>1, <2>1, QuorumIsPositive, QuorumStands DEF IInv
  <2>3. {w \in Signers(e.by) : MemberHas(members, w, AuthorisingRole)} = Signers(e.by)
    BY <2>2 DEF Signers
  <2>4. journal \in Seq(EntryOf(Body))
    BY <1>1 DEF IInv, TypeOK, ProposalsTypeOK
  <2>5. /\ Len(journal) + 1 \in DOMAIN journal' \ DOMAIN journal
        /\ journal'[Len(journal) + 1] = e
    BY <1>1, <2>4
  <2> QED
    BY <2>2, <2>3, <2>5
<1>2. IInv /\ [Next]_vars =>
        [~IsNarrowing(delegation, delegation') => Standing]_vars
  <2> HIDE DEF Standing
  <2> SUFFICES ASSUME IInv, Next, ~IsNarrowing(delegation, delegation')
               PROVE  Standing
    OBVIOUS
  <2>1. delegation' # delegation
    BY DEF IsNarrowing
  <2>2. SignedShape \/ ExecutedShape
    BY <2>1, StepShapes DEF IInv, RaisedShape, ApprovedShape, ClosedShape, ClockShape, governed
  <2>3. CASE SignedShape
    <3>1. PICK body \in Body, listed \in Seq(Wallet) :
            SignedBy(body, listed) /\ Effect(body, listed) /\ Signed(body, listed)
      BY <2>3 DEF SignedShape
    <3>2. QuorumCheck(members, quorumN, listed)
      BY <2>1, <3>1, OrdersAssumption
         DEF Effect, SignedBy, DelegationBody, AttestorBody, PolicyBody, governed
    <3>3. [body |-> body, by |-> listed, at |-> now, serial |-> 0] \in EntryOf(Body)
      BY DEF EntryOf, IInv, TypeOK, ProposalsTypeOK
    <3> QED
      BY <1>1, <3>1, <3>2, <3>3 DEF Signed
  <2>4. CASE ExecutedShape
    <3>1. PICK slot \in Slot, scope \in Scope, body \in Body, listed \in Seq(Wallet) :
            Deferred(slot, scope, body, listed) /\ Executed(slot, body, listed)
      BY <2>4 DEF ExecutedShape
    <3>2. QuorumCheck(members, quorumN, listed)
      BY <3>1 DEF Deferred
    <3>3. proposals[slot].serial \in Nat
      BY <3>1 DEF Deferred, Exists, IInv, TypeOK, ProposalsTypeOK, ProposalOf
    <3>4. [body |-> body, by |-> listed, at |-> now, serial |-> proposals[slot].serial]
            \in EntryOf(Body)
      BY <3>3 DEF EntryOf, IInv, TypeOK, ProposalsTypeOK
    <3> QED
      BY <1>1, <3>1, <3>2, <3>4 DEF Executed
  <2> QED
    BY <2>2, <2>3, <2>4
<1> QED
  BY <1>2, Invariance, PTL DEF Spec, GrantsTakeQuorum

-----------------------------------------------------------------------------
(* The chain of transitions *)

\* An entry that starts where the chain of its kind ended prolongs it; an entry
\* of another kind leaves it as it was.
LEMMA ChainProlonged ==
    ASSUME journal \in Seq(EntryOf(Body)), NEW e \in EntryOf(Body),
           journal' = Append(journal, e),
           NEW kind, NEW old, NEW new, ChainEndsIn(kind, old),
           e.body.kind = kind => e.body.from = old /\ e.body.to = new,
           e.body.kind # kind => new = old
    PROVE  ChainEndsIn(kind, new)'
<1> DEFINE n == Len(journal)
           P == PositionsOf(kind)
           Q == PositionsOf(kind)'
<1>1. /\ n \in Nat /\ DOMAIN journal = 1 .. n /\ DOMAIN journal' = 1 .. n + 1
      /\ journal'[n + 1] = e
      /\ \A i \in 1 .. n : journal'[i] = journal[i]
  OBVIOUS
<1>2. /\ P \subseteq 1 .. n
      /\ \A i \in P : journal[i].body.kind = kind /\ journal'[i] = journal[i]
      /\ Q = IF e.body.kind = kind THEN P \cup {n + 1} ELSE P
  BY <1>1 DEF PositionsOf
<1>3. /\ \A i, j \in P : i < j /\ (\A k \in P : ~(i < k /\ k < j)) =>
           journal[j].body.from = journal[i].body.to
      /\ \A i \in P : (\A k \in P : k <= i) => journal[i].body.to = old
  BY DEF ChainEndsIn, Successive
<1> HIDE DEF n, P, Q
<1>4. ASSUME NEW i \in Q, NEW j \in Q, i < j, \A k \in Q : ~(i < k /\ k < j)
      PROVE  journal'[j].body.from = journal'[i].body.to
  <2>1. i \in P
    BY <1>1, <1>2, <1>4
  <2>2. CASE j \in P
    BY <1>2, <1>3, <1>4, <2>1, <2>2
  <2>3. CASE j \notin P
    <3>1. j = n + 1 /\ e.body.kind = kind
      BY <1>2, <2>3
    <3>2. \A k \in P : k <= i
      BY <1>1, <1>2, <1>4, <2>1, <3>1
    <3> QED
      BY <1>1, <1>2, <1>3, <2>1, <3>1, <3>2
  <2> QED
    BY <2>2, <2>3
<1>5. ASSUME NEW i \in Q, \A k \in Q : k <= i
      PROVE  journal'[i].body.to = new
  <2>1. CASE e.body.kind = kind
    <3>1. i = n + 1
      BY <1>1, <1>2, <1>5, <2>1
    <3> QED
      BY <1>1, <2>1, <3>1
  <2>2. CASE e.body.kind # kind
    BY <1>2, <1>3, <1>5, <2>2
  <2> QED
    BY <2>1, <2>2
<1> QED
  BY <1>4, <1>5 DEF ChainEndsIn, Successive, Q

LEMMA ChainsKept ==
    ASSUME IInv, TransitionsChain, NEW body \in Body, NEW listed \in Seq(Wallet),
           Effect(body, listed), NEW e \in EntryOf(Body), e.body = body,
           journal' = Append(journal, e)
    PROVE  TransitionsChain'
<1>1. journal \in Seq(EntryOf(Body))
  BY DEF IInv, TypeOK, ProposalsTypeOK
<1>2. /\ body.kind = "SetDelegation" => delegation = body.from /\ delegation' = body.to
      /\ body.kind # "SetDelegation" => delegation' = delegation
      /\ body.kind = "SetAttestor" => terms = body.from /\ terms' = body.to
      /\ body.kind # "SetAttestor" => terms' = terms
  BY OrdersAssumption DEF Effect, DelegationBody, AttestorBody, PolicyBody, governed
<1>3. PICK d0, d1, t0, t1 : d0 = delegation /\ d1 = delegation' /\ t0 = terms /\ t1 = terms'
  OBVIOUS
<1>4. ChainEndsIn("SetDelegation", d0) /\ ChainEndsIn("SetAttestor", t0)
  BY <1>3 DEF TransitionsChain
<1>5. ChainEndsIn("SetDelegation", d1)'
  BY <1>1, <1>2, <1>3, <1>4, ChainProlonged
<1>6. ChainEndsIn("SetAttestor", t1)'
  BY <1>1, <1>2, <1>3, <1>4, ChainProlonged
<1> QED
  BY <1>3, <1>5, <1>6 DEF TransitionsChain, ChainEndsIn

\* The delegation and the reserve terms each go from value to value without a
\* break: no change is lost, and none starts from a value that was not in force.
THEOREM TransitionsUnbroken == Spec => []TransitionsChain
<1>1. Init => TransitionsChain
  BY DEF Init, ProposalsInit, TransitionsChain, ChainEndsIn, PositionsOf
<1>2. IInv /\ TransitionsChain /\ [Next]_vars => TransitionsChain'
  <2> SUFFICES ASSUME IInv, TransitionsChain, [Next]_vars
               PROVE  TransitionsChain'
    OBVIOUS
  <2>1. CASE UNCHANGED <<journal, delegation, terms>>
    BY <2>1 DEF TransitionsChain, ChainEndsIn, Successive, PositionsOf
  <2>2. CASE SignedShape
    <3>1. PICK body \in Body, listed \in Seq(Wallet) :
            Effect(body, listed) /\ Signed(body, listed)
      BY <2>2 DEF SignedShape
    <3>2. [body |-> body, by |-> listed, at |-> now, serial |-> 0] \in EntryOf(Body)
      BY DEF EntryOf, IInv, TypeOK, ProposalsTypeOK
    <3> QED
      BY <3>1, <3>2, ChainsKept DEF Signed
  <2>3. CASE ExecutedShape
    <3>1. PICK slot \in Slot, scope \in Scope, body \in Body, listed \in Seq(Wallet) :
            Deferred(slot, scope, body, listed) /\ Effect(body, listed)
              /\ Executed(slot, body, listed)
      BY <2>3 DEF ExecutedShape
    <3>2. proposals[slot].serial \in Nat
      BY <3>1 DEF Deferred, Exists, IInv, TypeOK, ProposalsTypeOK, ProposalOf
    <3>3. [body |-> body, by |-> listed, at |-> now, serial |-> proposals[slot].serial]
            \in EntryOf(Body)
      BY <3>2 DEF EntryOf, IInv, TypeOK, ProposalsTypeOK
    <3> QED
      BY <3>1, <3>3, ChainsKept DEF Executed
  <2>4. SignedShape \/ ExecutedShape \/ UNCHANGED <<journal, delegation, terms>>
    BY StepShapes DEF IInv, RaisedShape, ApprovedShape, ClosedShape, ClockShape,
       Propose, Approve, CloseProposal, Tick, governed, vars
  <2> QED
    BY <2>1, <2>2, <2>3, <2>4
<1> QED
  BY <1>1, <1>2, Invariance, PTL DEF Spec

-----------------------------------------------------------------------------
(* The versions of the policy *)

\* PolicyHistory by itself lets an entry name a version that is still to come,
\* which would make the writing of that version the second one.
NoneAhead == \A i \in PositionsOf("SetPolicy") : journal[i].body.version <= policyVersion

\* An entry of any kind that does what it says keeps the history of versions.
LEMMA VersionsKept ==
    ASSUME IInv, PolicyHistory, NoneAhead, NEW body \in Body, NEW listed \in Seq(Wallet),
           listed # <<>>, Effect(body, listed), NEW e \in EntryOf(Body),
           e.body = body, e.by = listed, journal' = Append(journal, e)
    PROVE  PolicyHistory' /\ NoneAhead'
<1> DEFINE n == Len(journal)
           P == PositionsOf("SetPolicy")
           Q == PositionsOf("SetPolicy")'
<1>1. /\ n \in Nat /\ DOMAIN journal = 1 .. n /\ DOMAIN journal' = 1 .. n + 1
      /\ journal'[n + 1] = e
      /\ \A i \in 1 .. n : journal'[i] = journal[i]
  BY DEF IInv, TypeOK, ProposalsTypeOK
<1>2. /\ P \subseteq 1 .. n
      /\ \A i \in P : journal'[i] = journal[i]
      /\ Q = IF body.kind = "SetPolicy" THEN P \cup {n + 1} ELSE P
  BY <1>1 DEF PositionsOf
<1>3. /\ MaxVersion \in Nat /\ policyVersion \in 1 .. MaxVersion
      /\ policies \in [1 .. MaxVersion -> Policy \cup {NoPolicy}]
      /\ \A i \in P : journal[i].body.version \in Nat
  <2>1. ASSUME NEW i \in P
        PROVE  journal[i].body.version \in Nat
    <3>1. i \in DOMAIN journal /\ journal[i].body.kind = "SetPolicy"
      BY DEF P, PositionsOf
    <3>2. journal[i] \in EntryOf(Body)
      BY <3>1 DEF IInv, TypeOK, ProposalsTypeOK
    <3>3. journal[i].body \in PolicyBody
      BY <3>1, <3>2, OrdersAssumption DEF EntryOf, Body, DelegationBody, AttestorBody, PolicyBody
    <3> QED
      BY <3>3 DEF PolicyBody
  <2> QED
    BY <2>1, VersionAssumption DEF IInv, TypeOK
<1>4. /\ \A v \in 1 .. MaxVersion : policies[v] # NoPolicy <=> v <= policyVersion
      /\ \A v \in 2 .. policyVersion : \E i \in P :
           /\ journal[i].body.version = v
           /\ policies[v] = [rules |-> journal[i].body.rules, author |-> journal[i].by[1]]
           /\ \A j \in P : journal[j].body.version = v => j = i
      /\ \A i \in P : journal[i].body.version <= policyVersion
  BY DEF PolicyHistory, NoneAhead
<1> HIDE DEF n, P, Q
<1>5. CASE body.kind # "SetPolicy"
  <2>1. policies' = policies /\ policyVersion' = policyVersion
    BY <1>5 DEF Effect, PolicyBody, governed
  <2>2. Q = P
    BY <1>2, <1>5
  <2>3. \A i \in Q : journal'[i] = journal[i]
    BY <1>2, <2>2
  <2>4. ASSUME NEW v \in 2 .. policyVersion'
        PROVE  \E i \in Q :
                 /\ journal'[i].body.version = v
                 /\ policies'[v] = [rules |-> journal'[i].body.rules, author |-> journal'[i].by[1]]
                 /\ \A j \in Q : journal'[j].body.version = v => j = i
    <3>1. PICK i \in P :
            /\ journal[i].body.version = v
            /\ policies[v] = [rules |-> journal[i].body.rules, author |-> journal[i].by[1]]
            /\ \A j \in P : journal[j].body.version = v => j = i
      BY <1>4, <2>1
    <3>2. i \in Q /\ journal'[i] = journal[i]
      BY <2>2, <2>3
    <3>3. \A j \in Q : journal'[j].body.version = v => j = i
      BY <2>2, <2>3, <3>1
    <3> QED
      BY <2>1, <3>1, <3>2, <3>3
  <2>5. \A i \in Q : journal'[i].body.version <= policyVersion'
    BY <1>4, <2>1, <2>2, <2>3
  <2>6. \A v \in 1 .. MaxVersion : policies'[v] # NoPolicy <=> v <= policyVersion'
    BY <1>4, <2>1
  <2> QED
    BY <2>4, <2>5, <2>6 DEF PolicyHistory, NoneAhead, Q
<1>6. CASE body.kind = "SetPolicy"
  <2> DEFINE w == body.version
             written == [rules |-> body.rules, author |-> listed[1]]
  <2>1. /\ body.rules \in Rules
        /\ w \in 2 .. MaxVersion
        /\ w = policyVersion + 1
        /\ policies' = [policies EXCEPT ![w] = written]
        /\ policyVersion' = w
    BY <1>6, OrdersAssumption
    DEF Effect, DelegationBody, AttestorBody, PolicyBody, WritePolicy, VersionIsNext
  <2>2. written # NoPolicy
    <3>1. listed[1] \in Wallet
      OBVIOUS
    <3> QED
      BY <2>1, <3>1, NoPolicyAssumption DEF Policy
  <2>3. e.body.version = w /\ e.body.rules = body.rules /\ e.by[1] = listed[1]
    OBVIOUS
  <2>4. Q = P \cup {n + 1} /\ n + 1 \notin P
    BY <1>1, <1>2, <1>6
  <2> HIDE DEF w, written
  <2>5. /\ policies'[w] = written
        /\ \A v \in 1 .. MaxVersion : v # w => policies'[v] = policies[v]
    BY <1>3, <2>1
  <2>6. \A v \in 1 .. MaxVersion : policies'[v] # NoPolicy <=> v <= w
    BY <1>3, <1>4, <2>1, <2>2, <2>5
  <2>7. \A i \in Q : journal'[i].body.version <= w
    BY <1>1, <1>2, <1>3, <1>4, <2>1, <2>3, <2>4
  <2>8. ASSUME NEW v \in 2 .. w
        PROVE  \E i \in Q :
                 /\ journal'[i].body.version = v
                 /\ policies'[v] = [rules |-> journal'[i].body.rules, author |-> journal'[i].by[1]]
                 /\ \A j \in Q : journal'[j].body.version = v => j = i
    <3>1. CASE v = w
      <4>1. ASSUME NEW j \in P
            PROVE  journal'[j].body.version # w
        <5>1. journal'[j] = journal[j]
          BY <1>2
        <5>2. journal[j].body.version \in Nat /\ journal[j].body.version <= policyVersion
          BY <1>3, <1>4
        <5> QED
          BY <1>3, <2>1, <5>1, <5>2
      <4>2. policies'[v] = [rules |-> e.body.rules, author |-> e.by[1]]
        BY <2>3, <2>5, <3>1 DEF written
      <4> QED
        BY <1>1, <2>3, <2>4, <3>1, <4>1, <4>2
    <3>2. CASE v # w
      <4>1. v \in 2 .. policyVersion /\ v \in 1 .. MaxVersion
        BY <1>3, <2>1, <3>2
      <4>2. PICK i \in P :
              /\ journal[i].body.version = v
              /\ policies[v] = [rules |-> journal[i].body.rules, author |-> journal[i].by[1]]
              /\ \A j \in P : journal[j].body.version = v => j = i
        BY <1>4, <4>1
      <4>3. \A j \in Q : journal'[j].body.version = v => j = i
        BY <1>1, <1>2, <2>3, <2>4, <3>2, <4>2
      <4>4. journal'[i] = journal[i] /\ i \in Q
        BY <1>2, <2>4
      <4>5. policies'[v] = policies[v]
        BY <2>5, <3>2, <4>1
      <4> QED
        BY <4>2, <4>3, <4>4, <4>5
    <3> QED
      BY <3>1, <3>2
  <2> QED
    BY <2>1, <2>6, <2>7, <2>8 DEF PolicyHistory, NoneAhead, Q
<1> QED
  BY <1>5, <1>6

\* What is raised stays as it was checked, until it is executed and after.
AllAsked == \A i \in DOMAIN ballots : WellAsked(members, ballots[i].body)

\* The invariant with the history of versions and of what was asked.
RuledInv == IInv /\ PolicyHistory /\ NoneAhead /\ AllAsked

LEMMA VersionsStart ==
    ASSUME Init
    PROVE  PolicyHistory /\ NoneAhead
<1>1. PositionsOf("SetPolicy") = {} /\ policyVersion = 1
  BY DEF Init, ProposalsInit, PositionsOf
<1>2. PICK rules \in Rules, founder \in Wallet :
        policies = [v \in 1 .. MaxVersion |->
          IF v = 1 THEN [rules |-> rules, author |-> founder] ELSE NoPolicy]
  BY DEF Init
<1>3. [rules |-> rules, author |-> founder] # NoPolicy
  BY NoPolicyAssumption DEF Policy
<1>4. \A v \in 1 .. MaxVersion : policies[v] # NoPolicy <=> v <= policyVersion
  BY <1>1, <1>2, <1>3
<1> QED
  BY <1>1, <1>4 DEF PolicyHistory, NoneAhead

LEMMA VersionsStand ==
    ASSUME IInv, PolicyHistory, NoneAhead, Shape \/ UNCHANGED vars
    PROVE  PolicyHistory' /\ NoneAhead'
<1>1. CASE UNCHANGED <<journal, policyVersion, policies>>
  BY <1>1 DEF PolicyHistory, NoneAhead, PositionsOf
<1>2. CASE SignedShape
  <2>1. PICK body \in Body, listed \in Seq(Wallet) :
          SignedBy(body, listed) /\ Effect(body, listed) /\ Signed(body, listed)
    BY <1>2 DEF SignedShape
  <2>2. [body |-> body, by |-> listed, at |-> now, serial |-> 0] \in EntryOf(Body)
    BY DEF EntryOf, IInv, TypeOK, ProposalsTypeOK
  <2>3. CASE QuorumCheck(members, quorumN, listed)
    <3>1. listed # <<>>
      BY <2>3, QuorumIsPositive, QuorumStands DEF IInv
    <3> QED
      BY <2>1, <2>2, <3>1, VersionsKept DEF Signed
  <2>4. CASE ~QuorumCheck(members, quorumN, listed)
    <3>1. \E i \in DOMAIN listed : MemberHas(members, listed[i], {"admin"})
      BY <2>1, <2>4 DEF SignedBy
    <3>2. listed # <<>>
      BY <3>1
    <3> QED
      BY <2>1, <2>2, <3>2, VersionsKept DEF Signed
  <2> QED
    BY <2>3, <2>4
<1>3. CASE ExecutedShape
  <2>1. PICK slot \in Slot, scope \in Scope, body \in Body, listed \in Seq(Wallet) :
          Deferred(slot, scope, body, listed) /\ Effect(body, listed)
            /\ Executed(slot, body, listed)
    BY <1>3 DEF ExecutedShape
  <2>2. proposals[slot].serial \in Nat
    BY <2>1 DEF Deferred, Exists, IInv, TypeOK, ProposalsTypeOK, ProposalOf
  <2>3. [body |-> body, by |-> listed, at |-> now, serial |-> proposals[slot].serial]
          \in EntryOf(Body)
    BY <2>2 DEF EntryOf, IInv, TypeOK, ProposalsTypeOK
  <2>4. QuorumCheck(members, quorumN, listed)
    BY <2>1 DEF Deferred
  <2>5. listed # <<>>
    BY <2>4, QuorumIsPositive, QuorumStands DEF IInv
  <2> QED
    BY <2>1, <2>3, <2>5, VersionsKept DEF Executed
<1>4. SignedShape \/ ExecutedShape \/ UNCHANGED <<journal, policyVersion, policies>>
  BY DEF Shape, RaisedShape, ApprovedShape, ClosedShape, ClockShape,
     Propose, Approve, CloseProposal, Tick, governed, vars
<1> QED
  BY <1>1, <1>2, <1>3, <1>4

LEMMA AskedStand ==
    ASSUME IInv, AllAsked, Shape \/ UNCHANGED vars
    PROVE  AllAsked'
<1>1. members' = members
  BY DEF Shape, RaisedShape, ApprovedShape, ClosedShape, ClockShape, SignedShape, ExecutedShape,
     Propose, Approve, CloseProposal, Tick, Signed, Executed, issuerVars, vars
<1>2. ballots \in Seq(BallotOf(Body))
  BY DEF IInv, TypeOK, ProposalsTypeOK
<1>3. CASE ballots' = ballots
  BY <1>1, <1>3 DEF AllAsked
<1>4. CASE RaisedShape
  <2>1. PICK slot \in Slot, body \in Body, w \in Wallet, term \in Term :
          WellAsked(members, body) /\ Propose(slot, body, w, term)
    BY <1>4 DEF RaisedShape
  <2>2. PICK b : b.body = body /\ ballots' = Append(ballots, b)
    BY <2>1 DEF Propose
  <2>3. /\ DOMAIN ballots' = 1 .. Len(ballots) + 1 /\ ballots'[Len(ballots) + 1] = b
        /\ \A i \in 1 .. Len(ballots) : ballots'[i] = ballots[i]
        /\ DOMAIN ballots = 1 .. Len(ballots) /\ Len(ballots) \in Nat
    BY <1>2, <2>2
  <2>4. \A i \in DOMAIN ballots' : ballots'[i] = b \/ i \in DOMAIN ballots
    BY <2>3
  <2>5. \A i \in DOMAIN ballots' : WellAsked(members, ballots'[i].body)
    BY <2>1, <2>2, <2>3, <2>4 DEF AllAsked
  <2> QED
    BY <1>1, <2>5 DEF AllAsked
<1>5. CASE ApprovedShape
  <2>1. PICK slot \in Slot, w \in Wallet : Approve(slot, w)
    BY <1>5 DEF ApprovedShape
  <2> DEFINE s == proposals[slot].serial
  <2>2. ballots' = [ballots EXCEPT ![s].signers = @ \cup {w}] /\ s \in DOMAIN ballots
    BY <2>1 DEF Approve, IInv, SharedInv, Bookkeeping, AccountMatchesBallot
  <2> HIDE DEF s
  <2>3. \A i \in DOMAIN ballots : ballots[i] \in BallotOf(Body)
    BY <1>2
  <2>4. DOMAIN ballots' = DOMAIN ballots
        /\ \A i \in DOMAIN ballots : ballots'[i].body = ballots[i].body
    BY <1>2, <2>2, <2>3 DEF BallotOf
  <2> QED
    BY <1>1, <2>4 DEF AllAsked
<1>6. RaisedShape \/ ApprovedShape \/ ballots' = ballots
  BY DEF Shape, ClosedShape, ClockShape, SignedShape, ExecutedShape,
     CloseProposal, Tick, Signed, Executed, vars
<1> QED
  BY <1>3, <1>4, <1>5, <1>6

LEMMA RuledStart ==
    ASSUME Init
    PROVE  RuledInv
<1>1. AllAsked
  BY DEF Init, ProposalsInit, AllAsked
<1> QED
  BY <1>1, InitInv, VersionsStart DEF RuledInv

LEMMA RuledKeeps ==
    ASSUME RuledInv, Shape \/ UNCHANGED vars
    PROVE  RuledInv'
BY ShapeKeeps, VersionsStand, AskedStand DEF RuledInv

\* Whoever reads the versions of a policy reads all of them, each as one quorum
\* wrote it: no version is skipped, written twice or written over, whatever was
\* proposed meanwhile and in whatever order it was executed.
THEOREM VersionsWithoutGaps == Spec => []PolicyHistory
<1>1. Init => RuledInv
  BY RuledStart
<1>2. RuledInv /\ [Next]_vars => RuledInv'
  BY RuledKeeps, StepShapes DEF RuledInv, IInv, Shape
<1>3. RuledInv => PolicyHistory
  BY DEF RuledInv
<1> QED
  BY <1>1, <1>2, <1>3, PTL DEF Spec
=============================================================================
