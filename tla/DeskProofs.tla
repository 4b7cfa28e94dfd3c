----------------------------- MODULE DeskProofs -----------------------------
(***************************************************************************)
(* The console, for any members, agendas and clocks: whoever approves at   *)
(* it approves what they were shown, and its pages check what the program  *)
(* checks.                                                                 *)
(*                                                                         *)
(* An approval names an address, so what it counts for is what the address *)
(* holds when it lands.  The argument is that an address is raised once: a *)
(* nonce is drawn once, by one request, and the transaction that bears it  *)
(* lands once.  The invariant DInv therefore follows a nonce from the      *)
(* drawing to the ballot, and what a desk holds from the page to the       *)
(* transaction.  With the program's own invariant RuledInv it says all     *)
(* that the pages' checks rest on: every approval on an account counts, a  *)
(* body read back is the account's, and what was asked was checked.        *)
(***************************************************************************)
EXTENDS Desk, GovernanceProofs

\* What is proposed at the console or beside it.
DeskBody ==
    DelegationBody \cup AttestorBody
      \cup {body \in PolicyBody : body.version \in 2 .. MaxVersion}

\* A proposal of this body was raised at this address; a nonce that has been drawn
\* and raised nothing.
RaisedAs(bs, slot, body) == \E i \in DOMAIN bs : bs[i].slot = slot /\ bs[i].body = body
Unused(bs, nonces, nonce) ==
    nonce \in nonces /\ \A i \in DOMAIN bs : bs[i].slot[2] # nonce

\* What each transaction carries.
TxOK(bs, nonces, tx) ==
    /\ tx.kind = "proposePolicy" =>
         /\ tx.nonce \in Nonce /\ tx.term \in Term /\ tx.version \in 2 .. MaxVersion
         /\ tx.rules \in Rules /\ tx.reason \in Reason
         /\ Unused(bs, nonces, tx.nonce)
    /\ tx.kind = "proposeDelegation" =>
         /\ tx.nonce \in Nonce /\ tx.term \in Term /\ tx.target \in DelegationTargets
         /\ Unused(bs, nonces, tx.nonce)
    /\ tx.kind = "approve" => tx.slot \in Slot /\ RaisedAs(bs, tx.slot, tx.shown)
    /\ tx.kind = "execute" => tx.slot \in Slot /\ tx.body \in DeskBody
    /\ tx.kind = "close" => tx.slot \in Slot
    /\ tx.kind = "revoke" => tx.target \in Delegation

\* What a desk holds.
ThingOK(bs, nonces, thing) ==
    /\ thing.stage = "shown" =>
         thing.slot \in Slot /\ RaisedAs(bs, thing.slot, thing.body)
    /\ thing.stage = "checked" =>
         /\ thing.view.slot \in Slot
         /\ thing.view.action.kind # "SetPolicy" => thing.view.action \in DeskBody
    /\ thing.stage = "signing" => TxOK(bs, nonces, thing.tx)

\* A transaction that will raise a proposal, under this nonce.
Bears(thing, nonce) ==
    /\ thing.stage = "signing"
    /\ thing.tx.kind \in {"proposePolicy", "proposeDelegation"}
    /\ thing.tx.nonce = nonce
NoncesApart(d) ==
    \A v, w \in Seats, nonce \in Nonce : Bears(d[v], nonce) /\ Bears(d[w], nonce) => v = w

\* An address is raised once, under a nonce that was drawn; and what was shown to
\* whoever approved is the body raised.
History(bs, nonces, cs) ==
    /\ \A i \in DOMAIN bs : bs[i].slot[2] \in nonces /\ bs[i].body \in DeskBody
    /\ \A i, j \in DOMAIN bs : bs[i].slot[2] = bs[j].slot[2] => i = j
    /\ \A c \in cs :
         /\ c.serial \in DOMAIN bs /\ bs[c.serial].body = c.shown
         /\ c.by \in bs[c.serial].signers

Things(d, bs, nonces) == DOMAIN d = Seats /\ \A w \in Seats : ThingOK(bs, nonces, d[w])

DInv ==
    /\ RuledInv
    /\ Things(desk, ballots, drawn)
    /\ NoncesApart(desk)
    /\ History(ballots, drawn, consents)

-----------------------------------------------------------------------------
(* How the history grows *)

\* Ballots are added to and take signatures; what is raised is raised under one of
\* these nonces, at most one.
Grow(bs, new, raised) ==
    /\ \A i \in DOMAIN bs :
         /\ i \in DOMAIN new /\ new[i].slot = bs[i].slot /\ new[i].body = bs[i].body
         /\ bs[i].signers \subseteq new[i].signers
    /\ \A i \in DOMAIN new : i \notin DOMAIN bs =>
         new[i].slot[2] \in raised /\ new[i].body \in DeskBody
    /\ \A i, j \in DOMAIN new : i \notin DOMAIN bs /\ j \notin DOMAIN bs => i = j

LEMMA GrowNothing ==
    ASSUME NEW bs
    PROVE  Grow(bs, bs, {})
BY DEF Grow

LEMMA GrowAppend ==
    ASSUME NEW S, NEW bs \in Seq(S), NEW b \in S, b.body \in DeskBody
    PROVE  Grow(bs, Append(bs, b), {b.slot[2]})
<1> DEFINE new == Append(bs, b)
<1>1. /\ DOMAIN bs = 1 .. Len(bs) /\ DOMAIN new = 1 .. Len(bs) + 1 /\ Len(bs) \in Nat
      /\ new[Len(bs) + 1] = b /\ \A i \in 1 .. Len(bs) : new[i] = bs[i]
  OBVIOUS
<1> HIDE DEF new
<1>2. \A i \in DOMAIN new : i \notin DOMAIN bs => i = Len(bs) + 1
  BY <1>1
<1>3. Grow(bs, new, {b.slot[2]})
  BY <1>1, <1>2 DEF Grow
<1> QED
  BY <1>3 DEF new

LEMMA GrowSigned ==
    ASSUME NEW Kind, NEW bs \in Seq(BallotOf(Kind)), NEW s \in DOMAIN bs, NEW w
    PROVE  Grow(bs, [bs EXCEPT ![s].signers = @ \cup {w}], {})
<1> DEFINE c == [bs[s] EXCEPT !.signers = @ \cup {w}]
           new == [bs EXCEPT ![s] = c]
<1>1. bs[s] \in BallotOf(Kind)
  OBVIOUS
<1>2. c.slot = bs[s].slot /\ c.body = bs[s].body /\ bs[s].signers \subseteq c.signers
  BY <1>1 DEF BallotOf
<1> HIDE DEF c
<1>3. Grow(bs, new, {})
  BY <1>2 DEF Grow
<1> QED
  BY <1>3 DEF c

\* What a desk holds stays good as the history grows, unless it is about to raise what
\* is raised.
LEMMA ThingKept ==
    ASSUME NEW bs, NEW new, NEW raised, Grow(bs, new, raised),
           NEW nonces, NEW drawnThen, nonces \subseteq drawnThen,
           NEW thing, ThingOK(bs, nonces, thing), \A n \in raised : ~Bears(thing, n)
    PROVE  ThingOK(new, drawnThen, thing)
<1>1. ASSUME NEW slot, NEW body, RaisedAs(bs, slot, body)
      PROVE  RaisedAs(new, slot, body)
  BY <1>1 DEF RaisedAs, Grow
<1>2. ASSUME NEW n, Unused(bs, nonces, n), n \notin raised
      PROVE  Unused(new, drawnThen, n)
  BY <1>2 DEF Unused, Grow
<1> QED
  BY <1>1, <1>2 DEF ThingOK, TxOK, Bears

LEMMA HistoryKept ==
    ASSUME NEW bs, NEW new, NEW raised, Grow(bs, new, raised),
           NEW nonces, NEW drawnThen, nonces \subseteq drawnThen, raised \subseteq drawnThen,
           NEW cs, History(bs, nonces, cs),
           \A i \in DOMAIN bs : bs[i].slot[2] \notin raised
    PROVE  History(new, drawnThen, cs)
<1>1. \A i \in DOMAIN new : new[i].slot[2] \in drawnThen /\ new[i].body \in DeskBody
  BY DEF Grow, History
<1>2. ASSUME NEW i \in DOMAIN new, NEW j \in DOMAIN new, new[i].slot[2] = new[j].slot[2]
      PROVE  i = j
  BY <1>2 DEF Grow, History
<1>3. ASSUME NEW c \in cs
      PROVE  /\ c.serial \in DOMAIN new /\ new[c.serial].body = c.shown
             /\ c.by \in new[c.serial].signers
  BY DEF Grow, History
<1> QED
  BY <1>1, <1>2, <1>3 DEF History

-----------------------------------------------------------------------------
(* What is read of an account *)

LEMMA AccountRaised ==
    ASSUME DInv, NEW slot \in Slot, Exists(slot)
    PROVE  /\ proposals[slot].serial \in DOMAIN ballots
           /\ ballots[proposals[slot].serial].slot = slot
           /\ ballots[proposals[slot].serial].body = proposals[slot].body
           /\ proposals[slot].body \in DeskBody
BY DEF DInv, RuledInv, IInv, SharedInv, Bookkeeping, AccountMatchesBallot, History

\* The only ballot at an address is the one its account was raised with.
LEMMA RaisedOnce ==
    ASSUME DInv, NEW slot \in Slot, Exists(slot), NEW body, RaisedAs(ballots, slot, body)
    PROVE  proposals[slot].body = body
BY AccountRaised DEF DInv, History, RaisedAs

\* The view of an account is of its address and keeps the body of every action but a
\* policy change.
LEMMA ViewOfAccount ==
    ASSUME DInv, NEW slot \in Slot, Exists(slot)
    PROVE  LET view == ToView(slot)
           IN  /\ view.slot = slot
               /\ view.action = ToActionView(proposals[slot].body)
               /\ view.action.kind # "SetPolicy" =>
                    view.action = proposals[slot].body /\ view.action \in DeskBody
<1>1. ToView(slot).slot = slot /\ ToView(slot).action = ToActionView(proposals[slot].body)
  BY DEF ToView
<1>2. ToActionView(proposals[slot].body).kind # "SetPolicy" =>
        ToActionView(proposals[slot].body) = proposals[slot].body
  BY DEF ToActionView
<1> QED
  BY <1>1, <1>2, AccountRaised

LEMMA BodyReadIsRaised ==
    ASSUME DInv, NEW view, NEW body \in BodyRead(view)
    PROVE  /\ view.action.kind # "SetPolicy" => body = view.action
           /\ view.action.kind = "SetPolicy" =>
                RaisedAs(ballots, view.slot, body) /\ body \in DeskBody
<1> DEFINE found == {i \in DOMAIN ballots :
                       ballots[i].slot = view.slot /\ BodyMatches(view, ballots[i].body)}
           newest == CHOOSE i \in found : \A j \in found : j <= i
<1>1. ASSUME view.action.kind = "SetPolicy"
      PROVE  RaisedAs(ballots, view.slot, body) /\ body \in DeskBody
  <2>1. found # {} /\ body = ballots[newest].body
    BY <1>1 DEF BodyRead
  <2>2. \A i, j \in found : i = j
    BY DEF DInv, History
  <2>3. found \subseteq Nat
    BY DEF DInv, RuledInv, IInv, SharedInv, ProposalsTypeOK
  <2>4. PICK k \in found : TRUE
    BY <2>1
  <2>5. \A j \in found : j <= k
    BY <2>2, <2>3, <2>4
  <2>6. newest \in found
    BY <2>4, <2>5
  <2> HIDE DEF newest
  <2> QED
    BY <2>1, <2>6 DEF RaisedAs, DInv, History
<1> QED
  BY <1>1 DEF BodyRead

-----------------------------------------------------------------------------
(* A step at the desks *)

\* What a step keeps of the desks, whoever takes it: the history grows, the desk it
\* touches holds a good thing, and whoever would raise what is raised no longer holds
\* it.
LEMMA StepKeeps ==
    ASSUME DInv, RuledInv', NEW raised, Grow(ballots, ballots', raised),
           drawn \subseteq drawn', raised \subseteq drawn',
           \A i \in DOMAIN ballots : ballots[i].slot[2] \notin raised,
           DOMAIN desk' = Seats,
           \A v \in Seats :
             \/ desk'[v] = desk[v] /\ \A n \in raised : ~Bears(desk[v], n)
             \/ ThingOK(ballots', drawn', desk'[v]),
           NoncesApart(desk'),
           \A c \in consents' : c \in consents \/
             /\ c.serial \in DOMAIN ballots' /\ ballots'[c.serial].body = c.shown
             /\ c.by \in ballots'[c.serial].signers
    PROVE  DInv'
<1>1. ASSUME NEW v \in Seats
      PROVE  ThingOK(ballots', drawn', desk'[v])
  <2>1. ThingOK(ballots, drawn, desk[v])
    BY DEF DInv, Things
  <2> QED
    BY <2>1, ThingKept
<1>2. History(ballots', drawn', consents)
  BY HistoryKept DEF DInv
<1>3. History(ballots', drawn', consents')
  BY <1>2 DEF History
<1> QED
  BY <1>1, <1>3 DEF DInv, Things

\* Asking: nothing moves but the asker's desk and the nonces drawn.
LEMMA AskKeeps ==
    ASSUME DInv, NEW w \in Seats, NEW thing, Puts(w, thing), drawn \subseteq drawn',
           ThingOK(ballots, drawn', thing),
           \A n \in Nonce : Bears(thing, n) => n \notin drawn
    PROVE  DInv'
<1>1. UNCHANGED vars /\ ballots' = ballots /\ consents' = consents
  BY DEF Puts, vars
<1>2. RuledInv'
  BY <1>1, RuledKeeps DEF DInv
<1>3. DOMAIN desk = Seats /\ \A v \in Seats : ThingOK(ballots, drawn, desk[v])
  BY DEF DInv, Things
<1>4. /\ DOMAIN desk' = Seats /\ desk'[w] = thing
      /\ \A v \in Seats : v # w => desk'[v] = desk[v]
  BY <1>3 DEF Puts
<1>5. ASSUME NEW v \in Seats, NEW n \in Nonce, Bears(desk[v], n)
      PROVE  n \in drawn
  BY <1>3, <1>5 DEF ThingOK, TxOK, Unused, Bears
<1>6. NoncesApart(desk')
  BY <1>4, <1>5 DEF DInv, NoncesApart
<1>7. Grow(ballots, ballots', {})
  BY <1>1, GrowNothing
<1>8. \A v \in Seats : desk'[v] = desk[v] \/ ThingOK(ballots', drawn', desk'[v])
  BY <1>1, <1>4
<1> QED
  BY <1>1, <1>2, <1>4, <1>6, <1>7, <1>8, StepKeeps

\* Landing: whoever signed has nothing before them any more, and what is raised was
\* theirs to raise.
LEMMA LandKeeps ==
    ASSUME DInv, RuledInv', NEW w \in Seats, Lands(w),
           NEW raised, Grow(ballots, ballots', raised),
           \A n \in raised : n \in Nonce /\ Bears(desk[w], n),
           \A c \in consents' : c \in consents \/
             /\ c.serial \in DOMAIN ballots' /\ ballots'[c.serial].body = c.shown
             /\ c.by \in ballots'[c.serial].signers
    PROVE  DInv'
<1>1. DOMAIN desk = Seats /\ \A v \in Seats : ThingOK(ballots, drawn, desk[v])
  BY DEF DInv, Things
<1>2. /\ DOMAIN desk' = Seats /\ desk'[w] = Idle /\ drawn' = drawn
      /\ \A v \in Seats : v # w => desk'[v] = desk[v]
  BY <1>1 DEF Lands
<1>3. ASSUME NEW n \in raised
      PROVE  Unused(ballots, drawn, n)
  BY <1>1, <1>3 DEF ThingOK, TxOK, Bears
<1>4. raised \subseteq drawn' /\ \A i \in DOMAIN ballots : ballots[i].slot[2] \notin raised
  BY <1>2, <1>3 DEF Unused
<1>5. ThingOK(ballots', drawn', Idle) /\ \A n : ~Bears(Idle, n)
  BY DEF ThingOK, Bears, Idle
<1>6. \A v \in Seats : v # w => \A n \in raised : ~Bears(desk[v], n)
  BY DEF DInv, NoncesApart
<1>7. \A v \in Seats :
        \/ desk'[v] = desk[v] /\ \A n \in raised : ~Bears(desk[v], n)
        \/ ThingOK(ballots', drawn', desk'[v])
  BY <1>2, <1>5, <1>6
<1>8. NoncesApart(desk')
  BY <1>2, <1>5 DEF DInv, NoncesApart
<1>9. drawn \subseteq drawn'
  BY <1>2
<1> QED
  BY <1>2, <1>4, <1>7, <1>8, <1>9, StepKeeps

\* What is done without the console touches no desk, and raises under nonces nobody at
\* the console has drawn.
LEMMA BesideKeeps ==
    ASSUME DInv, RuledInv', desk' = desk, consents' = consents, drawn \subseteq drawn',
           NEW raised, Grow(ballots, ballots', raised),
           raised \subseteq drawn', raised \cap drawn = {}
    PROVE  DInv'
<1>1. DOMAIN desk = Seats /\ \A v \in Seats : ThingOK(ballots, drawn, desk[v])
  BY DEF DInv, Things
<1>2. \A v \in Seats : \A n \in raised : ~Bears(desk[v], n)
  BY <1>1 DEF ThingOK, TxOK, Unused, Bears
<1>3. \A i \in DOMAIN ballots : ballots[i].slot[2] \notin raised
  BY DEF DInv, History
<1>4. NoncesApart(desk') /\ DOMAIN desk' = Seats
  BY <1>1 DEF DInv
<1> QED
  BY <1>2, <1>3, <1>4, StepKeeps

-----------------------------------------------------------------------------
(* The steps *)

LEMMA DeskBodies ==
    /\ DeskBody \subseteq Body
    /\ \A body \in DeskBody :
         /\ body.kind = "SetDelegation" => body \in DelegationBody /\ body.to \in Delegation
         /\ body.kind = "SetAttestor" =>
              body \in AttestorBody /\ body.to \in Terms /\ body.reason \in Reason
         /\ body.kind = "SetPolicy" =>
              /\ body \in PolicyBody /\ body.version \in 2 .. MaxVersion
              /\ body = PolicyStored(body.version, body.rules, body.reason)
         /\ body.kind \in {"SetDelegation", "SetAttestor", "SetPolicy"}
BY DEF DeskBody, Body, DelegationBody, AttestorBody, PolicyBody, PolicyStored

\* Every target is a delegation or terms, whoever names it.
LEMMA StoredOf ==
    ASSUME TypeOK
    PROVE  /\ \A target \in Delegation : DelegationStored(target) \in DelegationBody
           /\ \A target \in Terms, reason \in Reason :
                TermsStored(target, reason) \in AttestorBody
           /\ \A version \in 2 .. MaxVersion, rules \in Rules, reason \in Reason :
                PolicyStored(version, rules, reason) \in PolicyBody
BY VersionAssumption DEF TypeOK, DelegationStored, TermsStored, PolicyStored,
   DelegationBody, AttestorBody, PolicyBody

LEMMA Slots ==
    \A nonce \in Nonce :
      /\ <<IssuerScope, nonce>> \in Slot /\ <<IssuerScope, nonce>>[2] = nonce
      /\ <<TokenScope, nonce>> \in Slot /\ <<TokenScope, nonce>>[2] = nonce
BY ScopeAssumption DEF Slot

\* Raising, wherever it is done.
LEMMA Raising ==
    ASSUME DInv, NEW slot \in Slot, NEW body \in DeskBody, NEW w \in Wallet, NEW term \in Term,
           WellAsked(members, body), Propose(slot, body, w, term), UNCHANGED governed
    PROVE  RuledInv' /\ Grow(ballots, ballots', {slot[2]})
<1>1. body \in Body
  BY DeskBodies
<1>2. RuledInv'
  <2>1. RaisedShape
    BY <1>1 DEF RaisedShape
  <2> QED
    BY <2>1, RuledKeeps DEF Shape, DInv
<1>3. PICK b : /\ ballots' = Append(ballots, b) /\ b.slot = slot /\ b.body = body
               /\ b \in BallotOf(Body)
  <2> DEFINE b == [slot |-> slot, body |-> body, signers |-> {w},
                   expiresAt |-> now + term, after |-> Len(journal)]
  <2>1. now + term \in Nat /\ Len(journal) \in Nat
    BY TermAssumption DEF DInv, RuledInv, IInv, SharedInv, ProposalsTypeOK
  <2>2. b \in BallotOf(Body)
    BY <1>1, <2>1 DEF BallotOf
  <2>3. ballots' = Append(ballots, b)
    BY DEF Propose
  <2> QED
    BY <2>2, <2>3
<1>4. ballots \in Seq(BallotOf(Body))
  BY DEF DInv, RuledInv, IInv, SharedInv, ProposalsTypeOK
<1>5. Grow(ballots, Append(ballots, b), {b.slot[2]})
  BY <1>3, <1>4, GrowAppend
<1> QED
  BY <1>2, <1>3, <1>5

LEMMA LandProposalKeeps ==
    ASSUME DInv, NEW w \in Seats, LandProposal(w)
    PROVE  DInv'
<1> DEFINE tx == desk[w].tx
<1>1. Lands(w) /\ consents' = consents
  BY DEF LandProposal
<1>2. desk[w].stage = "signing" /\ TxOK(ballots, drawn, tx) /\ w \in Wallet
  BY <1>1, SeatsAssumption DEF Lands, DInv, Things, ThingOK
<1>3. TypeOK
  BY DEF DInv, RuledInv, IInv
<1>4. PICK slot \in Slot, body \in DeskBody :
        /\ slot[2] = tx.nonce /\ tx.nonce \in Nonce /\ tx.term \in Term
        /\ WellAsked(members, body)
        /\ Propose(slot, body, w, tx.term) /\ UNCHANGED governed
        /\ Bears(desk[w], tx.nonce)
  <2>1. CASE tx.kind = "proposePolicy"
    <3>1. ProposeSetPolicy(tx.nonce, w, tx.term, tx.version, tx.rules, tx.reason)
      BY <2>1 DEF LandProposal
    <3>2. /\ tx.nonce \in Nonce /\ tx.term \in Term /\ tx.version \in 2 .. MaxVersion
          /\ tx.rules \in Rules /\ tx.reason \in Reason
      BY <1>2, <2>1 DEF TxOK
    <3>3. /\ PolicyStored(tx.version, tx.rules, tx.reason) \in PolicyBody
          /\ PolicyStored(tx.version, tx.rules, tx.reason).version = tx.version
      BY <1>3, <3>2, StoredOf DEF PolicyStored
    <3>4. PolicyStored(tx.version, tx.rules, tx.reason) \in DeskBody
      BY <3>2, <3>3 DEF DeskBody
    <3>5. Bears(desk[w], tx.nonce)
      BY <1>2, <2>1 DEF Bears
    <3>6. WellAsked(members, PolicyStored(tx.version, tx.rules, tx.reason))
      BY <3>2, <3>3 DEF WellAsked
    <3> QED
      BY <3>1, <3>2, <3>4, <3>5, <3>6, Slots DEF ProposeSetPolicy
  <2>2. CASE tx.kind = "proposeDelegation"
    <3>1. ProposeSetDelegation(tx.nonce, w, tx.term, tx.target)
      BY <2>2 DEF LandProposal
    <3>2. tx.nonce \in Nonce /\ tx.term \in Term /\ tx.target \in DelegationTargets
      BY <1>2, <2>2 DEF TxOK
    <3>3. DelegationStored(tx.target) \in DelegationBody
      BY <1>3, <3>1, <3>2, StoredBodies DEF ProposeSetDelegation
    <3>4. Bears(desk[w], tx.nonce)
      BY <1>2, <2>2 DEF Bears
    <3>5. WellAsked(members, DelegationStored(tx.target))
      BY <3>1, <3>3 DEF ProposeSetDelegation, WellAsked, DelegationAllowed, DelegationStored
    <3> QED
      BY <3>1, <3>2, <3>3, <3>4, <3>5, Slots DEF ProposeSetDelegation, DeskBody
  <2> QED
    BY <2>1, <2>2 DEF LandProposal
<1>5. RuledInv' /\ Grow(ballots, ballots', {tx.nonce})
  BY <1>2, <1>4, Raising
<1> QED
  BY <1>1, <1>4, <1>5, LandKeeps

\* The approval counts for the only proposal ever raised at its address.
LEMMA LandApprovalKeeps ==
    ASSUME DInv, NEW w \in Seats, LandApproval(w)
    PROVE  DInv'
<1> DEFINE tx == desk[w].tx
           p == proposals[tx.slot]
<1>1. Lands(w) /\ tx.kind = "approve" /\ ApproveAction(tx.slot, w)
  BY DEF LandApproval
<1>2. tx.slot \in Slot /\ RaisedAs(ballots, tx.slot, tx.shown) /\ w \in Wallet
  BY <1>1, SeatsAssumption DEF Lands, DInv, Things, ThingOK, TxOK
<1>3. Exists(tx.slot) /\ Approve(tx.slot, w) /\ UNCHANGED governed
  BY <1>1 DEF ApproveAction, Approve
<1>4. RuledInv'
  <2>1. ApprovedShape
    BY <1>2, <1>3 DEF ApprovedShape
  <2> QED
    BY <2>1, RuledKeeps DEF Shape, DInv
<1>5. p.serial \in DOMAIN ballots /\ ballots[p.serial].body = tx.shown
  BY <1>2, <1>3, AccountRaised, RaisedOnce
<1>6. ballots \in Seq(BallotOf(Body))
  BY DEF DInv, RuledInv, IInv, SharedInv, ProposalsTypeOK
<1>7. ballots' = [ballots EXCEPT ![p.serial].signers = @ \cup {w}]
  BY <1>3 DEF Approve
<1>8. Grow(ballots, ballots', {})
  BY <1>5, <1>6, <1>7, GrowSigned
<1>9. w \in ballots'[p.serial].signers
  <2>1. ballots[p.serial] \in BallotOf(Body)
    BY <1>5, <1>6
  <2> QED
    BY <1>5, <1>6, <1>7, <2>1 DEF BallotOf
<1>10. p.serial \in DOMAIN ballots' /\ ballots'[p.serial].body = tx.shown
  BY <1>5, <1>8 DEF Grow
<1>11. consents' = consents \cup {[by |-> w, serial |-> p.serial, shown |-> tx.shown]}
  BY DEF LandApproval
<1> HIDE DEF p, tx
<1>12. \A c \in consents' : c \in consents \/
         /\ c.serial \in DOMAIN ballots' /\ ballots'[c.serial].body = c.shown
         /\ c.by \in ballots'[c.serial].signers
  BY <1>9, <1>10, <1>11
<1> QED
  BY <1>1, <1>4, <1>8, <1>12, LandKeeps

\* The other three raise nothing.
LEMMA LandQuietly ==
    ASSUME DInv, NEW w \in Seats, Lands(w), consents' = consents, ballots' = ballots, Shape
    PROVE  DInv'
<1>1. RuledInv'
  BY RuledKeeps DEF DInv
<1>2. Grow(ballots, ballots', {})
  BY GrowNothing
<1> QED
  BY <1>1, <1>2, LandKeeps

LEMMA LandExecutionKeeps ==
    ASSUME DInv, NEW w \in Seats, LandExecution(w)
    PROVE  DInv'
<1> DEFINE tx == desk[w].tx
           p == proposals[tx.slot]
<1>1. Lands(w) /\ tx.kind = "execute" /\ consents' = consents
  BY DEF LandExecution
<1>2. tx.slot \in Slot /\ tx.body \in DeskBody
  BY <1>1 DEF Lands, DInv, Things, ThingOK, TxOK
<1>3. TypeOK
  BY DEF DInv, RuledInv, IInv
<1>4. ASSUME Exists(tx.slot)
      PROVE  p.approvals \in Seq(Wallet)
  BY <1>2, <1>4 DEF DInv, RuledInv, IInv, SharedInv, ProposalsTypeOK, Exists, ProposalOf
<1> HIDE DEF tx, p
<1>5. CASE tx.body.kind = "SetDelegation"
  <2>1. SetDelegationProposed(tx.slot, tx.body.to, tx.listed)
    BY <1>5 DEF LandExecution, tx
  <2>2. DelegationStored(tx.body.to) \in DelegationBody
    BY <1>2, <1>3, <1>5, DeskBodies, StoredOf
  <2>3. Exists(tx.slot) /\ tx.listed = p.approvals
    BY <2>1 DEF SetDelegationProposed, Deferred, p
  <2>4. Effect(DelegationStored(tx.body.to), tx.listed)
    BY <2>1, <2>2 DEF Effect, SetDelegationProposed, DelegationStored, DelegationAllowed
  <2>5. ExecutedShape
    BY <1>2, <1>4, <2>1, <2>2, <2>3, <2>4, ScopeAssumption
    DEF ExecutedShape, SetDelegationProposed, Body
  <2>6. ballots' = ballots
    BY <2>1 DEF SetDelegationProposed, Executed
  <2> QED
    BY <1>1, <2>5, <2>6, LandQuietly DEF Shape
<1>6. CASE tx.body.kind = "SetAttestor"
  <2>1. SetAttestorProposed(tx.slot, tx.body.to, tx.body.reason, tx.listed)
    BY <1>6 DEF LandExecution, tx
  <2>2. TermsStored(tx.body.to, tx.body.reason) \in AttestorBody
    BY <1>2, <1>3, <1>6, DeskBodies, StoredOf
  <2>3. Exists(tx.slot) /\ tx.listed = p.approvals
    BY <2>1 DEF SetAttestorProposed, Deferred, p
  <2>4. Effect(TermsStored(tx.body.to, tx.body.reason), tx.listed)
    BY <2>1, <2>2 DEF Effect, SetAttestorProposed, TermsStored, TermsAllowed
  <2>5. ExecutedShape
    BY <1>2, <1>4, <2>1, <2>2, <2>3, <2>4, ScopeAssumption
    DEF ExecutedShape, SetAttestorProposed, Body
  <2>6. ballots' = ballots
    BY <2>1 DEF SetAttestorProposed, Executed
  <2> QED
    BY <1>1, <2>5, <2>6, LandQuietly DEF Shape
<1>7. CASE tx.body.kind = "SetPolicy"
  <2>1. SetPolicyProposed(tx.slot, tx.body.version, tx.body.rules, tx.body.reason, tx.listed)
    BY <1>7 DEF LandExecution, tx
  <2>2. /\ tx.body \in PolicyBody /\ tx.body.version \in 2 .. MaxVersion
        /\ tx.body = PolicyStored(tx.body.version, tx.body.rules, tx.body.reason)
    BY <1>2, <1>7, DeskBodies
  <2>3. Exists(tx.slot) /\ tx.listed = p.approvals
    BY <2>1 DEF SetPolicyProposed, Deferred, p
  <2>4. Effect(tx.body, tx.listed)
    BY <2>1, <2>2 DEF Effect, SetPolicyProposed
  <2>5. ExecutedShape
    BY <1>2, <1>4, <2>1, <2>2, <2>3, <2>4, ScopeAssumption
    DEF ExecutedShape, SetPolicyProposed, Body
  <2>6. ballots' = ballots
    BY <2>1 DEF SetPolicyProposed, Executed
  <2> QED
    BY <1>1, <2>5, <2>6, LandQuietly DEF Shape
<1> QED
  BY <1>2, <1>5, <1>6, <1>7, DeskBodies

LEMMA LandCloseKeeps ==
    ASSUME DInv, NEW w \in Seats, LandClose(w)
    PROVE  DInv'
<1>1. /\ Lands(w) /\ desk[w].tx.kind = "close" /\ consents' = consents
      /\ CloseActionProposal(desk[w].tx.slot, w)
  BY DEF LandClose
<1>2. desk[w].tx.slot \in Slot /\ w \in Wallet
  BY <1>1, SeatsAssumption DEF Lands, DInv, Things, ThingOK, TxOK
<1>3. ClosedShape /\ ballots' = ballots
  BY <1>1, <1>2 DEF CloseActionProposal, ClosedShape, CloseProposal
<1> QED
  BY <1>1, <1>3, LandQuietly DEF Shape

LEMMA LandRevocationKeeps ==
    ASSUME DInv, NEW w \in Seats, LandRevocation(w)
    PROVE  DInv'
<1> DEFINE target == desk[w].tx.target
<1>1. Lands(w) /\ desk[w].tx.kind = "revoke" /\ SetDelegationSigned(target, <<w>>)
      /\ consents' = consents
  BY DEF LandRevocation
<1>2. target \in Delegation /\ w \in Wallet
  BY <1>1, SeatsAssumption DEF Lands, DInv, Things, ThingOK, TxOK
<1>3. DelegationStored(target) \in DelegationBody
  BY <1>2, StoredOf DEF DInv, RuledInv, IInv
<1> HIDE DEF target
<1>4. Effect(DelegationStored(target), <<w>>)
  BY <1>1, <1>3 DEF Effect, SetDelegationSigned, DelegationStored, DelegationAllowed
<1>5. SignedBy(DelegationStored(target), <<w>>)
  BY <1>1, <1>3 DEF SignedBy, SetDelegationSigned, ChangeAuthorised, DelegationStored
<1>6. SignedShape /\ ballots' = ballots
  <2>1. Signed(DelegationStored(target), <<w>>)
    BY <1>1 DEF SetDelegationSigned
  <2>2. <<w>> \in Seq(Wallet) /\ DelegationStored(target) \in Body
    BY <1>2, <1>3 DEF Body
  <2>3. SignedShape
    BY <1>4, <1>5, <2>1, <2>2 DEF SignedShape
  <2>4. ballots' = ballots
    BY <2>1 DEF Signed
  <2> QED
    BY <2>3, <2>4
<1> QED
  BY <1>1, <1>6, LandQuietly DEF Shape

LEMMA ElsewhereKeeps ==
    ASSUME DInv, Elsewhere
    PROVE  DInv'
<1>1. desk' = desk /\ consents' = consents
  BY DEF Elsewhere
<1>2. TypeOK
  BY DEF DInv, RuledInv, IInv
<1>3. ASSUME NEW target \in TermsTargets, NEW reason \in Reason, NEW nonce \in Nonce,
             NEW w \in Wallet, NEW term \in Term,
             FreshNonce(nonce), drawn' = drawn \cup {nonce},
             ProposeSetAttestor(nonce, w, term, target, reason)
      PROVE  DInv'
  <2>1. TermsStored(target, reason) \in DeskBody
        /\ WellAsked(members, TermsStored(target, reason))
    BY <1>2, <1>3, StoredBodies
    DEF DeskBody, WellAsked, ProposeSetAttestor, TermsAllowed, TermsStored
  <2>2. Propose(<<TokenScope, nonce>>, TermsStored(target, reason), w, term)
        /\ UNCHANGED governed
    BY <1>3 DEF ProposeSetAttestor
  <2>3. RuledInv' /\ Grow(ballots, ballots', {nonce})
    BY <1>3, <2>1, <2>2, Slots, Raising
  <2>4. nonce \notin drawn
    BY <1>3 DEF FreshNonce
  <2> QED
    BY <1>1, <1>3, <2>3, <2>4, BesideKeeps
<1>4. ASSUME NEW version \in 2 .. MaxVersion, NEW rules \in Rules, NEW reason \in Reason,
             NEW listed \in SignerLists, drawn' = drawn,
             SetPolicySigned(version, rules, reason, listed)
      PROVE  DInv'
  <2>1. PolicyStored(version, rules, reason) \in PolicyBody /\ listed \in Seq(Wallet)
    BY <1>2, <1>4, StoredOf, SignerListsAssumption
  <2>2. Signed(PolicyStored(version, rules, reason), listed)
    BY <1>4 DEF SetPolicySigned
  <2>3. /\ SignedBy(PolicyStored(version, rules, reason), listed)
        /\ Effect(PolicyStored(version, rules, reason), listed)
    BY <1>4, <2>1 DEF SignedBy, Effect, SetPolicySigned, PolicyStored
  <2>4. SignedShape
    BY <2>1, <2>2, <2>3 DEF SignedShape, Body
  <2>5. RuledInv'
    BY <2>4, RuledKeeps DEF Shape, DInv
  <2>6. Grow(ballots, ballots', {})
    BY <2>2, GrowNothing DEF Signed
  <2> QED
    BY <1>1, <1>4, <2>5, <2>6, BesideKeeps
<1> QED
  BY <1>3, <1>4 DEF Elsewhere

LEMMA AsksKeep ==
    ASSUME DInv, NEW w \in Seats, Asks(w)
    PROVE  DInv'
<1>1. ThingOK(ballots, drawn, desk[w]) /\ TypeOK
  BY DEF DInv, RuledInv, Things, IInv
<1>2. ASSUME NEW nonce \in Nonce, FreshNonce(nonce)
      PROVE  nonce \notin drawn /\ Unused(ballots, drawn \cup {nonce}, nonce)
  BY <1>2 DEF FreshNonce, Unused, DInv, History
<1>3. ASSUME NEW nonce \in Nonce, NEW term \in Term, NEW rules \in Rules, NEW reason \in Reason,
             AskPolicy(w, nonce, term, rules, reason)
      PROVE  DInv'
  <2> DEFINE tx == [kind |-> "proposePolicy", nonce |-> nonce, term |-> term,
                    version |-> policyVersion + 1, rules |-> rules, reason |-> reason]
  <2>1. /\ FreshNonce(nonce) /\ drawn' = drawn \cup {nonce} /\ Puts(w, Signing(tx))
        /\ policyVersion < MaxVersion
    BY <1>3 DEF AskPolicy
  <2>2. policyVersion + 1 \in 2 .. MaxVersion
    BY <1>1, <2>1, VersionAssumption DEF TypeOK
  <2>3. TxOK(ballots, drawn', tx)
    BY <1>2, <2>1, <2>2 DEF TxOK
  <2>4. tx.nonce = nonce
    OBVIOUS
  <2> HIDE DEF tx
  <2>5. ThingOK(ballots, drawn', Signing(tx))
    BY <2>3 DEF ThingOK, Signing
  <2>6. \A n \in Nonce : Bears(Signing(tx), n) => n \notin drawn
    BY <1>2, <2>1, <2>4 DEF Bears, Signing
  <2> QED
    BY <2>1, <2>5, <2>6, AskKeeps
<1>4. ASSUME NEW nonce \in Nonce, NEW term \in Term, NEW target \in DelegationTargets,
             AskDelegation(w, nonce, term, target)
      PROVE  DInv'
  <2> DEFINE tx == [kind |-> "proposeDelegation", nonce |-> nonce, term |-> term,
                    target |-> target]
  <2>1. FreshNonce(nonce) /\ drawn' = drawn \cup {nonce} /\ Puts(w, Signing(tx))
    BY <1>4 DEF AskDelegation
  <2>2. TxOK(ballots, drawn', tx)
    BY <1>2, <2>1 DEF TxOK
  <2>3. tx.nonce = nonce
    OBVIOUS
  <2> HIDE DEF tx
  <2>4. ThingOK(ballots, drawn', Signing(tx))
    BY <2>2 DEF ThingOK, Signing
  <2>5. \A n \in Nonce : Bears(Signing(tx), n) => n \notin drawn
    BY <1>2, <2>1, <2>3 DEF Bears, Signing
  <2> QED
    BY <2>1, <2>4, <2>5, AskKeeps
<1>5. ASSUME NEW slot \in Slot, Show(w, slot)
      PROVE  DInv'
  <2>1. PICK body \in BodyRead(ToView(slot)) :
          Puts(w, [stage |-> "shown", slot |-> slot, body |-> body])
    BY <1>5 DEF Show
  <2>2. Exists(slot) /\ drawn' = drawn
    BY <1>5 DEF Show
  <2>3. RaisedAs(ballots, slot, body)
    <3>1. /\ ToView(slot).slot = slot
          /\ ToView(slot).action.kind # "SetPolicy" =>
               ToView(slot).action = proposals[slot].body
      BY <2>2, ViewOfAccount
    <3>2. CASE ToView(slot).action.kind = "SetPolicy"
      BY <2>1, <3>1, <3>2, BodyReadIsRaised
    <3>3. CASE ToView(slot).action.kind # "SetPolicy"
      <4>1. body = proposals[slot].body
        BY <2>1, <3>1, <3>3, BodyReadIsRaised
      <4> QED
        BY <2>2, <4>1, AccountRaised DEF RaisedAs
    <3> QED
      BY <3>2, <3>3
  <2> DEFINE thing == [stage |-> "shown", slot |-> slot, body |-> body]
  <2>4. thing.stage = "shown" /\ thing.slot = slot /\ thing.body = body
    OBVIOUS
  <2>5. Puts(w, thing)
    BY <2>1
  <2> HIDE DEF thing
  <2>6. ThingOK(ballots, drawn', thing) /\ \A n \in Nonce : ~Bears(thing, n)
    BY <2>3, <2>4 DEF ThingOK, Bears
  <2> QED
    BY <2>2, <2>5, <2>6, AskKeeps
<1>6. ASSUME NEW skew \in Skews, AskApproval(w, skew)
      PROVE  DInv'
  <2> DEFINE tx == [kind |-> "approve", slot |-> desk[w].slot, shown |-> desk[w].body]
  <2>1. Puts(w, Signing(tx)) /\ desk[w].stage = "shown" /\ drawn' = drawn
    BY <1>6 DEF AskApproval
  <2>2. TxOK(ballots, drawn', tx)
    BY <1>1, <2>1 DEF ThingOK, TxOK
  <2>3. tx.kind = "approve"
    OBVIOUS
  <2> HIDE DEF tx
  <2>4. ThingOK(ballots, drawn', Signing(tx)) /\ \A n \in Nonce : ~Bears(Signing(tx), n)
    BY <2>2, <2>3 DEF ThingOK, Bears, Signing
  <2> QED
    BY <2>1, <2>4, AskKeeps
<1>7. ASSUME NEW slot \in Slot, NEW skew \in Skews, AskExecution(w, slot, skew)
      PROVE  DInv'
  <2> DEFINE thing == [stage |-> "checked", view |-> ToView(slot)]
  <2>1. Exists(slot) /\ Puts(w, thing) /\ drawn' = drawn
    BY <1>7 DEF AskExecution
  <2>2. thing.stage = "checked" /\ thing.view = ToView(slot)
    OBVIOUS
  <2> HIDE DEF thing
  <2>3. /\ ToView(slot).slot = slot
        /\ ToView(slot).action.kind # "SetPolicy" => ToView(slot).action \in DeskBody
    BY <2>1, ViewOfAccount
  <2>4. ThingOK(ballots, drawn', thing) /\ \A n \in Nonce : ~Bears(thing, n)
    BY <2>2, <2>3 DEF ThingOK, Bears
  <2> QED
    BY <2>1, <2>4, AskKeeps
<1>8. ASSUME Assemble(w)
      PROVE  DInv'
  <2> DEFINE view == desk[w].view
  <2>1. PICK body \in BodyRead(view) :
          Puts(w, Signing([kind |-> "execute", slot |-> view.slot, body |-> body,
                           listed |-> view.approvals]))
    BY <1>8 DEF Assemble
  <2>2. drawn' = drawn /\ view.slot \in Slot
        /\ (view.action.kind # "SetPolicy" => view.action \in DeskBody)
    BY <1>1, <1>8 DEF Assemble, ThingOK
  <2> HIDE DEF view
  <2>3. body \in DeskBody
    BY <2>1, <2>2, BodyReadIsRaised
  <2> DEFINE tx == [kind |-> "execute", slot |-> view.slot, body |-> body,
                    listed |-> view.approvals]
  <2>4. TxOK(ballots, drawn', tx) /\ tx.kind = "execute"
    BY <2>2, <2>3 DEF TxOK
  <2>5. Puts(w, Signing(tx))
    BY <2>1
  <2> HIDE DEF tx
  <2>6. ThingOK(ballots, drawn', Signing(tx)) /\ \A n \in Nonce : ~Bears(Signing(tx), n)
    BY <2>4 DEF ThingOK, Bears, Signing
  <2> QED
    BY <2>2, <2>5, <2>6, AskKeeps
<1>9. ASSUME NEW slot \in Slot, NEW skew \in Skews, AskClose(w, slot, skew)
      PROVE  DInv'
  <2> DEFINE tx == [kind |-> "close", slot |-> slot]
  <2>1. Puts(w, Signing(tx)) /\ drawn' = drawn
    BY <1>9 DEF AskClose
  <2>2. TxOK(ballots, drawn', tx) /\ tx.kind = "close"
    BY DEF TxOK
  <2> HIDE DEF tx
  <2>3. ThingOK(ballots, drawn', Signing(tx)) /\ \A n \in Nonce : ~Bears(Signing(tx), n)
    BY <2>2 DEF ThingOK, Bears, Signing
  <2> QED
    BY <2>1, <2>3, AskKeeps
<1>10. ASSUME NEW named \in SUBSET Power, AskRevocation(w, named)
       PROVE  DInv'
  <2> DEFINE tx == [kind |-> "revoke",
                    target |-> [key |-> delegation.key, mask |-> Revoked(named)]]
  <2>1. Puts(w, Signing(tx)) /\ drawn' = drawn
    BY <1>10 DEF AskRevocation
  <2>2. tx.target \in Delegation
    BY <1>1 DEF TypeOK, Delegation, Revoked
  <2>3. TxOK(ballots, drawn', tx) /\ tx.kind = "revoke"
    BY <2>2 DEF TxOK
  <2> HIDE DEF tx
  <2>4. ThingOK(ballots, drawn', Signing(tx)) /\ \A n \in Nonce : ~Bears(Signing(tx), n)
    BY <2>3 DEF ThingOK, Bears, Signing
  <2> QED
    BY <2>1, <2>4, AskKeeps
<1> QED
  BY <1>3, <1>4, <1>5, <1>6, <1>7, <1>8, <1>9, <1>10 DEF Asks

LEMMA DeskInitInv ==
    ASSUME DeskInit
    PROVE  DInv
<1>1. RuledInv
  BY RuledStart DEF DeskInit
<1>2. ballots = <<>>
  BY DEF DeskInit, Init, ProposalsInit
<1>3. DOMAIN desk = Seats /\ \A w \in Seats : desk[w].stage = "idle"
  BY DEF DeskInit, Idle
<1>4. Things(desk, ballots, drawn) /\ NoncesApart(desk)
  BY <1>3 DEF Things, ThingOK, NoncesApart, Bears
<1>5. History(ballots, drawn, consents)
  BY <1>2 DEF DeskInit, History
<1> QED
  BY <1>1, <1>4, <1>5 DEF DInv

\* The invariant of the console's runs: the program's own, and what ties every desk to
\* the history.
THEOREM DeskInvariance == DeskSpec => []DInv
<1>1. DeskInit => DInv
  BY DeskInitInv
<1>2. DInv /\ [DeskNext]_dvars => DInv'
  <2> SUFFICES ASSUME DInv, [DeskNext]_dvars
               PROVE  DInv'
    OBVIOUS
  <2>1. ASSUME NEW w \in Seats, Drop(w)
        PROVE  DInv'
    <3>1. Puts(w, Idle) /\ drawn' = drawn
      BY <2>1 DEF Drop
    <3>2. ThingOK(ballots, drawn', Idle) /\ \A n \in Nonce : ~Bears(Idle, n)
      BY DEF ThingOK, Bears, Idle
    <3> QED
      BY <3>1, <3>2, AskKeeps
  <2>2. CASE TimePasses /\ UNCHANGED deskVars
    <3>1. ClockShape /\ ballots' = ballots /\ desk' = desk /\ drawn' = drawn
          /\ consents' = consents
      BY <2>2 DEF TimePasses, ClockShape, Tick, deskVars
    <3>2. RuledInv'
      BY <3>1, RuledKeeps DEF Shape, DInv
    <3>3. Grow(ballots, ballots', {})
      BY <3>1, GrowNothing
    <3> QED
      BY <3>1, <3>2, <3>3, BesideKeeps
  <2>3. CASE UNCHANGED dvars
    <3>1. UNCHANGED vars /\ ballots' = ballots /\ desk' = desk /\ drawn' = drawn
          /\ consents' = consents
      BY <2>3 DEF dvars, vars, deskVars
    <3>2. RuledInv'
      BY <3>1, RuledKeeps DEF DInv
    <3>3. Grow(ballots, ballots', {})
      BY <3>1, GrowNothing
    <3> QED
      BY <3>1, <3>2, <3>3, BesideKeeps
  <2> QED
    BY <2>1, <2>2, <2>3, AsksKeep, LandProposalKeeps, LandApprovalKeeps, LandExecutionKeeps,
       LandCloseKeeps, LandRevocationKeeps, ElsewhereKeeps
    DEF DeskNext
<1> QED
  BY <1>1, <1>2, PTL DEF DeskSpec

\* Whoever approves at the console approves what they were shown: an approval names an
\* address, and no other body is ever raised there.
THEOREM ApprovalsAsShown == DeskSpec => []ConsentsAsShown
<1>1. DInv => ConsentsAsShown
  BY DEF DInv, History, ConsentsAsShown
<1> QED
  BY <1>1, DeskInvariance, PTL

\* Behind the console too an action takes effect within its proposal's term.
THEOREM ConsoleWithinTerm == DeskSpec => []EffectsWithinTerm
<1>1. DInv => EffectsWithinTerm
  BY DEF DInv, RuledInv, IInv, SharedInv
<1> QED
  BY <1>1, DeskInvariance, PTL

-----------------------------------------------------------------------------
(* The page of a proposal *)

\* What is known of an account: every approval on it counts.
LEMMA AccountKnown ==
    ASSUME DInv, NEW slot \in Slot, Exists(slot)
    PROVE  LET p == proposals[slot]
           IN  /\ p.body \in DeskBody /\ WellAsked(members, p.body)
               /\ p.approvals \in Seq(Wallet) /\ AllMayAuthorise(members, p.approvals)
               /\ p.expiresAt \in Nat /\ p.executedAt \in Nat
               /\ Signers(p.approvals) \subseteq Authorising(members)
               /\ Cardinality(Signers(p.approvals)) = Len(p.approvals)
<1> DEFINE p == proposals[slot]
<1>1. p \in ProposalOf(Body)
  BY DEF DInv, RuledInv, IInv, TypeOK, ProposalsTypeOK, Exists
<1>2. p.approvals \in Seq(Wallet) /\ p.expiresAt \in Nat /\ p.executedAt \in Nat
  BY <1>1 DEF ProposalOf
<1>3. p.body \in DeskBody /\ WellAsked(members, p.body)
  BY AccountRaised DEF DInv, RuledInv, AllAsked
<1>4. AllMayAuthorise(members, p.approvals)
  BY DEF DInv, RuledInv, IInv, SharedInv, Bookkeeping, AccountMatchesBallot
<1> HIDE DEF p
<1>5. Signers(p.approvals) \subseteq Authorising(members)
  BY <1>2, <1>4 DEF Signers, Authorising, AllMayAuthorise
<1>6. Cardinality(Signers(p.approvals)) = Len(p.approvals)
  BY <1>2, <1>4, DistinctCardinality DEF AllMayAuthorise
<1> QED
  BY <1>2, <1>3, <1>4, <1>5, <1>6 DEF p

\* None of them has lapsed, so a proposal is never blocked.
LEMMA NobodyLapsed ==
    ASSUME DInv, NEW slot \in Slot, Exists(slot)
    PROVE  LET p == proposals[slot]
               view == ToView(slot)
           IN  /\ view.approvals = p.approvals /\ view.expiresAt = p.expiresAt
               /\ view.executed <=> p.executedAt # 0
               /\ Lapsed(view) = {}
               /\ Counted(view) = Len(p.approvals)
<1> DEFINE p == proposals[slot]
           view == ToView(slot)
           lapsed == {i \in DOMAIN view.approvals : view.approvals[i] \notin Authorising(members)}
<1>1. /\ view.approvals = p.approvals /\ view.expiresAt = p.expiresAt
      /\ view.executed <=> p.executedAt # 0
  BY DEF ToView
<1>2. /\ p.approvals \in Seq(Wallet) /\ Signers(p.approvals) \subseteq Authorising(members)
  BY AccountKnown
<1> HIDE DEF p, view
<1>3. Lapsed(view) = {}
  BY <1>1, <1>2 DEF Lapsed
<1>4. lapsed = {}
  BY <1>1, <1>2 DEF Signers
<1>5. Cardinality(lapsed) = 0
  BY <1>4, FS_EmptySet
<1>6. Counted(view) = Len(view.approvals) - Cardinality(lapsed)
  BY DEF Counted
<1> HIDE DEF lapsed
<1>7. Counted(view) = Len(p.approvals)
  BY <1>1, <1>2, <1>5, <1>6
<1> QED
  BY <1>1, <1>3, <1>7 DEF p, view

\* Where it stands, as the program would have it.
LEMMA StandingKnown ==
    ASSUME DInv, NEW slot \in Slot, Exists(slot)
    PROVE  LET p == proposals[slot]
               state == Standing(ToView(slot), now)
           IN  /\ state \in {"open", "ready", "executed", "expired"}
               /\ state \in {"executed", "expired"} <=> Closable(p)
               /\ state = "ready" <=> Live(p) /\ Len(p.approvals) >= quorumN
               /\ state = "open" <=> Live(p) /\ Len(p.approvals) < quorumN
<1> DEFINE p == proposals[slot]
           view == ToView(slot)
<1>1. /\ view.expiresAt = p.expiresAt
      /\ view.executed <=> p.executedAt # 0
      /\ Lapsed(view) = {} /\ Counted(view) = Len(p.approvals)
  BY NobodyLapsed
<1>2. /\ p.expiresAt \in Nat /\ p.executedAt \in Nat /\ Len(p.approvals) \in Nat
      /\ now \in Nat /\ quorumN \in Nat
  BY AccountKnown DEF DInv, RuledInv, IInv, TypeOK, ProposalsTypeOK
<1> HIDE DEF view, p
<1>3. CASE p.executedAt # 0
  <2>1. Standing(view, now) = "executed"
    BY <1>1, <1>3 DEF Standing
  <2> QED
    BY <1>3, <2>1 DEF view, p, Closable, Live
<1>4. CASE p.executedAt = 0 /\ now > p.expiresAt
  <2>1. Standing(view, now) = "expired"
    BY <1>1, <1>4 DEF Standing
  <2> QED
    BY <1>2, <1>4, <2>1 DEF view, p, Closable, Live
<1>5. CASE p.executedAt = 0 /\ ~(now > p.expiresAt)
  <2>1. now <= p.expiresAt
    BY <1>2, <1>5
  <2>2. ~view.executed /\ ~(now > view.expiresAt) /\ ~(Lapsed(view) # {})
    BY <1>1, <1>5
  <2>3. Standing(view, now) = IF Counted(view) >= quorumN THEN "ready" ELSE "open"
    BY <2>2 DEF Standing
  <2>4. Live(p) /\ ~Closable(p)
    BY <1>5, <2>1 DEF Live, Closable
  <2>5. CASE Len(p.approvals) >= quorumN
    <3>1. Standing(view, now) = "ready"
      BY <1>1, <2>3, <2>5
    <3> QED
      BY <1>2, <2>4, <2>5, <3>1 DEF view, p
  <2>6. CASE ~(Len(p.approvals) >= quorumN)
    <3>1. Standing(view, now) = "open" /\ Len(p.approvals) < quorumN
      BY <1>1, <1>2, <2>3, <2>6
    <3> QED
      BY <1>2, <2>4, <2>6, <3>1 DEF view, p
  <2> QED
    BY <2>5, <2>6
<1> QED
  BY <1>3, <1>4, <1>5

\* The body read back is the one the account holds, for there is no other at its
\* address.
LEMMA BodyReadBack ==
    ASSUME DInv, NEW slot \in Slot, Exists(slot)
    PROVE  BodyRead(ToView(slot)) = {proposals[slot].body}
<1> DEFINE p == proposals[slot]
           view == ToView(slot)
           found == {i \in DOMAIN ballots :
                       ballots[i].slot = view.slot /\ BodyMatches(view, ballots[i].body)}
<1>1. /\ view.slot = slot /\ view.action = ToActionView(p.body)
      /\ view.action.kind # "SetPolicy" => view.action = p.body
  BY ViewOfAccount
<1>2. CASE view.action.kind # "SetPolicy"
  BY <1>1, <1>2 DEF BodyRead
<1>3. CASE view.action.kind = "SetPolicy"
  <2>1. p.serial \in found
    BY <1>1, AccountRaised DEF BodyMatches
  <2>2. BodyRead(view) # {}
    BY <1>3, <2>1 DEF BodyRead
  <2>3. \A body \in BodyRead(view) : body = p.body
    BY <1>1, <1>3, BodyReadIsRaised, RaisedOnce
  <2> HIDE DEF p, view
  <2>4. BodyRead(view) = {p.body}
    BY <2>2, <2>3
  <2> QED
    BY <2>4 DEF p, view
<1> QED
  BY <1>2, <1>3

\* Execution as the console assembles it is what the program would take.
LEMMA ExecutionMirrors ==
    ASSUME DInv, NEW slot \in Slot, Exists(slot)
    PROVE  LET view == ToView(slot)
           IN  (Standing(view, now) = "ready" /\ StillStarts(view.action))
                 <=> ProgramExecutes(slot)
<1> DEFINE p == proposals[slot]
           view == ToView(slot)
<1>1. /\ view.action = ToActionView(p.body)
      /\ view.action.kind # "SetPolicy" => view.action = p.body
  BY ViewOfAccount
<1>2. /\ p.body \in DeskBody /\ WellAsked(members, p.body)
      /\ AllMayAuthorise(members, p.approvals)
  BY AccountKnown
<1>3. Standing(view, now) = "ready" <=> Live(p) /\ Len(p.approvals) >= quorumN
  BY StandingKnown
<1>4. Standing(view, now) = "ready" <=> Deferred(slot, slot[1], p.body, p.approvals)
  BY <1>2, <1>3 DEF Deferred, QuorumCheck
<1>5. p.body.kind \in {"SetDelegation", "SetAttestor", "SetPolicy"}
  BY <1>2, DeskBodies
<1>6. p.body \notin Orders
  BY <1>5, OrdersAssumption
<1>7. view.action.kind = p.body.kind
  BY <1>1 DEF ToActionView
<1>8. ProgramExecutes(slot) <=>
        /\ Deferred(slot, slot[1], p.body, p.approvals)
        /\ CASE p.body.kind = "SetDelegation" ->
                  DelegationAllowed(p.body.to) /\ DelegationStored(p.body.to) = p.body
             [] p.body.kind = "SetAttestor" ->
                  TermsAllowed(p.body.to) /\ TermsStored(p.body.to, p.body.reason) = p.body
             [] p.body.kind = "SetPolicy" -> VersionIsNext(p.body.version)
  BY DEF ProgramExecutes
<1>9. delegation \in Delegation /\ terms \in Terms
  BY DEF DInv, RuledInv, IInv, TypeOK
<1> HIDE DEF p, view
<1>10. CASE p.body.kind = "SetDelegation"
  <2>1. /\ p.body \in DelegationBody
        /\ ValidDelegation(members, p.body.to) /\ p.body.to # p.body.from
    BY <1>2, <1>6, <1>10 DEF WellAsked, AttestorBody, PolicyBody
  <2>2. StillStarts(view.action) <=> delegation = p.body.from
    BY <1>1, <1>7, <1>10 DEF StillStarts
  <2>3. DelegationStored(p.body.to) = p.body <=> delegation = p.body.from
    BY <2>1 DEF DelegationStored, DelegationBody
  <2>4. delegation = p.body.from => DelegationAllowed(p.body.to)
    BY <2>1 DEF DelegationAllowed
  <2>5. ProgramExecutes(slot) <=>
          /\ Deferred(slot, slot[1], p.body, p.approvals)
          /\ DelegationAllowed(p.body.to) /\ DelegationStored(p.body.to) = p.body
    BY <1>8, <1>10
  <2> QED
    BY <1>4, <2>2, <2>3, <2>4, <2>5 DEF p, view
<1>11. CASE p.body.kind = "SetAttestor"
  <2>1. /\ p.body \in AttestorBody
        /\ ValidTerms(members, p.body.to) /\ p.body.to # p.body.from
    BY <1>2, <1>6, <1>11 DEF WellAsked, DelegationBody, PolicyBody
  <2>2. StillStarts(view.action) <=> terms = p.body.from
    BY <1>1, <1>7, <1>11 DEF StillStarts
  <2>3. TermsStored(p.body.to, p.body.reason) = p.body <=> terms = p.body.from
    BY <2>1 DEF TermsStored, AttestorBody
  <2>4. terms = p.body.from => TermsAllowed(p.body.to)
    BY <2>1 DEF TermsAllowed
  <2>5. ProgramExecutes(slot) <=>
          /\ Deferred(slot, slot[1], p.body, p.approvals)
          /\ TermsAllowed(p.body.to) /\ TermsStored(p.body.to, p.body.reason) = p.body
    BY <1>8, <1>11
  <2> QED
    BY <1>4, <2>2, <2>3, <2>4, <2>5 DEF p, view
<1>12. CASE p.body.kind = "SetPolicy"
  <2>1. p.body.version \in 2 .. MaxVersion
    BY <1>2, <1>12, DeskBodies
  <2>2. view.action.version = p.body.version
    BY <1>1, <1>12 DEF ToActionView
  <2>3. StillStarts(view.action) <=> policyVersion + 1 = p.body.version
    BY <1>7, <1>12, <2>2 DEF StillStarts
  <2>4. policyVersion \in 1 .. MaxVersion /\ MaxVersion \in Nat
    BY VersionAssumption DEF DInv, RuledInv, IInv, TypeOK
  <2>5. policies[p.body.version] # NoPolicy <=> p.body.version <= policyVersion
    BY <2>1, <2>4 DEF DInv, RuledInv, PolicyHistory
  <2>6. VersionIsNext(p.body.version) <=> policyVersion + 1 = p.body.version
    BY <2>1, <2>4, <2>5 DEF VersionIsNext
  <2>7. ProgramExecutes(slot) <=>
          Deferred(slot, slot[1], p.body, p.approvals) /\ VersionIsNext(p.body.version)
    BY <1>8, <1>12
  <2> QED
    BY <1>4, <2>3, <2>6, <2>7 DEF p, view
<1> QED
  BY <1>5, <1>10, <1>11, <1>12

\* Who has still to sign a proposal that is open finds room, and there is such a member.
LEMMA OthersWanted ==
    ASSUME DInv, NEW slot \in Slot, Exists(slot), Standing(ToView(slot), now) = "open"
    PROVE  LET p == proposals[slot]
           IN  /\ \A w \in Authorising(members) \ Signers(p.approvals) : Takes(p, w)
               /\ Authorising(members) \ Signers(p.approvals) # {}
<1> DEFINE p == proposals[slot]
           rest == Authorising(members) \ Signers(p.approvals)
<1>1. Live(p) /\ Len(p.approvals) < quorumN
  BY StandingKnown
<1>2. RoomForTheRest
  BY RoomFromShared DEF DInv, RuledInv, IInv
<1>3. /\ Len(p.approvals) + Cardinality(rest) <= MaxMembers
      /\ Cardinality(Signers(p.approvals) \cup rest) >= quorumN
  BY <1>1, <1>2 DEF RoomForTheRest
<1>4. Cardinality(Signers(p.approvals)) = Len(p.approvals) /\ p.approvals \in Seq(Wallet)
  BY AccountKnown
<1>5. Len(p.approvals) \in Nat /\ quorumN \in Nat /\ MaxMembers \in Nat
  BY <1>4, MembersAssumption DEF DInv, RuledInv, IInv, TypeOK, ProposalsTypeOK
<1>6. IsFiniteSet(rest)
  BY WalletAssumption, FS_Subset DEF Authorising
<1>7. Cardinality(rest) \in Nat /\ (Cardinality(rest) = 0 <=> rest = {})
  BY <1>6, FS_CardinalityType, FS_EmptySet
<1>8. rest # {}
  <2>1. ASSUME rest = {}
        PROVE  Cardinality(Signers(p.approvals) \cup rest) = Cardinality(Signers(p.approvals))
    <3>1. Signers(p.approvals) \cup rest = Signers(p.approvals)
      BY <2>1
    <3> QED
      BY <3>1
  <2> HIDE DEF rest, p
  <2> QED
    BY <1>1, <1>3, <1>4, <1>5, <2>1
<1> HIDE DEF rest, p
<1>9. Len(p.approvals) < MaxMembers
  BY <1>3, <1>5, <1>7, <1>8
<1> QED
  BY <1>8, <1>9 DEF rest, p, Takes

\* The approval's handler refuses what the program would, and nothing else.
LEMMA ApprovalMirrors ==
    ASSUME DInv, NEW slot \in Slot, Exists(slot), NEW w
    PROVE  MayApprove(ToView(slot), w, now) <=> Live(proposals[slot]) /\ Takes(proposals[slot], w)
<1> DEFINE p == proposals[slot]
           view == ToView(slot)
           state == Standing(view, now)
<1>1. view.approvals = p.approvals
  BY NobodyLapsed
<1>2. /\ state \in {"open", "ready", "executed", "expired"}
      /\ state \in {"executed", "expired"} <=> Closable(p)
  BY StandingKnown
<1>3. Closable(p) <=> ~Live(p)
  <2>1. p.executedAt \in Nat /\ p.expiresAt \in Nat /\ now \in Nat
    BY AccountKnown DEF DInv, RuledInv, IInv, TypeOK, ProposalsTypeOK
  <2> QED
    BY <2>1 DEF Closable, Live
<1> HIDE DEF p
<1>4. /\ IsFinished(state) <=> ~Live(p)
      /\ state # "blocked"
  BY <1>2, <1>3 DEF IsFinished
<1>5. MayApprove(view, w, now) <=>
        ~IsFinished(state) /\ state # "blocked"
          /\ w \notin Signers(p.approvals) /\ Len(p.approvals) < MaxApprovals
  BY <1>1 DEF MayApprove
<1> QED
  BY <1>4, <1>5, ApprovalsAssumption DEF Takes, p

\* The step the page offers, case by case.
LEMMA StepKnown ==
    ASSUME DInv, NEW slot \in Slot, Exists(slot), NEW w \in Wallet
    PROVE  LET p == proposals[slot]
               state == Standing(ToView(slot), now)
               step == NextStep(ToView(slot), w, now)
           IN  /\ step \in {"close", "execute", "approve", "wait"}
               /\ step = "close" <=> IsFinished(state) /\ MayAct(w)
               /\ step = "execute" <=> state = "ready" /\ MayAct(w)
               /\ step = "approve" <=>
                    state = "open" /\ MayAct(w) /\ w \notin Signers(p.approvals)
<1> DEFINE p == proposals[slot]
           view == ToView(slot)
           state == Standing(view, now)
           mine == w \in Authorising(members)
<1>1. view.approvals = p.approvals
  BY NobodyLapsed
<1>2. mine <=> MayAct(w)
  BY DEF Authorising, MayAct
<1>3. NextStep(view, w, now) =
        CASE IsFinished(state) /\ mine -> "close"
          [] state = "ready" /\ mine -> "execute"
          [] state = "open" /\ mine /\ w \notin Signers(view.approvals) -> "approve"
          [] OTHER -> "wait"
  BY DEF NextStep
<1>4. IsFinished(state) <=> state \in {"executed", "expired"}
  BY DEF IsFinished
<1> HIDE DEF view, state, mine, p
<1>5. CASE IsFinished(state) /\ mine
  <2>1. NextStep(view, w, now) = "close"
    BY <1>3, <1>4, <1>5
  <2> QED
    BY <1>1, <1>2, <1>4, <1>5, <2>1 DEF view, state, p
<1>6. CASE state = "ready" /\ mine
  <2>1. NextStep(view, w, now) = "execute"
    BY <1>3, <1>4, <1>6
  <2> QED
    BY <1>1, <1>2, <1>4, <1>6, <2>1 DEF view, state, p
<1>7. CASE state = "open" /\ mine /\ w \notin Signers(view.approvals)
  <2>1. NextStep(view, w, now) = "approve"
    BY <1>3, <1>4, <1>7
  <2> QED
    BY <1>1, <1>2, <1>4, <1>7, <2>1 DEF view, state, p
<1>8. CASE /\ ~(IsFinished(state) /\ mine)
           /\ ~(state = "ready" /\ mine)
           /\ ~(state = "open" /\ mine /\ w \notin Signers(view.approvals))
  <2>1. NextStep(view, w, now) = "wait"
    BY <1>3, <1>8
  <2> QED
    BY <1>1, <1>2, <1>4, <1>8, <2>1 DEF view, state, p
<1> QED
  BY <1>5, <1>6, <1>7, <1>8

\* The requests behind the page's buttons.
Asked(slot) == UNION {StepRequest(ToView(slot), w, now) : w \in Wallet}

LEMMA AskedKnown ==
    ASSUME DInv, NEW slot \in Slot, Exists(slot)
    PROVE  /\ \A step \in Asked(slot) :
                /\ step.signer \in Wallet /\ step.kind = NextStep(ToView(slot), step.signer, now)
                /\ step.kind \in {"close", "execute", "approve"}
           /\ \A w \in Wallet : NextStep(ToView(slot), w, now) # "wait" =>
                \E step \in Asked(slot) : step.signer = w
<1> DEFINE view == ToView(slot)
<1>1. ASSUME NEW step \in Asked(slot)
      PROVE  /\ step.signer \in Wallet /\ step.kind = NextStep(view, step.signer, now)
             /\ step.kind \in {"close", "execute", "approve"}
  <2>1. PICK w \in Wallet : step \in StepRequest(view, w, now)
    BY DEF Asked
  <2>2. /\ step = [kind |-> NextStep(view, w, now), slot |-> view.slot, signer |-> w]
        /\ NextStep(view, w, now) # "wait"
    BY <2>1 DEF StepRequest
  <2>3. step.kind = NextStep(view, w, now) /\ step.signer = w
    BY <2>2
  <2>4. NextStep(view, w, now) \in {"close", "execute", "approve", "wait"}
    BY StepKnown
  <2> QED
    BY <2>2, <2>3, <2>4
<1>2. ASSUME NEW w \in Wallet, NextStep(view, w, now) # "wait"
      PROVE  \E step \in Asked(slot) : step.signer = w
  <2> DEFINE step == [kind |-> NextStep(view, w, now), slot |-> view.slot, signer |-> w]
  <2>1. step \in StepRequest(view, w, now)
    BY <1>2 DEF StepRequest
  <2>2. step \in Asked(slot) /\ step.signer = w
    BY <2>1 DEF Asked
  <2> QED
    BY <2>2
<1> QED
  BY <1>1, <1>2

\* A step offered is one its handler and the program take; and while a proposal can be
\* decided or closed somebody is offered one.
LEMMA StepsMirror ==
    ASSUME DInv, NEW slot \in Slot, Exists(slot)
    PROVE  LET p == proposals[slot]
               view == ToView(slot)
               state == Standing(view, now)
           IN  /\ \A step \in Asked(slot) :
                    /\ MayAct(step.signer)
                    /\ step.kind = "approve" =>
                         MayApprove(view, step.signer, now) /\ Takes(p, step.signer)
                    /\ step.kind = "execute" => state = "ready"
                    /\ step.kind = "close" => Closable(p)
               /\ Asked(slot) # {}
               /\ state = "open" =>
                    {step.signer : step \in Asked(slot)} =
                      Authorising(members) \ Signers(p.approvals)
<1> DEFINE p == proposals[slot]
           view == ToView(slot)
           state == Standing(view, now)
<1>1. /\ state \in {"open", "ready", "executed", "expired"}
      /\ state \in {"executed", "expired"} <=> Closable(p)
      /\ state = "open" => Live(p)
  BY StandingKnown
<1>2. ASSUME NEW w \in Wallet
      PROVE  /\ NextStep(view, w, now) \in {"close", "execute", "approve", "wait"}
             /\ NextStep(view, w, now) = "close" <=> IsFinished(state) /\ MayAct(w)
             /\ NextStep(view, w, now) = "execute" <=> state = "ready" /\ MayAct(w)
             /\ NextStep(view, w, now) = "approve" <=>
                  state = "open" /\ MayAct(w) /\ w \notin Signers(p.approvals)
  BY StepKnown
<1>3. \A w : MayApprove(view, w, now) <=> Live(p) /\ Takes(p, w)
  BY ApprovalMirrors
<1>4. state = "open" =>
        /\ \A w \in Authorising(members) \ Signers(p.approvals) : Takes(p, w)
        /\ Authorising(members) \ Signers(p.approvals) # {}
  BY OthersWanted
<1>5. /\ \A step \in Asked(slot) :
           /\ step.signer \in Wallet /\ step.kind = NextStep(view, step.signer, now)
           /\ step.kind \in {"close", "execute", "approve"}
      /\ \A w \in Wallet : NextStep(view, w, now) # "wait" =>
           \E step \in Asked(slot) : step.signer = w
  BY AskedKnown
<1>6. \A w \in Wallet : w \in Authorising(members) <=> MayAct(w)
  BY DEF Authorising, MayAct
<1>7. Authorising(members) \subseteq Wallet /\ Authorising(members) # {}
  <2>1. IsFiniteSet(Authorising(members))
    BY WalletAssumption, FS_Subset DEF Authorising
  <2>2. Cardinality(Authorising(members)) \in Nat /\ Founded
    BY <2>1, FS_CardinalityType DEF DInv, RuledInv, IInv
  <2>3. Cardinality(Authorising(members)) # 0
    BY <2>2, QuorumAssumption DEF Founded, ValidQuorums
  <2>4. Authorising(members) # {}
    BY <2>3, FS_EmptySet
  <2> QED
    BY <2>4 DEF Authorising
<1> HIDE DEF p, view, state
<1>8. IsFinished(state) <=> state \in {"executed", "expired"}
  BY DEF IsFinished
<1>9. ASSUME NEW step \in Asked(slot)
      PROVE  /\ MayAct(step.signer)
             /\ step.kind = "approve" =>
                  MayApprove(view, step.signer, now) /\ Takes(p, step.signer)
             /\ step.kind = "execute" => state = "ready"
             /\ step.kind = "close" => Closable(p)
  BY <1>1, <1>2, <1>3, <1>4, <1>5, <1>6, <1>8, <1>9
<1>10. Asked(slot) # {}
  <2>1. CASE state = "open"
    <3>1. PICK w \in Authorising(members) : w \notin Signers(p.approvals)
      BY <1>4, <2>1
    <3>2. w \in Wallet /\ NextStep(view, w, now) = "approve"
      BY <1>2, <1>6, <1>7, <2>1, <3>1
    <3> QED
      BY <1>5, <3>2
  <2>2. CASE state # "open"
    <3>1. PICK w \in Authorising(members) : TRUE
      BY <1>7
    <3>2. w \in Wallet /\ NextStep(view, w, now) # "wait"
      BY <1>1, <1>2, <1>6, <1>7, <1>8, <2>2, <3>1
    <3> QED
      BY <1>5, <3>2
  <2> QED
    BY <2>1, <2>2
<1>11. ASSUME state = "open"
       PROVE  {step.signer : step \in Asked(slot)} = Authorising(members) \ Signers(p.approvals)
  <2>1. ASSUME NEW step \in Asked(slot)
        PROVE  step.signer \in Authorising(members) \ Signers(p.approvals)
    BY <1>2, <1>5, <1>6, <1>8, <1>11, <2>1
  <2>2. ASSUME NEW w \in Authorising(members) \ Signers(p.approvals)
        PROVE  \E step \in Asked(slot) : step.signer = w
    <3>1. w \in Wallet /\ NextStep(view, w, now) = "approve"
      BY <1>2, <1>6, <1>7, <1>11, <2>2
    <3> QED
      BY <1>5, <3>1
  <2> QED
    BY <2>1, <2>2
<1> QED
  BY <1>9, <1>10, <1>11 DEF p, view, state

-----------------------------------------------------------------------------
(* The strip of the quorum *)

\* The seat of the one who signed in place i, and of one who has not.
SignedSeat(s, i) == Seat(s[i], i, FALSE)
MissingSeat(w) == Seat(w, 0, FALSE)

LEMMA SeatFields ==
    /\ \A s, i : /\ SignedSeat(s, i).wallet = s[i] /\ SignedSeat(s, i).order = i
                 /\ ~SignedSeat(s, i).lapsed
    /\ \A w : /\ MissingSeat(w).wallet = w /\ MissingSeat(w).order = 0
              /\ ~MissingSeat(w).lapsed
BY DEF SignedSeat, MissingSeat, Seat

\* Who signed sits where they signed, and everybody else who may authorise behind them.
LEMMA SeatsKnown ==
    ASSUME NEW s \in Seq(Wallet), AllMayAuthorise(members, s),
           NEW shown, shown.approvals = s, shown.lapsed = {}
    PROVE  /\ \A w \in Authorising(members) :
                Cardinality({seat \in SeatsOf(shown) : seat.wallet = w}) = 1
           /\ Cardinality({seat \in SeatsOf(shown) : seat.order > 0 /\ ~seat.lapsed}) = Len(s)
           /\ {seat.wallet : seat \in {t \in SeatsOf(shown) : t.order = 0}} =
                Authorising(members) \ Signers(s)
<1> DEFINE rest == Authorising(members) \ Signers(s)
           signed == {SignedSeat(s, i) : i \in DOMAIN s}
           missing == {MissingSeat(w) : w \in rest}
           seats == SeatsOf(shown)
<1>1. seats = signed \cup missing
  <2>1. seats = {Seat(s[i], i, s[i] \in shown.lapsed) : i \in DOMAIN s}
                  \cup {Seat(w, 0, FALSE) : w \in rest}
    BY DEF SeatsOf
  <2>2. \A i \in DOMAIN s : (s[i] \in shown.lapsed) = FALSE
    OBVIOUS
  <2>3. {Seat(s[i], i, s[i] \in shown.lapsed) : i \in DOMAIN s} = signed
    BY <2>2 DEF SignedSeat
  <2>4. {Seat(w, 0, FALSE) : w \in rest} = missing
    BY DEF MissingSeat
  <2> QED
    BY <2>1, <2>3, <2>4
<1>2. DOMAIN s = 1 .. Len(s) /\ Len(s) \in Nat
  OBVIOUS
<1>3. /\ \A i \in DOMAIN s : s[i] \in Signers(s)
      /\ \A w \in Signers(s) : \E i \in DOMAIN s : s[i] = w
      /\ \A i, j \in DOMAIN s : s[i] = s[j] => i = j
  BY DEF Signers, AllMayAuthorise
<1>4. \A seat \in signed : \E i \in DOMAIN s : seat = SignedSeat(s, i)
  OBVIOUS
<1>5. \A seat \in missing : \E w \in rest : seat = MissingSeat(w)
  OBVIOUS
<1>6. /\ \A i \in DOMAIN s : SignedSeat(s, i) \in seats
      /\ \A w \in rest : MissingSeat(w) \in seats
  BY <1>1
<1> HIDE DEF signed, missing, seats
<1>7. ASSUME NEW w \in Authorising(members)
      PROVE  Cardinality({seat \in seats : seat.wallet = w}) = 1
  <2> DEFINE his == {seat \in seats : seat.wallet = w}
  <2>1. CASE w \in Signers(s)
    <3>1. PICK i \in DOMAIN s : s[i] = w
      BY <1>3, <2>1
    <3>2. SignedSeat(s, i) \in his
      BY <1>6, <3>1, SeatFields
    <3>3. \A seat \in his : seat = SignedSeat(s, i)
      BY <1>1, <1>3, <1>4, <1>5, <2>1, <3>1, SeatFields
    <3>4. his = {SignedSeat(s, i)}
      BY <3>2, <3>3
    <3> QED
      BY <3>4, FS_Singleton
  <2>2. CASE w \notin Signers(s)
    <3>1. MissingSeat(w) \in his
      BY <1>6, <2>2, SeatFields
    <3>2. \A seat \in his : seat = MissingSeat(w)
      BY <1>1, <1>3, <1>4, <1>5, <2>2, SeatFields
    <3>3. his = {MissingSeat(w)}
      BY <3>1, <3>2
    <3> QED
      BY <3>3, FS_Singleton
  <2> QED
    BY <2>1, <2>2
<1>8. Cardinality({seat \in seats : seat.order > 0 /\ ~seat.lapsed}) = Len(s)
  <2> DEFINE taken == {seat \in seats : seat.order > 0 /\ ~seat.lapsed}
             place == [i \in 1 .. Len(s) |-> SignedSeat(s, i)]
  <2>1. \A i \in 1 .. Len(s) : place[i] \in taken /\ place[i].order = i
    BY <1>2, <1>6, SeatFields
  <2>2. \A seat \in taken : \E i \in 1 .. Len(s) : place[i] = seat
    BY <1>1, <1>2, <1>4, <1>5, SeatFields
  <2>3. place \in [1 .. Len(s) -> taken] /\ \A i, j \in 1 .. Len(s) : place[i] = place[j] => i = j
    BY <2>1
  <2>4. DOMAIN place = 1 .. Len(s)
    OBVIOUS
  <2> HIDE DEF place, taken
  <2>5. place \in Bijection(1 .. Len(s), taken)
    BY <2>2, <2>3, <2>4 DEF Bijection, Injection, Surjection, IsInjective
  <2>6. ExistsBijection(1 .. Len(s), taken)
    BY <2>5 DEF ExistsBijection
  <2>7. IsFiniteSet(1 .. Len(s)) /\ Cardinality(1 .. Len(s)) = Len(s)
    <3>1. 1 \in Int /\ Len(s) \in Int
      BY <1>2
    <3> QED
      BY <1>2, <3>1, FS_Interval
  <2>8. Cardinality(taken) = Len(s)
    BY <2>6, <2>7, FS_Bijection
  <2> QED
    BY <2>8 DEF taken
<1>9. {seat.wallet : seat \in {t \in seats : t.order = 0}} = rest
  <2>1. ASSUME NEW seat \in seats, seat.order = 0
        PROVE  seat.wallet \in rest
    BY <1>1, <1>2, <1>4, <1>5, <2>1, SeatFields
  <2>2. ASSUME NEW w \in rest
        PROVE  \E seat \in seats : seat.order = 0 /\ seat.wallet = w
    BY <1>6, <2>2, SeatFields
  <2> HIDE DEF rest
  <2> QED
    BY <2>1, <2>2
<1> QED
  BY <1>7, <1>8, <1>9 DEF seats

\* What the console takes as the answer.
LEMMA PresentedKnown ==
    ASSUME DInv, NEW slot \in Slot, Exists(slot)
    PROVE  LET p == proposals[slot]
               view == ToView(slot)
               shown == PresentProposal(view, now)
           IN  /\ shown.slot = slot /\ shown.action = view.action
               /\ shown.approvals = p.approvals /\ shown.state = Standing(view, now)
               /\ shown.required = quorumN /\ shown.counted = Len(p.approvals)
               /\ shown.lapsed = {}
               /\ shown \in proposalSchema
<1> DEFINE p == proposals[slot]
           view == ToView(slot)
           shown == PresentProposal(view, now)
<1>1. /\ view.approvals = p.approvals /\ Lapsed(view) = {} /\ Counted(view) = Len(p.approvals)
  BY NobodyLapsed
<1>2. /\ view.slot = slot /\ view.action = ToActionView(p.body)
  BY ViewOfAccount
<1>3. /\ p.body \in DeskBody /\ p.approvals \in Seq(Wallet)
  BY AccountKnown
<1>4. view.action \in proposalActionSchema
  <2>1. CASE p.body.kind = "SetPolicy"
    <3>1. p.body \in PolicyBody /\ p.body.version \in 2 .. MaxVersion
      BY <1>3, <2>1, DeskBodies
    <3>2. /\ p.body.version \in Nat \ {0} /\ p.body.rules \in Rules /\ p.body.reason \in Reason
      BY <3>1, VersionAssumption DEF PolicyBody
    <3>3. view.action = [kind |-> "SetPolicy", version |-> p.body.version,
                         rulesHash |-> <<"sha256", p.body.rules>>, reason |-> p.body.reason]
      BY <1>2, <2>1 DEF ToActionView
    <3>4. <<"sha256", p.body.rules>> \in {"sha256"} \X Rules
      BY <3>2
    <3> HIDE DEF view, p
    <3> QED
      BY <3>2, <3>3, <3>4 DEF proposalActionSchema
  <2>2. CASE p.body.kind # "SetPolicy"
    <3>1. view.action = p.body
      BY <1>2, <2>2 DEF ToActionView
    <3>2. p.body \in DelegationBody \/ p.body \in AttestorBody
      BY <1>3, <2>2, DeskBodies
    <3> HIDE DEF view, p
    <3> QED
      BY <3>1, <3>2
      DEF proposalActionSchema, DelegationBody, AttestorBody, delegationBodySchema,
          delegationMaskSchema, Delegation
  <2> QED
    BY <2>1, <2>2
<1>5. Standing(view, now) \in {"open", "ready", "blocked", "executed", "expired"}
  BY StandingKnown
<1>6. quorumN \in Nat /\ Len(p.approvals) \in Nat
  BY <1>3 DEF DInv, RuledInv, IInv, TypeOK, ProposalsTypeOK
<1> HIDE DEF view, p
<1>7. shown = [slot |-> slot, action |-> view.action, approvals |-> p.approvals,
               state |-> Standing(view, now), required |-> quorumN,
               counted |-> Len(p.approvals), lapsed |-> {}]
  BY <1>1, <1>2 DEF PresentProposal
<1> HIDE DEF shown
<1>8. shown \in proposalSchema
  BY <1>3, <1>4, <1>5, <1>6, <1>7 DEF proposalSchema
<1> QED
  BY <1>7, <1>8 DEF view, p, shown

LEMMA ProposalPage ==
    ASSUME DInv, NEW slot \in Slot, Exists(slot)
    PROVE  ProposalPageMirrors(slot)
<1> DEFINE p == proposals[slot]
           view == ToView(slot)
           shown == PresentProposal(view, now)
           seats == SeatsOf(shown)
           asked == UNION {StepRequest(view, w, now) : w \in Wallet}
<1>1. asked = Asked(slot)
  BY DEF Asked
<1>2. /\ shown.approvals = p.approvals /\ shown.state = Standing(view, now)
      /\ shown.required = quorumN /\ shown.counted = Len(p.approvals)
      /\ shown.lapsed = {}
      /\ shown \in proposalSchema
  BY PresentedKnown
<1>3. /\ Standing(view, now) \in {"executed", "expired"} <=> Closable(p)
      /\ Standing(view, now) = "open" => Live(p) /\ Len(p.approvals) < quorumN
  BY StandingKnown
<1>4. IsFinished(shown.state) <=> Closable(p)
  BY <1>2, <1>3 DEF IsFinished
<1>5. \A w : MayApprove(view, w, now) <=> Live(p) /\ Takes(p, w)
  BY ApprovalMirrors
<1>6. BodyRead(view) = {p.body}
  BY BodyReadBack
<1>7. (shown.state = "ready" /\ StillStarts(view.action)) <=> ProgramExecutes(slot)
  BY <1>2, ExecutionMirrors
<1>8. /\ \A step \in asked :
           /\ MayAct(step.signer)
           /\ step.kind = "approve" =>
                MayApprove(view, step.signer, now) /\ Takes(p, step.signer)
           /\ step.kind = "execute" => shown.state = "ready"
           /\ step.kind = "close" => Closable(p)
      /\ asked # {}
      /\ shown.state = "open" =>
           {step.signer : step \in asked} = Authorising(members) \ Signers(p.approvals)
  BY <1>1, <1>2, StepsMirror
<1>9. p.approvals \in Seq(Wallet) /\ AllMayAuthorise(members, p.approvals)
  BY AccountKnown
<1>10. /\ \A w \in Authorising(members) :
            Cardinality({seat \in seats : seat.wallet = w}) = 1
       /\ Cardinality({seat \in seats : seat.order > 0 /\ ~seat.lapsed}) = Len(p.approvals)
       /\ {seat.wallet : seat \in {t \in seats : t.order = 0}} =
            Authorising(members) \ Signers(p.approvals)
  BY <1>2, <1>9, SeatsKnown
<1>11. ProposalPageMirrors(slot) <=>
         /\ shown \in proposalSchema
         /\ IsFinished(shown.state) <=> Closable(p)
         /\ \A w \in Authorising(members) :
              MayApprove(view, w, now) <=> Live(p) /\ Takes(p, w)
         /\ (shown.state = "ready" /\ StillStarts(view.action) /\ BodyRead(view) = {p.body})
              <=> ProgramExecutes(slot)
         /\ \A step \in asked :
              /\ MayAct(step.signer)
              /\ step.kind = "approve" =>
                   MayApprove(view, step.signer, now) /\ Takes(p, step.signer)
              /\ step.kind = "execute" => shown.state = "ready"
              /\ step.kind = "close" => Closable(p)
         /\ shown.state # "blocked" => asked # {}
         /\ \A w \in Authorising(members) :
              Cardinality({seat \in seats : seat.wallet = w}) = 1
         /\ Cardinality({seat \in seats : seat.order > 0 /\ ~seat.lapsed}) = shown.counted
         /\ shown.state = "open" =>
              /\ shown.counted < shown.required
              /\ {step.signer : step \in asked} = {seat.wallet : seat \in
                                                     {t \in seats : t.order = 0}}
  BY DEF ProposalPageMirrors
<1> HIDE DEF p, view, shown, seats, asked
<1> QED
  BY <1>2, <1>3, <1>4, <1>5, <1>6, <1>7, <1>8, <1>10, <1>11

-----------------------------------------------------------------------------
(* The page of the operational key *)

\* A change on record is of the delegation, signed by somebody.
LEMMA ChangesKnown ==
    ASSUME DInv, NEW i \in PositionsOf("SetDelegation")
    PROVE  /\ journal[i].body \in DelegationBody /\ journal[i].by \in Seq(Wallet) \ {<<>>}
           /\ journal[i].serial \in Nat
           /\ \/ Cardinality(Signers(journal[i].by)) >= quorumN
              \/ journal[i].serial = 0 /\ IsNarrowing(journal[i].body.from, journal[i].body.to)
<1> DEFINE e == journal[i]
<1>1. i \in DOMAIN journal /\ e.body.kind = "SetDelegation"
  BY DEF PositionsOf
<1>2. e \in EntryOf(Body)
  BY <1>1 DEF DInv, RuledInv, IInv, TypeOK, ProposalsTypeOK
<1>3. StandsOnQuorum(e)
  BY <1>1 DEF DInv, RuledInv, IInv, EffectsAuthorised
<1> HIDE DEF e
<1>4. e.body \in Body /\ e.by \in Seq(Wallet) /\ e.serial \in Nat
  BY <1>2 DEF EntryOf
<1>5. e.body \in DelegationBody
  BY <1>1, <1>4, OrdersAssumption DEF Body, AttestorBody, PolicyBody, e
<1>6. \/ Cardinality(Signers(e.by)) >= quorumN
      \/ /\ e.serial = 0 /\ IsNarrowing(e.body.from, e.body.to)
         /\ \E k \in DOMAIN e.by : MemberHas(members, e.by[k], {"admin"})
  BY <1>3 DEF StandsOnQuorum
<1>7. e.by # <<>>
  <2>1. CASE Cardinality(Signers(e.by)) >= quorumN
    <3>1. quorumN \in Nat \ {0}
      BY QuorumIsPositive DEF DInv, RuledInv, IInv
    <3>2. Cardinality(Signers(e.by)) # 0
      BY <2>1, <3>1
    <3>3. Signers(e.by) # {}
      BY <3>2, FS_EmptySet
    <3> QED
      BY <3>3 DEF Signers
  <2>2. CASE \E k \in DOMAIN e.by : MemberHas(members, e.by[k], {"admin"})
    BY <2>2
  <2> QED
    BY <1>6, <2>1, <2>2
<1> QED
  BY <1>4, <1>5, <1>6, <1>7 DEF e

LEMMA DelegationPageKnown ==
    ASSUME DInv
    PROVE  /\ DelegationPage(now) \in delegationResponseSchema
           /\ \A row \in {HistoryRow(r) : r \in DelegationPage(now).history} :
                Cardinality(Signers(row.signers)) < quorumN =>
                  row.change = "revocation" /\ row.path = "immediate"
<1> DEFINE page == DelegationPage(now)
           there == {x \in Slot : x[1] = IssuerScope /\ Exists(x)}
           views == {v \in {ToView(x) : x \in there} : OnTheKey(v)}
           shown == {PresentProposal(view, now) : view \in views}
           changes == {StoredChange(journal[i]) : i \in PositionsOf("SetDelegation")}
<1>1. page = [key |-> delegation.key, mask |-> delegation.mask, proposals |-> shown,
              history |-> changes]
  BY DEF DelegationPage
<1>2. shown \subseteq proposalSchema
  <2>1. ASSUME NEW answer \in shown
        PROVE  answer \in proposalSchema
    <3>1. PICK x \in Slot : Exists(x) /\ answer = PresentProposal(ToView(x), now)
      OBVIOUS
    <3> QED
      BY <3>1, PresentedKnown
  <2> HIDE DEF shown
  <2> QED
    BY <2>1
<1>3. ASSUME NEW change \in changes
      PROVE  /\ change \in delegationChangeSchema
             /\ \/ Cardinality(Signers(change.signers)) >= quorumN
                \/ change.path = "immediate" /\ IsNarrowing(change.from, change.to)
  <2>1. PICK i \in PositionsOf("SetDelegation") : change = StoredChange(journal[i])
    OBVIOUS
  <2> DEFINE e == journal[i]
  <2>2. /\ e.body \in DelegationBody /\ e.by \in Seq(Wallet) \ {<<>>} /\ e.serial \in Nat
        /\ \/ Cardinality(Signers(e.by)) >= quorumN
           \/ e.serial = 0 /\ IsNarrowing(e.body.from, e.body.to)
    BY ChangesKnown
  <2>3. e.body.from \in delegationBodySchema /\ e.body.to \in delegationBodySchema
    BY <2>2 DEF DelegationBody, Delegation, delegationBodySchema, delegationMaskSchema
  <2> HIDE DEF e
  <2> DEFINE path == IF e.serial = 0 THEN "immediate" ELSE "proposal"
  <2>4. change = [from |-> e.body.from, to |-> e.body.to, signers |-> e.by, path |-> path]
    BY <2>1 DEF StoredChange, e
  <2>5. path \in {"immediate", "proposal"} /\ (e.serial = 0 => path = "immediate")
    OBVIOUS
  <2> HIDE DEF path
  <2>6. change \in delegationChangeSchema
    BY <2>2, <2>3, <2>4, <2>5 DEF delegationChangeSchema
  <2> QED
    BY <2>2, <2>4, <2>5, <2>6
<1>4. delegation.key \in Wallet /\ delegation.mask \in delegationMaskSchema
  BY DEF DInv, RuledInv, IInv, TypeOK, Delegation, delegationMaskSchema
<1> HIDE DEF shown, changes
<1>5. page \in delegationResponseSchema
  <2>1. changes \subseteq delegationChangeSchema
    BY <1>3
  <2> HIDE DEF page
  <2> QED
    BY <1>1, <1>2, <1>4, <2>1 DEF delegationResponseSchema
<1>6. ASSUME NEW row \in {HistoryRow(r) : r \in page.history},
             Cardinality(Signers(row.signers)) < quorumN
      PROVE  row.change = "revocation" /\ row.path = "immediate"
  <2>1. PICK r \in changes : row = HistoryRow(r)
    BY <1>1
  <2>2. row.signers = r.signers /\ row.path = r.path /\ row.change = ChangeKind(r.from, r.to)
    BY <2>1 DEF HistoryRow
  <2>3. r.path = "immediate" /\ IsNarrowing(r.from, r.to)
    <3>1. \/ Cardinality(Signers(r.signers)) >= quorumN
          \/ r.path = "immediate" /\ IsNarrowing(r.from, r.to)
      BY <1>3
    <3>2. r \in delegationChangeSchema
      BY <1>3
    <3>3. r.signers \in Seq(Wallet)
      BY <3>2 DEF delegationChangeSchema
    <3>4. Cardinality(Signers(r.signers)) \in Nat /\ quorumN \in Nat
      <4>1. Signers(r.signers) \in SUBSET Wallet
        BY <3>3 DEF Signers
      <4>2. IsFiniteSet(Signers(r.signers))
        BY <4>1, WalletAssumption, FS_Subset
      <4> QED
        BY <4>2, FS_CardinalityType DEF DInv, RuledInv, IInv, TypeOK, ProposalsTypeOK
    <3> QED
      BY <1>6, <2>2, <3>1, <3>4
  <2>4. r.from.key = r.to.key /\ r.to.mask \ r.from.mask = {}
    BY <2>3 DEF IsNarrowing
  <2>5. ChangeKind(r.from, r.to) = "revocation"
    BY <2>4 DEF ChangeKind
  <2> QED
    BY <2>2, <2>3, <2>5
<1> QED
  BY <1>5, <1>6

\* Every revocation the page offers is a narrowing, which one admin may make.
LEMMA RevocationsMirror ==
    ASSUME DInv, NEW named \in RevocationsOffered(delegation.mask), NEW w \in Wallet
    PROVE  LET target == [key |-> delegation.key, mask |-> Revoked(named)]
           IN  /\ named \subseteq delegation.mask /\ DelegationAllowed(target)
               /\ MemberHas(members, w, {"admin"}) <=>
                    ChangeAuthorised(members, quorumN, delegation, target, <<w>>)
<1> DEFINE target == [key |-> delegation.key, mask |-> Revoked(named)]
<1>1. delegation \in Delegation /\ members[delegation.key] = {}
  BY DEF DInv, RuledInv, IInv, TypeOK, OutsideStaysOut
<1>2. delegation.mask \subseteq Power
  BY <1>1 DEF Delegation
<1>3. named \subseteq delegation.mask /\ named # {}
  BY <1>2 DEF RevocationsOffered, Held
<1>4. target.key = delegation.key /\ target.mask = delegation.mask \ named
  BY DEF Revoked
<1> HIDE DEF target
<1>5. ValidDelegation(members, target)
  BY <1>1, <1>2, <1>4 DEF ValidDelegation
<1>6. target # delegation
  BY <1>3, <1>4
<1>7. IsNarrowing(delegation, target)
  BY <1>4 DEF IsNarrowing
<1>8. DOMAIN <<w>> = {1} /\ <<w>>[1] = w
  OBVIOUS
<1>9. MemberHas(members, w, {"admin"}) => MemberHas(members, w, AuthorisingRole)
  BY DEF MemberHas, AuthorisingRole
<1>10. ChangeAuthorised(members, quorumN, delegation, target, <<w>>) <=>
         MemberHas(members, w, {"admin"})
  BY <1>7, <1>8, <1>9 DEF ChangeAuthorised, AllMayAuthorise
<1> QED
  BY <1>3, <1>5, <1>6, <1>10 DEF DelegationAllowed, target

LEMMA KeyPage ==
    ASSUME DInv
    PROVE  DelegationPageMirrors
<1> DEFINE page == DelegationPage(now)
<1>1. page.key = delegation.key /\ page.mask = delegation.mask
  BY DEF DelegationPage
<1>2. /\ page \in delegationResponseSchema
      /\ \A row \in {HistoryRow(r) : r \in page.history} :
           Cardinality(Signers(row.signers)) < quorumN =>
             row.change = "revocation" /\ row.path = "immediate"
  BY DelegationPageKnown
<1> HIDE DEF page
<1>3. \A named \in RevocationsOffered(page.mask), w \in Wallet :
        LET target == [key |-> page.key, mask |-> Revoked(named)]
        IN  /\ named \subseteq delegation.mask /\ DelegationAllowed(target)
            /\ MemberHas(members, w, {"admin"}) <=>
                 ChangeAuthorised(members, quorumN, delegation, target, <<w>>)
  BY <1>1, RevocationsMirror
<1>4. ASSUME NEW target \in delegationBodySchema
      PROVE  /\ members[target.key] = {} =>
                  (GrantOffered(target) <=> DelegationAllowed(target))
             /\ NarrowingOnly(target) <=> IsNarrowing(delegation, target)
  <2>1. target.mask \subseteq Power
    BY DEF delegationBodySchema, delegationMaskSchema
  <2>2. members[target.key] = {} => (GrantOffered(target) <=> DelegationAllowed(target))
    BY <2>1 DEF GrantOffered, DelegationAllowed, ValidDelegation
  <2>3. NarrowingOnly(target) <=> IsNarrowing(delegation, target)
    BY DEF NarrowingOnly, IsNarrowing
  <2> QED
    BY <2>2, <2>3
<1> QED
  BY <1>2, <1>3, <1>4 DEF DelegationPageMirrors, page

\* Every check of the console mirrors a refusal of the program's, for any membership
\* and any quorum: a page offers nothing the program would refuse, leaves no proposal
\* lying, and says which path a change of the key takes.
THEOREM PagesMirrorProgram == DeskSpec => []ChecksMirrorProgram
<1>1. DInv => ChecksMirrorProgram
  BY ProposalPage, KeyPage DEF ChecksMirrorProgram
<1> QED
  BY <1>1, DeskInvariance, PTL

\* Behind the console too the versions of the policy have no gap and one quorum each.
THEOREM ConsoleVersions == DeskSpec => []PolicyHistory
<1>1. DInv => PolicyHistory
  BY DEF DInv, RuledInv
<1> QED
  BY <1>1, DeskInvariance, PTL

=============================================================================
