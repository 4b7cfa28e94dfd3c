----------------------------- MODULE Proposals ------------------------------
(***************************************************************************)
(* Deferred signing of a quorum action: the ActionProposal account of      *)
(* state/proposal.rs and the three instructions of                         *)
(* instructions/proposal.rs.  A proposal account lives at the address      *)
(* ["proposal", scope, nonce]; the client chooses the nonce, so an address *)
(* may be taken again once the account is closed.                          *)
(*                                                                         *)
(* The module is shared: a component that executes proposals EXTENDS it,   *)
(* says what the bodies are, and joins Deferred and Executed to            *)
(* the effect of each of its instructions.                                 *)
(*                                                                         *)
(* ballots and journal are history, not program state: the transactions on *)
(* the ledger, which no instruction reads and the indexer rebuilds its     *)
(* journal from.  Every account ever raised has one ballot, found by the   *)
(* proposal's serial, that outlives the account: the wallets that proposed *)
(* or approved it and how long the journal was when it was raised.  The    *)
(* journal holds the executing transactions in order: the body each        *)
(* carried, the wallets its account list names, when it landed, and the    *)
(* serial of the proposal it executed, 0 for none.                         *)
(***************************************************************************)
EXTENDS Issuer

CONSTANTS
    Memberships, \* the memberships an issuer may be founded with
    Scope,       \* the issuer's config and its token's mint
    Nonce,       \* the nonces clients choose
    Term,        \* the terms proposers ask for
    MinTerm,     \* MIN_PROPOSAL_TERM
    MaxTerm,     \* MAX_PROPOSAL_TERM
    NoProposal,  \* what an address holds when no account is there
    MaxTime,     \* bound: the last instant of the clock
    MaxRaised,   \* bound: how many proposals are ever raised
    MaxJournal   \* bound: how many actions are ever executed

ASSUME MembershipsAssumption == Memberships \subseteq Membership
ASSUME TermAssumption ==
    Term \subseteq Nat /\ MinTerm \in Nat \ {0} /\ MaxTerm \in Nat
ASSUME BoundAssumption == MaxTime \in Nat /\ MaxRaised \in Nat /\ MaxJournal \in Nat

VARIABLES
    members,    \* IssuerConfig.members: founded once, no instruction changes it
    quorumN,    \* IssuerConfig.quorum_n
    now,        \* the clock sysvar
    proposals,  \* what each proposal address holds
    ballots,    \* history: the propose and approve transactions
    journal     \* history: the executing transactions

issuerVars == <<members, quorumN>>

-----------------------------------------------------------------------------
Slot == Scope \X Nonce

\* An account; executedAt = 0 says not executed, and serial is the history entry.
ProposalOf(Body) ==
    [body : Body, approvals : Seq(Wallet), expiresAt : Nat, executedAt : Nat,
     serial : Nat \ {0}]

BallotOf(Body) ==
    [slot : Slot, body : Body, signers : SUBSET Wallet, expiresAt : Nat, after : Nat]
EntryOf(Body) == [body : Body, by : Seq(Wallet), at : Nat, serial : Nat]

\* The wallets of an approval list.
Signers(approvals) == {approvals[i] : i \in DOMAIN approvals}

Exists(slot) == proposals[slot] # NoProposal
\* Slips of live and closable: the term is not looked at; the last instant of the
\* term counts as past it.
LiveForever(p) == p.executedAt = 0
ClosableEarly(p) == p.executedAt # 0 \/ now >= p.expiresAt

Live(p) == p.executedAt = 0 /\ now <= p.expiresAt
Closable(p) == p.executedAt # 0 \/ now > p.expiresAt

-----------------------------------------------------------------------------
\* Init of the shared part: an issuer that initialize_issuer accepted.
ProposalsInit ==
    /\ members \in Memberships
    /\ ValidMembership(members)
    /\ quorumN \in ValidQuorums(members)
    /\ now = 1
    /\ proposals = [slot \in Slot |-> NoProposal]
    /\ ballots = <<>>
    /\ journal = <<>>

\* A slip of approve_action: a repeated approval is taken.
TakesAgain(p, w) == Len(p.approvals) < MaxMembers

\* Proposing, approving and closing are for whoever may authorise.
MayAct(w) == MemberHas(members, w, AuthorisingRole)

\* ActionProposal::add_approval: not twice the same wallet, and there is a slot.
Takes(p, w) ==
    /\ w \notin Signers(p.approvals)
    /\ Len(p.approvals) < MaxMembers

\* A slip of propose_action: init_if_needed, the account may be there already.
FreeOrNot(slot) == slot \in Slot

\* The address is free.
Free(slot) == ~Exists(slot)

\* propose_action: the account is created at a free address and the
\* proposer's signature is the first approval.
Propose(slot, body, proposer, term) ==
    /\ Len(ballots) < MaxRaised
    /\ MayAct(proposer)
    /\ term \in MinTerm .. MaxTerm
    /\ Free(slot)
    /\ proposals' = [proposals EXCEPT ![slot] =
         [body |-> body, approvals |-> <<proposer>>, expiresAt |-> now + term,
          executedAt |-> 0, serial |-> Len(ballots) + 1]]
    /\ ballots' = Append(ballots,
         [slot |-> slot, body |-> body, signers |-> {proposer},
          expiresAt |-> now + term, after |-> Len(journal)])
    /\ UNCHANGED <<issuerVars, now, journal>>

\* approve_action: it names an address, never a body.
Approve(slot, approver) ==
    /\ Exists(slot)
    /\ MayAct(approver)
    /\ LET p == proposals[slot]
       IN  /\ Live(p)
           /\ Takes(p, approver)
           /\ proposals' = [proposals EXCEPT ![slot].approvals = Append(@, approver)]
           /\ ballots' = [ballots EXCEPT ![p.serial].signers = @ \cup {approver}]
    /\ UNCHANGED <<issuerVars, now, journal>>

\* close_action_proposal: the account goes, the address is free again.
CloseProposal(slot, member) ==
    /\ Exists(slot)
    /\ MayAct(member)
    /\ Closable(proposals[slot])
    /\ proposals' = [proposals EXCEPT ![slot] = NoProposal]
    /\ UNCHANGED <<issuerVars, now, ballots, journal>>

\* The clock moves on its own.
Tick ==
    /\ now < MaxTime
    /\ now' = now + 1
    /\ UNCHANGED <<issuerVars, proposals, ballots, journal>>

-----------------------------------------------------------------------------
\* Slips of the deferred path: the listed accounts, or the body, are not compared
\* with the proposal's.
DeferredUnlisted(slot, scope, body, listed) ==
    /\ Exists(slot)
    /\ slot[1] = scope
    /\ LET p == proposals[slot]
       IN  Live(p) /\ p.body = body /\ QuorumCheck(members, quorumN, p.approvals)
DeferredAnyBody(slot, scope, body, listed) ==
    /\ Exists(slot)
    /\ slot[1] = scope
    /\ LET p == proposals[slot]
       IN  /\ Live(p)
           /\ listed = p.approvals
           /\ QuorumCheck(members, quorumN, p.approvals)

\* The deferred path every executing instruction takes: the proposal is of
\* this scope, live, holds exactly this body, its approvals are a quorum of
\* the membership as it is now, and the accounts listed after the
\* instruction's own are exactly its approvers.
Deferred(slot, scope, body, listed) ==
    /\ Exists(slot)
    /\ slot[1] = scope
    /\ LET p == proposals[slot]
       IN  /\ Live(p)
           /\ p.body = body
           /\ listed = p.approvals
           /\ QuorumCheck(members, quorumN, p.approvals)

\* What an executing transaction leaves behind, signed at once or from a proposal
\* whose executed_at is the last write.
Signed(body, listed) ==
    /\ Len(journal) < MaxJournal
    /\ journal' = Append(journal, [body |-> body, by |-> listed, at |-> now, serial |-> 0])
    /\ UNCHANGED <<issuerVars, now, proposals, ballots>>

\* A slip of the executing instructions: executed_at is not written.
ExecutedUnmarked(slot, body, listed) ==
    /\ Len(journal) < MaxJournal
    /\ journal' = Append(journal,
         [body |-> body, by |-> listed, at |-> now, serial |-> proposals[slot].serial])
    /\ UNCHANGED <<issuerVars, now, proposals, ballots>>

Executed(slot, body, listed) ==
    /\ Len(journal) < MaxJournal
    /\ journal' = Append(journal,
         [body |-> body, by |-> listed, at |-> now, serial |-> proposals[slot].serial])
    /\ proposals' = [proposals EXCEPT ![slot].executedAt = now]
    /\ UNCHANGED <<issuerVars, now, ballots>>

-----------------------------------------------------------------------------
(* Properties of every component that executes proposals *)

ProposalsTypeOK(Body) ==
    /\ members \in Membership
    /\ quorumN \in Nat
    /\ now \in Nat \ {0}
    /\ proposals \in [Slot -> ProposalOf(Body) \cup {NoProposal}]
    /\ ballots \in Seq(BallotOf(Body))
    /\ journal \in Seq(EntryOf(Body))

\* The transaction that executes a proposal names exactly the wallets that
\* proposed or approved that very body, and they are a quorum of different
\* wallets that may authorise: nobody is recorded as having authorised what they
\* did not sign, nobody who signed is left out, even after the account was closed
\* and its address taken again (FR-019, FR-019c).
NamesItsSigners(e) ==
    LET b == ballots[e.serial]
    IN  /\ Signers(e.by) = b.signers
        /\ e.body = b.body
        /\ b.signers \subseteq Authorising(members)
        /\ Cardinality(b.signers) >= quorumN
EffectsNameTheirSigners ==
    \A i \in DOMAIN journal :
      journal[i].serial # 0 =>
        journal[i].serial \in DOMAIN ballots /\ NamesItsSigners(journal[i])

\* One collection of signatures is spent at most once (ProposalAlreadyExecuted).
EffectsOnce ==
    \A i, j \in DOMAIN journal :
      i # j /\ journal[i].serial # 0 => journal[i].serial # journal[j].serial

\* The term is the revocation: a quorum that gathered in time but was not
\* executed in time executes nothing (FR-019b).
EffectsWithinTerm ==
    \A i \in DOMAIN journal :
      journal[i].serial # 0 => journal[i].at <= ballots[journal[i].serial].expiresAt

\* A repeated approval may not use up the slots: whoever may authorise and has
\* not signed a live proposal still finds room, so a proposal below its quorum
\* can always reach it (ActionProposal::add_approval).
RoomForTheRest ==
    \A slot \in Slot :
      Exists(slot) /\ Live(proposals[slot]) =>
        LET p == proposals[slot]
            rest == Authorising(members) \ Signers(p.approvals)
        IN  /\ Len(p.approvals) + Cardinality(rest) <= MaxMembers
            /\ Cardinality(Signers(p.approvals) \cup rest) >= quorumN

\* A live proposal is revoked by the clock and by nothing else: until it is
\* executed or its term has passed, no step removes it, changes what it asks for
\* or moves its term, and its approvals only grow at the end.
StandsUntilOver(slot) ==
    Exists(slot) /\ Live(proposals[slot]) =>
      LET p == proposals[slot]
          q == proposals'[slot]
      IN  /\ q # NoProposal
          /\ q.body = p.body /\ q.expiresAt = p.expiresAt /\ q.serial = p.serial
          /\ SubSeq(q.approvals, 1, Len(p.approvals)) = p.approvals

\* What makes the above inductive: an account and its ballot agree, and the
\* ballot of an account not yet executed has not been spent.
AccountMatchesBallot(slot) ==
    LET p == proposals[slot]
        b == ballots[p.serial]
    IN  /\ p.serial \in DOMAIN ballots
        /\ b.slot = slot /\ b.body = p.body /\ b.expiresAt = p.expiresAt
        /\ b.signers = Signers(p.approvals)
        /\ AllMayAuthorise(members, p.approvals)
        /\ p.executedAt = 0 =>
             \A i \in DOMAIN journal : journal[i].serial # p.serial
Bookkeeping == \A slot \in Slot : Exists(slot) => AccountMatchesBallot(slot)
=============================================================================
