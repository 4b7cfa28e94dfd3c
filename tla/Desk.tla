-------------------------------- MODULE Desk --------------------------------
(***************************************************************************)
(* The console's path to a quorum action (the API's routes/actions.ts and  *)
(* routes/delegation.ts over actions.ts), beside the program it asks.  A   *)
(* handler reads the chain, checks what the program would refuse, and      *)
(* answers with an unsigned transaction; a member signs it, and it lands   *)
(* later, or never.  Everything read may have moved by then.               *)
(*                                                                         *)
(* A member's desk holds one thing at a time: a proposal's page, an        *)
(* execution half assembled, or a transaction under way.  consents is      *)
(* history: what each approval that landed had been shown.                 *)
(***************************************************************************)
EXTENDS Governance

CONSTANTS
    Seats,       \* the members who work at the console
    Agendas,     \* bound: the kinds of action raised here and elsewhere in one
                 \* behaviour, and its nonces
    Skews,       \* how far the server's clock may be from the chain's
    MaxApprovals \* MAX_APPROVALS

\* The console keeps its own copy of the program's MAX_MEMBERS.
ASSUME ApprovalsAssumption == MaxApprovals = MaxMembers
ASSUME SeatsAssumption == Seats \subseteq Wallet /\ Skews \subseteq Int

VARIABLES
    agenda,    \* the agenda of this behaviour
    desk,      \* what each member has before them
    drawn,     \* the nonces drawn so far
    consents   \* history

deskVars == <<agenda, desk, drawn, consents>>
dvars == <<vars, deskVars>>

Idle == [stage |-> "idle"]

-----------------------------------------------------------------------------
\* What the reader makes of an account.  Of a policy change the account keeps a
\* digest of the rules, equal exactly when the rules are.
ToActionView(body) ==
    IF body.kind = "SetPolicy"
    THEN [kind |-> "SetPolicy", version |-> body.version,
          rulesHash |-> <<"sha256", body.rules>>, reason |-> body.reason]
    ELSE body

ToView(slot) ==
    LET p == proposals[slot]
    IN  [slot |-> slot, action |-> ToActionView(p.body), approvals |-> p.approvals,
         expiresAt |-> p.expiresAt, executed |-> p.executedAt # 0]

\* Whether a body read back from a transaction is the one the account committed to.
BodyMatches(view, body) == ToActionView(body) = view.action

\* The body of a policy change is read back from the proposing transactions at the
\* address, newest first; every other kind is whole in the account.
BodyRead(view) ==
    IF view.action.kind # "SetPolicy" THEN {view.action}
    ELSE LET found == {i \in DOMAIN ballots :
                         ballots[i].slot = view.slot /\ BodyMatches(view, ballots[i].body)}
             newest == CHOOSE i \in found : \A j \in found : j <= i
         IN  IF found = {} THEN {} ELSE {ballots[newest].body}

\* The approvals that still count, and the wallets whose approvals do not.
Counted(view) ==
    Len(view.approvals)
      - Cardinality({i \in DOMAIN view.approvals : view.approvals[i] \notin Authorising(members)})
Lapsed(view) == Signers(view.approvals) \ Authorising(members)

\* A slip of Standing: the last instant of the term counts as past it.
StandingInclusive(view, time) ==
    CASE view.executed -> "executed"
      [] ~view.executed /\ time >= view.expiresAt -> "expired"
      [] ~view.executed /\ time < view.expiresAt /\ Lapsed(view) # {} -> "blocked"
      [] OTHER -> IF Counted(view) >= quorumN THEN "ready" ELSE "open"

\* Where a proposal stands, computed the way the program will compute it.
Standing(view, time) ==
    CASE view.executed -> "executed"
      [] ~view.executed /\ time > view.expiresAt -> "expired"
      [] ~view.executed /\ time <= view.expiresAt /\ Lapsed(view) # {} -> "blocked"
      [] OTHER -> IF Counted(view) >= quorumN THEN "ready" ELSE "open"

\* A proposal as every route presents it.
PresentProposal(view, time) ==
    [slot |-> view.slot, action |-> view.action, approvals |-> view.approvals,
     state |-> Standing(view, time), required |-> quorumN,
     counted |-> Counted(view), lapsed |-> Lapsed(view)]

IsFinished(state) == state \in {"executed", "expired"}

\* The refusals of the approval's handler.
MayApprove(view, w, time) ==
    /\ ~IsFinished(Standing(view, time))
    /\ Standing(view, time) # "blocked"
    /\ w \notin Signers(view.approvals)
    /\ Len(view.approvals) < MaxApprovals

\* A slip of NextStep: the member's own approval is not looked for.
NextStepAgain(view, w, time) ==
    LET state == Standing(view, time)
        mine == w \in Authorising(members)
    IN  CASE IsFinished(state) /\ mine -> "close"
          [] state = "ready" /\ mine -> "execute"
          [] state = "open" /\ mine -> "approve"
          [] OTHER -> "wait"

\* The one step the page offers a member.
NextStep(view, w, time) ==
    LET state == Standing(view, time)
        mine == w \in Authorising(members)
    IN  CASE IsFinished(state) /\ mine -> "close"
          [] state = "ready" /\ mine -> "execute"
          [] state = "open" /\ mine /\ w \notin Signers(view.approvals) -> "approve"
          [] OTHER -> "wait"

\* The request behind the page's button, and none when it says to wait.
StepRequest(view, w, time) ==
    {[kind |-> kind, slot |-> view.slot, signer |-> w] :
       kind \in {NextStep(view, w, time)} \ {"wait"}}

\* The strip of the quorum: who, in what role, and in which place they signed, 0 for
\* not yet; first those who signed, then every other authorising member.
Seat(w, order, lapsed) ==
    [wallet |-> w, order |-> order, lapsed |-> lapsed,
     role |-> CASE w \notin Authorising(members) -> "former member"
                [] MemberHas(members, w, {"admin"}) -> "admin"
                [] OTHER -> "compliance"]
SeatsOf(proposal) ==
    {Seat(proposal.approvals[i], i, proposal.approvals[i] \in proposal.lapsed) :
       i \in DOMAIN proposal.approvals}
      \cup {Seat(w, 0, FALSE) : w \in Authorising(members) \ Signers(proposal.approvals)}

\* What the execution's handler asks of the delegation, the terms or the policy
\* version beyond the proposal; other kinds are left to the program.
StillStarts(action) ==
    CASE action.kind = "SetDelegation" -> delegation = action.from
      [] action.kind = "SetAttestor" -> terms = action.from
      [] action.kind = "SetPolicy" -> policyVersion + 1 = action.version
      [] OTHER -> TRUE

\* A slip of FreshNonce: counted from one for every proposal.
AnyNonce(n) == n \in agenda.nonces

\* A random number of 64 bits is not drawn twice.
FreshNonce(n) == n \in agenda.nonces \ drawn

-----------------------------------------------------------------------------
DeskInit ==
    /\ Init
    /\ agenda \in Agendas
    /\ desk = [w \in Seats |-> Idle]
    /\ drawn = {} /\ consents = {}

Puts(w, thing) ==
    /\ desk' = [desk EXCEPT ![w] = thing]
    /\ UNCHANGED <<vars, agenda, consents>>

Signing(tx) == [stage |-> "signing", tx |-> tx]

\* The session's wallet may authorise.
Seated(w) == desk[w] = Idle /\ MayAct(w)

\* Raising: the next policy version is read from the chain, the nonce drawn.
AskPolicy(w, nonce, term, rules, reason) ==
    /\ Seated(w) /\ FreshNonce(nonce)
    /\ policyVersion < MaxVersion
    /\ drawn' = drawn \cup {nonce}
    /\ Puts(w, Signing([kind |-> "proposePolicy", nonce |-> nonce, term |-> term,
                        version |-> policyVersion + 1, rules |-> rules, reason |-> reason]))

\* Raising a grant or a rotation: not for the delegation as it already stands.
AskDelegation(w, nonce, term, target) ==
    /\ Seated(w) /\ FreshNonce(nonce)
    /\ target # delegation
    /\ drawn' = drawn \cup {nonce}
    /\ Puts(w, Signing([kind |-> "proposeDelegation", nonce |-> nonce, term |-> term,
                        target |-> target]))

\* A proposal's page: what an approver reads before signing.
Show(w, slot) ==
    /\ desk[w] = Idle /\ Exists(slot)
    /\ \E body \in BodyRead(ToView(slot)) :
         Puts(w, [stage |-> "shown", slot |-> slot, body |-> body])
    /\ UNCHANGED drawn

AskApproval(w, skew) ==
    /\ desk[w].stage = "shown"
    /\ MayAct(w)
    /\ LET slot == desk[w].slot
       IN  /\ Exists(slot)
           /\ MayApprove(ToView(slot), w, now + skew)
           /\ Puts(w, Signing([kind |-> "approve", slot |-> slot, shown |-> desk[w].body]))
    /\ UNCHANGED drawn

\* Execution reads the proposal first,
AskExecution(w, slot, skew) ==
    /\ Seated(w) /\ Exists(slot)
    /\ Standing(ToView(slot), now + skew) = "ready"
    /\ Puts(w, [stage |-> "checked", view |-> ToView(slot)])
    /\ UNCHANGED drawn

\* then what it starts from, and then the body.
Assemble(w) ==
    /\ desk[w].stage = "checked"
    /\ LET view == desk[w].view
       IN  /\ StillStarts(view.action)
           /\ \E body \in BodyRead(view) :
                Puts(w, Signing([kind |-> "execute", slot |-> view.slot, body |-> body,
                                 listed |-> view.approvals]))
    /\ UNCHANGED drawn

AskClose(w, slot, skew) ==
    /\ Seated(w) /\ Exists(slot)
    /\ IsFinished(Standing(ToView(slot), now + skew))
    /\ Puts(w, Signing([kind |-> "close", slot |-> slot]))
    /\ UNCHANGED drawn

\* What is left of the powers held.
Revoked(named) == delegation.mask \ named

\* Revocation: one admin, of powers the key holds; the key stays the chain's.
AskRevocation(w, named) ==
    /\ desk[w] = Idle /\ MemberHas(members, w, {"admin"})
    /\ named # {} /\ named \subseteq delegation.mask
    /\ Puts(w, Signing([kind |-> "revoke",
                        target |-> [key |-> delegation.key, mask |-> Revoked(named)]]))
    /\ UNCHANGED drawn

-----------------------------------------------------------------------------
\* The page of the operational key: what it holds, each power revocable alone, and
\* all of them together.
Held(mask) == Power \cap mask
RevocationsOffered(mask) == {{power} : power \in Held(mask)} \cup ({Held(mask)} \ {{}})

\* What the form beside it would propose; and whether it points to the revocations.
GrantOffered(target) == target # delegation
NarrowingOnly(target) ==
    target.key = delegation.key /\ target.mask \ delegation.mask = {}

\* A slip of changeKind: what was taken is looked at, not what was added.
ChangeKindByTaken(from, to) ==
    CASE from.key # to.key -> "rotation"
      [] from.key = to.key /\ from.mask \ to.mask = {} -> "revocation"
      [] OTHER -> IF from.mask = {} THEN "grant" ELSE "regrant"

\* How a change reads in the history.
ChangeKind(from, to) ==
    CASE from.key # to.key -> "rotation"
      [] from.key = to.key /\ to.mask \ from.mask = {} -> "revocation"
      [] OTHER -> IF from.mask = {} THEN "grant" ELSE "regrant"

\* A change as the store keeps it, and as a line of the history.
StoredChange(entry) ==
    [from |-> entry.body.from, to |-> entry.body.to, signers |-> entry.by,
     path |-> IF entry.serial = 0 THEN "immediate" ELSE "proposal"]
HistoryRow(row) ==
    [change |-> ChangeKind(row.from, row.to), signers |-> row.signers, path |-> row.path]

\* The page as it is read: the key and its powers, the proposals on it and every
\* change.
OnTheKey(view) == view.action.kind = "SetDelegation"
DelegationPage(time) ==
    [key |-> delegation.key, mask |-> delegation.mask,
     proposals |-> {PresentProposal(view, time) : view \in
                      {v \in {ToView(s) : s \in {x \in Slot : x[1] = IssuerScope /\ Exists(x)}} :
                         OnTheKey(v)}},
     history |-> {StoredChange(journal[i]) : i \in PositionsOf("SetDelegation")}]

\* What the console takes as an answer.
delegationMaskSchema == SUBSET Power
delegationBodySchema == [key : Wallet, mask : delegationMaskSchema]
proposalActionSchema ==
    [kind : {"SetPolicy"}, version : Nat \ {0}, rulesHash : {"sha256"} \X Rules, reason : Reason]
      \cup [kind : {"SetDelegation"}, from : delegationBodySchema, to : delegationBodySchema]
      \cup [kind : {"SetAttestor"}, from : Terms, to : Terms, reason : Reason]
proposalSchema ==
    [slot : Slot, action : proposalActionSchema, approvals : Seq(Wallet),
     state : {"open", "ready", "blocked", "executed", "expired"},
     required : Nat, counted : Nat, lapsed : SUBSET Wallet]
delegationChangeSchema ==
    [from : delegationBodySchema, to : delegationBodySchema,
     path : {"immediate", "proposal"}, signers : Seq(Wallet) \ {<<>>}]
delegationResponseSchema ==
    [key : Wallet, mask : delegationMaskSchema, proposals : SUBSET proposalSchema,
     history : SUBSET delegationChangeSchema]

-----------------------------------------------------------------------------
\* The transaction lands: the program does what it asks, if it may.
Lands(w) ==
    /\ desk[w].stage = "signing"
    /\ desk' = [desk EXCEPT ![w] = Idle]
    /\ UNCHANGED <<agenda, drawn>>

LandProposal(w) ==
    LET tx == desk[w].tx
    IN  /\ Lands(w)
        /\ tx.kind \in {"proposePolicy", "proposeDelegation"}
        /\ IF tx.kind = "proposePolicy"
           THEN ProposeSetPolicy(tx.nonce, w, tx.term, tx.version, tx.rules, tx.reason)
           ELSE ProposeSetDelegation(tx.nonce, w, tx.term, tx.target)
        /\ UNCHANGED consents

LandApproval(w) ==
    LET tx == desk[w].tx
    IN  /\ Lands(w)
        /\ tx.kind = "approve"
        /\ ApproveAction(tx.slot, w)
        /\ consents' = consents \cup {[by |-> w, serial |-> proposals[tx.slot].serial,
                                       shown |-> tx.shown]}

LandExecution(w) ==
    LET tx == desk[w].tx
    IN  /\ Lands(w)
        /\ tx.kind = "execute"
        /\ CASE tx.body.kind = "SetDelegation" ->
                  SetDelegationProposed(tx.slot, tx.body.to, tx.listed)
             [] tx.body.kind = "SetAttestor" ->
                  SetAttestorProposed(tx.slot, tx.body.to, tx.body.reason, tx.listed)
             [] tx.body.kind = "SetPolicy" ->
                  SetPolicyProposed(tx.slot, tx.body.version, tx.body.rules,
                                    tx.body.reason, tx.listed)
        /\ UNCHANGED consents

LandClose(w) ==
    LET tx == desk[w].tx
    IN  /\ Lands(w)
        /\ tx.kind = "close"
        /\ CloseActionProposal(tx.slot, w)
        /\ UNCHANGED consents

LandRevocation(w) ==
    LET tx == desk[w].tx
    IN  /\ Lands(w)
        /\ tx.kind = "revoke"
        /\ SetDelegationSigned(tx.target, <<w>>)
        /\ UNCHANGED consents

\* A page is left, a handler refuses at its second read, a transaction is not
\* signed, expires or is refused.
Drop(w) ==
    /\ desk[w] # Idle
    /\ Puts(w, Idle)
    /\ UNCHANGED drawn

-----------------------------------------------------------------------------
\* What is done without the console: reserve terms are proposed by other tools,
\* with nonces of their own, and members may sign a policy version at once.
Elsewhere ==
    /\ \/ \E target \in {t \in TermsTargets : "SetAttestor" \in agenda.elsewhere},
             reason \in Reason, nonce \in Nonce, w \in Wallet, term \in Term :
            /\ FreshNonce(nonce)
            /\ drawn' = drawn \cup {nonce}
            /\ ProposeSetAttestor(nonce, w, term, target, reason)
       \/ \E version \in {v \in 2 .. MaxVersion : "SetPolicy" \in agenda.elsewhere},
             rules \in Rules, reason \in Reason, listed \in SignerLists :
            /\ SetPolicySigned(version, rules, reason, listed)
            /\ UNCHANGED drawn
    /\ UNCHANGED <<agenda, desk, consents>>

Asks(w) ==
    \/ \E nonce \in Nonce, term \in Term,
          rules \in {r \in Rules : "SetPolicy" \in agenda.kinds}, reason \in Reason :
         AskPolicy(w, nonce, term, rules, reason)
    \/ \E nonce \in Nonce, term \in Term,
          target \in {t \in DelegationTargets : "SetDelegation" \in agenda.kinds} :
         AskDelegation(w, nonce, term, target)
    \/ \E slot \in Slot : Show(w, slot)
    \/ \E slot \in Slot, skew \in Skews :
         AskExecution(w, slot, skew) \/ AskClose(w, slot, skew)
    \/ \E skew \in Skews : AskApproval(w, skew)
    \/ Assemble(w)
    \/ \E named \in {p \in SUBSET Power : "SetDelegation" \in agenda.kinds} :
         AskRevocation(w, named)

DeskNext ==
    \/ \E w \in Seats :
         \/ Asks(w)
         \/ LandProposal(w) \/ LandApproval(w) \/ LandExecution(w)
         \/ LandClose(w) \/ LandRevocation(w)
         \/ Drop(w)
    \/ Elsewhere
    \/ TimePasses /\ UNCHANGED deskVars

DeskSpec == DeskInit /\ [][DeskNext]_dvars

-----------------------------------------------------------------------------
(* Properties *)

\* Whoever approves at the console approves what they were shown: an approval names
\* an address, yet it counts for no other body, however late it lands and whatever
\* was executed, closed and raised in between (routes/actions.ts; approve_action of
\* instructions/proposal.rs carries no body).
ConsentsAsShown ==
    \A c \in consents :
      /\ ballots[c.serial].body = c.shown
      /\ c.by \in ballots[c.serial].signers

\* The program's own verdicts on a proposal: its closing, an approval of w's, and
\* its execution as the console would assemble it.
ProgramExecutes(slot) ==
    LET p == proposals[slot]
    IN  /\ Deferred(slot, slot[1], p.body, p.approvals)
        /\ CASE p.body.kind = "SetDelegation" ->
                  DelegationAllowed(p.body.to) /\ DelegationStored(p.body.to) = p.body
             [] p.body.kind = "SetAttestor" ->
                  TermsAllowed(p.body.to) /\ TermsStored(p.body.to, p.body.reason) = p.body
             [] p.body.kind = "SetPolicy" -> VersionIsNext(p.body.version)

\* The page of a proposal: each check of its handlers mirrors a refusal of the
\* program's.  It offers no step its handler or the program would refuse, but for
\* what execution checks beyond the proposal, and leaves no proposal lying: while it
\* can be decided, or its rent returned, somebody is offered a step.  Its strip has
\* one seat for everybody who counts, and shows as missing those it asks.
ProposalPageMirrors(slot) ==
    LET p == proposals[slot]
        view == ToView(slot)
        shown == PresentProposal(view, now)
        seats == SeatsOf(shown)
        asked == UNION {StepRequest(view, w, now) : w \in Wallet}
    IN  /\ shown \in proposalSchema
        /\ IsFinished(shown.state) <=> Closable(p)
        /\ \A w \in Authorising(members) :
             MayApprove(view, w, now) <=> Live(p) /\ Takes(p, w)
        /\ (shown.state = "ready" /\ StillStarts(view.action) /\ BodyRead(view) = {p.body})
             <=> ProgramExecutes(slot)
        /\ \A step \in asked :
             /\ MayAct(step.signer)
             /\ step.kind = "approve" =>
                  MayApprove(view, step.signer, now) /\ Takes(p, step.signer)
             /\ step.kind = "execute" => shown.state = "ready"
             /\ step.kind = "close" => Closable(p)
        /\ shown.state # "blocked" => asked # {}
        /\ \A w \in Authorising(members) :
             Cardinality({seat \in seats : seat.wallet = w}) = 1
        /\ Cardinality({seat \in seats : seat.order > 0 /\ ~seat.lapsed}) = shown.counted
        /\ shown.state = "open" =>
             /\ shown.counted < shown.required
             /\ {step.signer : step \in asked} = {seat.wallet : seat \in
                                                    {t \in seats : t.order = 0}}

\* The page of the key: an admin alone may make every revocation it offers, and what
\* its form proposes the program takes; it points to the revocations for exactly
\* the changes one admin may make.  A change its history shows with fewer
\* signers than the quorum is shown as a revocation.
DelegationPageMirrors ==
    LET page == DelegationPage(now)
    IN  /\ page \in delegationResponseSchema
        /\ \A named \in RevocationsOffered(page.mask), w \in Wallet :
             LET target == [key |-> page.key, mask |-> Revoked(named)]
             IN  /\ named \subseteq delegation.mask /\ DelegationAllowed(target)
                 /\ MemberHas(members, w, {"admin"}) <=>
                      ChangeAuthorised(members, quorumN, delegation, target, <<w>>)
        /\ \A target \in delegationBodySchema :
             /\ members[target.key] = {} =>
                  (GrantOffered(target) <=> DelegationAllowed(target))
             /\ NarrowingOnly(target) <=> IsNarrowing(delegation, target)
        /\ \A row \in {HistoryRow(r) : r \in page.history} :
             Cardinality(Signers(row.signers)) < quorumN =>
               row.change = "revocation" /\ row.path = "immediate"

\* With the two clocks together, the console asks nobody to sign what the program
\* would refuse and keeps nobody from what the program would do (routes/actions.ts,
\* "the route only says so earlier"; settings/delegation.tsx, "The screen says which
\* path a change takes before anyone signs").
ChecksMirrorProgram ==
    /\ \A slot \in Slot : Exists(slot) => ProposalPageMirrors(slot)
    /\ DelegationPageMirrors
=============================================================================
