----------------------------- MODULE Compliance -----------------------------
(***************************************************************************)
(* The officer's screen on a token: what the api reads of the chain for it *)
(* (compliance.ts), what its handlers answer and refuse                    *)
(* (routes/compliance.ts), what the console draws of that and what its     *)
(* form asks for (compliance/model.ts, ActionsScreen.tsx).  No state of    *)
(* its own: every definition reads the state of Ledger.                    *)
(*                                                                         *)
(* An answer that may be a refusal is a set, empty when it is one.  Names, *)
(* dates and the wording of reasons are left out.                          *)
(***************************************************************************)
EXTENDS Ledger

CONSTANTS
    Decimals, \* the mint's decimal places
    Sessions  \* bound: the sets of wallets that one person has proven

ASSUME DecimalsAssumption == Decimals \in 0 .. 9
ASSUME SessionsAssumption == Sessions \subseteq SUBSET Wallet
\* No wallet has another account beside its associated one.
ASSUME AssociatedAssumption == \A a, b \in Account : OwnerOf[a] = OwnerOf[b] => a = b

Address == Wallet \cup Account
U64 == 0 .. MaxU64

-----------------------------------------------------------------------------
\* What the reader makes of the mint, and of the token in the issuer's list.
ReadMint == [decimals |-> Decimals, supply |-> supply, paused |-> paused]

ListToken ==
    [decimals |-> Decimals, supply |-> supply, paused |-> paused,
     pausedAt |-> {pausedAt} \ {0}, policyVersion |-> policyVersion]

\* A token account, if there is one at the address.
ReadAccount(address) ==
    {[address |-> a, owner |-> OwnerOf[a], amount |-> balance[a],
      frozen |-> accountState[a] = "frozen"] : a \in {address} \cap Account}

\* A freeze is an officer's record, not a frozen account; its amount is read apart.
FreezeView(a, records, balances) ==
    [tokenAccount |-> a, wallet |-> OwnerOf[a], officer |-> records[a].officer,
     wasThawed |-> records[a].wasThawed, amount |-> balances[a]]

\* The records first, then the balances of the accounts they name.
ReadFreezes(records, balances) ==
    {FreezeView(a, records, balances) : a \in {b \in Account : records[b] # NoAccount}}

ReadFreeze(address) ==
    {FreezeView(a, freezes, balance) :
       a \in {b \in {address} \cap Account : freezes[b] # NoAccount}}

\* What the vault holds.
ReadSeized(balances) == [vault |-> Vault, amount |-> balances[Vault]]

-----------------------------------------------------------------------------
\* What the console takes as an answer.
tokenListingSchema ==
    [decimals : 0 .. 9, supply : U64, paused : BOOLEAN, pausedAt : SUBSET Nat,
     policyVersion : Nat]
freezeSchema ==
    [tokenAccount : Address, wallet : Address, officer : Address, wasThawed : BOOLEAN,
     amount : U64]
complianceSummarySchema ==
    [decimals : 0 .. 9, supply : U64, paused : BOOLEAN, frozen : U64,
     accounts : SUBSET freezeSchema, seized : [vault : Address, amount : U64], free : U64]

FrozenAmount(views) == MapThenSumSet(LAMBDA view : view.amount, views)

\* A slip of the totals: what was seized still counts as free.
FreeAmountWithSeized(total, frozen, seized) == total - FrozenAmount(frozen)

\* What is neither frozen by an officer nor seized.
FreeAmount(total, frozen, seized) == total - FrozenAmount(frozen) - seized.amount

\* The totals, from three reads side by side: an error if nothing so large is free.
Summary(mint, frozen, seized) ==
    {[decimals |-> mint.decimals, supply |-> mint.supply, paused |-> mint.paused,
      frozen |-> FrozenAmount(frozen), accounts |-> frozen, seized |-> seized,
      free |-> free] : free \in {FreeAmount(mint.supply, frozen, seized)} \cap Nat}

-----------------------------------------------------------------------------
\* A slip of chooseSigner: unnamed, any of the candidates signs.
ChooseSignerFirst(candidates, requested) ==
    IF requested = {} THEN {w \in candidates : w = CHOOSE c \in candidates : TRUE}
    ELSE candidates \cap requested

\* The wallet named, if it is a candidate; unnamed, the only one.
ChooseSigner(candidates, requested) ==
    IF requested = {} THEN {w \in candidates : candidates = {w}}
    ELSE candidates \cap requested

\* The session's officer, by the roster and on the chain.
OfficerSigner(session, requested) ==
    ChooseSigner({w \in session : RequireOfficer(members, w)}, requested)

\* The transaction handed out: one instruction, one signature.
Respond(kind, account, officer) == [kind |-> kind, account |-> account, signer |-> officer]

\* The account a freeze is asked for: a wallet's own, or the one named.
TargetOf(target) ==
    UNION {ReadAccount(a) :
             a \in IF target.by = "wallet" THEN {x \in Account : OwnerOf[x] = target.of}
                   ELSE {target.of}}

\* The freeze's handler: there is such an account, and no record of it.
AskFreeze(session, requested, target) ==
    {Respond("freeze", account.address, w) :
       w \in OfficerSigner(session, requested),
       account \in {x \in TargetOf(target) : ReadFreeze(x.address) = {}}}

\* The lifting's handler: there is a record.
AskUnfreeze(session, requested, address) ==
    {Respond("unfreeze", record.tokenAccount, w) :
       w \in OfficerSigner(session, requested), record \in ReadFreeze(address)}

\* A seizure, a pause or a resumption goes to the members as it was asked.
AskOrder(session, requested, body) ==
    {[kind |-> "propose", order |-> body.action, term |-> body.term, signer |-> w] :
       w \in ChooseSigner({x \in session : MayAct(x)}, requested)}

-----------------------------------------------------------------------------
\* An amount as a person reads it: the whole units and the digits after the point.
FormatUnits(raw) ==
    [whole |-> raw \div 10 ^ Decimals,
     fraction |-> [i \in 1 .. Decimals |-> (raw \div 10 ^ (Decimals - i)) % 10]]

\* A slip of parseUnits: the fraction is not filled up with zeros.
ParseUnitsUnpadded(text) ==
    LET places == Len(text.fraction)
        raw == text.whole * 10 ^ places
                 + MapThenSumSet(LAMBDA i : text.fraction[i] * 10 ^ (places - i), 1 .. places)
    IN  IF places > Decimals THEN {} ELSE {raw} \cap 1 .. MaxU64

\* And back into the smallest unit: not too many digits, not nothing, not too much.
ParseUnits(text) ==
    LET places == Len(text.fraction)
        raw == text.whole * 10 ^ Decimals
                 + MapThenSumSet(LAMBDA i : text.fraction[i] * 10 ^ (Decimals - i), 1 .. places)
    IN  IF places > Decimals THEN {} ELSE {raw} \cap 1 .. MaxU64

\* The bodies the api takes, by which the form checks what it assembles.
freezeBodySchema ==
    [target : [by : {"wallet", "tokenAccount"}, of : Address], reason : Reason]
unfreezeBodySchema == [reason : Reason]
proposedActionBodySchema ==
    [kind : {"Seize"}, account : Address, amount : U64 \ {0}, reason : Reason]
      \cup [kind : {"Pause", "Resume"}, reason : Reason]
proposeActionBodySchema == [action : proposedActionBodySchema, term : MinTerm .. MaxTerm]

\* A form nothing was typed into; three days are a term within the bounds.
Blank == "blank"
EmptyDraft ==
    [kind |-> "freeze", target |-> Blank, targetIs |-> "wallet",
     amount |-> [whole |-> 0, fraction |-> <<>>], reason |-> Blank, term |-> MaxTerm]

\* An amount that does not parse is sent as zero, which the schema refuses.
OrderOf(draft, pausedShown) ==
    IF draft.kind = "seize"
    THEN [kind |-> "Seize", account |-> draft.target, reason |-> draft.reason,
          amount |-> SumSet(ParseUnits(draft.amount))]
    ELSE [kind |-> IF pausedShown THEN "Resume" ELSE "Pause", reason |-> draft.reason]

\* The draft as a request.
ToRequest(draft, pausedShown) ==
    IF draft.kind = "freeze"
    THEN {[kind |-> "freeze", body |-> body] :
            body \in {[target |-> [by |-> draft.targetIs, of |-> draft.target],
                       reason |-> draft.reason]} \cap freezeBodySchema}
    ELSE {[kind |-> "propose", body |-> body] :
            body \in {[action |-> OrderOf(draft, pausedShown), term |-> draft.term]}
                       \cap proposeActionBodySchema}

-----------------------------------------------------------------------------
\* The totals as they are drawn.
Cells(summary) ==
    [supply |-> FormatUnits(summary.supply), free |-> FormatUnits(summary.free),
     frozen |-> FormatUnits(summary.frozen), accounts |-> Cardinality(summary.accounts),
     seized |-> FormatUnits(summary.seized.amount)]

\* A proposal's heading in the list.
ActionTitle(action) ==
    CASE action.kind \in {"Seize", "Mint"} -> <<action.kind, FormatUnits(action.amount)>>
      [] action.kind \in {"Pause", "Resume"} -> <<action.kind>>
      [] action.kind = "SetPolicy" -> <<"SetPolicy", action.version>>
      [] action.kind = "SetDelegation" ->
           IF action.to.key = action.from.key THEN <<"mask", action.from.mask, action.to.mask>>
           ELSE <<"rotation", action.to.mask>>
      [] OTHER ->
           IF action.to.attestor = action.from.attestor
           THEN <<"lifetime", action.from.maxAge, action.to.maxAge>> ELSE <<"attestor">>

\* Whether the console takes the session for an officer's.
OfficersSession(session) == \E w \in session : RequireOfficer(members, w)

\* What the form can start; a pause and its lifting are one entry.
OfferedKinds(session) ==
    {"seize", "circulation"} \cup (IF OfficersSession(session) THEN {"freeze"} ELSE {})

\* The form when the page opens.
NewDraft(session) ==
    IF OfficersSession(session) THEN EmptyDraft
    ELSE [EmptyDraft EXCEPT !.kind = "seize", !.targetIs = "tokenAccount"]

\* Another kind chosen: a seizure names an account.
ChooseKind(draft, kind) ==
    [draft EXCEPT !.kind = kind, !.targetIs = IF kind = "seize" THEN "tokenAccount" ELSE @]

\* A slip of SeizureDraft: the account's owner is named instead of the account.
SeizureDraftOfWallet(session, view) ==
    [ChooseKind(NewDraft(session), "seize") EXCEPT
       !.target = view.wallet, !.amount = FormatUnits(view.amount)]

\* The form as a row's button fills it in: all that the frozen account holds.
SeizureDraft(session, view) ==
    [ChooseKind(NewDraft(session), "seize") EXCEPT
       !.target = view.tokenAccount, !.amount = FormatUnits(view.amount)]

\* The form's button: the request, if the draft is one, posted with no wallet named.
Submit(session, draft, pausedShown) ==
    UNION {IF request.kind = "freeze" THEN AskFreeze(session, {}, request.body.target)
           ELSE AskOrder(session, {}, request.body) : request \in ToRequest(draft, pausedShown)}

\* A row's lifting: its reason is checked as a freeze's is.
Lift(session, view, reason) ==
    LET draft == [EmptyDraft EXCEPT !.target = view.tokenAccount,
                    !.targetIs = "tokenAccount", !.reason = reason]
    IN  UNION {AskUnfreeze(session, {}, view.tokenAccount) : request \in
                 {r \in ToRequest(draft, FALSE) : [reason |-> r.body.reason] \in unfreezeBodySchema}}

-----------------------------------------------------------------------------
(* Properties *)

\* A summary answers to its schema, and so does the token's line in the list, whose
\* pause has a date exactly while it lasts.  What it counts as free is what lies in
\* the accounts no officer froze, but for the vault; a vault an officer froze is
\* counted off twice, and the answer is an error when that is more than there is.
FrozenByOfficer == {a \in Account : freezes[a] # NoAccount}
SummaryAddsUp ==
    LET answer == Summary(ReadMint, ReadFreezes(freezes, balance), ReadSeized(balance))
        untouched == MapThenSumSet(LAMBDA a : balance[a], Account \ (FrozenByOfficer \cup {Vault}))
        twice == IF Vault \in FrozenByOfficer THEN balance[Vault] ELSE 0
    IN  /\ answer \subseteq complianceSummarySchema
        /\ {view.free : view \in answer} = {untouched - twice} \cap Nat
        /\ \A view \in answer :
             /\ ParseUnits(Cells(view).supply) = {supply} \ {0}
             /\ Cells(view).accounts = Cardinality(FrozenByOfficer)
        /\ ListToken \in tokenListingSchema
        /\ ListToken.paused <=> ListToken.pausedAt # {}

\* The three reads run side by side, and a step of the ledger may fall between any
\* two of them.  Unless it seizes from an account an officer froze, or moves tokens
\* into a vault an officer froze, the totals are still those of before the step or
\* of after it; no read then counts an amount twice or loses it (FR-020).
TornFree ==
    {FreeAmount(total, frozen, seized) :
       total \in {supply, supply'},
       frozen \in {ReadFreezes(freezes, balance), ReadFreezes(freezes, balance'),
                  ReadFreezes(freezes', balance')},
       seized \in {ReadSeized(balance), ReadSeized(balance')}}
WholeFree == FreeAmount(supply, ReadFreezes(freezes, balance), ReadSeized(balance))
CountedTwice ==
    \/ SeizedFrom(FrozenByOfficer)
    \/ freezes[Vault] # NoAccount /\ balance'[Vault] # balance[Vault]
ReadsHoldTogether == CountedTwice \/ TornFree \subseteq {WholeFree, WholeFree'}

\* The totals add up, the vault holds what was seized and sent to it, and a summary
\* read across a step is that of before it or of after it.
TotalsTell ==
    /\ [](SummaryAddsUp /\ VaultAccountedFor)
    /\ [][ReadsHoldTogether]_<<supply, freezes, balance>>

\* What is drawn is what is sent: a row's seizure asks for all of that very account,
\* refused only for an empty one and barred by the program only for the vault's; the
\* circulation entry asks for what the mint's state allows; a heading and an amount
\* typed in with fewer places read back as the number meant.
SeizureAsShown(session, view, reason) ==
    LET requests == ToRequest([SeizureDraft(session, view) EXCEPT !.reason = reason], paused)
    IN  /\ requests = {} <=> view.amount = 0
        /\ \A request \in requests :
             LET order == request.body.action
             IN  /\ order.account \in FrozenByOfficer
                 /\ order.amount = balance[order.account]
                 /\ Seizable(order.account) <=> order.account # Vault
Typed == [whole : 0 .. 1, fraction : {<<>>} \cup {<<d>> : d \in {0, 1, 9}}]
TypedReadsBack ==
    \A text \in Typed : \A raw \in ParseUnits(text) :
      LET shown == FormatUnits(raw)
      IN  /\ shown.whole = text.whole
          /\ \A i \in 1 .. Decimals :
               shown.fraction[i] = IF i \in DOMAIN text.fraction THEN text.fraction[i] ELSE 0
TitlesReadBack ==
    \A slot \in {x \in Slot : proposals[x] # NoProposal} :
      LET title == ActionTitle(proposals[slot].body)
      IN  Len(title) = 2 => ParseUnits(title[2]) = {proposals[slot].body.amount}

\* A session that can sign in the role with one wallet alone gets what it is offered,
\* exactly when the program would take it of that wallet now: the freeze of a wallet's
\* account, the lifting of one, a pause or its lifting.  With two such wallets the
\* screen names neither, and is always refused.
SoleSigner(session, role) ==
    LET able == {w \in session : MemberHas(members, w, role)}
    IN  {w \in able : able = {w}}
OfferedIsAnswered(session, reason) ==
    LET officers == SoleSigner(session, {"compliance"})
        draft(kind) == [ChooseKind(NewDraft(session), kind) EXCEPT !.reason = reason]
        freeze(owner) == Submit(session, [draft("freeze") EXCEPT !.target = owner], paused)
        lines(answers) == {<<t.signer, t.account>> : t \in answers}
    IN  /\ "freeze" \in OfferedKinds(session) => \A a \in Account :
             lines(freeze(OwnerOf[a])) =
               {<<w, a>> : w \in {x \in officers : ENABLED FreezeHolder(a, x)}}
        /\ {<<t.signer, t.order.kind>> : t \in Submit(session, draft("circulation"), paused)}
             = {<<w, kind>> \in SoleSigner(session, AuthorisingRole) \X {"Pause", "Resume"} :
                  ChangesCirculation(kind)}
        /\ \A view \in ReadFreezes(freezes, balance) :
             /\ lines(Lift(session, view, reason)) =
                  {<<w, view.tokenAccount>> :
                     w \in {x \in officers : ENABLED UnfreezeHolder(view.tokenAccount, x)}}
             /\ SeizureAsShown(session, view, reason)

\* The officer's screen and its handlers ask of the program what it would take.
ScreenMirrorsProgram ==
    /\ TypedReadsBack /\ TitlesReadBack
    /\ \A session \in Sessions, reason \in Reason : OfferedIsAnswered(session, reason)
=============================================================================
