--------------------------- MODULE TokenIssuance ---------------------------
(***************************************************************************)
(* Issuing a token from the console: the wizard (apps/web, wizard), the    *)
(* assembly of the transactions behind a reservation of the token's number *)
(* (apps/api, routes/tokens.ts, issuance.ts), their signing, sending and   *)
(* confirmation one after another (useIssue.ts), the program, and the      *)
(* worker's mirror of the tokens (apply.ts).                               *)
(* Founders work in tabs; nothing keeps two from issuing at once.  Another *)
(* client of the api, as the demonstration is, counts as a tab without a   *)
(* form: it posts a body, and signs and sends what it is answered.         *)
(***************************************************************************)
EXTENDS IssuanceDraft

CONSTANTS
    Tab,        \* the wizards open on one issuer
    Families,   \* bound: of some tabs, the drafts their fields are filled with
    Walkers,    \* bound: the tabs seen up to what is assembled; the others start at the review
    Callers,    \* the tabs that are another client: a draft of theirs is the body they post
    Skew,       \* bound: how far a walker's clock is from the server's
    TTL,        \* RESERVATION_TTL_MS
    Life,       \* how long a blockhash is good for
    MaxRequests,\* bound: requests to the api
    MaxTime     \* bound: the last instant

ASSUME IssuanceAssumption == TTL \in Nat /\ Life \in Nat /\ MaxTime \in Nat

\* A draft is filled in a tab of its own: with countries and sources in lists, and
\* numbers where it has numbers, each of them one or left out.
ASSUME TabsAssumption ==
    /\ Skew \subseteq Int /\ Walkers \cap Callers = {}
    /\ \A family \in Families : DOMAIN family \subseteq Tab
    /\ \A family \in Families : \A t \in DOMAIN family \ Callers : \A d \in family[t] :
         /\ d.sources \in Seq(Source) /\ d.jurisdictions \in Seq(Jurisdiction) /\ d.minTier \in Nat
         /\ {d.decimals, d.feeBps, d.attestationAgeHours, d.periodHours, d.reserveAgeHours}
              \subseteq Option(Nat)
         /\ \A input \in {d.initialSupply, d.reserveAmount, d.transferLimit, d.periodLimit} :
              input.digits \in Nat /\ input.places \in Nat

\* A posted body has its fields in their shapes, and a rule once or not at all.
Rules ==
    [status : Option([sources : Seq(Source), minTier : Nat, maxAge : Option(Nat)]),
     jurisdictions : Option(Seq(Jurisdiction)), transferLimit : Option(Nat),
     periodLimit : Option([amount : Nat, windowSeconds : Nat])]

ASSUME CallersAssumption ==
    \A family \in Families : \A t \in DOMAIN family \cap Callers : \A raw \in family[t] :
      /\ DOMAIN raw = {"title", "decimals", "policy", "initialSupply", "reserve", "currency",
                       "attestedAt", "maxAgeSeconds", "addresses", "bps", "founderTier",
                       "founderJurisdiction", "founderExpiresAt"}
      /\ {raw.decimals, raw.initialSupply, raw.reserve, raw.maxAgeSeconds, raw.bps,
          raw.founderTier, raw.founderExpiresAt} \subseteq Nat
      /\ raw.policy \in Rules /\ raw.attestedAt \in Option(Nat)

VARIABLES
    clock,
    step, reached, draft,   \* the form of each tab
    pc,                     \* where its issuance is
    order,                  \* what is being assembled or issued, {} or one
    shown,                  \* the assembled result is on the screen
    progress,               \* of each transaction, as the screen has it
    tx,                     \* which of them the submission is at
    requests,               \* how many times a tab has asked the api
    rows,                   \* the tokens table: of each number a row, {} or one
    count,                  \* token_count
    tokens,                 \* the issued tokens, by number
    flight,                 \* transactions sent and not yet executed
    landed,                 \* executed ones, with what came of them
    mirrored                \* the tokens whose metadata the worker has applied

formVars == <<step, reached, draft>>
tabVars == <<formVars, pc, order, shown, progress, tx>>
chainVars == <<count, tokens, landed>>
vars == <<clock, tabVars, requests, rows, chainVars, flight, mirrored>>

STEPS == 1 .. 5
ClauseSteps == 1 .. 4
TX_STEPS == <<"create-token", "token-metadata", "hook-accounts">>
Waiting == [i \in DOMAIN TX_STEPS |-> "waiting"]
AllConfirmed == [i \in DOMAIN TX_STEPS |-> "confirmed"]

Identity(body) == [word |-> body.title.word, decimals |-> body.decimals]

The(set) == CHOOSE x \in set : TRUE

Init ==
    /\ clock = 0
    /\ step = [t \in Tab |-> IF t \in Walkers THEN 1 ELSE 5] /\ reached = step
    /\ \E family \in Families :
         draft \in {d \in [DOMAIN family -> UNION Range(family)] : \A t \in DOMAIN d : d[t] \in family[t]}
    /\ pc = [t \in Tab |-> "form"] /\ order = [t \in Tab |-> {}]
    /\ shown = [t \in Tab |-> FALSE] /\ progress = [t \in Tab |-> <<>>]
    /\ tx = [t \in Tab |-> 1] /\ requests = 0
    /\ rows = <<>> /\ count = 0 /\ tokens = <<>>
    /\ flight = {} /\ landed = {} /\ mirrored = {}

-----------------------------------------------------------------------------
(* The form *)

Field(s) ==
    CASE s = 1 -> {"title", "decimals", "initialSupply", "acknowledged"}
      [] s = 2 -> {"sources", "minTier", "attestationAgeHours", "jurisdictions",
                   "founderTier", "founderJurisdiction"}
      [] s = 3 -> {"transferLimit", "periodLimit", "periodHours"}
      [] s = 4 -> {"reserveAmount", "reserveCurrency", "reserveAgeHours", "addresses", "feeBps"}
      [] OTHER -> {}

\* The fields of a step are filled in on it.
Edit(t) ==
    /\ t \notin Callers /\ pc[t] = "form"
    /\ \E family \in {f \in Families : DOMAIN f = DOMAIN draft /\ \A u \in DOMAIN f : draft[u] \in f[u]} :
       \E d \in family[t] \ {draft[t]} :
         /\ \A f \in DOMAIN d \ Field(step[t]) : d[f] = draft[t][f]
         /\ draft' = [draft EXCEPT ![t] = d]
    /\ UNCHANGED <<clock, step, reached, pc, order, shown, progress, tx, requests, rows, chainVars, flight, mirrored>>

\* Continue asks the step; the rail and Back lead to what was reached, and a clause
\* of the rulebook to its own step.  Leaving the review drops what it assembled.
MayGo(t, n) ==
    \/ n <= reached[t]
    \/ n \in ClauseSteps
    \/ n = step[t] + 1 /\ ReadyAt(step[t], draft[t])

GoTo(t, n) ==
    /\ t \in Walkers /\ pc[t] \in {"form", "assembled"}
    /\ n # step[t] /\ MayGo(t, n)
    /\ step' = [step EXCEPT ![t] = n]
    /\ reached' = [reached EXCEPT ![t] = Max({@, n})]
    /\ pc' = [pc EXCEPT ![t] = "form"] /\ order' = [order EXCEPT ![t] = {}]
    /\ shown' = [shown EXCEPT ![t] = FALSE] /\ progress' = [progress EXCEPT ![t] = <<>>]
    /\ UNCHANGED <<clock, draft, tx, requests, rows, chainVars, flight, mirrored>>

-----------------------------------------------------------------------------
(* POST /api/tokens *)

Server(t, next) ==
    /\ pc' = [pc EXCEPT ![t] = next]
    /\ UNCHANGED <<clock, formVars, shown, progress, tx, chainVars, flight, mirrored>>

\* A slip of routes/tokens.ts: an attestation dated in the future is taken.
AttestedOrLater(body, now) == now - body.attestedAt <= body.maxAgeSeconds

Attested(body, now) == now - body.attestedAt \in 0 .. body.maxAgeSeconds

\* The route up to its first read.  An attestation that is not current is refused.
Asked(t, body) ==
    /\ pc[t] = "form"
    /\ requests < MaxRequests /\ requests' = requests + 1
    /\ Attested(body, clock)
    /\ order' = [order EXCEPT ![t] = {[body |-> body, at |-> clock, number |-> 0, built |-> 0]}]
    /\ UNCHANGED rows
    /\ Server(t, "asked")

\* prepare.
Prepare(t) ==
    /\ t \notin Callers /\ step[t] = 5
    /\ ReadyAt(5, draft[t])
    /\ \E skew \in IF t \in Walkers THEN Skew ELSE {0} :
         \E body \in toCreateTokenBody(draft[t], clock + skew) : Asked(t, body)

\* Another client posts its body; what it is given it signs and sends as a tab does.
Post(t) ==
    /\ t \in Callers
    /\ \E body \in PostedBody(draft[t], clock) : Asked(t, body)

\* chain.tokenCount.
ReadCount(t) ==
    /\ pc[t] = "asked"
    /\ order' = [order EXCEPT ![t] = {[o EXCEPT !.number = count] : o \in @}]
    /\ UNCHANGED <<requests, rows>>
    /\ Server(t, "counted")

\* The insert, which does nothing when the number has a row.
Reserve(t) ==
    /\ pc[t] = "counted"
    /\ \E o \in order[t] :
         /\ o.number = Len(rows)
         /\ rows' = Append(rows, [names |-> Identity(o.body), state |-> "pending", since |-> clock])
    /\ UNCHANGED <<requests, order>>
    /\ Server(t, "reserved")

\* decideReservation.
Takeover(row, o) ==
    /\ row.state = "pending"
    /\ row.names = Identity(o.body) \/ o.at - row.since > TTL

\* The row is read once the insert has found it; a number held by another is refused.
Decide(t) ==
    /\ pc[t] = "counted"
    /\ UNCHANGED <<requests, rows>>
    /\ \E o \in order[t] :
         /\ o.number < Len(rows)
         /\ IF Takeover(rows[o.number + 1], o)
            THEN UNCHANGED order /\ Server(t, "taking")
            ELSE order' = [order EXCEPT ![t] = {}] /\ Server(t, "form")

\* A slip of issuance.ts: the update does not ask whether the row is still pending.
RenamedAnyway(row, o) == [row EXCEPT !.names = Identity(o.body)]

Renamed(row, o) == IF row.state = "pending" THEN [row EXCEPT !.names = Identity(o.body)] ELSE row

\* The row is rewritten for this issuance; since when it is held stays.
Take(t) ==
    /\ pc[t] = "taking"
    /\ \E o \in order[t] : rows' = [rows EXCEPT ![o.number + 1] = Renamed(@, o)]
    /\ UNCHANGED <<requests, order>>
    /\ Server(t, "reserved")

\* The transactions, all with one blockhash, and the screen that shows them; or the
\* answer is lost on its way.
Assemble(t) ==
    /\ pc[t] = "reserved"
    /\ pc' = [pc EXCEPT ![t] = "assembled"]
    /\ order' = [order EXCEPT ![t] = {[o EXCEPT !.built = clock] : o \in @}]
    /\ shown' = [shown EXCEPT ![t] = TRUE]
    /\ progress' = [progress EXCEPT ![t] = Waiting]
    /\ UNCHANGED <<clock, formVars, tx, requests, rows, chainVars, flight, mirrored>>

AnswerLost(t) ==
    /\ pc[t] \in {"asked", "counted", "taking", "reserved"}
    /\ order' = [order EXCEPT ![t] = {}]
    /\ UNCHANGED <<requests, rows>>
    /\ Server(t, "form")

\* Back to editing, which is offered while the transactions are under way too.
Reset(t) ==
    /\ shown[t] /\ progress[t] # AllConfirmed
    /\ shown' = [shown EXCEPT ![t] = FALSE] /\ progress' = [progress EXCEPT ![t] = <<>>]
    /\ pc' = [pc EXCEPT ![t] = IF @ = "assembled" THEN "form" ELSE @]
    /\ order' = [order EXCEPT ![t] = IF pc[t] = "assembled" THEN {} ELSE @]
    /\ UNCHANGED <<clock, formVars, tx, requests, rows, chainVars, flight, mirrored>>

-----------------------------------------------------------------------------
(* Signing, sending and confirming: submit *)

\* advance: the screen's line of a transaction, while there is a screen.
Advanced(t, i, phase) ==
    IF shown[t] THEN [progress EXCEPT ![t][i] = phase] ELSE progress

Transaction(t, i) == [by |-> t, step |-> i, order |-> The(order[t])]

Submitting(t, i, next) ==
    /\ pc' = [pc EXCEPT ![t] = next]
    /\ tx' = [tx EXCEPT ![t] = IF next \in {"signing", "confirming"} THEN i ELSE 1]
    /\ order' = [order EXCEPT ![t] = IF next = "form" THEN {} ELSE @]
    /\ UNCHANGED <<clock, formVars, shown, requests, rows, chainVars, mirrored>>

\* It always starts from the first transaction.
Submit(t) ==
    /\ t \notin Walkers /\ pc[t] = "assembled" /\ progress[t] # AllConfirmed
    /\ progress' = Advanced(t, 1, "signing")
    /\ UNCHANGED flight
    /\ Submitting(t, 1, "signing")

\* What a transaction finds on the chain.
Executes(x) ==
    LET o == x.order
        token == tokens[o.number + 1]
    IN  CASE TX_STEPS[x.step] = "create-token" ->
               o.number = count /\ CreateRefusals(o.body, clock) = {}
          [] TX_STEPS[x.step] = "token-metadata" ->
               o.number < count /\ token.named = {} /\ TitleFits(o.body)
          [] OTHER -> o.number < count /\ ~token.hooked

Good(x) == clock - x.order.built <= Life

\* The node tries a transaction before it takes it, and takes none a second time.
Send(t) ==
    /\ pc[t] = "signing"
    /\ LET x == Transaction(t, tx[t])
       IN  /\ Good(x) /\ Executes(x)
           /\ \A ok \in BOOLEAN : [tx |-> x, ok |-> ok] \notin landed
           /\ flight' = flight \cup {x}
    /\ progress' = Advanced(t, tx[t], "confirming")
    /\ Submitting(t, tx[t], "confirming")

\* A slip of wizard/issuance.ts: a transaction that failed is confirmed too.
PassedExecuted(x) == \E ok \in BOOLEAN : [tx |-> x, ok |-> ok] \in landed

\* waitForConfirmation returns.
Passed(x) == [tx |-> x, ok |-> TRUE] \in landed

Confirm(t) ==
    /\ pc[t] = "confirming"
    /\ Passed(Transaction(t, tx[t]))
    /\ UNCHANGED flight
    /\ LET done == Advanced(t, tx[t], "confirmed")
       IN  IF tx[t] = Len(TX_STEPS)
           THEN /\ progress' = done
                /\ Submitting(t, tx[t], IF shown[t] THEN "assembled" ELSE "form")
           ELSE /\ progress' = [done EXCEPT ![t] =
                                  IF shown[t] THEN [@ EXCEPT ![tx[t] + 1] = "signing"] ELSE @]
                /\ Submitting(t, tx[t] + 1, "signing")

\* A signature refused, a node that will not take it, a failed transaction, or thirty
\* seconds without an answer: the first line not confirmed has failed.
GiveUp(t) ==
    /\ pc[t] \in {"signing", "confirming"}
    /\ UNCHANGED flight
    /\ LET open == {i \in DOMAIN progress[t] : progress[t][i] # "confirmed"}
       IN  progress' = IF open = {} THEN progress
                       ELSE [progress EXCEPT ![t][Min(open)] = "failed"]
    /\ Submitting(t, tx[t], IF shown[t] THEN "assembled" ELSE "form")

-----------------------------------------------------------------------------
(* The chain and the worker *)

\* A transaction in flight is executed while its blockhash is good, whether or not
\* anyone still waits for it; what it finds may have changed since it was tried.
Land ==
    \E x \in flight :
      /\ Good(x)
      /\ flight' = flight \ {x}
      /\ landed' = landed \cup {[tx |-> x, ok |-> Executes(x)]}
      /\ IF ~Executes(x) THEN UNCHANGED <<count, tokens>>
         ELSE CASE TX_STEPS[x.step] = "create-token" ->
                     /\ count' = count + 1
                     /\ tokens' = Append(tokens,
                          [body |-> x.order.body, by |-> x.by, named |-> {}, hooked |-> FALSE])
                [] TX_STEPS[x.step] = "token-metadata" ->
                     /\ tokens' = [tokens EXCEPT ![x.order.number + 1].named = {x.order.body.title.word}]
                     /\ UNCHANGED count
                [] OTHER ->
                     /\ tokens' = [tokens EXCEPT ![x.order.number + 1].hooked = TRUE]
                     /\ UNCHANGED count
      /\ UNCHANGED <<clock, tabVars, requests, rows, mirrored>>

\* The worker applies a creation, then the metadata: the row goes live under the
\* name it has, then takes the chain's.
MirrorCreated ==
    \E n \in 1 .. count \cap DOMAIN rows :
      /\ rows[n].state = "pending"
      /\ rows' = [rows EXCEPT ![n].state = "live", ![n].names.decimals = tokens[n].body.decimals]
      /\ UNCHANGED <<clock, tabVars, requests, chainVars, flight, mirrored>>

MirrorNamed ==
    \E n \in 1 .. count \ mirrored :
      /\ rows[n].state = "live" /\ tokens[n].named # {}
      /\ rows' = [rows EXCEPT ![n].names.word = The(tokens[n].named)]
      /\ mirrored' = mirrored \cup {n}
      /\ UNCHANGED <<clock, tabVars, requests, chainVars, flight>>

Tick ==
    /\ clock < MaxTime
    /\ clock' = clock + 1
    /\ UNCHANGED <<tabVars, requests, rows, chainVars, flight, mirrored>>

Next ==
    \/ \E t \in DOMAIN draft :
         \/ Edit(t) \/ (\E n \in STEPS : GoTo(t, n)) \/ Prepare(t) \/ Post(t)
         \/ ReadCount(t) \/ Reserve(t) \/ Decide(t) \/ Take(t) \/ Assemble(t) \/ AnswerLost(t)
         \/ Reset(t) \/ Submit(t) \/ Send(t) \/ Confirm(t) \/ GiveUp(t)
    \/ Land \/ MirrorCreated \/ MirrorNamed \/ Tick

Spec == Init /\ [][Next]_vars

-----------------------------------------------------------------------------
(* Properties *)

\* A tab that says "Issued" has its own token on the chain, whole: created from its
\* body, named and with the hook's accounts.  And the row of a token whose metadata
\* the worker has seen names that token, whoever else wrote it while reserving.
IssuedAsNamed ==
    /\ \A t \in Tab : progress[t] = AllConfirmed =>
         \E o \in order[t] :
           /\ o.number < count
           /\ LET token == tokens[o.number + 1]
              IN  token.by = t /\ token.body = o.body /\ token.hooked
                  /\ token.named = {o.body.title.word}
    /\ \A n \in mirrored :
         tokens[n].named = {rows[n].names.word} /\ tokens[n].body.decimals = rows[n].names.decimals

\* Of the bodies that the api lets through to be signed, create_token would refuse, at
\* that instant, only those wrong in one of two fields which the api leaves open: the
\* period of the reserve's attestation, above, and the end of the founder's status,
\* which may have passed already.  The console asks for no such end.
RouteMirrorsProgram ==
    \A t \in {u \in Tab : pc[u] = "asked"} : \A o \in order[t] :
      /\ CreateRefusals(o.body, o.at) \subseteq {"AttestationMaxAgeInvalid", "HolderStatusAlreadyExpired"}
      /\ "HolderStatusAlreadyExpired" \in CreateRefusals(o.body, o.at) => t \in Callers
      /\ TitleFits(o.body)

\* The sentences a body would have.
ClausesSigned(body) ==
    LET policy == body.policy
        status == The(policy.status)
    IN  [decimals |-> body.decimals, initialSupply |-> {body.initialSupply},
         sources |-> ToSet(status.sources), minTier |-> status.minTier,
         providerAge |-> status.maxAge,
         jurisdictions |-> UNION {ToSet(codes) : codes \in policy.jurisdictions},
         transfersCapped |-> policy.transferLimit # {}, transferCap |-> policy.transferLimit,
         periodsCapped |-> policy.periodLimit # {},
         periodCap |-> {limit.amount : limit \in policy.periodLimit},
         period |-> {limit.windowSeconds : limit \in policy.periodLimit},
         reserve |-> {body.reserve}, currency |-> body.currency,
         reserveAge |-> {body.maxAgeSeconds}]

\* No digit that was typed is lost.
AsTyped(d, input, amount) == amount * 10 ^ input.places = input.digits * 10 ^ DecimalsOrZero(d)

\* Each scenario is answered as it is labelled.
ScenariosAsLabelled(policy) ==
    LET verdict == simulateScenarios(policy, clock)
    IN  /\ verdict["verified"] = "allowed"
        /\ verdict["unverified"] = "RECIPIENT_STATUS_MISSING"
        /\ verdict["denied"] = "RECIPIENT_DENIED"
        /\ verdict["paused"] = "TRANSFERS_PAUSED"
        /\ verdict["over-limit"] =
             IF ~buildScenario(policy, "over-limit", clock).applicable THEN "allowed"
             ELSE IF bindingLimit(policy) = policy.transferLimit THEN "TRANSFER_LIMIT_EXCEEDED"
             ELSE "PERIOD_LIMIT_EXCEEDED"

\* The founder's first transfer under the written policy: it passes exactly when the
\* issuer's own register is a source, whatever the founder's tier and country.
FounderSends(body) ==
    LET slots == The(EncodeRules(body.policy))
        ctx == [buildScenario(body.policy, "verified", clock).context EXCEPT
                  !.sender = FounderParty(body)]
        sources == ToSet(The(body.policy.status).sources)
    IN  Evaluate(ReadPolicy(slots), ctx) =
          IF "register" \in sources THEN "allowed" ELSE "STATUS_SOURCE_NOT_ACCEPTED"

\* What the rulebook shows before anything is signed is what the program will do.
\* Its sentences, once the step of the limits is ready, are those of the body, and of
\* the amounts as they were typed; its scenarios are answered as labelled; and of the
\* founder, the program's own checks say whether the first transfer can be made.
RulebookTells ==
    \A t \in DOMAIN draft \cap Walkers :
      LET d == draft[t]
      IN  /\ \A policy \in parsedPolicy(d) : ScenariosAsLabelled(policy)
          /\ \A body \in toCreateTokenBody(d, clock) :
               /\ FounderSends(body)
               /\ AsTyped(d, d.initialSupply, body.initialSupply)
               /\ AsTyped(d, d.reserveAmount, body.reserve)
               /\ ReadyAt(3, d) =>
                    /\ buildClauses(d) = ClausesSigned(body)
                    /\ \A amount \in body.policy.transferLimit : AsTyped(d, d.transferLimit, amount)
=============================================================================
