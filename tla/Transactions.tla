---------------------------- MODULE Transactions ----------------------------
(***************************************************************************)
(* A transaction on its way to the two readings: a client composes it from *)
(* the builders' plans, or a program of another issuer's invokes hooked    *)
(* transfers of its own, and it lands whole or fails at one instruction.   *)
(* What a request means is stated here once more, from the request alone;  *)
(* the indexer's and the verifier's readings are compared with it.         *)
(***************************************************************************)
EXTENDS WorkerDecode, VerifierDecode

LOCAL INSTANCE SequencesExt
LOCAL INSTANCE FiniteSets

CONSTANTS Requests,     \* what clients may ask for
          Failures,     \* the custom errors a hooked transfer may end with
          MaxOuter      \* instructions in one transaction

VARIABLES outer,    \* the instructions composed so far, with what they invoke
          asked,    \* the requests they come from
          state,    \* "composing", "landed" or "failed"
          err       \* where and with what it failed

vars == <<outer, asked, state, err>>

(***************************************************************************)
(* The plan of a request, and the instructions invoked under it.           *)
(***************************************************************************)
PlanOf(r) ==
  CASE r.kind = "propose" -> ProposeAction(r)
    [] r.kind = "proposeDelegation" -> ProposeDelegation(r)
    [] r.kind = "approve" -> ApproveAction(r)
    [] r.kind = "close" -> CloseActionProposal(r)
    [] r.kind = "setPolicy" -> SetPolicy(r)
    [] r.kind = "setAttestor" -> SetAttestor(r)
    [] r.kind = "setDelegation" -> SetDelegation(r)
    [] r.kind = "seize" -> Seize(r)
    [] r.kind = "pause" -> ChangeCirculation("pauseCirculation", r)
    [] r.kind = "resume" -> ChangeCirculation("resumeCirculation", r)
    [] r.kind = "mint" -> Mint(r)
    [] r.kind = "attest" -> AttestReserve(r)
    [] r.kind = "freeze" -> FreezeHolder(r)
    [] r.kind = "unfreeze" -> UnfreezeHolder(r)
    [] r.kind = "thaw" -> ThawHolder(r)
    [] r.kind = "setStatus" -> SetHolderStatus(r)
    [] r.kind = "found" -> InitializeIssuer(r)
    [] r.kind = "issue" -> CreateToken(r)
    [] r.kind = "name" -> SetTokenMetadata(r)
    [] r.kind = "hookAccounts" -> InitializeExtraAccountMetaList(r)
    [] r.kind = "transfer" -> Transfer(r)
    [] r.kind = "foreign" ->
         Plan(r.owner, << [program |-> <<"program", "foreign">>,
                           name |-> "swap", args |-> [amount |-> r.amount],
                           accounts |-> << r.owner >>,
                           signers |-> {r.owner}] >>, FALSE)

(* A hooked transfer invokes the hook; the foreign program transfers twice. *)
InnerOf(r) ==
  CASE r.kind = "transfer" -> << Execute(r) >>
    [] r.kind = "foreign" -> << TransferChecked(r), Execute(r),
                                TransferChecked(r), Execute(r) >>
    [] OTHER -> << >>

Init == /\ outer = << >>
        /\ asked = << >>
        /\ state = "composing"
        /\ err = Nothing

Compose(r) ==
  /\ state = "composing"
  /\ Len(outer) < MaxOuter
  /\ outer' = Append(outer, [instruction |-> PlanOf(r).instructions[1],
                             inner |-> InnerOf(r)])
  /\ asked' = Append(asked, r)
  /\ UNCHANGED <<state, err>>

Land ==
  /\ state = "composing" /\ outer # << >>
  /\ state' = "landed"
  /\ UNCHANGED <<outer, asked, err>>

(***************************************************************************)
(* The transaction fails at its i-th instruction.  What that instruction   *)
(* invoked stops at the call that failed; what follows it invoked nothing. *)
(* A transfer fails in the token program, before the hook is called, or in *)
(* the hook; a program that invoked it passes its error on, and one that   *)
(* fails of its own accord has invoked no transfer.                        *)
(***************************************************************************)
Cut(i, invoked) ==
  [j \in DOMAIN outer |->
     IF j < i THEN outer[j]
     ELSE [outer[j] EXCEPT !.inner = IF j = i THEN SubSeq(@, 1, invoked)
                                     ELSE << >>]]

FailingCall(i, invoked) ==
  IF invoked = 0 THEN outer[i].instruction ELSE outer[i].inner[invoked]

OfItsOwn(i, invoked) == FailingCall(i, invoked).name = "swap"

CanFailWith(i, invoked, custom) ==
  CASE FailingCall(i, invoked).name = "execute" -> custom >= ANCHOR_ERROR_OFFSET
    [] FailingCall(i, invoked).name = "transferChecked" ->
         custom < ANCHOR_ERROR_OFFSET
    [] OTHER -> TRUE

Fail(i, invoked, custom) ==
  /\ state = "composing"
  /\ custom = NoNumber \/ CanFailWith(i, invoked, custom)
  /\ outer' = Cut(i, invoked)
  /\ err' = Just([index |-> i - 1, custom |-> custom])
  /\ state' = "failed"
  /\ UNCHANGED asked

(* Refused before any instruction ran: a fee not paid, a blockhash expired. *)
Bounce ==
  /\ state = "composing" /\ outer # << >>
  /\ outer' = Cut(0, 0)
  /\ err' = Just([index |-> -1, custom |-> NoNumber])
  /\ state' = "failed"
  /\ UNCHANGED asked

Next ==
  \/ \E r \in Requests : Compose(r)
  \/ Land
  \/ \E i \in DOMAIN outer : \E invoked \in 0..Len(outer[i].inner) :
       \E custom \in Failures \cup {NoNumber} : Fail(i, invoked, custom)
  \/ Bounce

Spec == Init /\ [][Next]_vars

Response == [signature |-> "sig", slot |-> 1, outer |-> outer, err |-> err]

(***************************************************************************)
(* What a request means: the lines of the journal it is answered by, from  *)
(* the request alone.                                                      *)
(***************************************************************************)
MeansStatus(s) ==
  [s EXCEPT !.expiresAt = IF @ = 0 THEN Nothing ELSE Just(@)]

MeansAction(r, action, target, amount, signers, maxAge) ==
  << [kind |-> "compliance", mint |-> r.mint, action |-> action,
      target |-> target, amount |-> amount, reason |-> r.reason,
      signers |-> signers, maxAge |-> maxAge] >>

MeansTransfer(r, kind) ==
  [kind |-> kind, mint |-> r.mint, amount |-> r.amount,
   sender |-> r.owner, recipient |-> r.recipient,
   source |-> AssociatedAccount(r.mint, r.owner),
   destination |-> AssociatedAccount(r.mint, r.recipient)]

MeansAttestation(mint, index, r) ==
  [kind |-> "attestation", mint |-> mint, index |-> index,
   amount |-> r.amount, currency |-> r.currency, attestor |-> r.attestor,
   attestedAt |-> r.attestedAt, expiresAt |-> r.attestedAt + r.maxAge]

MeansThaw(mint, wallet, authority, status) ==
  [kind |-> "thaw", mint |-> mint, wallet |-> wallet,
   tokenAccount |-> AssociatedAccount(mint, wallet),
   authority |-> authority, status |-> status]

Means(r) ==
  CASE r.kind = "setPolicy" ->
         MeansAction(r, "set_policy", Nothing, Nothing, r.quorum.members, Nothing)
    [] r.kind = "setAttestor" ->
         MeansAction(r, "set_attestor", Just(r.attestor), Nothing,
                     r.quorum.members, Just(r.maxAge))
    [] r.kind = "seize" ->
         MeansAction(r, "seize", Just(r.tokenAccount), Just(r.amount),
                     r.approvers, Nothing)
    [] r.kind = "pause" ->
         MeansAction(r, "pause", Nothing, Nothing, r.approvers, Nothing)
    [] r.kind = "resume" ->
         MeansAction(r, "unpause", Nothing, Nothing, r.approvers, Nothing)
    [] r.kind \in {"freeze", "unfreeze"} ->
         MeansAction(r, r.kind, Just(r.tokenAccount), Nothing, << r.officer >>,
                     Nothing)
    [] r.kind = "attest" -> << MeansAttestation(r.mint, r.index, r) >>
    [] r.kind = "thaw" ->
         << MeansThaw(r.mint, r.wallet, r.authority,
                      IF r.status = Nothing THEN Nothing
                      ELSE Just(MeansStatus(r.status[1]))) >>
    [] r.kind = "setStatus" ->
         << [kind |-> "holder_status", mint |-> r.mint, wallet |-> r.wallet,
             authority |-> r.authority, status |-> MeansStatus(r.status)] >>
    [] r.kind = "issue" ->
         LET mint == MintPda(r.issuerId, r.tokenIndex)
         IN  << MeansAttestation(mint, 0, r),
                MeansThaw(mint, r.founder, r.founder,
                          Just(MeansStatus(r.status))) >>
    [] r.kind = "transfer" -> << MeansTransfer(r, "transfer") >>
    [] r.kind = "foreign" -> << MeansTransfer(r, "transfer"),
                                MeansTransfer(r, "transfer") >>
    [] OTHER -> << >>

(* What it means for the mirror of the chain's state. *)
MeansChanges(r) ==
  CASE r.kind = "found" ->
         << [kind |-> "issuer_initialized", issuerId |-> r.issuerId,
             founder |-> r.founder, key |-> r.key, mask |-> r.mask,
             quorumN |-> r.quorumN, members |-> r.members] >>
    [] r.kind = "issue" ->
         LET mint == MintPda(r.issuerId, r.tokenIndex)
         IN  << [kind |-> "token_created", mint |-> mint,
                 issuerId |-> r.issuerId, policyVersion |-> 1],
                [kind |-> "holder_thawed", mint |-> mint, wallet |-> r.founder,
                 status |-> Just(MeansStatus(r.status))] >>
    [] r.kind = "name" ->
         << [kind |-> "token_metadata", mint |-> r.mint, name |-> r.name] >>
    [] r.kind = "setPolicy" ->
         << [kind |-> "token_policy", mint |-> r.mint,
             policyVersion |-> r.version] >>
    [] r.kind = "thaw" ->
         << [kind |-> "holder_thawed", mint |-> r.mint, wallet |-> r.wallet,
             status |-> IF r.status = Nothing THEN Nothing
                        ELSE Just(MeansStatus(r.status[1]))] >>
    [] r.kind = "setStatus" ->
         << [kind |-> "holder_status", mint |-> r.mint, wallet |-> r.wallet,
             status |-> MeansStatus(r.status)] >>
    [] r.kind = "setDelegation" ->
         << [kind |-> "delegation_set", issuerId |-> r.issuerId,
             key |-> r.key, mask |-> r.mask, signers |-> r.quorum.members,
             proposal |-> IF r.quorum.kind = "proposal"
                          THEN Just(r.quorum.proposal) ELSE Nothing] >>
    [] OTHER -> << >>

(* A refusal names the code of its number, and the slot of the rule the    *)
(* code belongs to in the policy of the transfer.                          *)
MeansRefusal(r, custom) ==
  LET code == IF custom = 17 THEN Just("ACCOUNT_FROZEN")
              ELSE IF custom = 67 THEN Just("TRANSFERS_PAUSED")
              ELSE RefusalCodeFromAnchorError(custom)
      ofRule == {n \in DOMAIN RulesAt[r.version] :
                   code # Nothing /\ RuleKindOf(code[1]) = Just(RulesAt[r.version][n])}
  IN  IF custom < ANCHOR_ERROR_OFFSET /\ code = Nothing THEN << >>
      ELSE << MeansTransfer(r, "refusal")
                @@ [code |-> code, programError |-> custom,
                    ruleSlot |-> IF ofRule = {} THEN Nothing
                                 ELSE Just((CHOOSE n \in ofRule : TRUE) - 1)] >>

MeansOutcome ==
  IF state = "landed"
  THEN FlattenSeq([i \in DOMAIN asked |-> Means(asked[i])])
  ELSE LET i == err[1].index + 1
       IN  IF \/ i = 0
              \/ err[1].custom = NoNumber
              \/ asked[i].kind \notin {"transfer", "foreign"}
              \/ OfItsOwn(i, Len(outer[i].inner))
           THEN << >>
           ELSE MeansRefusal(asked[i], err[1].custom)

(***************************************************************************)
(* Properties.                                                             *)
(***************************************************************************)
Over == state \in {"landed", "failed"}

(* The indexer, which counts positions, and the verifier, which looks roles *)
(* up, read the same events out of every transaction, in the same order and *)
(* with the same numbers: otherwise an honest export would be reported as   *)
(* mismatched (apps/worker decode.ts, tools/verify-journal decode.ts).      *)
ReadingsAgree ==
  Over => DecodeTransaction(Response).events = ReadTransaction(Response)

(* What the journal and the mirror are told of a transaction is what its    *)
(* requests asked for: every party, amount and signer in its place through  *)
(* the builders, the account order of the interface and the decoding,       *)
(* whatever else the transaction carries; of a failed one, the refusal of   *)
(* the transfer that failed and nothing else; and two delegation changes of *)
(* one transaction never share the index that keys their history            *)
(* (tx/*.ts, apps/worker decode.ts).                                        *)
Without(record, fields) ==
  [f \in DOMAIN record \ fields |-> record[f]]

EventsAsAsked ==
  LET events == DecodeTransaction(Response).events
  IN  [n \in DOMAIN events |->
         Without(events[n], {"signature", "slot", "eventIndex"})] = MeansOutcome

ChangesAsAsked ==
  LET changes == DecodeTransaction(Response).changes
      keyed == {n \in DOMAIN changes : changes[n].kind = "delegation_set"}
  IN  /\ [n \in DOMAIN changes |-> Without(changes[n], {"changeIndex"})]
           = IF state # "landed" THEN << >>
             ELSE FlattenSeq([i \in DOMAIN asked |-> MeansChanges(asked[i])])
      /\ \A m, n \in keyed :
           changes[m].changeIndex = changes[n].changeIndex => m = n

SaysWhatWasAsked == Over => EventsAsAsked /\ ChangesAsAsked

(* Every address a builder derives is the one the interface derives from    *)
(* the other accounts and the arguments of the same instruction, an absent  *)
(* account is the program itself, and the arguments are those the interface *)
(* takes: otherwise the person signs a transaction the program refuses.  The *)
(* hook's list, which reads fields by their place, leads to those addresses *)
(* too, and the filters to the accounts they mean (pda.ts, tx/*.ts and     *)
(* hook/extra_accounts.rs against the seeds and the types of the IDL).     *)
Known(ix, r) ==
  [role \in {AccountsOf[ix.name][i].name : i \in DOMAIN AccountsOf[ix.name]} |->
     Get(ix, role)] @@ ix.args @@ r
       @@ [firstVersion |-> 1, firstIndex |-> 0, scope |-> r.mint,
           tokenCount |-> r.tokenIndex, attestationCount |-> r.index]

DerivedAsDeclared(ix, r) ==
  \A i \in DOMAIN AccountsOf[ix.name] :
    LET role == AccountsOf[ix.name][i]
    IN  role.seeds # << >> =>
          ix.accounts[i] =
            [k \in DOMAIN role.seeds |->
               IF k = 1 \/ role.seeds[1] = "program" THEN role.seeds[k]
               ELSE Known(ix, r)[role.seeds[k]]]

(* What the hook finds in each role of its `execute`, through the list whose *)
(* slices were fixed when the token was issued, is what the clients derive  *)
(* under that name.                                                        *)
HookFinds(role, address, r) == Get(Execute(r), role) = address
HookFindsItsAccounts(r) ==
  /\ HookFinds("tokenConfig", TokenConfigPda(r.mint), r)
  /\ HookFinds("policyConfig", PolicyConfigPda(r.mint, r.version), r)
  /\ HookFinds("senderStatus", HolderStatusPda(r.mint, r.owner), r)
  /\ HookFinds("senderVelocity", VelocityCounterPda(r.mint, r.owner), r)
  /\ HookFinds("recipientStatus", HolderStatusPda(r.mint, r.recipient), r)
  /\ HookFinds("senderAttestation", AttestationPda(r.mint, r.owner), r)
  /\ HookFinds("recipientAttestation", AttestationPda(r.mint, r.recipient), r)

(* A filter on the bytes after the discriminator finds accounts of the kind *)
(* it asks for and of no other, by the field it means.                     *)
FiltersFind ==
  /\ FilteredBy("actionProposal") = "scope" /\ FilteredBy("freezeRecord") = "mint"
  /\ \A a, b \in DOMAIN FieldsOf : Discriminator[a] = Discriminator[b] => a = b

(* Every address that is derived is so from an account or an argument of    *)
(* the same instruction, or from a field of an account in its list.        *)
KindOfRole(role) ==
  CASE role = "proposal" -> "actionProposal"
    [] role = "attestation" -> "reserveAttestation"
    [] role = "treasuryFreeze" -> "freezeRecord"
    [] OTHER -> role
FieldsOfRole(role) ==
  IF KindOfRole(role) \in DOMAIN FieldsOf
  THEN {f[1] : f \in ToSet(FieldsOf[KindOfRole(role)])} ELSE {}
SeedsAreKnown(name) ==
  LET roles == {role.name : role \in ToSet(AccountsOf[name])}
      known == roles \cup ArgsOf[name] \cup UNION {FieldsOfRole(role) : role \in roles}
  IN  \A role \in ToSet(AccountsOf[name]) :
        \A k \in 2 .. Len(role.seeds) :
          role.seeds[1] # "program" => role.seeds[k] \in known \cup {"firstVersion", "firstIndex"}

BuiltAsDeclared ==
  /\ FiltersFind
  /\ \A i \in DOMAIN asked :
       /\ asked[i].kind \in {"transfer", "foreign"} => HookFindsItsAccounts(asked[i])
       /\ \A ix \in ToSet(PlanOf(asked[i]).instructions) :
            ix.program = PROGRAM =>
              /\ SeedsAreKnown(ix.name)
              /\ DerivedAsDeclared(ix, asked[i])
              /\ DOMAIN ix.args = ArgsOf[ix.name]
              /\ "action" \in DOMAIN ix.args =>
                   DOMAIN ix.args.action
                     = ProposedAction[ix.args.action.kind] \cup {"kind"}
=============================================================================
