---------------------------- MODULE WorkerDecode ----------------------------
(***************************************************************************)
(* The indexer's reading of a transaction: the events of the journal and   *)
(* the changes to the mirror.  It takes accounts by position, numbered     *)
(* from zero as its table numbers them.                                    *)
(***************************************************************************)
EXTENDS Chain

LOCAL INSTANCE SequencesExt
LOCAL INSTANCE FiniteSets

(***************************************************************************)
(* The transaction view.                                                   *)
(***************************************************************************)
FailureOf(err) ==
  IF err = Nothing THEN Nothing
  ELSE IF err[1].index < 0
       THEN Just([outerIndex |-> 0, custom |-> NoNumber])
       ELSE Just([outerIndex |-> err[1].index, custom |-> err[1].custom])

(* Every instruction after the one that invoked it, with its outer index. *)
ToTransactionView(response) ==
  [signature |-> response.signature, slot |-> response.slot,
   instructions |-> FlattenSeq([i \in DOMAIN response.outer |->
     LET all == << response.outer[i].instruction >> \o response.outer[i].inner
     IN  [j \in DOMAIN all |-> [instruction |-> all[j], outerIndex |-> i - 1]]]),
   failure |-> FailureOf(response.err)]

(***************************************************************************)
(* Where each instruction keeps its parties.                               *)
(***************************************************************************)
ACCOUNT == [
  initializeIssuer |-> [founder |-> 2],
  createToken |-> [founder |-> 0, attestor |-> 1, issuerConfig |-> 2,
                   mint |-> 3, founderTokenAccount |-> 7],
  setTokenMetadata |-> [mint |-> 2],
  setPolicy |-> [tokenConfig |-> 1, firstApprover |-> 6],
  thawHolder |-> [issuerConfig |-> 0, mint |-> 2, tokenAccount |-> 3,
                  authority |-> 7],
  freezeHolder |-> [issuerConfig |-> 0, mint |-> 2, tokenAccount |-> 3,
                    officer |-> 6],
  unfreezeHolder |-> [issuerConfig |-> 0, mint |-> 2, tokenAccount |-> 3,
                      officer |-> 6],
  seize |-> [issuerConfig |-> 0, mint |-> 2, source |-> 3, firstApprover |-> 10],
  changeCirculation |-> [issuerConfig |-> 0, mint |-> 2, firstApprover |-> 5],
  setHolderStatus |-> [tokenConfig |-> 1, authority |-> 3],
  attestReserve |-> [tokenConfig |-> 0, attestation |-> 1, attestor |-> 2],
  setDelegation |-> [issuerConfig |-> 0, proposal |-> 1, firstMember |-> 2],
  setAttestor |-> [tokenConfig |-> 1, firstMember |-> 3]]

At(ix, n) == ix.accounts[n + 1]
From(ix, n) == SubSeq(ix.accounts, n + 1, Len(ix.accounts))

IsHookedTransfer(ix) ==
  /\ ix.program = TOKEN2022
  /\ ix.name = "transferChecked"
  /\ PROGRAM \in ToSet(ix.accounts)

TRANSFER_POLICY_ACCOUNT == 4 + 1

(* On the chain an instant of zero is "never". *)
HolderStatus(input) ==
  [input EXCEPT !.expiresAt = IF @ = 0 THEN Nothing ELSE Just(@)]

(***************************************************************************)
(* Transfers and refusals.                                                 *)
(***************************************************************************)
TransferParties(ix) ==
  [source |-> At(ix, 0), destination |-> At(ix, 2),
   sender |-> OwnerOfTokenAccount(At(ix, 0)),
   recipient |-> OwnerOfTokenAccount(At(ix, 2))]

DecodeTransfer(ix) ==
  << [kind |-> "transfer", mint |-> At(ix, 1), amount |-> ix.args.amount]
       @@ TransferParties(ix) >>

RuleKindOf(code) ==
  CASE code \in {"SENDER_STATUS_MISSING", "RECIPIENT_STATUS_MISSING",
                 "STATUS_SOURCE_NOT_ACCEPTED", "STATUS_SOURCE_UNAVAILABLE",
                 "SENDER_DENIED", "RECIPIENT_DENIED",
                 "RECIPIENT_TIER_TOO_LOW"} -> Just("status")
    [] code = "RECIPIENT_JURISDICTION_NOT_ALLOWED" -> Just("jurisdictions")
    [] code = "TRANSFER_LIMIT_EXCEEDED" -> Just("transferLimit")
    [] code \in {"VELOCITY_COUNTER_MISSING", "PERIOD_LIMIT_EXCEEDED"} ->
         Just("periodLimit")
    [] OTHER -> Nothing

(* The first slot of the policy with a rule of the code's kind, from zero. *)
RuleSlotOf(rules, code) ==
  LET kind == IF code = Nothing THEN Nothing ELSE RuleKindOf(code[1])
      slots == {n \in 0..MAX_RULE_SLOTS - 1 :
                  n + 1 \in DOMAIN rules /\ Just(rules[n + 1]) = kind}
  IN  IF slots = {} THEN Nothing
      ELSE Just(CHOOSE n \in slots : \A m \in slots : n <= m)

TOKEN_PROGRAM_REFUSALS ==
  [n \in {17, 67} |-> IF n = 17 THEN "ACCOUNT_FROZEN" ELSE "TRANSFERS_PAUSED"]

DecodeRefusal(ix, custom) ==
  LET fromHook == custom >= ANCHOR_ERROR_OFFSET
      code == IF fromHook THEN RefusalCodeFromAnchorError(custom)
              ELSE IF custom \in DOMAIN TOKEN_PROGRAM_REFUSALS
                   THEN Just(TOKEN_PROGRAM_REFUSALS[custom]) ELSE Nothing
      rules == PolicyRulesAt(At(ix, TRANSFER_POLICY_ACCOUNT))
  IN  IF ~fromHook /\ code = Nothing THEN << >>
      ELSE << [kind |-> "refusal", mint |-> At(ix, 1),
               amount |-> ix.args.amount, code |-> code,
               programError |-> custom,
               ruleSlot |-> IF rules = Nothing THEN Nothing
                            ELSE RuleSlotOf(rules[1], code)]
                @@ TransferParties(ix) >>

(***************************************************************************)
(* The decoders: what one instruction adds, as events and as changes.      *)
(***************************************************************************)
Adds(events, changes) == [events |-> events, changes |-> changes]

DecodeInitializeIssuer(ix) ==
  Adds(<< >>, << [kind |-> "issuer_initialized", issuerId |-> ix.args.issuerId,
                  founder |-> At(ix, ACCOUNT.initializeIssuer.founder),
                  key |-> ix.args.operationalKey,
                  mask |-> ix.args.delegationMask,
                  quorumN |-> ix.args.quorumN,
                  members |-> ix.args.members] >>)

DecodeCreateToken(ix) ==
  LET p == ACCOUNT.createToken
      mint == At(ix, p.mint)
      founder == At(ix, p.founder)
      issuerId == IssuerIdOfConfig(At(ix, p.issuerConfig))
      status == HolderStatus(ix.args.founderStatus)
  IN  Adds(
        << [kind |-> "attestation", mint |-> mint, index |-> 0,
            amount |-> ix.args.reserveAmount,
            currency |-> ix.args.reserveCurrency,
            attestor |-> At(ix, p.attestor),
            attestedAt |-> ix.args.reserveAttestedAt,
            expiresAt |-> ix.args.reserveAttestedAt
                            + ix.args.attestationMaxAge],
           [kind |-> "thaw", mint |-> mint, wallet |-> founder,
            tokenAccount |-> At(ix, p.founderTokenAccount),
            authority |-> founder, status |-> Just(status)] >>,
        << [kind |-> "token_created", mint |-> mint, issuerId |-> issuerId,
            policyVersion |-> 1],
           [kind |-> "holder_thawed", mint |-> mint, wallet |-> founder,
            status |-> Just(status)] >>)

DecodeSetTokenMetadata(ix) ==
  Adds(<< >>, << [kind |-> "token_metadata",
                  mint |-> At(ix, ACCOUNT.setTokenMetadata.mint),
                  name |-> ix.args.name] >>)

Compliance(ix, mint, action, target, amount, signers) ==
  [kind |-> "compliance", mint |-> mint, action |-> action,
   target |-> target, amount |-> amount, reason |-> ix.args.reason,
   signers |-> signers, maxAge |-> Nothing]

DecodeSetPolicy(ix) ==
  LET p == ACCOUNT.setPolicy
      mint == TokenOfConfig(At(ix, p.tokenConfig)).mint
  IN  Adds(<< Compliance(ix, mint, "set_policy", Nothing, Nothing,
                         From(ix, p.firstApprover)) >>,
           << [kind |-> "token_policy", mint |-> mint,
               policyVersion |-> ix.args.version] >>)

DecodeThawHolder(ix) ==
  LET p == ACCOUNT.thawHolder
      status == IF ix.args.status = Nothing THEN Nothing
                ELSE Just(HolderStatus(ix.args.status[1]))
  IN  Adds(<< [kind |-> "thaw", mint |-> At(ix, p.mint),
               wallet |-> ix.args.wallet,
               tokenAccount |-> At(ix, p.tokenAccount),
               authority |-> At(ix, p.authority), status |-> status] >>,
           << [kind |-> "holder_thawed", mint |-> At(ix, p.mint),
               wallet |-> ix.args.wallet, status |-> status] >>)

DecodeSetHolderStatus(ix) ==
  LET p == ACCOUNT.setHolderStatus
      mint == TokenOfConfig(At(ix, p.tokenConfig)).mint
      status == HolderStatus(ix.args.status)
  IN  Adds(<< [kind |-> "holder_status", mint |-> mint,
               wallet |-> ix.args.wallet,
               authority |-> At(ix, p.authority), status |-> status] >>,
           << [kind |-> "holder_status", mint |-> mint,
               wallet |-> ix.args.wallet, status |-> status] >>)

DecodeFreeze(ix, action, p) ==
  Adds(<< Compliance(ix, At(ix, p.mint), action, Just(At(ix, p.tokenAccount)),
                     Nothing, << At(ix, p.officer) >>) >>, << >>)

(* A slip of DecodeSeize: the signers counted from one account early. *)
DecodeSeizeEarly(ix) ==
  LET p == ACCOUNT.seize
  IN  Adds(<< Compliance(ix, At(ix, p.mint), "seize", Just(At(ix, p.source)),
                         Just(ix.args.amount), From(ix, p.firstApprover - 1)) >>,
           << >>)

DecodeSeize(ix) ==
  LET p == ACCOUNT.seize
  IN  Adds(<< Compliance(ix, At(ix, p.mint), "seize", Just(At(ix, p.source)),
                         Just(ix.args.amount), From(ix, p.firstApprover)) >>,
           << >>)

DecodeChangeCirculation(ix, action) ==
  LET p == ACCOUNT.changeCirculation
  IN  Adds(<< Compliance(ix, At(ix, p.mint), action, Nothing, Nothing,
                         From(ix, p.firstApprover)) >>, << >>)

DecodeAttestReserve(ix) ==
  LET p == ACCOUNT.attestReserve
  IN  Adds(<< [kind |-> "attestation",
               mint |-> TokenOfConfig(At(ix, p.tokenConfig)).mint,
               index |-> AttestationIndexAt(At(ix, p.attestation)),
               amount |-> ix.args.amount, currency |-> ix.args.currency,
               attestor |-> At(ix, p.attestor),
               attestedAt |-> ix.args.attestedAt,
               expiresAt |-> ix.args.attestedAt
                               + ix.args.attestationMaxAge] >>, << >>)

DecodeSetAttestor(ix) ==
  LET p == ACCOUNT.setAttestor
      mint == TokenOfConfig(At(ix, p.tokenConfig)).mint
  IN  Adds(<< [Compliance(ix, mint, "set_attestor", Just(ix.args.attestor),
                          Nothing, From(ix, p.firstMember))
                 EXCEPT !.maxAge = Just(ix.args.attestationMaxAge)] >>, << >>)

(* A slip of DecodeSetDelegation: every change the first of its transaction. *)
DecodeSetDelegationUnnumbered(ix, changeIndex) ==
  LET p == ACCOUNT.setDelegation
      proposal == At(ix, p.proposal)
  IN  Adds(<< >>, << [kind |-> "delegation_set",
                      issuerId |-> IssuerIdOfConfig(At(ix, p.issuerConfig)),
                      changeIndex |-> 0,
                      key |-> ix.args.operationalKey, mask |-> ix.args.mask,
                      proposal |-> IF proposal = PROGRAM THEN Nothing
                                   ELSE Just(proposal),
                      signers |-> From(ix, p.firstMember)] >>)

(* The path is read from the proposal's slot: an absent account is the     *)
(* program itself.  The change's index counts those before it.             *)
DecodeSetDelegation(ix, changeIndex) ==
  LET p == ACCOUNT.setDelegation
      proposal == At(ix, p.proposal)
  IN  Adds(<< >>, << [kind |-> "delegation_set",
                      issuerId |-> IssuerIdOfConfig(At(ix, p.issuerConfig)),
                      changeIndex |-> changeIndex,
                      key |-> ix.args.operationalKey, mask |-> ix.args.mask,
                      proposal |-> IF proposal = PROGRAM THEN Nothing
                                   ELSE Just(proposal),
                      signers |-> From(ix, p.firstMember)] >>)

Decode(ix, changeIndex) ==
  CASE ix.name = "initializeIssuer" -> DecodeInitializeIssuer(ix)
    [] ix.name = "createToken" -> DecodeCreateToken(ix)
    [] ix.name = "setTokenMetadata" -> DecodeSetTokenMetadata(ix)
    [] ix.name = "setPolicy" -> DecodeSetPolicy(ix)
    [] ix.name = "thawHolder" -> DecodeThawHolder(ix)
    [] ix.name = "setHolderStatus" -> DecodeSetHolderStatus(ix)
    [] ix.name = "freezeHolder" ->
         DecodeFreeze(ix, "freeze", ACCOUNT.freezeHolder)
    [] ix.name = "unfreezeHolder" ->
         DecodeFreeze(ix, "unfreeze", ACCOUNT.unfreezeHolder)
    [] ix.name = "seize" -> DecodeSeize(ix)
    [] ix.name = "pauseCirculation" -> DecodeChangeCirculation(ix, "pause")
    [] ix.name = "resumeCirculation" -> DecodeChangeCirculation(ix, "unpause")
    [] ix.name = "attestReserve" -> DecodeAttestReserve(ix)
    [] ix.name = "setDelegation" -> DecodeSetDelegation(ix, changeIndex)
    [] ix.name = "setAttestor" -> DecodeSetAttestor(ix)
    [] OTHER -> Adds(<< >>, << >>)

(***************************************************************************)
(* One transaction: a failed one leaves at most the refusal of the last    *)
(* hooked transfer under the instruction that failed.                      *)
(***************************************************************************)
RefusedUnder(view) ==
  LET under == SelectSeq(view.instructions, LAMBDA v :
                 /\ v.outerIndex = view.failure[1].outerIndex
                 /\ IsHookedTransfer(v.instruction))
      custom == view.failure[1].custom
  IN  IF under = << >> \/ custom = NoNumber THEN << >>
      ELSE DecodeRefusal(Last(under).instruction, custom)

AddsOf(view, i) ==
  LET ix == view.instructions[i].instruction
      earlier == {j \in 1..i - 1 :
                    /\ view.instructions[j].instruction.program = PROGRAM
                    /\ view.instructions[j].instruction.name = "setDelegation"}
  IN  IF IsHookedTransfer(ix) THEN Adds(DecodeTransfer(ix), << >>)
      ELSE IF ix.program # PROGRAM THEN Adds(<< >>, << >>)
      ELSE Decode(ix, Cardinality(earlier))

Numbered(response, drafts) ==
  [n \in DOMAIN drafts |->
     drafts[n] @@ [signature |-> response.signature, slot |-> response.slot,
                   eventIndex |-> n - 1]]

DecodeTransaction(response) ==
  LET view == ToTransactionView(response)
      each == [i \in DOMAIN view.instructions |-> AddsOf(view, i)]
      drafts == IF view.failure # Nothing THEN RefusedUnder(view)
                ELSE FlattenSeq([i \in DOMAIN each |-> each[i].events])
  IN  [events |-> Numbered(response, drafts),
       changes |-> IF view.failure # Nothing THEN << >>
                   ELSE FlattenSeq([i \in DOMAIN each |-> each[i].changes])]
=============================================================================
