------------------------------ MODULE Builders ------------------------------
(***************************************************************************)
(* The client's transaction builders: from what a caller asks for, a       *)
(* request, to the instruction that travels.  An address is the tuple of   *)
(* what it is derived from, so two addresses are equal exactly when their  *)
(* derivations are; a wallet is a tuple of its own.  A builder names the   *)
(* accounts it passes by role; the accounts it leaves out are resolved by  *)
(* the client library, and the list follows the interface's order.         *)
(***************************************************************************)
EXTENDS Interface, TLC

(***************************************************************************)
(* Addresses.                                                              *)
(***************************************************************************)
PROGRAM == <<"program", "issuerForge">>
TOKEN2022 == <<"program", "token2022">>

IssuerConfigPda(issuerId) == <<"issuer", issuerId>>
MintPda(issuerId, index) == <<"mint", issuerId, index>>
TokenConfigPda(mint) == <<"token", mint>>
(* A slip of PolicyConfigPda: the address of the version before. *)
PolicyConfigPdaBefore(mint, version) == <<"policy", mint, version - 1>>

PolicyConfigPda(mint, version) == <<"policy", mint, version>>
HolderStatusPda(mint, wallet) == <<"holder", mint, wallet>>
VelocityCounterPda(mint, wallet) == <<"velocity", mint, wallet>>
FreezeRecordPda(tokenAccount) == <<"freeze", tokenAccount>>
ActionProposalPda(scope, nonce) == <<"proposal", scope, nonce>>
ReserveAttestationPda(mint, index) == <<"reserve", mint, index>>
ExtraAccountMetaListPda(mint) == <<"extra-account-metas", mint>>

(* The associated token account of a wallet, under Token-2022. *)
AssociatedAccount(mint, wallet) == <<"account", mint, wallet>>
SeizureVaultAddress(mint) == AssociatedAccount(mint, TokenConfigPda(mint))

(* A delegation change is raised under the issuer's own configuration. *)
DelegationProposalPda(issuerId, nonce) ==
  ActionProposalPda(IssuerConfigPda(issuerId), nonce)

(***************************************************************************)
(* Instructions.  `given` maps the roles a builder passes to addresses; an *)
(* absent optional account is passed as the program itself.  `members` are *)
(* the accounts after the declared list and sign when `signing`.           *)
(***************************************************************************)
FIRST_POLICY_VERSION == 1
FIRST_ATTESTATION_INDEX == 0

NoArgs == << >>

Passed(role, given) ==
  IF role.name \in DOMAIN given THEN given[role.name] ELSE role.seeds

Instruction(name, args, given, members, signing) ==
  LET declared == AccountsOf[name]
      list == [i \in DOMAIN declared |-> Passed(declared[i], given)]
  IN  [program |-> PROGRAM, name |-> name, args |-> args,
       accounts |-> list \o members,
       signers |-> {list[i] : i \in {j \in DOMAIN list : declared[j].signs}}
                     \cup {members[i] : i \in {j \in DOMAIN members : signing}}]

Plain(name, args, given) == Instruction(name, args, given, << >>, FALSE)

(* The two places a quorum comes from, never both. *)
ByQuorum(name, args, given, quorum) ==
  Instruction(name, args,
              given @@ [proposal |-> IF quorum.kind = "proposal"
                                     THEN quorum.proposal ELSE PROGRAM],
              quorum.members, quorum.kind = "immediate")

(* A transaction to sign: its payer and everyone an instruction asks for. *)
Plan(payer, instructions, dependsOnPrevious) ==
  [payer |-> payer, instructions |-> instructions,
   signers |-> {payer} \cup UNION {instructions[i].signers :
                                     i \in DOMAIN instructions},
   dependsOnPrevious |-> dependsOnPrevious]

(***************************************************************************)
(* Proposals.                                                              *)
(***************************************************************************)
ProposeAction(r) ==
  Plan(r.payer, << Plain("proposeAction",
    [nonce |-> r.nonce, termSeconds |-> r.termSeconds, action |-> r.action],
    [issuerConfig |-> IssuerConfigPda(r.issuerId),
     tokenConfig |-> TokenConfigPda(r.mint),
     proposal |-> ActionProposalPda(r.mint, r.nonce),
     payer |-> r.payer, proposer |-> r.proposer]) >>, FALSE)

ProposeDelegation(r) ==
  Plan(r.payer, << Plain("proposeAction",
    [nonce |-> r.nonce, termSeconds |-> r.termSeconds,
     action |-> [kind |-> "setDelegation", operationalKey |-> r.key,
                mask |-> r.mask]],
    [issuerConfig |-> IssuerConfigPda(r.issuerId), tokenConfig |-> PROGRAM,
     proposal |-> DelegationProposalPda(r.issuerId, r.nonce),
     payer |-> r.payer, proposer |-> r.proposer]) >>, FALSE)

ApproveAction(r) ==
  Plan(r.approver, << Plain("approveAction", NoArgs,
    [issuerConfig |-> IssuerConfigPda(r.issuerId), proposal |-> r.proposal,
     approver |-> r.approver]) >>, FALSE)

CloseActionProposal(r) ==
  Plan(r.member, << Plain("closeActionProposal", NoArgs,
    [issuerConfig |-> IssuerConfigPda(r.issuerId), proposal |-> r.proposal,
     rentRecipient |-> r.rentRecipient, member |-> r.member]) >>, FALSE)

(***************************************************************************)
(* Quorum actions on their two paths, and those with the deferred path     *)
(* only, which always name the proposal's approvers.                       *)
(***************************************************************************)
SetPolicy(r) ==
  Plan(r.payer, << ByQuorum("setPolicy",
    [version |-> r.version, rules |-> r.rules, reason |-> r.reason],
    [issuerConfig |-> IssuerConfigPda(r.issuerId),
     tokenConfig |-> TokenConfigPda(r.mint),
     policyConfig |-> PolicyConfigPda(r.mint, r.version),
     payer |-> r.payer], r.quorum) >>, FALSE)

SetAttestor(r) ==
  Plan(r.payer, << ByQuorum("setAttestor",
    [attestor |-> r.attestor, attestationMaxAge |-> r.maxAge,
     reason |-> r.reason],
    [issuerConfig |-> IssuerConfigPda(r.issuerId),
     tokenConfig |-> TokenConfigPda(r.mint)], r.quorum) >>, FALSE)

SetDelegation(r) ==
  Plan(r.payer, << ByQuorum("setDelegation",
    [operationalKey |-> r.key, mask |-> r.mask],
    [issuerConfig |-> IssuerConfigPda(r.issuerId)], r.quorum) >>, FALSE)

Seize(r) ==
  Plan(r.payer, << Instruction("seize",
    [amount |-> r.amount, reason |-> r.reason],
    [issuerConfig |-> IssuerConfigPda(r.issuerId),
     tokenConfig |-> TokenConfigPda(r.mint), mint |-> r.mint,
     source |-> r.tokenAccount, vault |-> SeizureVaultAddress(r.mint),
     proposal |-> r.proposal, payer |-> r.payer, tokenProgram |-> TOKEN2022],
    r.approvers, FALSE) >>, FALSE)

ChangeCirculation(name, r) ==
  Plan(r.payer, << Instruction(name, [reason |-> r.reason],
    [issuerConfig |-> IssuerConfigPda(r.issuerId),
     tokenConfig |-> TokenConfigPda(r.mint), mint |-> r.mint,
     proposal |-> r.proposal, tokenProgram |-> TOKEN2022],
    r.approvers, FALSE) >>, FALSE)

Mint(r) ==
  LET treasuryAccount == AssociatedAccount(r.mint, r.treasury)
  IN  Plan(r.payer, << Instruction("mint", [amount |-> r.amount],
        [issuerConfig |-> IssuerConfigPda(r.issuerId),
         tokenConfig |-> TokenConfigPda(r.mint), mint |-> r.mint,
         attestation |-> ReserveAttestationPda(r.mint, r.attestationIndex),
         destination |-> r.tokenAccount, treasury |-> r.treasury,
         treasuryAccount |-> treasuryAccount,
         treasuryFreeze |-> FreezeRecordPda(treasuryAccount),
         proposal |-> r.proposal, payer |-> r.payer,
         tokenProgram |-> TOKEN2022],
        r.approvers, FALSE) >>, FALSE)

(***************************************************************************)
(* Actions under one signature.                                            *)
(***************************************************************************)
AttestReserve(r) ==
  Plan(r.payer, << Plain("attestReserve",
    [amount |-> r.amount, currency |-> r.currency,
     attestedAt |-> r.attestedAt, attestationMaxAge |-> r.maxAge],
    [tokenConfig |-> TokenConfigPda(r.mint),
     attestation |-> ReserveAttestationPda(r.mint, r.index),
     attestor |-> r.attestor, payer |-> r.payer]) >>, FALSE)

FreezeHolder(r) ==
  Plan(r.payer, << Plain("freezeHolder", [reason |-> r.reason],
    [issuerConfig |-> IssuerConfigPda(r.issuerId),
     tokenConfig |-> TokenConfigPda(r.mint), mint |-> r.mint,
     tokenAccount |-> r.tokenAccount,
     freezeRecord |-> FreezeRecordPda(r.tokenAccount),
     payer |-> r.payer, officer |-> r.officer,
     tokenProgram |-> TOKEN2022]) >>, FALSE)

UnfreezeHolder(r) ==
  Plan(r.officer, << Plain("unfreezeHolder", [reason |-> r.reason],
    [issuerConfig |-> IssuerConfigPda(r.issuerId),
     tokenConfig |-> TokenConfigPda(r.mint), mint |-> r.mint,
     tokenAccount |-> r.tokenAccount,
     freezeRecord |-> FreezeRecordPda(r.tokenAccount),
     rentRecipient |-> r.rentRecipient, officer |-> r.officer,
     tokenProgram |-> TOKEN2022]) >>, FALSE)

ThawHolder(r) ==
  LET tokenAccount == AssociatedAccount(r.mint, r.wallet)
  IN  Plan(r.payer, << Plain("thawHolder",
        [wallet |-> r.wallet, status |-> r.status],
        [issuerConfig |-> IssuerConfigPda(r.issuerId),
         tokenConfig |-> TokenConfigPda(r.mint), mint |-> r.mint,
         tokenAccount |-> tokenAccount,
         holderStatus |-> HolderStatusPda(r.mint, r.wallet),
         velocityCounter |-> VelocityCounterPda(r.mint, r.wallet),
         payer |-> r.payer, authority |-> r.authority,
         tokenProgram |-> TOKEN2022,
         freezeRecord |-> FreezeRecordPda(tokenAccount)]) >>, FALSE)

SetHolderStatus(r) ==
  Plan(r.authority, << Plain("setHolderStatus",
    [wallet |-> r.wallet, status |-> r.status],
    [issuerConfig |-> IssuerConfigPda(r.issuerId),
     tokenConfig |-> TokenConfigPda(r.mint),
     holderStatus |-> HolderStatusPda(r.mint, r.wallet),
     authority |-> r.authority]) >>, FALSE)

(***************************************************************************)
(* Founding and issuance.  The three transactions of an issuance are built *)
(* together: the mint's address is known before the token exists.          *)
(***************************************************************************)
InitializeIssuer(r) ==
  Plan(r.founder, << Plain("initializeIssuer",
    [issuerId |-> r.issuerId, members |-> r.members, quorumN |-> r.quorumN,
     operationalKey |-> r.key, delegationMask |-> r.mask],
    [issuerConfig |-> IssuerConfigPda(r.issuerId), payer |-> r.founder,
     founder |-> r.founder]) >>, FALSE)

CreateToken(r) ==
  LET mint == MintPda(r.issuerId, r.tokenIndex)
  IN  Plan(r.founder, << Plain("createToken",
        [decimals |-> r.decimals, attestationCredential |-> r.credential,
         attestationSchema |-> r.schema, feeBps |-> r.feeBps,
         attestationMaxAge |-> r.maxAge, reserveCurrency |-> r.currency,
         rules |-> r.rules, initialSupply |-> r.initialSupply,
         reserveAmount |-> r.amount, reserveAttestedAt |-> r.attestedAt,
         founderStatus |-> r.status],
        [founder |-> r.founder, attestor |-> r.attestor,
         issuerConfig |-> IssuerConfigPda(r.issuerId), mint |-> mint,
         tokenConfig |-> TokenConfigPda(mint),
         policyConfig |-> PolicyConfigPda(mint, FIRST_POLICY_VERSION),
         attestation |-> ReserveAttestationPda(mint, FIRST_ATTESTATION_INDEX),
         founderTokenAccount |-> AssociatedAccount(mint, r.founder),
         holderStatus |-> HolderStatusPda(mint, r.founder),
         velocityCounter |-> VelocityCounterPda(mint, r.founder),
         treasury |-> r.treasury,
         treasuryAccount |-> AssociatedAccount(mint, r.treasury),
         tokenProgram |-> TOKEN2022]) >>, FALSE)

SetTokenMetadata(r) ==
  Plan(r.payer, << Plain("setTokenMetadata",
    [name |-> r.name, symbol |-> r.symbol, uri |-> r.uri],
    [issuerConfig |-> IssuerConfigPda(r.issuerId),
     tokenConfig |-> TokenConfigPda(r.mint), mint |-> r.mint,
     payer |-> r.payer, authority |-> r.authority,
     tokenProgram |-> TOKEN2022]) >>, TRUE)

InitializeExtraAccountMetaList(r) ==
  Plan(r.payer, << Plain("initializeExtraAccountMetaList", NoArgs,
    [payer |-> r.payer, extraAccountMetaList |-> ExtraAccountMetaListPda(r.mint),
     tokenConfig |-> TokenConfigPda(r.mint), mint |-> r.mint]) >>, TRUE)

TokenIssuance(r) ==
  LET mint == MintPda(r.issuerId, r.tokenIndex)
  IN  << CreateToken(r),
         SetTokenMetadata([issuerId |-> r.issuerId, mint |-> mint,
                           payer |-> r.founder, authority |-> r.founder,
                           name |-> r.name, symbol |-> r.symbol,
                           uri |-> r.uri]),
         InitializeExtraAccountMetaList([mint |-> mint, payer |-> r.founder]) >>
=============================================================================
