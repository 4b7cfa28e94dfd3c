----------------------------- MODULE Interface -----------------------------
(***************************************************************************)
(* The program's interface as the clients know it: the vendored IDL, which *)
(* the transaction builders encode by and the indexer and the verifier     *)
(* decode by.  An instruction is the list of the roles its accounts play,  *)
(* in the order the program takes them; accounts past the list are the     *)
(* remaining accounts, where a quorum is named.                            *)
(*                                                                         *)
(* An account the IDL derives carries the seeds of its address: a label,   *)
(* then the names of what the address is derived from.  The fields of an   *)
(* account (issuer_config.issuer_id) go by the field's name.               *)
(***************************************************************************)
EXTENDS Integers, Sequences

Role(name, seeds, signs, optional) ==
  [name |-> name, seeds |-> seeds, signs |-> signs, optional |-> optional]

Given(name) == Role(name, << >>, FALSE, FALSE)
Fixed(name) == Role(name, <<"program", name>>, FALSE, FALSE)
Signer(name) == Role(name, << >>, TRUE, FALSE)
Optional(name) == Role(name, << >>, FALSE, TRUE)
Derived(name, seeds) == Role(name, seeds, FALSE, FALSE)

ApproveActionAccounts == <<
  Derived("issuerConfig", <<"issuer", "issuerId">>),
  Derived("proposal", <<"proposal", "scope", "nonce">>), Signer("approver") >>

AttestReserveAccounts == <<
  Derived("tokenConfig", <<"token", "mint">>),
  Derived("attestation", <<"reserve", "mint", "attestationCount">>),
  Signer("attestor"), Signer("payer"), Fixed("systemProgram") >>

CloseActionProposalAccounts == <<
  Derived("issuerConfig", <<"issuer", "issuerId">>),
  Derived("proposal", <<"proposal", "scope", "nonce">>), Given("rentRecipient"),
  Signer("member") >>

(* Those who issue and what they create, then the founder's own holding. *)
CreateTokenConfigs == <<
  Signer("founder"), Signer("attestor"),
  Derived("issuerConfig", <<"issuer", "issuerId">>),
  Derived("mint", <<"mint", "issuerId", "tokenCount">>),
  Derived("tokenConfig", <<"token", "mint">>),
  Derived("policyConfig", <<"policy", "mint", "firstVersion">>) >>

CreateTokenHolding == <<
  Derived("attestation", <<"reserve", "mint", "firstIndex">>),
  Given("founderTokenAccount"),
  Derived("holderStatus", <<"holder", "mint", "founder">>),
  Derived("velocityCounter", <<"velocity", "mint", "founder">>),
  Given("treasury"), Given("treasuryAccount"), Given("tokenProgram"),
  Fixed("associatedTokenProgram"), Fixed("systemProgram") >>

CreateTokenAccounts == CreateTokenConfigs \o CreateTokenHolding

ExecuteAccounts == <<
  Given("sourceToken"), Given("mint"), Given("destinationToken"),
  Given("owner"), Given("extraAccountMetaList"),
  Derived("tokenConfig", <<"token", "mint">>), Given("policyConfig"),
  Given("senderStatus"), Given("senderVelocity"), Given("recipientStatus"),
  Given("sasProgram"), Given("senderAttestation"),
  Given("recipientAttestation") >>

FreezeHolderAccounts == <<
  Derived("issuerConfig", <<"issuer", "issuerId">>),
  Derived("tokenConfig", <<"token", "mint">>), Given("mint"),
  Given("tokenAccount"), Derived("freezeRecord", <<"freeze", "tokenAccount">>),
  Signer("payer"), Signer("officer"), Given("tokenProgram"),
  Fixed("systemProgram") >>

InitializeExtraAccountMetaListAccounts == <<
  Signer("payer"),
  Derived("extraAccountMetaList", <<"extra-account-metas", "mint">>),
  Derived("tokenConfig", <<"token", "mint">>), Given("mint"),
  Fixed("systemProgram") >>

InitializeIssuerAccounts == <<
  Derived("issuerConfig", <<"issuer", "issuerId">>), Signer("payer"),
  Signer("founder"), Fixed("systemProgram") >>

MintAccounts == <<
  Derived("issuerConfig", <<"issuer", "issuerId">>),
  Derived("tokenConfig", <<"token", "mint">>), Given("mint"),
  Given("attestation"), Given("destination"), Given("treasury"),
  Given("treasuryAccount"),
  Derived("treasuryFreeze", <<"freeze", "treasuryAccount">>),
  Derived("proposal", <<"proposal", "scope", "nonce">>), Signer("payer"),
  Given("tokenProgram"), Fixed("associatedTokenProgram"),
  Fixed("systemProgram") >>

PauseCirculationAccounts == <<
  Derived("issuerConfig", <<"issuer", "issuerId">>),
  Derived("tokenConfig", <<"token", "mint">>), Given("mint"),
  Derived("proposal", <<"proposal", "scope", "nonce">>),
  Given("tokenProgram") >>

ProposeActionAccounts == <<
  Derived("issuerConfig", <<"issuer", "issuerId">>), Optional("tokenConfig"),
  Given("proposal"), Signer("payer"), Signer("proposer"),
  Fixed("systemProgram") >>

ResumeCirculationAccounts == <<
  Derived("issuerConfig", <<"issuer", "issuerId">>),
  Derived("tokenConfig", <<"token", "mint">>), Given("mint"),
  Derived("proposal", <<"proposal", "scope", "nonce">>),
  Given("tokenProgram") >>

SeizeAccounts == <<
  Derived("issuerConfig", <<"issuer", "issuerId">>),
  Derived("tokenConfig", <<"token", "mint">>), Given("mint"), Given("source"),
  Given("vault"), Derived("proposal", <<"proposal", "scope", "nonce">>),
  Signer("payer"), Given("tokenProgram"), Fixed("associatedTokenProgram"),
  Fixed("systemProgram") >>

SetAttestorAccounts == <<
  Derived("issuerConfig", <<"issuer", "issuerId">>),
  Derived("tokenConfig", <<"token", "mint">>), Optional("proposal") >>

SetDelegationAccounts == <<
  Derived("issuerConfig", <<"issuer", "issuerId">>), Optional("proposal") >>

SetHolderStatusAccounts == <<
  Derived("issuerConfig", <<"issuer", "issuerId">>),
  Derived("tokenConfig", <<"token", "mint">>),
  Derived("holderStatus", <<"holder", "mint", "wallet">>),
  Signer("authority") >>

SetPolicyAccounts == <<
  Derived("issuerConfig", <<"issuer", "issuerId">>),
  Derived("tokenConfig", <<"token", "mint">>),
  Derived("policyConfig", <<"policy", "mint", "version">>), Signer("payer"),
  Fixed("systemProgram"), Optional("proposal") >>

SetTokenMetadataAccounts == <<
  Derived("issuerConfig", <<"issuer", "issuerId">>),
  Derived("tokenConfig", <<"token", "mint">>), Given("mint"), Signer("payer"),
  Signer("authority"), Given("tokenProgram"), Fixed("systemProgram") >>

(* What onboarding writes of the holder, and who pays and signs for it. *)
ThawHolderRecords == <<
  Derived("holderStatus", <<"holder", "mint", "wallet">>),
  Derived("velocityCounter", <<"velocity", "mint", "wallet">>), Signer("payer"),
  Signer("authority"), Given("tokenProgram"), Fixed("systemProgram"),
  Derived("freezeRecord", <<"freeze", "tokenAccount">>) >>

ThawHolderAccounts == <<
  Derived("issuerConfig", <<"issuer", "issuerId">>),
  Derived("tokenConfig", <<"token", "mint">>), Given("mint"),
  Given("tokenAccount") >> \o ThawHolderRecords

UnfreezeHolderAccounts == <<
  Derived("issuerConfig", <<"issuer", "issuerId">>),
  Derived("tokenConfig", <<"token", "mint">>), Given("mint"),
  Given("tokenAccount"), Derived("freezeRecord", <<"freeze", "tokenAccount">>),
  Given("rentRecipient"), Signer("officer"), Given("tokenProgram") >>

(***************************************************************************)
(* The list of an instruction, by the instruction's name in the IDL.       *)
(***************************************************************************)
AccountsOf == [
  approveAction |-> ApproveActionAccounts,
  attestReserve |-> AttestReserveAccounts,
  closeActionProposal |-> CloseActionProposalAccounts,
  createToken |-> CreateTokenAccounts,
  execute |-> ExecuteAccounts,
  freezeHolder |-> FreezeHolderAccounts,
  initializeExtraAccountMetaList |-> InitializeExtraAccountMetaListAccounts,
  initializeIssuer |-> InitializeIssuerAccounts,
  mint |-> MintAccounts,
  pauseCirculation |-> PauseCirculationAccounts,
  proposeAction |-> ProposeActionAccounts,
  resumeCirculation |-> ResumeCirculationAccounts,
  seize |-> SeizeAccounts,
  setAttestor |-> SetAttestorAccounts,
  setDelegation |-> SetDelegationAccounts,
  setHolderStatus |-> SetHolderStatusAccounts,
  setPolicy |-> SetPolicyAccounts,
  setTokenMetadata |-> SetTokenMetadataAccounts,
  thawHolder |-> ThawHolderAccounts,
  unfreezeHolder |-> UnfreezeHolderAccounts]

Instructions == DOMAIN AccountsOf

(***************************************************************************)
(* The fields of each instruction's arguments.  A reason and a holder's    *)
(* status are structures the model does not take apart.                    *)
(***************************************************************************)
AttestReserveArgs == {"amount", "currency", "attestedAt", "attestationMaxAge"}

CirculationArgs == {"reason"}

CreateTokenArgs ==
  {"decimals", "attestationCredential", "attestationSchema", "feeBps",
   "attestationMaxAge", "reserveCurrency", "rules", "initialSupply",
   "reserveAmount", "reserveAttestedAt", "founderStatus"}

FreezeHolderArgs == {"reason"}

InitializeIssuerArgs ==
  {"issuerId", "members", "quorumN", "operationalKey", "delegationMask"}

MintArgs == {"amount"}

ProposeActionArgs == {"nonce", "termSeconds", "action"}

SeizeArgs == {"amount", "reason"}

SetAttestorArgs == {"attestor", "attestationMaxAge", "reason"}

SetDelegationArgs == {"operationalKey", "mask"}

SetHolderStatusArgs == {"wallet", "status"}

SetPolicyArgs == {"version", "rules", "reason"}

SetTokenMetadataArgs == {"name", "symbol", "uri"}

ThawHolderArgs == {"wallet", "status"}

UnfreezeHolderArgs == {"reason"}

(* The body of a proposal as `proposeAction` carries it, by its kind. *)
ProposedAction == [
  setPolicy |-> {"version", "rules", "reason"},
  seize |-> {"tokenAccount", "amount", "reason"},
  pause |-> {"reason"},
  resume |-> {"reason"},
  setDelegation |-> {"operationalKey", "mask"},
  setAttestor |-> {"attestor", "attestationMaxAge", "reason"},
  mint |-> {"tokenAccount", "amount"}]

(* The same, as the proposal's account keeps it. *)
ActionKind == [
  setPolicy |-> {"version", "rulesHash", "reason"},
  seize |-> {"tokenAccount", "amount", "reason"},
  pause |-> {"reason"},
  resume |-> {"reason"},
  setDelegation |-> {"previousKey", "previousMask", "operationalKey", "mask"},
  setAttestor |-> {"previousAttestor", "previousMaxAge", "attestor", "maxAge",
                   "reason"},
  mint |-> {"tokenAccount", "amount"}]

ArgsOf == [
  approveAction |-> {},
  attestReserve |-> AttestReserveArgs,
  closeActionProposal |-> {},
  createToken |-> CreateTokenArgs,
  execute |-> {"amount"},
  freezeHolder |-> FreezeHolderArgs,
  initializeExtraAccountMetaList |-> {},
  initializeIssuer |-> InitializeIssuerArgs,
  mint |-> MintArgs,
  pauseCirculation |-> CirculationArgs,
  proposeAction |-> ProposeActionArgs,
  resumeCirculation |-> CirculationArgs,
  seize |-> SeizeArgs,
  setAttestor |-> SetAttestorArgs,
  setDelegation |-> SetDelegationArgs,
  setHolderStatus |-> SetHolderStatusArgs,
  setPolicy |-> SetPolicyArgs,
  setTokenMetadata |-> SetTokenMetadataArgs,
  thawHolder |-> ThawHolderArgs,
  unfreezeHolder |-> UnfreezeHolderArgs]

(***************************************************************************)
(* Where a role sits in an instruction's list, from one; zero for a role   *)
(* the instruction does not have.                                          *)
(***************************************************************************)
PositionOf(instruction, role) ==
  LET list == AccountsOf[instruction]
      at == {i \in DOMAIN list : list[i].name = role}
  IN  IF at = {} THEN 0 ELSE CHOOSE i \in at : TRUE
=============================================================================
