--------------------------- MODULE AccountLayouts ---------------------------
(***************************************************************************)
(* What the program's accounts hold, field after field, as the vendored    *)
(* interface declares it, and the two readers that find a field by its     *)
(* place: the transfer hook's account list (hook/extra_accounts.rs), whose *)
(* addresses the token program derives from slices of account data, and    *)
(* the api's filters (apps/api actions.ts, compliance.ts), which compare   *)
(* the bytes after the discriminator.  A field is a name and its bytes; of *)
(* the values only the fields that something is derived from matter.       *)
(***************************************************************************)
EXTENDS Builders

LOCAL INSTANCE SequencesExt

KEY == 32
Width(fields) == FoldLeft(LAMBDA total, field : total + field[2], 0, fields)

ComplianceReasonFields == << <<"code", 2>>, <<"caseRef", 32>> >>
MemberFields == << <<"wallet", KEY>>, <<"roles", 1>> >>
RuleSlotFields == << <<"kind", 1>>, <<"op", 1>>, <<"params", 22>> >>
HolderStatusInputFields ==
  << <<"tier", 1>>, <<"jurisdiction", 2>>, <<"denied", 1>>, <<"expiresAt", 8>> >>

(* An action takes as many bytes as its kind needs; an account is given the *)
(* most (the widest is a change of attestor).                              *)
ACTION_BYTES == 1 + KEY + 8 + KEY + 8 + Width(ComplianceReasonFields)

ActionProposalFields == <<
  <<"scope", KEY>>, <<"issuer", KEY>>, <<"payer", KEY>>, <<"nonce", 8>>,
  <<"action", ACTION_BYTES>>, <<"approvals", 8 * KEY>>, <<"approvalCount", 1>>,
  <<"createdAt", 8>>, <<"expiresAt", 8>>, <<"executedAt", 8>>, <<"bump", 1>> >>

FreezeRecordFields == <<
  <<"mint", KEY>>, <<"tokenAccount", KEY>>, <<"wallet", KEY>>,
  <<"officer", KEY>>, <<"payer", KEY>>,
  <<"reason", Width(ComplianceReasonFields)>>, <<"frozenAt", 8>>,
  <<"wasThawed", 1>>, <<"bump", 1>> >>

HolderStatusFields ==
  << <<"mint", KEY>>, <<"wallet", KEY>> >> \o HolderStatusInputFields
    \o << <<"updatedAt", 8>>, <<"bump", 1>> >>

IssuerConfigFields == <<
  <<"issuerId", KEY>>, <<"members", 8 * Width(MemberFields)>>,
  <<"memberSlots", 1>>, <<"quorumN", 1>>, <<"operationalKey", KEY>>,
  <<"delegationMask", 1>>, <<"bump", 1>>, <<"tokenCount", 4>> >>

PolicyConfigFields == <<
  <<"activatedAt", 8>>, <<"version", 4>>, <<"mint", KEY>>, <<"author", KEY>>,
  <<"rules", 16 * Width(RuleSlotFields)>>, <<"rulesHash", 32>>, <<"bump", 1>>,
  <<"padding", 3>> >>

ReserveAttestationFields == <<
  <<"mint", KEY>>, <<"index", 8>>, <<"amount", 8>>, <<"currency", 8>>,
  <<"attestor", KEY>>, <<"attestedAt", 8>>, <<"bump", 1>> >>

(* A slip of TokenConfig: the count of attestations beside the version. *)
TokenConfigFieldsInserted == <<
  <<"issuer", KEY>>, <<"mint", KEY>>, <<"attestationCredential", KEY>>,
  <<"attestationSchema", KEY>>, <<"attestor", KEY>>, <<"treasury", KEY>>,
  <<"attestationCount", 8>>, <<"policyVersion", 4>>, <<"feeBps", 2>>,
  <<"attestationMaxAge", 8>>, <<"pausedAt", 8>>, <<"bump", 1>>,
  <<"reserveCurrency", 8>> >>

TokenConfigFields == <<
  <<"issuer", KEY>>, <<"mint", KEY>>, <<"attestationCredential", KEY>>,
  <<"attestationSchema", KEY>>, <<"attestor", KEY>>, <<"treasury", KEY>>,
  <<"policyVersion", 4>>, <<"feeBps", 2>>, <<"attestationMaxAge", 8>>,
  <<"pausedAt", 8>>, <<"bump", 1>>, <<"attestationCount", 8>>,
  <<"reserveCurrency", 8>> >>

VelocityCounterFields == <<
  <<"mint", KEY>>, <<"wallet", KEY>>, <<"windowStart", 8>>,
  <<"spentInWindow", 8>>, <<"bump", 1>> >>

FieldsOf == [
  actionProposal |-> ActionProposalFields, freezeRecord |-> FreezeRecordFields,
  holderStatus |-> HolderStatusFields, issuerConfig |-> IssuerConfigFields,
  policyConfig |-> PolicyConfigFields,
  reserveAttestation |-> ReserveAttestationFields,
  tokenConfig |-> TokenConfigFields, velocityCounter |-> VelocityCounterFields]

(* The first of the eight bytes before the fields, by which the client      *)
(* library asks a node for the accounts of one kind.                       *)
Discriminator == [
  actionProposal |-> 144, freezeRecord |-> 33, holderStatus |-> 67,
  issuerConfig |-> 238, policyConfig |-> 219, reserveAttestation |-> 105,
  tokenConfig |-> 92, velocityCounter |-> 155]

DISCRIMINATOR == 8

(* A token account starts with its mint and its owner. *)
TokenAccountFields == << <<"mint", KEY>>, <<"owner", KEY>>, <<"amount", 8>> >>

(***************************************************************************)
(* Reading by place: the name of the field that starts at an offset past   *)
(* `before` bytes and has that length; no field's bytes otherwise.         *)
(***************************************************************************)
FieldAt(fields, before, offset, length) ==
  LET at == {i \in DOMAIN fields :
               /\ before + Width(SubSeq(fields, 1, i - 1)) = offset
               /\ fields[i][2] = length}
  IN  IF at = {} THEN "bytes" ELSE fields[CHOOSE i \in at : TRUE][1]

(* The proposals of a scope and the freezes of a mint: what `all` compares. *)
FilteredBy(kind) == FieldAt(FieldsOf[kind], DISCRIMINATOR, 8, KEY)

(***************************************************************************)
(* The hook's account list.  A seed is a literal, the address of an        *)
(* account before it in the list, or a slice of such an account's data;    *)
(* indices count from zero, and 0 to 4 are the token program's own.        *)
(***************************************************************************)
SOURCE_TOKEN == 0
MINT == 1
DESTINATION_TOKEN == 2
TOKEN_CONFIG == 5

Seed(kind, name, index, offset, length) ==
  [kind |-> kind, name |-> name, index |-> index, offset |-> offset,
   length |-> length]
Literal(name) == Seed("literal", name, 0, 0, 0)
AccountKey(index) == Seed("key", "", index, 0, 0)
AccountData(index, offset, length) == Seed("data", "", index, offset, length)

TOKEN_ACCOUNT_OWNER_OFFSET == 32
TOKEN_CONFIG_CREDENTIAL_OFFSET == 8 + 32 + 32
TOKEN_CONFIG_SCHEMA_OFFSET == TOKEN_CONFIG_CREDENTIAL_OFFSET + 32
TOKEN_CONFIG_POLICY_VERSION_OFFSET == TOKEN_CONFIG_SCHEMA_OFFSET + 32 * 3

WalletSeed(index) == AccountData(index, TOKEN_ACCOUNT_OWNER_OFFSET, 32)
HolderMeta(index, seed) == << Literal(seed), AccountKey(MINT), WalletSeed(index) >>
AttestationSeeds(index) == <<
  Literal("attestation"),
  AccountData(TOKEN_CONFIG, TOKEN_CONFIG_CREDENTIAL_OFFSET, 32),
  AccountData(TOKEN_CONFIG, TOKEN_CONFIG_SCHEMA_OFFSET, 32), WalletSeed(index) >>

ExtraAccountMetas == <<
  << Literal("token"), AccountKey(MINT) >>,
  << Literal("policy"), AccountKey(MINT),
     AccountData(TOKEN_CONFIG, TOKEN_CONFIG_POLICY_VERSION_OFFSET, 4) >>,
  HolderMeta(SOURCE_TOKEN, "holder"), HolderMeta(SOURCE_TOKEN, "velocity"),
  HolderMeta(DESTINATION_TOKEN, "holder"),
  << Literal("program"), Literal("sas") >>,
  AttestationSeeds(SOURCE_TOKEN), AttestationSeeds(DESTINATION_TOKEN) >>

(* The token program follows the list: what a seed stands for among the     *)
(* accounts so far, `config` being what the token's configuration holds.   *)
(* A slice that is no whole field derives an address nobody knows.         *)
Unknown(length) == IF length = KEY THEN << "bytes" >> ELSE -1

DataAt(account, config, offset, length) ==
  IF account[1] = "token"
  THEN LET field == FieldAt(TokenConfigFields, DISCRIMINATOR, offset, length)
       IN  IF field \in DOMAIN config THEN config[field] ELSE Unknown(length)
  ELSE IF FieldAt(TokenAccountFields, 0, offset, length) = "owner"
       THEN account[3] ELSE Unknown(length)

SeedValue(seed, accounts, config) ==
  CASE seed.kind = "literal" -> seed.name
    [] seed.kind = "key" -> accounts[seed.index + 1]
    [] seed.kind = "data" ->
         DataAt(accounts[seed.index + 1], config, seed.offset, seed.length)

Resolved(given, config) ==
  FoldLeft(LAMBDA accounts, seeds :
             Append(accounts,
                    [i \in DOMAIN seeds |-> SeedValue(seeds[i], accounts, config)]),
           given, ExtraAccountMetas)
=============================================================================
