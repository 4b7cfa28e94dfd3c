-------------------------------- MODULE Chain --------------------------------
(***************************************************************************)
(* Transactions as a node serves them, and what a node answers about the   *)
(* accounts they name.  A node's answer (a response) has the outer         *)
(* instructions, each with the instructions it invoked, and the error if   *)
(* the transaction failed.  Accounts that are never rewritten answer from  *)
(* their address; a policy's rules are a constant of its version.          *)
(***************************************************************************)
EXTENDS AccountLayouts

CONSTANT RulesAt    \* policy version -> the kinds in its rule slots, in order

(* A value that may be absent. *)
Nothing == << >>
Just(x) == <<x>>

(***************************************************************************)
(* A hooked transfer, as the token program receives it: its four accounts, *)
(* the hook's accounts after them as its list resolves them, then the hook *)
(* program and that list.                                                  *)
(***************************************************************************)
CredentialOf(mint) == <<"credential", mint>>
SchemaOf(mint) == <<"schema", mint>>
AttestationPda(mint, wallet) ==
  <<"attestation", CredentialOf(mint), SchemaOf(mint), wallet>>

HookAccounts(mint, version, sender, recipient) ==
  SubSeq(Resolved(<< AssociatedAccount(mint, sender), mint,
                     AssociatedAccount(mint, recipient), sender,
                     ExtraAccountMetaListPda(mint) >>,
                  [attestationCredential |-> CredentialOf(mint),
                   attestationSchema |-> SchemaOf(mint),
                   policyVersion |-> version]), 6, 13)

TransferChecked(r) ==
  [program |-> TOKEN2022, name |-> "transferChecked",
   args |-> [amount |-> r.amount],
   accounts |-> << AssociatedAccount(r.mint, r.owner), r.mint,
                   AssociatedAccount(r.mint, r.recipient), r.owner >>
                \o HookAccounts(r.mint, r.version, r.owner, r.recipient)
                \o << PROGRAM, ExtraAccountMetaListPda(r.mint) >>,
   signers |-> {r.owner}]

Transfer(r) == Plan(r.owner, << TransferChecked(r) >>, FALSE)

(* What the token program invokes under it. *)
Execute(r) ==
  [program |-> PROGRAM, name |-> "execute", args |-> [amount |-> r.amount],
   accounts |-> << AssociatedAccount(r.mint, r.owner), r.mint,
                   AssociatedAccount(r.mint, r.recipient), r.owner,
                   ExtraAccountMetaListPda(r.mint) >>
                \o HookAccounts(r.mint, r.version, r.owner, r.recipient),
   signers |-> {}]

(***************************************************************************)
(* A response: `outer` is a sequence of [instruction, inner], `err` is     *)
(* absent or the number of the failing instruction, from zero, with its    *)
(* custom error; an index of -1 stands for an error before any instruction *)
(* ran, and a custom error of NoNumber for one that carries no number.     *)
(***************************************************************************)
NoNumber == -1

(***************************************************************************)
(* What a node answers about an account.                                   *)
(***************************************************************************)
IssuerIdOfConfig(config) == config[2]
TokenOfConfig(config) == [mint |-> config[2], issuerId |-> config[2][2]]
TokenOfMint(mint) == TokenOfConfig(TokenConfigPda(mint))
OwnerOfTokenAccount(account) == account[3]
AttestationIndexAt(attestation) == attestation[3]
PolicyRulesAt(account) ==
  IF account[1] = "policy" THEN Just(RulesAt[account[3]]) ELSE Nothing

(***************************************************************************)
(* The refusal codes both readings share, in the order of the program's    *)
(* errors.                                                                 *)
(***************************************************************************)
REFUSAL_CODES == <<
  "POLICY_VERSION_MISMATCH", "SENDER_STATUS_MISSING",
  "RECIPIENT_STATUS_MISSING", "STATUS_SOURCE_NOT_ACCEPTED",
  "STATUS_SOURCE_UNAVAILABLE", "SENDER_DENIED", "RECIPIENT_DENIED",
  "RECIPIENT_TIER_TOO_LOW", "RECIPIENT_JURISDICTION_NOT_ALLOWED",
  "TRANSFER_LIMIT_EXCEEDED", "VELOCITY_COUNTER_MISSING",
  "PERIOD_LIMIT_EXCEEDED", "UNKNOWN_RULE_KIND" >>

ANCHOR_ERROR_OFFSET == 6000

(* An unknown number of the program's is a refusal without a code. *)
RefusalCodeFromAnchorError(number) ==
  LET i == number - ANCHOR_ERROR_OFFSET + 1
  IN  IF i \in DOMAIN REFUSAL_CODES THEN Just(REFUSAL_CODES[i]) ELSE Nothing

MAX_RULE_SLOTS == 16
=============================================================================
