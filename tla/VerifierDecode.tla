--------------------------- MODULE VerifierDecode ---------------------------
(***************************************************************************)
(* The verifier's reading of the same transactions, written apart from the *)
(* indexer's: accounts are looked up by their role in the interface, and   *)
(* the quorum is whatever follows the declared list.                       *)
(***************************************************************************)
EXTENDS Chain

LOCAL INSTANCE SequencesExt

(* The node's answer, flattened: outer instructions, each followed by what *)
(* it invoked.                                                             *)
Flatten(response) ==
  FlattenSeq([i \in DOMAIN response.outer |->
    LET outer == response.outer[i]
    IN  << [ix |-> outer.instruction, outer |-> i - 1] >>
        \o [j \in DOMAIN outer.inner |-> [ix |-> outer.inner[j],
                                          outer |-> i - 1]]])

(***************************************************************************)
(* Accounts by role, and the accounts after the declared list.             *)
(***************************************************************************)
Get(ix, role) == ix.accounts[PositionOf(ix.name, role)]
Remaining(ix) ==
  SubSeq(ix.accounts, Len(AccountsOf[ix.name]) + 1, Len(ix.accounts))

Status(input) ==
  [input EXCEPT !.expiresAt = IF @ = 0 THEN Nothing ELSE Just(@)]

(***************************************************************************)
(* Instructions to events.                                                 *)
(***************************************************************************)
Action(ix, mint, action, target, amount, signers, maxAge) ==
  [kind |-> "compliance", mint |-> mint, action |-> action,
   target |-> target, amount |-> amount, reason |-> ix.args.reason,
   signers |-> signers, maxAge |-> maxAge]

ReadByQuorum(ix, action, withTarget) ==
  Action(ix, Get(ix, "mint"), action,
         IF withTarget THEN Just(Get(ix, "source")) ELSE Nothing,
         IF withTarget THEN Just(ix.args.amount) ELSE Nothing,
         Remaining(ix), Nothing)

ReadByOfficer(ix, action) ==
  Action(ix, Get(ix, "mint"), action, Just(Get(ix, "tokenAccount")), Nothing,
         << Get(ix, "officer") >>, Nothing)

ReadSetPolicy(ix) ==
  Action(ix, TokenOfConfig(Get(ix, "tokenConfig")).mint, "set_policy",
         Nothing, Nothing, Remaining(ix), Nothing)

ReadSetAttestor(ix) ==
  Action(ix, TokenOfConfig(Get(ix, "tokenConfig")).mint, "set_attestor",
         Just(ix.args.attestor), Nothing, Remaining(ix),
         Just(ix.args.attestationMaxAge))

ReadCreateToken(ix) ==
  LET mint == Get(ix, "mint")
      founder == Get(ix, "founder")
  IN  << [kind |-> "attestation", mint |-> mint, index |-> 0,
          amount |-> ix.args.reserveAmount,
          currency |-> ix.args.reserveCurrency,
          attestor |-> Get(ix, "attestor"),
          attestedAt |-> ix.args.reserveAttestedAt,
          expiresAt |-> ix.args.reserveAttestedAt
                          + ix.args.attestationMaxAge],
         [kind |-> "thaw", mint |-> mint, wallet |-> founder,
          tokenAccount |-> Get(ix, "founderTokenAccount"),
          authority |-> founder,
          status |-> Just(Status(ix.args.founderStatus))] >>

ReadThawHolder(ix) ==
  [kind |-> "thaw", mint |-> Get(ix, "mint"), wallet |-> ix.args.wallet,
   tokenAccount |-> Get(ix, "tokenAccount"),
   authority |-> Get(ix, "authority"),
   status |-> IF ix.args.status = Nothing THEN Nothing
              ELSE Just(Status(ix.args.status[1]))]

ReadSetHolderStatus(ix) ==
  [kind |-> "holder_status",
   mint |-> TokenOfConfig(Get(ix, "tokenConfig")).mint,
   wallet |-> ix.args.wallet, authority |-> Get(ix, "authority"),
   status |-> Status(ix.args.status)]

ReadAttestReserve(ix) ==
  [kind |-> "attestation",
   mint |-> TokenOfConfig(Get(ix, "tokenConfig")).mint,
   index |-> AttestationIndexAt(Get(ix, "attestation")),
   amount |-> ix.args.amount, currency |-> ix.args.currency,
   attestor |-> Get(ix, "attestor"), attestedAt |-> ix.args.attestedAt,
   expiresAt |-> ix.args.attestedAt + ix.args.attestationMaxAge]

(* No reader means the instruction has no line in the journal's format: it *)
(* is reported beside the file and never counted as missing.  `execute` is *)
(* part of the transfer that invoked it.                                   *)
EventsRead(ix) ==
  CASE ix.name = "createToken" -> ReadCreateToken(ix)
    [] ix.name = "setPolicy" -> << ReadSetPolicy(ix) >>
    [] ix.name = "thawHolder" -> << ReadThawHolder(ix) >>
    [] ix.name = "setHolderStatus" -> << ReadSetHolderStatus(ix) >>
    [] ix.name = "freezeHolder" -> << ReadByOfficer(ix, "freeze") >>
    [] ix.name = "unfreezeHolder" -> << ReadByOfficer(ix, "unfreeze") >>
    [] ix.name = "seize" -> << ReadByQuorum(ix, "seize", TRUE) >>
    [] ix.name = "pauseCirculation" -> << ReadByQuorum(ix, "pause", FALSE) >>
    [] ix.name = "resumeCirculation" ->
         << ReadByQuorum(ix, "unpause", FALSE) >>
    [] ix.name = "attestReserve" -> << ReadAttestReserve(ix) >>
    [] ix.name = "setAttestor" -> << ReadSetAttestor(ix) >>
    [] OTHER -> << >>

JOURNALLED == {"createToken", "setPolicy", "thawHolder", "setHolderStatus",
               "freezeHolder", "unfreezeHolder", "seize", "pauseCirculation",
               "resumeCirculation", "attestReserve", "setAttestor"}

(***************************************************************************)
(* Transfers and refusals.                                                 *)
(***************************************************************************)
HookedTransfer(ix) ==
  /\ ix.program = TOKEN2022
  /\ ix.name = "transferChecked"
  /\ Contains(ix.accounts, PROGRAM)

TransferDraft(ix) ==
  [mint |-> ix.accounts[2], source |-> ix.accounts[1],
   destination |-> ix.accounts[3], amount |-> ix.args.amount,
   sender |-> OwnerOfTokenAccount(ix.accounts[1]),
   recipient |-> OwnerOfTokenAccount(ix.accounts[3])]

(* Which rule answers for a code: the codes of the hook outside any rule   *)
(* have none.                                                              *)
RULE_OF ==
  [code \in {REFUSAL_CODES[i] : i \in 2..12} |->
     CASE code \in {REFUSAL_CODES[i] : i \in 2..8} -> "status"
       [] code = "RECIPIENT_JURISDICTION_NOT_ALLOWED" -> "jurisdictions"
       [] code = "TRANSFER_LIMIT_EXCEEDED" -> "transferLimit"
       [] OTHER -> "periodLimit"]

(* A slip of SlotOfKind: slots counted from one. *)
SlotOfKindFromOne(rules, code) ==
  LET slots == {n \in 1..MAX_RULE_SLOTS :
                  /\ code \in DOMAIN RULE_OF
                  /\ n \in DOMAIN rules
                  /\ rules[n] = RULE_OF[code]}
  IN  IF slots = {} THEN Nothing
      ELSE Just(CHOOSE n \in slots : \A m \in slots : n <= m)

SlotOfKind(rules, code) ==
  LET slots == {n \in 1..MAX_RULE_SLOTS :
                  /\ code \in DOMAIN RULE_OF
                  /\ n \in DOMAIN rules
                  /\ rules[n] = RULE_OF[code]}
  IN  IF slots = {} THEN Nothing
      ELSE Just((CHOOSE n \in slots : \A m \in slots : n <= m) - 1)

TOKEN_PROGRAM_REFUSAL == (17 :> "ACCOUNT_FROZEN") @@ (67 :> "TRANSFERS_PAUSED")

POLICY_POSITION_IN_TRANSFER == 5

RefusalDraft(ix, custom) ==
  LET ours == custom >= ANCHOR_ERROR_OFFSET
      code == IF ours THEN RefusalCodeFromAnchorError(custom)
              ELSE IF custom \in DOMAIN TOKEN_PROGRAM_REFUSAL
                   THEN Just(TOKEN_PROGRAM_REFUSAL[custom]) ELSE Nothing
      rules == PolicyRulesAt(ix.accounts[POLICY_POSITION_IN_TRANSFER + 1])
  IN  IF ~ours /\ code = Nothing THEN << >>
      ELSE << [kind |-> "refusal", code |-> code, programError |-> custom,
               ruleSlot |-> IF rules = Nothing \/ code = Nothing THEN Nothing
                            ELSE SlotOfKind(rules[1], code[1])]
                @@ TransferDraft(ix) >>

(***************************************************************************)
(* One transaction: its events, and the instructions of the program that   *)
(* the journal does not carry.  A failure before any instruction names     *)
(* none.                                                                   *)
(***************************************************************************)
DraftsOf(ix) ==
  IF HookedTransfer(ix)
  THEN << [kind |-> "transfer"] @@ TransferDraft(ix) >>
  ELSE IF ix.program # PROGRAM THEN << >> ELSE EventsRead(ix)

RefusalsUnder(flat, failed) ==
  LET refused == SelectSeq(flat, LAMBDA f : /\ f.outer = failed.index
                                            /\ HookedTransfer(f.ix))
  IN  IF refused = << >> \/ failed.custom = NoNumber THEN << >>
      ELSE RefusalDraft(Last(refused).ix, failed.custom)

ReadTransaction(response) ==
  LET flat == Flatten(response)
      drafts == IF response.err # Nothing
                THEN RefusalsUnder(flat, response.err[1])
                ELSE FlattenSeq([i \in DOMAIN flat |-> DraftsOf(flat[i].ix)])
  IN  [n \in DOMAIN drafts |->
         drafts[n] @@ [signature |-> response.signature,
                       slot |-> response.slot, eventIndex |-> n - 1]]

Unjournalled(response) ==
  LET silent(f) == /\ f.ix.program = PROGRAM
                   /\ f.ix.name \notin JOURNALLED \cup {"execute"}
  IN  IF response.err # Nothing THEN << >>
      ELSE SelectSeq(Flatten(response), silent)
=============================================================================
