--------------------------- MODULE MCTransactions ---------------------------
(***************************************************************************)
(* Every kind of request once, each party a wallet of its own, and the     *)
(* quorum actions on both of their paths.                                  *)
(***************************************************************************)
EXTENDS Transactions

Wallet(name) == <<"wallet", name>>
Token == MintPda("i", 0)
Members == << Wallet("alice"), Wallet("bob") >>

Immediate == [kind |-> "immediate", proposal |-> PROGRAM, members |-> Members]
Deferred == [kind |-> "proposal", members |-> Members,
             proposal |-> ActionProposalPda(Token, "n")]

ForEver == [tier |-> 1, jurisdiction |-> "DE", expiresAt |-> 0]
UntilFive == [tier |-> 2, jurisdiction |-> "FR", expiresAt |-> 5]

(* What a request may name; a builder takes what it needs. *)
Fields == [
  issuerId |-> "i", mint |-> Token, nonce |-> "n", termSeconds |-> 60,
  payer |-> Wallet("payer"), founder |-> Wallet("founder"),
  proposer |-> Wallet("proposer"), approver |-> Wallet("alice"),
  member |-> Wallet("bob"), officer |-> Wallet("officer"),
  authority |-> Wallet("authority"), attestor |-> Wallet("attestor"),
  treasury |-> Wallet("treasury"), rentRecipient |-> Wallet("rent"),
  wallet |-> Wallet("holder"), owner |-> Wallet("holder"),
  recipient |-> Wallet("other"), key |-> Wallet("key"),
  tokenAccount |-> AssociatedAccount(Token, Wallet("holder")),
  proposal |-> ActionProposalPda(Token, "n"), approvers |-> Members,
  members |-> Members, quorumN |-> 2, mask |-> {"thaw"},
  credential |-> Wallet("credential"), schema |-> Wallet("schema"),
  amount |-> 7,
  rules |-> <<"status">>, version |-> 2, reason |-> "reason",
  maxAge |-> 30, attestedAt |-> 4, index |-> 1, attestationIndex |-> 1,
  currency |-> "EUR", tokenIndex |-> 0, decimals |-> 2, feeBps |-> 10,
  initialSupply |-> 5, name |-> "Name", symbol |-> "SYM", uri |-> "uri" ]

Bodies == {
  [kind |-> "setPolicy", version |-> 2, rules |-> <<"status">>,
   reason |-> "reason"],
  [kind |-> "seize", tokenAccount |-> Fields.tokenAccount, amount |-> 7,
   reason |-> "reason"],
  [kind |-> "pause", reason |-> "reason"],
  [kind |-> "resume", reason |-> "reason"],
  [kind |-> "setAttestor", attestor |-> Wallet("attestor"),
   attestationMaxAge |-> 30, reason |-> "reason"],
  [kind |-> "mint", tokenAccount |-> Fields.tokenAccount, amount |-> 7]}

Ask(kind) == [kind |-> kind] @@ Fields

AllRequests ==
  {[action |-> a] @@ Ask("propose") : a \in Bodies}
  \cup
  {Ask(k) : k \in {"proposeDelegation", "approve", "close",
                   "seize", "pause", "resume", "mint", "attest", "freeze",
                   "unfreeze", "found", "name", "hookAccounts", "transfer",
                   "foreign"}}
  \cup {[quorum |-> q] @@ Ask(k) :
          q \in {Immediate, Deferred},
          k \in {"setPolicy", "setAttestor", "setDelegation"}}
  \cup {[status |-> s] @@ Ask("thaw") : s \in {Nothing, Just(UntilFive)}}
  \cup {[status |-> s] @@ Ask(k) : s \in {ForEver, UntilFive},
                                   k \in {"setStatus", "issue"}}

(* Two policies, the rules in different slots. *)
TwoPolicies == << <<"status">>,
                  <<"periodLimit", "jurisdictions", "status">> >>
=============================================================================
