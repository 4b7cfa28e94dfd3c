------------------------------ MODULE MCJournal ------------------------------
(***************************************************************************)
(* Chains for the indexer and the journal, composed from what the client's *)
(* builders ask for and decoded as the worker decodes them.                *)
(***************************************************************************)
EXTENDS Journal, TLC

LOCAL INSTANCE SequencesExt

D == INSTANCE WorkerDecode WITH RulesAt <- << <<"status">>, <<"status">> >>

Wallet(name) == <<"wallet", name>>
Token == D!MintPda("i", 0)
Other == D!MintPda("i", 1)

(* The body of a transaction of the given plans' instructions. *)
BodyOf(plans) ==
  LET instructions == [i \in DOMAIN plans |-> plans[i].instructions[1]]
      decoded == D!DecodeTransaction(
        [signature |-> 0, slot |-> 0, err |-> Nothing,
         outer |-> [i \in DOMAIN plans |->
                      [instruction |-> instructions[i], inner |-> << >>]]])
  IN  [statements |-> FlattenSeq([i \in DOMAIN decoded.changes |->
                        StatementsOf(decoded.changes[i])]),
       events |-> [n \in DOMAIN decoded.events |->
                     [kind |-> decoded.events[n].kind,
                      mint |-> decoded.events[n].mint]]]

Status(tier) == [tier |-> tier, jurisdiction |-> "DE", expiresAt |-> 0]

Fields == [
  issuerId |-> "i", mint |-> Token, payer |-> Wallet("p"),
  founder |-> Wallet("f"), authority |-> Wallet("f"), attestor |-> Wallet("a"),
  treasury |-> Wallet("t"), wallet |-> Wallet("f"), owner |-> Wallet("f"),
  recipient |-> Wallet("r"), members |-> << Wallet("f") >>, quorumN |-> 1,
  version |-> 1, rules |-> <<"status">>, maxAge |-> 1, attestedAt |-> 1,
  amount |-> 1, currency |-> "EUR", tokenIndex |-> 0, decimals |-> 0,
  credential |-> Wallet("c"), schema |-> Wallet("s"), feeBps |-> 0,
  initialSupply |-> 1, index |-> 1, name |-> "Name", symbol |-> "SYM",
  uri |-> "uri", status |-> Status(1), key |-> "k0", mask |-> 0,
  quorum |-> [kind |-> "immediate", members |-> << Wallet("f") >>] ]

Found == D!InitializeIssuer(Fields)
Issue == D!CreateToken(Fields)
Name == D!SetTokenMetadata(Fields)
Policy == D!SetPolicy([version |-> 2, reason |-> "why"] @@ Fields)
Grant(key) == D!SetDelegation([key |-> key] @@ Fields)
SetStatus == D!SetHolderStatus([status |-> Status(2)] @@ Fields)
Thaw == D!ThawHolder([status |-> Nothing] @@ Fields)
Attest == D!AttestReserve(Fields)
AttestOther == D!AttestReserve([mint |-> Other] @@ Fields)

(* Four transactions; the slots they share, the order of signatures in a   *)
(* slot and the dates of the slots vary.                                   *)
Chain(plans, slots, sigs, times) ==
  [i \in DOMAIN plans |->
     [slot |-> slots[i], sig |-> sigs[i], time |-> times[slots[i]],
      body |-> BodyOf(plans[i])]]

Delegations == << << Found >>, << Grant("k1"), Grant("k2") >>, << Issue >>,
                  << Grant("k3"), Attest >> >>
HolderRows == << << Found, Issue >>, << SetStatus, Name >>, << Thaw, Policy >>,
                 << AttestOther, Attest >> >>

AllLedgers ==
  { Chain(Delegations, <<1, 2, 2, 3>>, <<1, 3, 2, 4>>,
          << Just(1), Nothing, Just(2) >>),
    Chain(HolderRows, <<1, 1, 2, 3>>, <<2, 1, 3, 4>>,
          << Just(1), Just(2), Just(2) >>) }

(* Everything, past what is read; one date; from a date on. *)
AllPeriods ==
  { <<NoBound, AtSlot(3)>>, <<AtTime(1), AtTime(1)>>, <<AtTime(2), NoBound>> }
NoPeriod == { <<NoBound, NoBound>> }

AllReaders == {"none", "export", "feed"}
NoReader == {"none"}
=============================================================================
