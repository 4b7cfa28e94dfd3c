------------------------------ MODULE MCLedger ------------------------------
(***************************************************************************)
(* Values for TLC: the founder's account, the treasury's, a holder's and   *)
(* the vault, and the orders each run asks for.                            *)
(***************************************************************************)
EXTENDS Compliance, ReservePage, MCHolders

CONSTANTS tre, pda, founders, treasurys, holders, vault

MCLedgerWallets == {ada, bob, att1, key1, hal, tre, pda}
MCLedgerTwoAttestors == {ada, bob, att1, att2, key1, hal, tre, pda}
MCLedgerOwners ==
    [a \in Account |->
       CASE a = founders -> ada [] a = treasurys -> tre [] a = vault -> pda [] OTHER -> hal]

Minted(account, amount) == [kind |-> "Mint", account |-> account, amount |-> amount]
Seized(account, amount) ==
    [kind |-> "Seize", account |-> account, amount |-> amount, reason |-> "case"]
Circulation(kind) == [kind |-> kind, reason |-> "case"]

\* Issuance to a member and to a holder.
MCMints == {Minted(founders, 2), Minted(holders, 2)}
\* Pauses, seizures from the founder, a holder and the vault, and issuances with a fee.
MCCirculation ==
    {Minted(founders, 2), Circulation("Pause"), Circulation("Resume"),
     Seized(founders, 1), Seized(holders, 1), Seized(vault, 1)}

\* The admin alone, and one person who has proven the officer's wallet too.
MCSessions == {{ada}, {ada, bob}}

MCTransfers == {<<founders, holders>>, <<founders, vault>>}
=============================================================================
