----------------------------- MODULE LedgerMirror -----------------------------
(***************************************************************************)
(* What the worker and the journal promise together: a reader of the       *)
(* journal is shown the events of the chain's confirmed slots up to one of *)
(* them, each slot whole, and what has been shown stays.                   *)
(***************************************************************************)
EXTENDS Naturals, Sequences

CONSTANT Ledgers

VARIABLES ledger,   \* the whole chain, as it will be
          tip,      \* how much of it has been confirmed
          shown     \* the events shown: a position and an event of it

EventsUpTo(n) ==
  UNION {{p} \X DOMAIN ledger[p].body.events : p \in 1..n}

Init == ledger \in Ledgers /\ tip = 0 /\ shown = {}

Confirm == /\ tip' \in tip + 1..Len(ledger)
           /\ UNCHANGED <<ledger, shown>>

Show == /\ \E n \in 1..tip :
             /\ n < Len(ledger) => ledger[n].slot < ledger[n + 1].slot
             /\ shown' = EventsUpTo(n)
             /\ shown \subseteq shown'
        /\ UNCHANGED <<ledger, tip>>

Next == Confirm \/ Show

Spec == Init /\ [][Next]_<<ledger, tip, shown>>
=============================================================================
