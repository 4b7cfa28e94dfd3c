------------------------------- MODULE MCDesk -------------------------------
(***************************************************************************)
(* Values for TLC: two admins at the console, two attestors and two keys.  *)
(***************************************************************************)
EXTENDS Desk, TLC

CONSTANTS ada, bob, att1, att2, key1, key2, n1, n2

MCWallet == {ada, bob, att1, att2, key1, key2}

Roles(w) ==
    CASE w \in {ada, bob} -> {"admin"}
      [] w \in {att1, att2} -> {"attestor"}
      [] OTHER -> {}

MCMemberships == {[w \in Wallet |-> Roles(w)]}
MCSeats == {ada, bob}
MCKeys == {key1, key2}
MCAttestors == {att1, att2}
MCMasks == {{}, {"thaw_holder"}, {"thaw_holder", "set_holder_status"}}
MCScope == {"issuer", "token"}
\* A clock that is right or late.
MCSkews == {-1, 0}

MCLists == {<<ada, bob>>, <<bob, ada>>}
MCAgendas ==
    {[kinds |-> {"SetPolicy"}, elsewhere |-> {}, nonces |-> {n1, n2}],
     [kinds |-> {"SetPolicy"}, elsewhere |-> {"SetPolicy", "SetAttestor"}, nonces |-> {n1}],
     [kinds |-> {"SetDelegation"}, elsewhere |-> {}, nonces |-> {n1}]}

\* What is not on the agenda starts in one way.
MCInit == DeskInit /\ ("SetDelegation" \in agenda.kinds \/ delegation.mask = {})
MCSpec == MCInit /\ [][DeskNext]_dvars

MCSymmetry ==
    Permutations({ada, bob}) \cup Permutations({att1, att2}) \cup Permutations({key1, key2})
=============================================================================
