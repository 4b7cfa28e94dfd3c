---------------------------- MODULE MCGovernance ----------------------------
(***************************************************************************)
(* Values for TLC: an admin, two compliance officers, an attestor or two   *)
(* and outsiders that can serve as the operational key.                    *)
(***************************************************************************)
EXTENDS Governance, TLC

CONSTANTS ada, bob, cyd, att1, att2, key1, key2, n1, n2

MCWallet == {ada, bob, cyd, att1, key1}
MCTwoKeys == MCWallet \cup {key2}

\* The officers are interchangeable, and so are two attestors, keys or nonces.
MCSymmetry == Permutations({bob, cyd})
MCSymmetryAttestors == Permutations({n1, n2}) \cup Permutations({att1, att2})
MCSymmetryKeys == MCSymmetry \cup Permutations({key1, key2})

Roles(w) ==
    CASE w = ada -> {"admin"}
      [] w \in {bob, cyd} -> {"compliance"}
      [] w \in {att1, att2} -> {"attestor"}
      [] OTHER -> {}

\* One membership that can be founded, one whose attestor also observes and one
\* with a single member: the last two are refused.
MCMemberships ==
    {[w \in Wallet |-> Roles(w)],
     [w \in Wallet |-> IF w = att1 THEN {"attestor", "observer"} ELSE Roles(w)],
     [w \in Wallet |-> IF w = ada THEN {"admin"} ELSE {}]}

MCKeys == {key1, ada}
MCKeysAndAdmin == {key1, key2, ada}
MCAttestors == {att1, bob}
MCBothAttestors == {att1, att2}

MCScope == {"issuer", "token"}

\* Grades of power, and a mask with a bit that is no power.
MCTwoMasks == {{}, {"thaw_holder"}, {"undefined"}}
MCGrades == {{"thaw_holder"}, {"thaw_holder", "set_holder_status"}, {"undefined"}}
MCOneMask == {{"thaw_holder"}}

\* Lists of one or two, some with an outsider or a repetition; the admin, where it
\* signs, signs first.
MCFewLists ==
    {<<ada>>, <<bob>>, <<cyd>>, <<ada, ada>>, <<ada, key1>>, <<ada, bob>>, <<ada, cyd>>,
     <<bob, cyd>>, <<cyd, bob>>}
=============================================================================
