----------------------------- MODULE MCHolders ------------------------------
(***************************************************************************)
(* Values for TLC: the members of MCGovernance, and one or two holders.    *)
(***************************************************************************)
EXTENDS Holders, MCGovernance

CONSTANTS hal, ida, a1, a2, a3

MCHolderWallets == {ada, bob, att1, key1, hal, ida}
MCOwners == [a \in Account |-> IF a = a3 THEN ida ELSE hal]

\* Lists that sign a policy, or the narrowing of the key's powers.
MCOneList == {<<ada, bob>>}

Status(denied, tier, expires) ==
    [denied |-> denied, tier |-> tier, expires |-> expires, state |-> "record",
     jurisdiction |-> "A", issued |-> 0]
MCGoodStatus == {Status(FALSE, 1, {})}
MCStatuses == {Status(FALSE, 1, {}), Status(TRUE, 1, {}), Status(FALSE, 1, {2})}
MCAttestations == {[Status(FALSE, 1, {}) EXCEPT !.issued = 1], Absent, Unavailable}
MCNoAttestations == {}

RuleSet(sources, limits) ==
    [sources |-> sources, minTier |-> 0, maxAge |-> {1}, jurisdictions |-> {},
     transferLimit |-> {}, periodLimit |-> limits, unknownKind |-> FALSE]

\* No limit; two in two instants, one in three; and as much as a u64 holds.
MCNoLimit == {RuleSet({"register"}, {})}
MCLimits ==
    {RuleSet({"register"}, l) : l \in {{}, {[amount |-> 2, window |-> 2]},
                                       {[amount |-> 1, window |-> 3]},
                                       {[amount |-> MaxU64, window |-> 2]}}}
MCSources == {RuleSet(s, {}) : s \in {{"provider"}, {"register"}}}

MCRoute == {<<a1, a3>>}

MCEpoch == -2
=============================================================================
