------------------------------ MODULE MCRules ------------------------------
(***************************************************************************)
(* Values for TLC.                                                         *)
(***************************************************************************)
EXTENDS PolicyAccount

\* Codes 1 and 2 are countries; 3 is two bytes that are not capitals.
A == 1
B == 2

\* A family of attempts under policies that are spelled in these slots.
MCFamily(slots, senders, recipients, amounts, counters, versions) ==
    [rules |-> slots, policies |-> {ReadPolicy(s) : s \in slots},
     senders |-> senders, recipients |-> recipients, amounts |-> amounts,
     counters |-> counters, versions |-> versions]

Body(sources, tier, age, jurisdictions, transferLimit, periodLimit) ==
    [status |-> {[sources |-> sources, minTier |-> tier, maxAge |-> age]},
     jurisdictions |-> jurisdictions, transferLimit |-> transferLimit,
     periodLimit |-> periodLimit]

\* Bodies as a wizard sends them, in any order of sources.
MCBodies ==
    {Body(s, t, a, j, {}, {}) :
       s \in {<<"provider">>, <<"register">>, <<"register", "provider">>},
       t \in {0, 1}, a \in {{}, {1}}, j \in {{}, {<<A>>}}}
MCPolicies == UNION {EncodeRules(body) : body \in MCBodies}

Record(denied, tier, jurisdiction, expires, issued) ==
    [state |-> "record", denied |-> denied, tier |-> tier,
     jurisdiction |-> jurisdiction, expires |-> expires, issued |-> issued]
MCGoodRecord == Record(FALSE, 1, A, {}, Start)

\* Of the sender only silence, denial and age tell anything apart; of the
\* recipient tiers and countries too. A record may end now, at the next instant
\* or never; an attestation is fresh, or in the last instant of its period.
MCParties(tiers) ==
    LET Records(expiries, issues) ==
          {Record(d, t[1], t[2], e, i) :
             d \in BOOLEAN, t \in tiers, e \in expiries, i \in issues}
        spent == {Record(TRUE, 0, B, {Start}, Start)}
        silent == {Unavailable, Absent}
    IN  [provider : Records({{}}, {Start, Start - 1}) \cup spent \cup silent,
         register : Records({{}, {Start + 1}}, {0}) \cup spent \cup silent]
MCSenders == MCParties({<<1, A>>})
MCRecipients == MCParties({<<0, A>>, <<1, B>>, <<1, A>>})

MCGoodParty == [provider |-> Absent, register |-> MCGoodRecord]
MCOtherParty == [provider |-> Absent, register |-> Record(FALSE, 0, B, {}, Start)]
MCCounters == {{}} \cup {{c} : c \in [start : 0 .. Start, spent : 0 .. 3 \cup {MaxU64 - 1}]}

\* Every limit with every counter, on parties nothing is wrong with; the widest limit
\* and a counter that a transfer takes past it among them.
MCLimitPolicies ==
    UNION {EncodeRules(Body(<<"register">>, 0, {}, {}, t, p)) :
             t \in {{}, {1}, {3}},
             p \in {{}} \cup {{l} : l \in [amount : 1 .. 3 \cup {MaxU64}, windowSeconds : {1, 2}]}}
MCLimited ==
    MCFamily(MCLimitPolicies, {MCGoodParty}, {MCGoodParty}, 0 .. 3, MCCounters, {1, 2})

\* Every answer of the two sources, without limits.
MCAnswered == MCFamily(MCPolicies, MCSenders, MCRecipients, {1}, {{}}, {1})

\* Every array of well-formed slots, in any order and with any gaps, and each with
\* one slot as no encoder writes it.
MCGoodSlots ==
    {EmptySlot, Slot(STATUS, <<2, 1, 0>>), Slot(JURISDICTIONS, <<A, B>>),
     Slot(TRANSFER_LIMIT, <<1>>), Slot(PERIOD_LIMIT, <<1, 1>>)}
MCOddSlots ==
    {[EmptySlot EXCEPT !.op = 1], Slot(EMPTY, <<0, 0, 0, 1>>), Slot(5, <<1>>),
     Slot(STATUS, <<0, 0, 0>>), Slot(STATUS, <<4, 0, 0>>), Slot(STATUS, <<1, 0, 0>>),
     Slot(STATUS, <<3, 0, 9>>), Slot(STATUS, <<2, 0, 0, 1>>),
     Slot(JURISDICTIONS, <<B, A>>), Slot(JURISDICTIONS, <<A, A>>), Slot(JURISDICTIONS, <<3>>),
     Slot(JURISDICTIONS, <<>>), Slot(JURISDICTIONS, <<A, 0, B>>),
     Slot(TRANSFER_LIMIT, <<0>>), Slot(TRANSFER_LIMIT, <<1, 1>>),
     [Slot(TRANSFER_LIMIT, <<1>>) EXCEPT !.op = 1],
     Slot(PERIOD_LIMIT, <<0, 1>>), Slot(PERIOD_LIMIT, <<1, 9>>), Slot(PERIOD_LIMIT, <<1, 1, 1>>)}
MCArrays ==
    LET good == [1 .. MaxSlots -> MCGoodSlots]
    IN  good \cup {[slots EXCEPT ![i] = odd] : slots \in good, i \in 1 .. MaxSlots, odd \in MCOddSlots}
MCSpelled == MCFamily(MCArrays, {MCGoodParty}, {MCOtherParty}, {1}, {{}}, {1})

MCFamilies == {MCLimited, MCAnswered, MCSpelled}
MCSpellings == {MCSpelled}
=============================================================================
