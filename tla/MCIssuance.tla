----------------------------- MODULE MCIssuance -----------------------------
(***************************************************************************)
(* Values for TLC.                                                         *)
(***************************************************************************)
EXTENDS TokenIssuance

CONSTANTS t1, t2, t3, t4

MCBytes == [name |-> 2, symbol |-> 1, uri |-> 2]
MCSkew == {-1, 0, 1}

Title(word, name, symbol, uri) == [word |-> word, name |-> name, symbol |-> symbol, uri |-> uri]

\* A draft with which a token can be issued.
MCGoodDraft ==
    [title |-> Title("A", 1, 1, 1), decimals |-> {1}, initialSupply |-> Typed(1, 0), acknowledged |-> TRUE,
     sources |-> <<"provider", "register">>, minTier |-> 1, attestationAgeHours |-> {1},
     jurisdictions |-> <<>>, founderTier |-> 1, founderJurisdiction |-> 1,
     transferLimit |-> Typed(1, 1), periodLimit |-> Blank, periodHours |-> {1},
     reserveAmount |-> Typed(1, 0), reserveCurrency |-> "USD", reserveAgeHours |-> {2},
     addresses |-> TRUE, feeBps |-> {0}]

MCNamed(word) == [MCGoodDraft EXCEPT !.title.word = word]

\* Two tabs issue at once: one token, or two that differ in name or decimals.
MCTwo(a, b) == (t1 :> {a}) @@ (t2 :> {b})
MCWhole == [MCGoodDraft EXCEPT !.decimals = {0}, !.transferLimit = Blank]

\* One fills the form, and changes some fields of it.
MCOne(drafts) == t3 :> drafts

MCTitles ==
    {[MCGoodDraft EXCEPT !.title = title, !.acknowledged = ack] :
       title \in {MCGoodDraft.title, Title("A", 3, 1, 1), Title("A", 1, 1, 0)}, ack \in BOOLEAN}

\* Too large, too small, too many places, and not a number at all.
MCAmounts ==
    {[MCGoodDraft EXCEPT !.decimals = decimals, !.initialSupply = supply, !.reserveAmount = reserve] :
       decimals \in {{}, {0}, {1}, {2}}, supply \in {Typed(1, 0), Typed(11, 1), Typed(20, 0)},
       reserve \in {Typed(1, 0), Typed(20, 0), Junk}}

MCReserves ==
    {[MCGoodDraft EXCEPT !.reserveCurrency = currency, !.reserveAgeHours = age, !.feeBps = bps,
                         !.addresses = addresses] :
       currency \in {"USD", "x"}, age \in {{0}, {2}, {3}}, bps \in {{}, {1}, {2}},
       addresses \in BOOLEAN}

MCLimits ==
    {[MCGoodDraft EXCEPT !.decimals = decimals, !.transferLimit = limit, !.periodLimit = period,
                         !.periodHours = hours] :
       decimals \in {{0}, {1}}, limit \in {Blank, Junk, Typed(0, 0), Typed(13, 1), Typed(99, 1)},
       period \in {Blank, Typed(1, 0), Typed(2, 1)}, hours \in {{2}, {3}}}

MCStatus ==
    {[MCGoodDraft EXCEPT !.sources = sources, !.attestationAgeHours = age, !.minTier = tier] :
       sources \in {<<>>, <<"provider">>, <<"register">>, <<"register", "provider">>},
       age \in {{}, {1}, {3}}, tier \in 0 .. 1}

MCCountries ==
    {[MCGoodDraft EXCEPT !.jurisdictions = codes, !.founderJurisdiction = country] :
       codes \in {<<>>, <<2, 1>>, <<3>>, <<1, 1>>}, country \in {1, 3}}

\* Another client, which may name a time of attestation and an end of the founder's
\* status, and a policy in an order of its own, alone or beside a wizard.
MCRules(sources, age, codes) ==
    [status |-> {[sources |-> sources, minTier |-> 0, maxAge |-> age]}, jurisdictions |-> codes,
     transferLimit |-> {1}, periodLimit |-> {}]

MCPosted ==
    [title |-> Title("C", 1, 1, 1), decimals |-> 1, policy |-> MCRules(<<"register">>, {2}, {<<2, 1>>}),
     initialSupply |-> 5, reserve |-> 5, currency |-> "USD", attestedAt |-> {}, maxAgeSeconds |-> 1,
     addresses |-> TRUE, bps |-> 0, founderTier |-> 1, founderJurisdiction |-> 1, founderExpiresAt |-> 1]

MCPosts ==
    {[MCPosted EXCEPT !.attestedAt = at, !.founderExpiresAt = end, !.decimals = decimals, !.policy = policy] :
       at \in {{}, {0}, {1}}, end \in 0 .. 2, decimals \in {1, 2},
       policy \in {MCPosted.policy, MCRules(<<"register", "provider">>, {}, {}),
                   MCRules(<<"register", "provider">>, {1}, {<<>>})}}

MCFamilies ==
    {MCTwo(MCGoodDraft, MCGoodDraft), MCTwo(MCNamed("B"), MCWhole),
     t4 :> MCPosts, (t1 :> {MCGoodDraft}) @@ (t4 :> {MCPosted})}
      \cup {MCOne(drafts) : drafts \in {MCTitles, MCAmounts, MCReserves, MCLimits, MCStatus, MCCountries}}
=============================================================================
