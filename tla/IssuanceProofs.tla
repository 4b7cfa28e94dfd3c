--------------------------- MODULE IssuanceProofs ---------------------------
(***************************************************************************)
(* Issuing from the console, for any number of wizards, any drafts, any    *)
(* clocks and any bounds.                                                  *)
(*                                                                         *)
(* Nothing ties a wizard to the number it issues but a row it may have     *)
(* taken over from another, or lost to one since.  IInv says what is left: *)
(* a transaction is of one order, what it did when it landed stays done,   *)
(* and a line of the screen is confirmed by that transaction only.         *)
(***************************************************************************)
EXTENDS TokenIssuance, FiniteSetTheorems, SequenceTheorems, WellFoundedInduction, TLAPS

-----------------------------------------------------------------------------
(* Types *)

Drafts == UNION {UNION {family[t] : t \in DOMAIN family \ Callers} : family \in Families}
Raws == UNION {UNION {family[t] : t \in DOMAIN family \cap Callers} : family \in Families}
Bodies == (UNION {toCreateTokenBody(d, now) : d \in Drafts, now \in Int})
            \cup (UNION {PostedBody(raw, now) : raw \in Raws, now \in Nat})
Words == {body.title.word : body \in Bodies}
Places == {body.decimals : body \in Bodies}

Order == [body : Bodies, at : Nat, number : Nat, built : Nat]
Tx == [by : Tab, step : 1 .. 3, order : Order]
Row == [names : [word : Words, decimals : Places], state : {"pending", "live"}, since : Nat]
Token == [body : Bodies, by : Tab, named : SUBSET Words, hooked : BOOLEAN]

Unshown == {"form", "asked", "counted", "taking", "reserved"}
Submitted == {"signing", "confirming"}
Stages == Unshown \cup {"assembled"} \cup Submitted
Phases == {"waiting", "signing", "confirming", "confirmed", "failed"}

TabTypeOK ==
    /\ DOMAIN draft \subseteq Tab
    /\ \A t \in DOMAIN draft : draft[t] \in IF t \in Callers THEN Raws ELSE Drafts
    /\ pc \in [Tab -> Stages]
    /\ order \in [Tab -> SUBSET Order]
    /\ shown \in [Tab -> BOOLEAN]
    /\ progress \in [Tab -> {<<>>} \cup [1 .. 3 -> Phases]]
    /\ tx \in [Tab -> 1 .. 3]

IssuanceTypeOK ==
    /\ clock \in Nat
    /\ TabTypeOK
    /\ rows \in Seq(Row)
    /\ count \in Nat /\ tokens \in Seq(Token)
    /\ flight \subseteq Tx /\ landed \subseteq [tx : Tx, ok : BOOLEAN]
    /\ mirrored \subseteq Nat

\* The three transactions.
LEMMA ThreeSteps ==
    /\ DOMAIN TX_STEPS = 1 .. 3 /\ Len(TX_STEPS) = 3
    /\ TX_STEPS[1] = "create-token" /\ TX_STEPS[2] = "token-metadata"
    /\ TX_STEPS[3] = "hook-accounts"
  BY DEF TX_STEPS

-----------------------------------------------------------------------------
(* The invariant *)

\* What a tab has in hand: one order while it issues; a screen once it is assembled,
\* whose lines are confirmed by the transactions of that order; and a number with a
\* row once it is reserved.
Confirmed(t, i) ==
    \E o \in order[t] : [tx |-> [by |-> t, step |-> i, order |-> o], ok |-> TRUE] \in landed

InHand(t) ==
    /\ \A o, p \in order[t] : o = p
    /\ pc[t] = "form" <=> order[t] = {}
    /\ pc[t] \in Unshown => ~shown[t]
    /\ IF shown[t] THEN progress[t] \in [1 .. 3 -> Phases] ELSE progress[t] = <<>>
    /\ shown[t] => \A i \in 1 .. 3 : progress[t][i] = "confirmed" => Confirmed(t, i)
    /\ pc[t] \in Stages \ {"form", "asked", "counted"} =>
         \A o \in order[t] : o.number < Len(rows)

AllInHand == \A t \in Tab : InHand(t)

\* A number is created under a row, and what has landed is on the chain.
Executed ==
    /\ count = Len(tokens) /\ count <= Len(rows)
    /\ \A x \in flight : x.order.number < Len(rows)
    /\ \A x \in Tx : [tx |-> x, ok |-> TRUE] \in landed =>
         LET token == tokens[x.order.number + 1]
         IN  /\ x.order.number < count
             /\ x.step = 1 => token.by = x.by /\ token.body = x.order.body
             /\ x.step = 2 => token.named = {x.order.body.title.word}
             /\ x.step = 3 => token.hooked

\* A live row has its token's decimals, and once the metadata is seen its name.
Live ==
    /\ \A n \in DOMAIN rows : rows[n].state = "live" =>
         n <= count /\ rows[n].names.decimals = tokens[n].body.decimals
    /\ \A n \in mirrored :
         /\ n \in DOMAIN rows /\ rows[n].state = "live"
         /\ tokens[n].named = {rows[n].names.word}

\* A name is given once.
NamedOnce == \A n \in DOMAIN tokens : \A v, w \in tokens[n].named : v = w

IInv ==
    /\ IssuanceTypeOK
    /\ AllInHand
    /\ Executed
    /\ Live
    /\ NamedOnce

-----------------------------------------------------------------------------
(* What the steps do *)

Walk(t) == Edit(t) \/ (\E n \in STEPS : GoTo(t, n))
Ask(t) ==
    \/ Prepare(t) \/ Post(t) \/ ReadCount(t) \/ Reserve(t) \/ Decide(t) \/ Take(t)
    \/ Assemble(t) \/ AnswerLost(t)
Sign(t) == Reset(t) \/ Submit(t) \/ Send(t) \/ Confirm(t) \/ GiveUp(t)

\* A step is a tab's, a transaction's, the worker's or the clock's.
LEMMA StepsAre ==
    ASSUME [Next]_vars
    PROVE  \/ \E t \in DOMAIN draft : Walk(t) \/ Ask(t) \/ Sign(t)
           \/ Land \/ MirrorCreated \/ MirrorNamed \/ Tick
           \/ UNCHANGED vars
  BY DEF Next, Walk, Ask, Sign

\* A form's clock is off by a whole number.
LEMMA SkewIsInt ==
    ASSUME NEW t, NEW skew \in IF t \in Walkers THEN Skew ELSE {0}
    PROVE  skew \in Int
<1>1. Skew \subseteq Int
  BY Zenon, TabsAssumption
<1> QED
  BY <1>1

\* A body that is asked about is one that a draft makes, or one that is posted.
LEMMA BodyOfDraft ==
    ASSUME TabTypeOK, clock \in Nat, NEW t \in DOMAIN draft, Prepare(t) \/ Post(t)
    PROVE  \E body \in Bodies : Asked(t, body)
<1>1. CASE Prepare(t)
  <2>1. PICK skew \in IF t \in Walkers THEN Skew ELSE {0} :
          \E body \in toCreateTokenBody(draft[t], clock + skew) : Asked(t, body)
    BY <1>1 DEF Prepare
  <2>2. skew \in Int
    BY SkewIsInt
  <2>3. clock + skew \in Int /\ draft[t] \in Drafts
    BY <1>1, <2>2 DEF TabTypeOK, Prepare
  <2> QED
    BY <2>1, <2>3 DEF Bodies
<1>2. CASE Post(t)
  <2>1. PICK body \in PostedBody(draft[t], clock) : Asked(t, body)
    BY <1>2 DEF Post
  <2>2. draft[t] \in Raws
    BY <1>2 DEF TabTypeOK, Post
  <2> QED
    BY <2>1, <2>2 DEF Bodies
<1> QED
  BY <1>1, <1>2

\* The one order of a tab.
LEMMA OneOrder ==
    ASSUME TabTypeOK, NEW t \in Tab, InHand(t), NEW o \in order[t]
    PROVE  order[t] = {o} /\ The(order[t]) = o /\ o \in Order
<1>1. order[t] = {o} /\ o \in Order
  BY DEF TabTypeOK, InHand
<1>2. \A x \in {o} : x = o
  OBVIOUS
<1>3. (CHOOSE x \in {o} : TRUE) = o
  BY <1>2
<1> QED
  BY <1>1, <1>3 DEF The

\* Landing: what a transaction does, if it does anything.
LEMMA LandIs ==
    ASSUME IssuanceTypeOK, Executed, Land
    PROVE  \E x \in flight :
             /\ x \in Tx /\ x.order.number \in Nat /\ x.order.number < Len(rows)
             /\ flight' = flight \ {x}
             /\ \/ /\ landed' = landed \cup {[tx |-> x, ok |-> FALSE]}
                   /\ UNCHANGED <<count, tokens>>
                \/ /\ landed' = landed \cup {[tx |-> x, ok |-> TRUE]}
                   /\ x.step = 1 /\ x.order.number = count
                   /\ count' = count + 1
                   /\ tokens' = Append(tokens, [body |-> x.order.body, by |-> x.by,
                                                named |-> {}, hooked |-> FALSE])
                \/ /\ landed' = landed \cup {[tx |-> x, ok |-> TRUE]}
                   /\ x.step = 2 /\ x.order.number < count /\ count' = count
                   /\ tokens[x.order.number + 1].named = {}
                   /\ tokens' = [tokens EXCEPT ![x.order.number + 1].named =
                                   {x.order.body.title.word}]
                \/ /\ landed' = landed \cup {[tx |-> x, ok |-> TRUE]}
                   /\ x.step = 3 /\ x.order.number < count /\ count' = count
                   /\ tokens' = [tokens EXCEPT ![x.order.number + 1].hooked = TRUE]
             /\ UNCHANGED <<clock, tabVars, requests, rows, mirrored>>
<1>1. PICK x \in flight :
        /\ flight' = flight \ {x}
        /\ landed' = landed \cup {[tx |-> x, ok |-> Executes(x)]}
        /\ IF ~Executes(x) THEN UNCHANGED <<count, tokens>>
           ELSE CASE TX_STEPS[x.step] = "create-token" ->
                       /\ count' = count + 1
                       /\ tokens' = Append(tokens,
                            [body |-> x.order.body, by |-> x.by, named |-> {}, hooked |-> FALSE])
                  [] TX_STEPS[x.step] = "token-metadata" ->
                       /\ tokens' = [tokens EXCEPT ![x.order.number + 1].named = {x.order.body.title.word}]
                       /\ UNCHANGED count
                  [] OTHER ->
                       /\ tokens' = [tokens EXCEPT ![x.order.number + 1].hooked = TRUE]
                       /\ UNCHANGED count
        /\ UNCHANGED <<clock, tabVars, requests, rows, mirrored>>
  BY DEF Land
<1>2. x \in Tx /\ x.order \in Order /\ x.order.number \in Nat /\ x.order.number < Len(rows)
  BY DEF IssuanceTypeOK, Tx, Order, Executed
<1>3. x.step = 1 \/ x.step = 2 \/ x.step = 3
  BY <1>2 DEF Tx
<1>4. CASE ~Executes(x)
  <2>1. [tx |-> x, ok |-> Executes(x)] = [tx |-> x, ok |-> FALSE]
    BY <1>3, <1>4, ThreeSteps DEF Executes
  <2> QED
    BY <1>1, <1>2, <1>4, <2>1
<1>5. CASE Executes(x)
  <2>1. [tx |-> x, ok |-> Executes(x)] = [tx |-> x, ok |-> TRUE]
    BY <1>3, <1>5, ThreeSteps DEF Executes
  <2>2. CASE x.step = 1
    <3>1. TX_STEPS[x.step] = "create-token"
      BY <2>2, ThreeSteps
    <3>2. x.order.number = count
      BY <1>5, <3>1 DEF Executes
    <3> QED
      BY <1>1, <1>2, <1>5, <2>1, <2>2, <3>1, <3>2
  <2>3. CASE x.step = 2
    <3>1. TX_STEPS[x.step] = "token-metadata" /\ TX_STEPS[x.step] # "create-token"
      BY <2>3, ThreeSteps
    <3>2. x.order.number < count /\ tokens[x.order.number + 1].named = {}
      BY <1>5, <3>1 DEF Executes
    <3> QED
      BY <1>1, <1>2, <1>5, <2>1, <2>3, <3>1, <3>2
  <2>4. CASE x.step = 3
    <3>1. TX_STEPS[x.step] # "token-metadata" /\ TX_STEPS[x.step] # "create-token"
      BY <2>4, ThreeSteps
    <3>2. x.order.number < count
      BY <1>5, <3>1 DEF Executes
    <3> QED
      BY <1>1, <1>2, <1>5, <2>1, <2>4, <3>1, <3>2
  <2> QED
    BY <1>3, <2>2, <2>3, <2>4
<1> QED
  BY <1>4, <1>5

\* A list with an entry written over.
LEMMA WrittenOver ==
    ASSUME NEW S, NEW s \in Seq(S), NEW k \in 1 .. Len(s), NEW e \in S,
           NEW r, r = [s EXCEPT ![k] = e]
    PROVE  /\ r \in Seq(S) /\ Len(r) = Len(s) /\ r[k] = e
           /\ \A n \in 1 .. Len(s) : n # k => r[n] = s[n]
  BY ExceptSeq

\* What a step does to the tokens.
LEMMA TokensKept ==
    ASSUME IssuanceTypeOK, Executed, NamedOnce, [Next]_vars
    PROVE  /\ tokens' \in Seq(Token) /\ count' \in Nat
           /\ count <= count' /\ count' = Len(tokens')
           /\ \A n \in 1 .. count :
                /\ tokens'[n].body = tokens[n].body /\ tokens'[n].by = tokens[n].by
                /\ tokens[n].hooked => tokens'[n].hooked
                /\ tokens[n].named # {} => tokens'[n].named = tokens[n].named
           /\ NamedOnce'
<1>1. CASE UNCHANGED <<count, tokens>>
  BY <1>1 DEF IssuanceTypeOK, Executed, NamedOnce
<1>2. CASE Land
  <2>1. PICK x \in flight :
          /\ x \in Tx /\ x.order.number \in Nat
          /\ \/ UNCHANGED <<count, tokens>>
             \/ /\ x.step = 1 /\ x.order.number = count
                /\ count' = count + 1
                /\ tokens' = Append(tokens, [body |-> x.order.body, by |-> x.by,
                                             named |-> {}, hooked |-> FALSE])
             \/ /\ x.step = 2 /\ x.order.number < count /\ count' = count
                /\ tokens[x.order.number + 1].named = {}
                /\ tokens' = [tokens EXCEPT ![x.order.number + 1].named =
                                {x.order.body.title.word}]
             \/ /\ x.step = 3 /\ x.order.number < count /\ count' = count
                /\ tokens' = [tokens EXCEPT ![x.order.number + 1].hooked = TRUE]
    BY <1>2, LandIs
  <2>2. x.order.body \in Bodies /\ x.by \in Tab /\ x.order.body.title.word \in Words
    BY <2>1 DEF Tx, Order, Words
  <2>3. /\ tokens \in Seq(Token) /\ count \in Nat /\ count = Len(tokens)
        /\ \A n \in 1 .. count : tokens[n] \in Token
    BY DEF IssuanceTypeOK, Executed
  <2>4. CASE count' = count + 1 /\
             tokens' = Append(tokens, [body |-> x.order.body, by |-> x.by,
                                       named |-> {}, hooked |-> FALSE])
    <3> DEFINE token == [body |-> x.order.body, by |-> x.by, named |-> {}, hooked |-> FALSE]
    <3>1. token \in Token /\ token.named = {}
      BY <2>2 DEF Token
    <3> HIDE DEF token
    <3>2. /\ tokens' \in Seq(Token) /\ Len(tokens') = count + 1
          /\ \A n \in 1 .. count : tokens'[n] = tokens[n]
          /\ tokens'[count + 1] = token
      BY <2>3, <2>4, <3>1 DEF token
    <3>3. NamedOnce'
      BY <2>3, <3>1, <3>2 DEF NamedOnce
    <3> QED
      BY <2>3, <2>4, <3>2, <3>3
  <2>5. CASE /\ x.order.number < count /\ count' = count
             /\ tokens[x.order.number + 1].named = {}
             /\ tokens' = [tokens EXCEPT ![x.order.number + 1].named = {x.order.body.title.word}]
    <3>1. PICK k \in 1 .. count : k = x.order.number + 1
      BY <2>1, <2>3, <2>5
    <3>2. [tokens[k] EXCEPT !.named = {x.order.body.title.word}] \in Token
      BY <2>2, <2>3 DEF Token
    <3>3. PICK token : token = [tokens[k] EXCEPT !.named = {x.order.body.title.word}]
      OBVIOUS
    <3>4. tokens' = [tokens EXCEPT ![k] = token]
      BY <2>5, <3>1, <3>3
    <3>5. token \in Token /\ k \in 1 .. Len(tokens) /\ tokens \in Seq(Token)
      BY <2>3, <3>1, <3>2, <3>3
    <3>6. /\ tokens' \in Seq(Token) /\ Len(tokens') = Len(tokens) /\ tokens'[k] = token
          /\ \A n \in 1 .. Len(tokens) : n # k => tokens'[n] = tokens[n]
      BY <3>4, <3>5, WrittenOver
    <3>7. /\ tokens' \in Seq(Token) /\ Len(tokens') = count
          /\ \A n \in 1 .. count : n # k => tokens'[n] = tokens[n]
          /\ tokens'[k] = token
      BY <2>3, <3>6
    <3>8. /\ tokens'[k].body = tokens[k].body /\ tokens'[k].by = tokens[k].by
          /\ tokens'[k].hooked = tokens[k].hooked
          /\ tokens'[k].named = {x.order.body.title.word}
      BY <2>3, <3>7, <3>3 DEF Token
    <3>9. NamedOnce'
      <4>1. DOMAIN tokens = 1 .. count /\ DOMAIN tokens' = 1 .. count
        BY <2>3, <3>7
      <4>2. \A v, w \in tokens'[k].named : v = w
        BY <3>1, <3>8, <4>1 DEF NamedOnce
      <4> QED
        BY <3>7, <4>1, <4>2 DEF NamedOnce
    <3> QED
      <4>1. \A n \in 1 .. count : n = k \/ tokens'[n] = tokens[n]
        BY <3>7
      <4>2. tokens[k].named = {}
        BY <2>5, <3>1
      <4>3. count <= count' /\ count' = Len(tokens') /\ count' \in Nat
        BY <2>3, <2>5, <3>7
      <4> QED
        BY <3>7, <3>8, <3>9, <4>1, <4>2, <4>3
  <2>6. CASE /\ x.order.number < count /\ count' = count
             /\ tokens' = [tokens EXCEPT ![x.order.number + 1].hooked = TRUE]
    <3>1. PICK k \in 1 .. count : k = x.order.number + 1
      BY <2>1, <2>3, <2>6
    <3>2. [tokens[k] EXCEPT !.hooked = TRUE] \in Token
      BY <2>3 DEF Token
    <3>3. PICK token : token = [tokens[k] EXCEPT !.hooked = TRUE]
      OBVIOUS
    <3>4. tokens' = [tokens EXCEPT ![k] = token]
      BY <2>6, <3>1, <3>3
    <3>5. token \in Token /\ k \in 1 .. Len(tokens) /\ tokens \in Seq(Token)
      BY <2>3, <3>1, <3>2, <3>3
    <3>6. /\ tokens' \in Seq(Token) /\ Len(tokens') = Len(tokens) /\ tokens'[k] = token
          /\ \A n \in 1 .. Len(tokens) : n # k => tokens'[n] = tokens[n]
      BY <3>4, <3>5, WrittenOver
    <3>7. /\ tokens' \in Seq(Token) /\ Len(tokens') = count
          /\ \A n \in 1 .. count : n # k => tokens'[n] = tokens[n]
          /\ tokens'[k] = token
      BY <2>3, <3>6
    <3>8. /\ tokens'[k].body = tokens[k].body /\ tokens'[k].by = tokens[k].by
          /\ tokens'[k].hooked /\ tokens'[k].named = tokens[k].named
      BY <2>3, <3>7, <3>3 DEF Token
    <3>9. NamedOnce'
      <4>1. DOMAIN tokens = 1 .. count /\ DOMAIN tokens' = 1 .. count
        BY <2>3, <3>7
      <4>2. \A v, w \in tokens'[k].named : v = w
        BY <3>1, <3>8, <4>1 DEF NamedOnce
      <4> QED
        BY <3>7, <4>1, <4>2 DEF NamedOnce
    <3> QED
      <4>1. \A n \in 1 .. count : n = k \/ tokens'[n] = tokens[n]
        BY <3>7
      <4>2. count <= count' /\ count' = Len(tokens') /\ count' \in Nat
        BY <2>3, <2>6, <3>7
      <4> QED
        BY <3>7, <3>8, <3>9, <4>1, <4>2
  <2>7. CASE UNCHANGED <<count, tokens>>
    BY <1>1, <2>7
  <2> QED
    BY <2>1, <2>4, <2>5, <2>6, <2>7
<1>3. Land \/ UNCHANGED <<count, tokens>>
  <2>1. ASSUME NEW t, Walk(t)
        PROVE  UNCHANGED <<count, tokens>>
    BY <2>1 DEF Walk, Edit, GoTo, chainVars
  <2>2. ASSUME NEW t, Ask(t)
        PROVE  UNCHANGED <<count, tokens>>
    BY <2>2 DEF Ask, Prepare, Post, Asked, ReadCount, Reserve, Decide, Take, Assemble, AnswerLost, Server,
                chainVars
  <2>3. ASSUME NEW t, Sign(t)
        PROVE  UNCHANGED <<count, tokens>>
    BY <2>3 DEF Sign, Reset, Submit, Send, Confirm, GiveUp, Submitting, chainVars
  <2>4. CASE MirrorCreated \/ MirrorNamed \/ Tick \/ UNCHANGED vars
    BY <2>4 DEF MirrorCreated, MirrorNamed, Tick, vars, chainVars
  <2> QED
    BY <2>1, <2>2, <2>3, <2>4, StepsAre
<1> QED
  BY <1>1, <1>2, <1>3

\* A row is written over: what it then says of a live token must be true.
LEMMA RowWritten ==
    ASSUME IssuanceTypeOK, Live, NEW k \in 1 .. Len(rows), NEW row \in Row,
           rows' = [rows EXCEPT ![k] = row],
           rows[k].state = "live" =>
             row.state = "live" /\ row.names.decimals = rows[k].names.decimals,
           row.state = "live" => k <= count /\ row.names.decimals = tokens[k].body.decimals,
           k \in mirrored => row.names.word = rows[k].names.word
    PROVE  /\ rows' \in Seq(Row) /\ Len(rows') = Len(rows)
           /\ \A n \in 1 .. Len(rows') : rows'[n].state = "live" =>
                n <= count /\ rows'[n].names.decimals = tokens[n].body.decimals
           /\ \A n \in mirrored :
                /\ n \in 1 .. Len(rows') /\ rows'[n].state = "live"
                /\ tokens[n].named = {rows'[n].names.word}
<1>1. rows \in Seq(Row)
  BY DEF IssuanceTypeOK
<1>2. /\ rows' \in Seq(Row) /\ Len(rows') = Len(rows)
      /\ \A n \in 1 .. Len(rows) : n # k => rows'[n] = rows[n]
  BY <1>1, WrittenOver
<1>3. DOMAIN rows = 1 .. Len(rows)
  BY <1>1
<1> QED
  BY <1>2, <1>3 DEF Live

\* What a step does to the rows.
LEMMA RowsKept ==
    ASSUME IssuanceTypeOK, AllInHand, Executed, Live, NamedOnce, [Next]_vars
    PROVE  /\ rows' \in Seq(Row) /\ Len(rows) <= Len(rows') /\ mirrored' \subseteq Nat
           /\ \A n \in 1 .. Len(rows') : rows'[n].state = "live" =>
                n <= count /\ rows'[n].names.decimals = tokens[n].body.decimals
           /\ \A n \in mirrored' :
                /\ n \in 1 .. Len(rows') /\ rows'[n].state = "live"
                /\ tokens[n].named = {rows'[n].names.word}
<1> DEFINE Kept ==
             /\ rows' \in Seq(Row) /\ Len(rows) <= Len(rows') /\ mirrored' \subseteq Nat
             /\ \A n \in 1 .. Len(rows') : rows'[n].state = "live" =>
                  n <= count /\ rows'[n].names.decimals = tokens[n].body.decimals
             /\ \A n \in mirrored' :
                  /\ n \in 1 .. Len(rows') /\ rows'[n].state = "live"
                  /\ tokens[n].named = {rows'[n].names.word}
<1>1. /\ rows \in Seq(Row) /\ Len(rows) \in Nat /\ DOMAIN rows = 1 .. Len(rows)
      /\ \A n \in 1 .. Len(rows) : rows[n] \in Row
      /\ tokens \in Seq(Token) /\ count = Len(tokens) /\ mirrored \subseteq Nat
      /\ \A n \in 1 .. count : tokens[n] \in Token
  BY DEF IssuanceTypeOK, Executed
<1>2. Len(rows) <= Len(rows) /\ Len(rows) <= Len(rows) + 1 /\ mirrored \subseteq Nat
  BY <1>1
<1>3. CASE UNCHANGED <<rows, mirrored>>
  BY <1>1, <1>3 DEF Live
<1>4. ASSUME NEW t \in Tab, Reserve(t)
      PROVE  Kept
  <2>1. PICK o \in order[t] :
          /\ o.number = Len(rows)
          /\ rows' = Append(rows, [names |-> Identity(o.body), state |-> "pending", since |-> clock])
    BY <1>4 DEF Reserve
  <2>2. o \in Order
    BY OneOrder DEF IssuanceTypeOK, AllInHand
  <2>3. PICK row : row = [names |-> Identity(o.body), state |-> "pending", since |-> clock]
    OBVIOUS
  <2>4. row \in Row /\ row.state = "pending"
    <3>1. clock \in Nat
      BY DEF IssuanceTypeOK
    <3> QED
      BY <2>2, <2>3, <3>1 DEF Row, Order, Identity, Words, Places
  <2>5. /\ rows' \in Seq(Row) /\ Len(rows') = Len(rows) + 1
        /\ \A n \in 1 .. Len(rows) : rows'[n] = rows[n]
        /\ rows'[Len(rows) + 1] = row
    BY <1>1, <2>1, <2>3, <2>4
  <2>6. mirrored' \subseteq mirrored
    BY <1>4 DEF Reserve, Server
  <2>7. \A n \in 1 .. Len(rows') : rows'[n].state = "live" =>
          n \in 1 .. Len(rows) /\ rows'[n] = rows[n]
    BY <1>1, <2>4, <2>5
  <2>8. \A n \in mirrored' : n \in mirrored /\ n \in 1 .. Len(rows) /\ rows'[n] = rows[n]
    BY <1>1, <2>5, <2>6 DEF Live
  <2>9. \A n \in 1 .. Len(rows') : rows'[n].state = "live" =>
          n <= count /\ rows'[n].names.decimals = tokens[n].body.decimals
    BY <2>7 DEF Live
  <2>10. \A n \in mirrored' :
           n \in 1 .. Len(rows') /\ rows'[n].state = "live" /\ tokens[n].named = {rows'[n].names.word}
    BY <1>1, <2>5, <2>8 DEF Live
  <2> QED
    BY <1>1, <2>5, <2>6, <2>8, <2>9, <2>10
<1>5. ASSUME NEW t \in Tab, Take(t)
      PROVE  Kept
  <2>1. PICK o \in order[t] : rows' = [rows EXCEPT ![o.number + 1] = Renamed(@, o)]
    BY <1>5 DEF Take
  <2>2. o \in Order /\ o.number < Len(rows) /\ pc[t] = "taking"
    BY <1>5, OneOrder DEF IssuanceTypeOK, AllInHand, InHand, Take, Stages, Unshown
  <2>3. PICK k \in 1 .. Len(rows) : k = o.number + 1
    BY <1>1, <2>2 DEF Order
  <2>4. PICK row : row = Renamed(rows[k], o)
    OBVIOUS
  <2>5. rows' = [rows EXCEPT ![k] = row]
    BY <2>1, <2>3, <2>4
  <2>6. /\ row \in Row /\ row.state = rows[k].state
        /\ rows[k].state = "live" => row = rows[k]
    BY <1>1, <2>2, <2>4 DEF Renamed, Row, Order, Identity, Words, Places
  <2>7. k \in mirrored => rows[k].state = "live"
    BY DEF Live
  <2>8. rows[k].state = "live" => k <= count /\ rows[k].names.decimals = tokens[k].body.decimals
    BY <1>1 DEF Live
  <2>9. mirrored' \subseteq mirrored
    BY <1>5 DEF Take, Server
  <2>10. /\ rows' \in Seq(Row) /\ Len(rows') = Len(rows)
         /\ \A n \in 1 .. Len(rows') : rows'[n].state = "live" =>
              n <= count /\ rows'[n].names.decimals = tokens[n].body.decimals
         /\ \A n \in mirrored :
              /\ n \in 1 .. Len(rows') /\ rows'[n].state = "live"
              /\ tokens[n].named = {rows'[n].names.word}
    BY <2>5, <2>6, <2>7, <2>8, RowWritten
  <2> QED
    BY <1>2, <2>9, <2>10
<1>6. CASE MirrorCreated
  <2>1. PICK k \in 1 .. count \cap DOMAIN rows :
          /\ rows[k].state = "pending"
          /\ rows' = [rows EXCEPT ![k].state = "live", ![k].names.decimals = tokens[k].body.decimals]
          /\ mirrored' = mirrored
    BY <1>6 DEF MirrorCreated
  <2>2. k \in 1 .. Len(rows) /\ k <= count /\ k \in 1 .. count
    BY <1>1, <2>1
  <2>3. tokens[k].body.decimals \in Places
    BY <1>1, <2>2 DEF Token, Places
  <2>4. PICK row : row = [rows[k] EXCEPT !.state = "live",
                                         !.names.decimals = tokens[k].body.decimals]
    OBVIOUS
  <2>5. row \in Row /\ row.state = "live" /\ row.names.decimals = tokens[k].body.decimals
    BY <1>1, <2>2, <2>3, <2>4 DEF Row
  <2>6. rows' = [rows EXCEPT ![k] = row]
    BY <1>1, <2>1, <2>2, <2>4
  <2>7. k \notin mirrored
    BY <2>1 DEF Live
  <2>8. /\ rows' \in Seq(Row) /\ Len(rows') = Len(rows)
        /\ \A n \in 1 .. Len(rows') : rows'[n].state = "live" =>
             n <= count /\ rows'[n].names.decimals = tokens[n].body.decimals
        /\ \A n \in mirrored :
             /\ n \in 1 .. Len(rows') /\ rows'[n].state = "live"
             /\ tokens[n].named = {rows'[n].names.word}
    BY <2>1, <2>2, <2>5, <2>6, <2>7, RowWritten
  <2> QED
    BY <1>2, <2>1, <2>8
<1>7. CASE MirrorNamed
  <2>1. PICK k \in 1 .. count \ mirrored :
          /\ rows[k].state = "live" /\ tokens[k].named # {}
          /\ rows' = [rows EXCEPT ![k].names.word = The(tokens[k].named)]
          /\ mirrored' = mirrored \cup {k}
    BY <1>7 DEF MirrorNamed
  <2>2. k \in 1 .. Len(rows) /\ k <= count /\ k \in 1 .. count /\ k \in Nat
    BY <1>1, <2>1 DEF Executed
  <2>3. The(tokens[k].named) \in tokens[k].named
    BY <2>1 DEF The
  <2>4. The(tokens[k].named) \in Words
    BY <1>1, <2>2, <2>3 DEF Token
  <2>5. PICK row : row = [rows[k] EXCEPT !.names.word = The(tokens[k].named)]
    OBVIOUS
  <2>6. /\ row \in Row /\ row.state = "live"
        /\ row.names.word = The(tokens[k].named)
        /\ row.names.decimals = rows[k].names.decimals
    BY <1>1, <2>1, <2>2, <2>4, <2>5 DEF Row
  <2>7. rows' = [rows EXCEPT ![k] = row]
    BY <1>1, <2>1, <2>2, <2>5
  <2>8. rows[k].names.decimals = tokens[k].body.decimals
    BY <1>1, <2>1, <2>2 DEF Live
  <2>9. /\ rows' \in Seq(Row) /\ Len(rows') = Len(rows)
        /\ \A n \in 1 .. Len(rows') : rows'[n].state = "live" =>
             n <= count /\ rows'[n].names.decimals = tokens[n].body.decimals
        /\ \A n \in mirrored :
             /\ n \in 1 .. Len(rows') /\ rows'[n].state = "live"
             /\ tokens[n].named = {rows'[n].names.word}
    <3>1. /\ k \in 1 .. Len(rows) /\ row \in Row /\ rows' = [rows EXCEPT ![k] = row]
          /\ rows[k].state = "live" =>
               row.state = "live" /\ row.names.decimals = rows[k].names.decimals
          /\ row.state = "live" => k <= count /\ row.names.decimals = tokens[k].body.decimals
          /\ k \in mirrored => row.names.word = rows[k].names.word
      BY <2>1, <2>2, <2>6, <2>7, <2>8
    <3> QED
      BY <3>1, RowWritten
  <2>10. tokens[k].named = {The(tokens[k].named)}
    BY <1>1, <2>2, <2>3 DEF NamedOnce
  <2> QED
    BY <1>1, <2>1, <2>2, <2>3, <2>6, <2>9, <2>10
<1>8. \/ UNCHANGED <<rows, mirrored>>
      \/ \E t \in Tab : Reserve(t) \/ Take(t)
      \/ MirrorCreated \/ MirrorNamed
  <2>1. ASSUME NEW t, Walk(t)
        PROVE  UNCHANGED <<rows, mirrored>>
    BY <2>1 DEF Walk, Edit, GoTo
  <2>2. ASSUME NEW t, Ask(t), ~Reserve(t), ~Take(t)
        PROVE  UNCHANGED <<rows, mirrored>>
    BY <2>2 DEF Ask, Prepare, Post, Asked, ReadCount, Decide, Assemble, AnswerLost, Server
  <2>3. ASSUME NEW t, Sign(t)
        PROVE  UNCHANGED <<rows, mirrored>>
    BY <2>3 DEF Sign, Reset, Submit, Send, Confirm, GiveUp, Submitting
  <2>4. CASE Land \/ Tick \/ UNCHANGED vars
    BY <2>4 DEF Land, Tick, vars
  <2>5. DOMAIN draft \subseteq Tab
    BY DEF IssuanceTypeOK, TabTypeOK
  <2> QED
    BY <2>1, <2>2, <2>3, <2>4, <2>5, StepsAre
<1> QED
  BY <1>3, <1>4, <1>5, <1>6, <1>7, <1>8

-----------------------------------------------------------------------------
(* The tabs *)

\* What stays of a tab another step leaves alone.
LEMMA OthersInHand ==
    ASSUME NEW u \in Tab, InHand(u), pc'[u] = pc[u], order'[u] = order[u],
           shown'[u] = shown[u], progress'[u] = progress[u],
           order[u] \subseteq Order, Len(rows) \in Nat, Len(rows') \in Nat,
           Len(rows) <= Len(rows'), landed \subseteq landed'
    PROVE  InHand(u)'
<1>1. \A o \in order[u] : o.number \in Nat
  BY DEF Order
<1>2. \A i : Confirmed(u, i) => Confirmed(u, i)'
  BY DEF Confirmed
<1>3. \A o \in order[u] : o.number < Len(rows) => o.number < Len(rows')
  BY <1>1
<1> QED
  BY <1>2, <1>3 DEF InHand

\* A line of the screen is written.
LEMMA AdvancedIs ==
    ASSUME TabTypeOK, NEW t \in Tab, InHand(t), NEW i \in 1 .. 3, NEW phase \in Phases
    PROVE  LET after == Advanced(t, i, phase)
           IN  /\ after \in [Tab -> {<<>>} \cup [1 .. 3 -> Phases]]
               /\ \A u \in Tab \ {t} : after[u] = progress[u]
               /\ ~shown[t] => after[t] = <<>>
               /\ shown[t] => /\ after[t] \in [1 .. 3 -> Phases] /\ after[t][i] = phase
                              /\ \A j \in 1 .. 3 \ {i} : after[t][j] = progress[t][j]
<1>1. CASE ~shown[t]
  BY <1>1 DEF Advanced, TabTypeOK, InHand
<1>2. CASE shown[t]
  <2>1. PICK lines : lines = [progress[t] EXCEPT ![i] = phase]
    OBVIOUS
  <2>2. lines \in [1 .. 3 -> Phases] /\ lines[i] = phase
    BY <1>2, <2>1 DEF InHand
  <2>3. \A j \in 1 .. 3 \ {i} : lines[j] = progress[t][j]
    BY <1>2, <2>1 DEF InHand
  <2>4. Advanced(t, i, phase) = [progress EXCEPT ![t] = lines]
    BY <1>2, <2>1 DEF Advanced
  <2> QED
    BY <1>2, <2>2, <2>3, <2>4 DEF TabTypeOK
<1> QED
  BY <1>1, <1>2

\* An order stays one when its number or the time it was assembled is written.
LEMMA OrderWritten ==
    ASSUME NEW o \in Order, NEW n \in Nat
    PROVE  /\ [o EXCEPT !.number = n] \in Order
           /\ [o EXCEPT !.built = n] \in Order /\ [o EXCEPT !.built = n].number = o.number
  BY DEF Order

\* What a tab's own step leaves: its types and what it has in hand, and the others.
TabKept(t) ==
    /\ TabTypeOK'
    /\ InHand(t)'
    /\ \A u \in Tab \ {t} : /\ pc'[u] = pc[u] /\ order'[u] = order[u]
                            /\ shown'[u] = shown[u] /\ progress'[u] = progress[u]
    /\ flight' \subseteq Tx
    /\ \A x \in flight' : x.order.number < Len(rows')

\* A tab's way through its transactions keeps what is known of the tabs.
LEMMA WalkKeeps ==
    ASSUME IInv, NEW t \in DOMAIN draft, Walk(t)
    PROVE  TabKept(t)
<1> USE DEF TabTypeOK, Unshown, Submitted, Stages
<1>1. t \in Tab /\ TabTypeOK /\ InHand(t) /\ flight \subseteq Tx
  BY DEF IInv, IssuanceTypeOK, AllInHand
<1>2. \A x \in flight : x.order.number < Len(rows)
  BY DEF IInv, Executed
<1>3. CASE Edit(t)
  <2>1. PICK family \in Families : \E d \in family[t] : DOMAIN family = DOMAIN draft /\ draft' = [draft EXCEPT ![t] = d]
    BY <1>3 DEF Edit
  <2>2. PICK d \in family[t] : DOMAIN family = DOMAIN draft /\ draft' = [draft EXCEPT ![t] = d]
    BY <2>1
  <2>3. t \notin Callers /\ d \in Drafts
    <3>1. t \in DOMAIN family \ Callers
      BY <1>3, <2>2 DEF Edit
    <3> QED
      BY <2>2, <3>1 DEF Drafts
  <2>4. TabTypeOK'
    BY <1>1, <1>3, <2>2, <2>3 DEF Edit
  <2>5. UNCHANGED <<pc, order, shown, progress, tx, rows, landed, flight>>
    BY <1>3 DEF Edit, chainVars
  <2> QED
    BY <1>1, <1>2, <2>4, <2>5 DEF TabKept, InHand, Confirmed
<1>4. ASSUME NEW n \in STEPS, GoTo(t, n)
      PROVE  TabKept(t)
  <2>1. /\ pc' = [pc EXCEPT ![t] = "form"] /\ order' = [order EXCEPT ![t] = {}]
        /\ shown' = [shown EXCEPT ![t] = FALSE] /\ progress' = [progress EXCEPT ![t] = <<>>]
        /\ draft' = draft /\ tx' = tx /\ rows' = rows /\ flight' = flight
    BY <1>4 DEF GoTo
  <2>2. TabTypeOK'
    BY <1>1, <2>1
  <2>3. InHand(t)'
    BY <1>1, <2>1 DEF InHand
  <2> QED
    BY <1>1, <1>2, <2>1, <2>2, <2>3 DEF TabKept
<1> QED
  BY <1>3, <1>4 DEF Walk

\* So does its way through the form and the reservation.
LEMMA AskKeeps ==
    ASSUME IInv, NEW t \in DOMAIN draft, Ask(t), rows' \in Seq(Row), Len(rows) <= Len(rows')
    PROVE  TabKept(t)
<1> USE DEF TabTypeOK, Unshown, Submitted, Stages
<1>1. t \in Tab /\ TabTypeOK /\ InHand(t) /\ clock \in Nat /\ count \in Nat
  BY DEF IInv, IssuanceTypeOK, AllInHand
<1>2. flight \subseteq Tx /\ \A x \in flight : x.order.number < Len(rows')
  <2>1. /\ flight \subseteq Tx /\ \A x \in flight : x.order.number < Len(rows)
        /\ Len(rows) \in Nat /\ Len(rows') \in Nat
    BY DEF IInv, Executed, IssuanceTypeOK
  <2>2. \A x \in flight : x.order.number \in Nat
    BY <2>1 DEF Tx, Order
  <2> QED
    BY <2>1, <2>2
<1>3. flight' = flight /\ UNCHANGED <<draft, tx, landed>>
  BY DEF Ask, Prepare, Post, Asked, ReadCount, Reserve, Decide, Take, Assemble, AnswerLost, Server,
         formVars, chainVars
<1>4. CASE Prepare(t) \/ Post(t)
  <2>2. PICK body \in Bodies : Asked(t, body)
    BY <1>1, <1>4, BodyOfDraft
  <2>1. /\ pc[t] = "form"
        /\ order' = [order EXCEPT ![t] = {[body |-> body, at |-> clock, number |-> 0, built |-> 0]}]
        /\ pc' = [pc EXCEPT ![t] = "asked"] /\ UNCHANGED <<shown, progress>>
    BY <2>2 DEF Asked, Server
  <2>3. PICK o : o = [body |-> body, at |-> clock, number |-> 0, built |-> 0]
    OBVIOUS
  <2>4. o \in Order /\ order' = [order EXCEPT ![t] = {o}]
    BY <1>1, <2>1, <2>2, <2>3 DEF Order
  <2>5. TabTypeOK'
    BY <1>1, <1>3, <2>1, <2>4
  <2>6. InHand(t)'
    BY <1>1, <2>1, <2>4 DEF InHand
  <2> QED
    BY <1>1, <1>2, <1>3, <2>1, <2>4, <2>5, <2>6 DEF TabKept
<1>5. CASE ReadCount(t)
  <2>1. /\ pc[t] = "asked" /\ order' = [order EXCEPT ![t] = {[o EXCEPT !.number = count] : o \in @}]
        /\ pc' = [pc EXCEPT ![t] = "counted"] /\ UNCHANGED <<shown, progress>>
    BY <1>5 DEF ReadCount, Server
  <2>2. PICK o \in order[t] : order[t] = {o}
    BY <1>1, <2>1, OneOrder DEF InHand
  <2>3. PICK p : p = [o EXCEPT !.number = count]
    OBVIOUS
  <2>4. p \in Order
    <3>1. o \in Order
      BY <1>1, <2>2
    <3> QED
      BY <1>1, <2>3, <3>1, OrderWritten
  <2>5. order' = [order EXCEPT ![t] = {p}]
    <3>1. {[x EXCEPT !.number = count] : x \in order[t]} = {p}
      BY <2>2, <2>3
    <3> QED
      BY <2>1, <3>1
  <2>6. TabTypeOK'
    BY <1>1, <1>3, <2>1, <2>4, <2>5
  <2>7. InHand(t)'
    BY <1>1, <2>1, <2>4, <2>5 DEF InHand
  <2> QED
    BY <1>1, <1>2, <1>3, <2>1, <2>4, <2>5, <2>6, <2>7 DEF TabKept
<1>6. CASE Reserve(t)
  <2>1. /\ pc[t] = "counted" /\ pc' = [pc EXCEPT ![t] = "reserved"]
        /\ UNCHANGED <<order, shown, progress>>
    BY <1>6 DEF Reserve, Server
  <2>2. PICK o \in order[t] : o.number = Len(rows) /\ Len(rows') = Len(rows) + 1
    BY <1>6 DEF Reserve, IInv, IssuanceTypeOK
  <2>3. order[t] = {o} /\ o.number < Len(rows')
    BY <1>1, <2>2, OneOrder DEF IInv, IssuanceTypeOK
  <2>4. TabTypeOK'
    BY <1>1, <1>3, <2>1
  <2>5. InHand(t)'
    BY <1>1, <2>1, <2>3 DEF InHand
  <2> QED
    BY <1>1, <1>2, <1>3, <2>1, <2>4, <2>5 DEF TabKept
<1>7. CASE Decide(t)
  <2>1. PICK o \in order[t] :
          /\ pc[t] = "counted" /\ o.number < Len(rows) /\ rows' = rows
          /\ UNCHANGED <<shown, progress>>
          /\ \/ order' = order /\ pc' = [pc EXCEPT ![t] = "taking"]
             \/ order' = [order EXCEPT ![t] = {}] /\ pc' = [pc EXCEPT ![t] = "form"]
    BY <1>7 DEF Decide, Server
  <2>2. order[t] = {o}
    BY <1>1, <2>1, OneOrder
  <2>3. TabTypeOK'
    BY <1>1, <1>3, <2>1
  <2>4. InHand(t)'
    BY <1>1, <2>1, <2>2 DEF InHand
  <2> QED
    BY <1>1, <1>2, <1>3, <2>1, <2>3, <2>4 DEF TabKept
<1>8. CASE Take(t)
  <2>1. /\ pc[t] = "taking" /\ pc' = [pc EXCEPT ![t] = "reserved"]
        /\ UNCHANGED <<order, shown, progress>>
    BY <1>8 DEF Take, Server
  <2>2. \A o \in order[t] : o.number < Len(rows')
    <3>1. \A o \in order[t] : o.number < Len(rows) /\ o.number \in Nat
      BY <1>1, <2>1 DEF InHand, Order
    <3> QED
      BY <3>1 DEF IInv, IssuanceTypeOK
  <2>3. TabTypeOK'
    BY <1>1, <1>3, <2>1
  <2>4. InHand(t)'
    BY <1>1, <2>1, <2>2 DEF InHand
  <2> QED
    BY <1>1, <1>2, <1>3, <2>1, <2>3, <2>4 DEF TabKept
<1>9. CASE Assemble(t)
  <2>1. /\ pc[t] = "reserved" /\ pc' = [pc EXCEPT ![t] = "assembled"]
        /\ order' = [order EXCEPT ![t] = {[o EXCEPT !.built = clock] : o \in @}]
        /\ shown' = [shown EXCEPT ![t] = TRUE]
        /\ progress' = [progress EXCEPT ![t] = Waiting]
        /\ rows' = rows
    BY <1>9 DEF Assemble
  <2>2. PICK o \in order[t] : order[t] = {o} /\ o.number < Len(rows)
    BY <1>1, <2>1, OneOrder DEF InHand
  <2>3. PICK p : p = [o EXCEPT !.built = clock]
    OBVIOUS
  <2>4. /\ p \in Order /\ p.number = o.number
        /\ order' = [order EXCEPT ![t] = {p}]
    <3>1. p \in Order /\ p.number = o.number
      <4>1. o \in Order
        BY <1>1, <2>2
      <4> QED
        BY <1>1, <2>3, <4>1, OrderWritten
    <3>2. {[x EXCEPT !.built = clock] : x \in order[t]} = {p}
      BY <2>2, <2>3
    <3> QED
      BY <2>1, <3>1, <3>2
  <2>5. Waiting \in [1 .. 3 -> Phases] /\ \A i \in 1 .. 3 : Waiting[i] = "waiting"
    BY ThreeSteps DEF Waiting, Phases
  <2>6. TabTypeOK'
    <3>1. order' \in [Tab -> SUBSET Order]
      BY <1>1, <2>4
    <3>2. pc' \in [Tab -> Stages] /\ shown' \in [Tab -> BOOLEAN]
      BY <1>1, <2>1
    <3>3. progress' \in [Tab -> {<<>>} \cup [1 .. 3 -> Phases]]
      BY <1>1, <2>1, <2>5
    <3> QED
      BY <1>1, <1>3, <3>1, <3>2, <3>3
  <2>7. InHand(t)'
    BY <1>1, <2>1, <2>2, <2>4, <2>5 DEF InHand
  <2> QED
    BY <1>1, <1>2, <1>3, <2>1, <2>4, <2>6, <2>7 DEF TabKept
<1>10. CASE AnswerLost(t)
  <2>1. /\ pc[t] \in Unshown /\ pc' = [pc EXCEPT ![t] = "form"]
        /\ order' = [order EXCEPT ![t] = {}] /\ UNCHANGED <<shown, progress>>
    BY <1>10 DEF AnswerLost, Server
  <2>2. TabTypeOK'
    BY <1>1, <1>3, <2>1
  <2>3. InHand(t)'
    BY <1>1, <2>1 DEF InHand
  <2> QED
    BY <1>1, <1>2, <1>3, <2>1, <2>2, <2>3 DEF TabKept
<1> QED
  BY <1>4, <1>5, <1>6, <1>7, <1>8, <1>9, <1>10 DEF Ask

\* A tab's step on the way of its transactions: where it goes, and what its lines are.
LEMMA SubmittingKeeps ==
    ASSUME IInv, NEW t \in Tab, NEW i \in 1 .. 3, NEW next, Submitting(t, i, next),
           pc[t] \in {"assembled", "signing", "confirming"},
           next \in {"assembled", "signing", "confirming"} \/ (next = "form" /\ ~shown[t]),
           progress' \in [Tab -> {<<>>} \cup [1 .. 3 -> Phases]],
           \A u \in Tab \ {t} : progress'[u] = progress[u],
           IF shown[t] THEN progress'[t] \in [1 .. 3 -> Phases] ELSE progress'[t] = <<>>,
           shown[t] => \A j \in 1 .. 3 : progress'[t][j] = "confirmed" => Confirmed(t, j),
           flight' \subseteq Tx, \A x \in flight' : x.order.number < Len(rows)
    PROVE  TabKept(t)
<1> USE DEF TabTypeOK, Unshown, Submitted, Stages
<1>1. TabTypeOK /\ InHand(t)
  BY DEF IInv, IssuanceTypeOK, AllInHand
<1>2. /\ pc' = [pc EXCEPT ![t] = next]
      /\ tx' = [tx EXCEPT ![t] = IF next \in {"signing", "confirming"} THEN i ELSE 1]
      /\ order' = [order EXCEPT ![t] = IF next = "form" THEN {} ELSE @]
      /\ UNCHANGED <<draft, shown, rows, landed>>
  BY DEF Submitting, formVars, chainVars
<1>3. TabTypeOK'
  BY <1>1, <1>2
<1>4. pc'[t] = next /\ order'[t] = (IF next = "form" THEN {} ELSE order[t])
  BY <1>1, <1>2
<1>5. InHand(t)'
  <2>1. CASE next = "form"
    BY <1>1, <1>2, <1>4, <2>1 DEF InHand
  <2>2. CASE next # "form"
    <3>1. \A j : Confirmed(t, j) => Confirmed(t, j)'
      BY <1>2, <1>4, <2>2 DEF Confirmed
    <3>2. order[t] # {} /\ \A o \in order[t] : o.number < Len(rows)
      BY <1>1 DEF InHand
    <3>3. /\ \A o, p \in order'[t] : o = p
          /\ pc'[t] = "form" <=> order'[t] = {}
          /\ pc'[t] \notin Unshown
          /\ \A o \in order'[t] : o.number < Len(rows')
      BY <1>1, <1>2, <1>4, <2>2, <3>2 DEF InHand
    <3> QED
      BY <1>2, <3>1, <3>3 DEF InHand
  <2> QED
    BY <2>1, <2>2
<1>6. \A u \in Tab \ {t} : pc'[u] = pc[u] /\ order'[u] = order[u] /\ shown'[u] = shown[u]
  BY <1>1, <1>2
<1> QED
  BY <1>2, <1>3, <1>5, <1>6 DEF TabKept

\* The transaction a tab is at.
LEMMA TransactionIs ==
    ASSUME IInv, NEW t \in Tab, pc[t] \in Submitted
    PROVE  \E o \in order[t] :
             /\ Transaction(t, tx[t]) = [by |-> t, step |-> tx[t], order |-> o]
             /\ Transaction(t, tx[t]) \in Tx
             /\ Transaction(t, tx[t]).order.number < Len(rows)
<1>1. TabTypeOK /\ InHand(t) /\ tx[t] \in 1 .. 3
  BY DEF IInv, IssuanceTypeOK, AllInHand, TabTypeOK
<1>2. PICK o \in order[t] : o.number < Len(rows)
  BY <1>1 DEF InHand, Submitted, Stages
<1>3. o \in Order /\ The(order[t]) = o
  BY <1>1, OneOrder
<1>4. PICK x : x = [by |-> t, step |-> tx[t], order |-> o]
  OBVIOUS
<1>5. x \in Tx /\ x.order = o
  BY <1>1, <1>3, <1>4 DEF Tx
<1>6. Transaction(t, tx[t]) = x
  BY <1>3, <1>4 DEF Transaction
<1> QED
  BY <1>2, <1>4, <1>5, <1>6

\* So does everything a tab does once its transactions are assembled.
LEMMA SignKeeps ==
    ASSUME IInv, NEW t \in DOMAIN draft, Sign(t)
    PROVE  TabKept(t)
<1>1. t \in Tab /\ TabTypeOK /\ InHand(t) /\ flight \subseteq Tx /\ tx[t] \in 1 .. 3
  BY DEF IInv, IssuanceTypeOK, AllInHand, TabTypeOK
<1>2. \A x \in flight : x.order.number < Len(rows)
  BY DEF IInv, Executed
<1>3. CASE Reset(t)
  <2> USE DEF TabTypeOK, Unshown, Submitted, Stages
  <2>1. /\ shown[t]
        /\ shown' = [shown EXCEPT ![t] = FALSE] /\ progress' = [progress EXCEPT ![t] = <<>>]
        /\ pc' = [pc EXCEPT ![t] = IF @ = "assembled" THEN "form" ELSE @]
        /\ order' = [order EXCEPT ![t] = IF pc[t] = "assembled" THEN {} ELSE @]
        /\ UNCHANGED <<draft, tx, rows, landed, flight>>
    BY <1>3 DEF Reset, formVars, chainVars
  <2>2. TabTypeOK'
    BY <1>1, <2>1
  <2>3. InHand(t)'
    BY <1>1, <2>1 DEF InHand
  <2> QED
    BY <1>1, <1>2, <2>1, <2>2, <2>3 DEF TabKept
<1>4. CASE Submit(t)
  <2>1. /\ pc[t] = "assembled" /\ progress' = Advanced(t, 1, "signing")
        /\ flight' = flight /\ Submitting(t, 1, "signing")
    BY <1>4 DEF Submit
  <2>2. shown[t] => \A j \in 1 .. 3 : progress'[t][j] = "confirmed" => progress[t][j] = "confirmed"
    BY <1>1, <2>1, AdvancedIs DEF Phases
  <2>3. /\ progress' \in [Tab -> {<<>>} \cup [1 .. 3 -> Phases]]
        /\ \A u \in Tab \ {t} : progress'[u] = progress[u]
        /\ IF shown[t] THEN progress'[t] \in [1 .. 3 -> Phases] ELSE progress'[t] = <<>>
    BY <1>1, <2>1, AdvancedIs DEF Phases
  <2>4. shown[t] => \A j \in 1 .. 3 : progress'[t][j] = "confirmed" => Confirmed(t, j)
    BY <1>1, <2>2 DEF InHand
  <2>5. 1 \in 1 .. 3 /\ "signing" \in {"assembled", "signing", "confirming"}
    OBVIOUS
  <2> QED
    BY <1>1, <1>2, <2>1, <2>3, <2>4, <2>5, SubmittingKeeps
<1>5. CASE Send(t)
  <2>1. /\ pc[t] = "signing" /\ flight' = flight \cup {Transaction(t, tx[t])}
        /\ progress' = Advanced(t, tx[t], "confirming")
        /\ Submitting(t, tx[t], "confirming")
    BY <1>5 DEF Send
  <2>2. shown[t] => \A j \in 1 .. 3 : progress'[t][j] = "confirmed" => progress[t][j] = "confirmed"
    BY <1>1, <2>1, AdvancedIs DEF Phases
  <2>3. /\ progress' \in [Tab -> {<<>>} \cup [1 .. 3 -> Phases]]
        /\ \A u \in Tab \ {t} : progress'[u] = progress[u]
        /\ IF shown[t] THEN progress'[t] \in [1 .. 3 -> Phases] ELSE progress'[t] = <<>>
    <3>1. PICK i \in 1 .. 3, phase \in Phases : i = tx[t] /\ phase = "confirming"
      BY <1>1 DEF Phases
    <3>2. progress' = Advanced(t, i, phase)
      BY <2>1, <3>1
    <3> QED
      BY <1>1, <3>2, AdvancedIs
  <2>4. shown[t] => \A j \in 1 .. 3 : progress'[t][j] = "confirmed" => Confirmed(t, j)
    BY <1>1, <2>2 DEF InHand
  <2>5. flight' \subseteq Tx /\ \A x \in flight' : x.order.number < Len(rows)
    BY <1>1, <1>2, <2>1, TransactionIs DEF Submitted
  <2>6. "confirming" \in {"assembled", "signing", "confirming"}
    OBVIOUS
  <2> QED
    BY <1>1, <2>1, <2>3, <2>4, <2>5, <2>6, SubmittingKeeps
<1>6. CASE Confirm(t)
  <2> DEFINE done == Advanced(t, tx[t], "confirmed")
  <2>1. /\ pc[t] = "confirming" /\ flight' = flight
        /\ Passed(Transaction(t, tx[t]))
        /\ IF tx[t] = 3
           THEN /\ progress' = done
                /\ Submitting(t, 3, IF shown[t] THEN "assembled" ELSE "form")
           ELSE /\ progress' = [done EXCEPT ![t] =
                                  IF shown[t] THEN [@ EXCEPT ![tx[t] + 1] = "signing"] ELSE @]
                /\ Submitting(t, tx[t] + 1, "signing")
    BY <1>6, ThreeSteps DEF Confirm
  <2>2. Confirmed(t, tx[t])
    <3>1. PICK o \in order[t] : Transaction(t, tx[t]) = [by |-> t, step |-> tx[t], order |-> o]
      BY <1>1, <2>1, TransactionIs DEF Submitted
    <3> QED
      BY <2>1, <3>1 DEF Passed, Confirmed
  <2>3. /\ done \in [Tab -> {<<>>} \cup [1 .. 3 -> Phases]]
        /\ \A u \in Tab \ {t} : done[u] = progress[u]
        /\ ~shown[t] => done[t] = <<>>
        /\ shown[t] => /\ done[t] \in [1 .. 3 -> Phases]
                       /\ \A j \in 1 .. 3 \ {tx[t]} : done[t][j] = progress[t][j]
    BY <1>1, AdvancedIs DEF Phases
  <2>4. shown[t] => \A j \in 1 .. 3 : done[t][j] = "confirmed" => Confirmed(t, j)
    BY <1>1, <2>2, <2>3 DEF InHand
  <2> HIDE DEF done
  <2>5. CASE tx[t] = 3
    <3>1. (IF shown[t] THEN "assembled" ELSE "form") \in {"assembled", "signing", "confirming"}
            \/ ((IF shown[t] THEN "assembled" ELSE "form") = "form" /\ ~shown[t])
      OBVIOUS
    <3>2. 3 \in 1 .. 3 /\ Submitting(t, 3, IF shown[t] THEN "assembled" ELSE "form") /\ progress' = done
      BY <2>1, <2>5
    <3> QED
      BY <1>1, <1>2, <2>1, <2>3, <2>4, <3>1, <3>2, SubmittingKeeps
  <2>6. CASE tx[t] # 3
    <3>1. tx[t] + 1 \in 1 .. 3 /\ Submitting(t, tx[t] + 1, "signing")
      BY <1>1, <2>1, <2>6
    <3>2. PICK lines : lines = IF shown[t] THEN [done[t] EXCEPT ![tx[t] + 1] = "signing"] ELSE done[t]
      OBVIOUS
    <3>3. IF shown[t] THEN lines \in [1 .. 3 -> Phases] ELSE lines = <<>>
      BY <2>3, <3>2 DEF Phases
    <3>4. shown[t] => \A j \in 1 .. 3 : lines[j] = "confirmed" => Confirmed(t, j)
      BY <2>3, <2>4, <3>2
    <3>5. progress' = [done EXCEPT ![t] = lines]
      BY <2>1, <2>6, <3>2
    <3>6. /\ progress' \in [Tab -> {<<>>} \cup [1 .. 3 -> Phases]]
          /\ progress'[t] = lines
          /\ \A u \in Tab \ {t} : progress'[u] = progress[u]
      BY <1>1, <2>3, <3>3, <3>5
    <3>7. "signing" \in {"assembled", "signing", "confirming"}
      OBVIOUS
    <3> QED
      BY <1>1, <1>2, <2>1, <3>1, <3>3, <3>4, <3>6, <3>7, SubmittingKeeps
  <2> QED
    BY <2>5, <2>6
<1>7. CASE GiveUp(t)
  <2> DEFINE open == {i \in DOMAIN progress[t] : progress[t][i] # "confirmed"}
  <2>1. /\ pc[t] \in {"signing", "confirming"} /\ flight' = flight
        /\ progress' = IF open = {} THEN progress
                       ELSE [progress EXCEPT ![t][Min(open)] = "failed"]
        /\ Submitting(t, tx[t], IF shown[t] THEN "assembled" ELSE "form")
    BY <1>7 DEF GiveUp
  <2>2. CASE open = {} \/ ~shown[t]
    <3>1. progress' = progress
      <4>1. ~shown[t] => open = {}
        BY <1>1 DEF InHand
      <4> QED
        BY <2>1, <2>2, <4>1
    <3> QED
      BY <1>1, <1>2, <2>1, <3>1, SubmittingKeeps DEF InHand, TabTypeOK
  <2>3. CASE open # {} /\ shown[t]
    <3>1. PICK lines : lines = [progress[t] EXCEPT ![Min(open)] = "failed"]
      OBVIOUS
    <3>2. lines \in [1 .. 3 -> Phases]
      BY <1>1, <2>3, <3>1 DEF InHand, Phases
    <3>3. \A j \in 1 .. 3 : lines[j] = "confirmed" => progress[t][j] = "confirmed"
      BY <1>1, <2>3, <3>1 DEF InHand
    <3>4. \A j \in 1 .. 3 : lines[j] = "confirmed" => Confirmed(t, j)
      BY <1>1, <2>3, <3>3 DEF InHand
    <3>5. progress' = [progress EXCEPT ![t] = lines]
      BY <2>1, <2>3, <3>1
    <3>6. /\ progress' \in [Tab -> {<<>>} \cup [1 .. 3 -> Phases]]
          /\ progress'[t] = lines
          /\ \A u \in Tab \ {t} : progress'[u] = progress[u]
      BY <1>1, <3>2, <3>5 DEF TabTypeOK
    <3> HIDE DEF open
    <3> QED
      BY <1>1, <1>2, <2>1, <2>3, <3>2, <3>4, <3>6, SubmittingKeeps
  <2> QED
    BY <2>2, <2>3
<1> QED
  BY <1>3, <1>4, <1>5, <1>6, <1>7 DEF Sign

-----------------------------------------------------------------------------
(* The invariant holds *)

\* What has been done of a landed transaction.
Done(x) ==
    LET token == tokens[x.order.number + 1]
    IN  /\ x.order.number < count
        /\ x.step = 1 => token.by = x.by /\ token.body = x.order.body
        /\ x.step = 2 => token.named = {x.order.body.title.word}
        /\ x.step = 3 => token.hooked

\* It stays done.
LEMMA DoneStays ==
    ASSUME IInv, [Next]_vars, NEW x \in Tx, Done(x)
    PROVE  Done(x)'
<1>1. x.order.number \in Nat /\ count \in Nat /\ count' \in Nat /\ count <= count'
  BY TokensKept DEF IInv, IssuanceTypeOK, Tx, Order
<1>2. PICK k \in 1 .. count : k = x.order.number + 1
  BY <1>1 DEF Done
<1>3. /\ tokens'[k].body = tokens[k].body /\ tokens'[k].by = tokens[k].by
      /\ tokens[k].hooked => tokens'[k].hooked
      /\ tokens[k].named # {} => tokens'[k].named = tokens[k].named
  BY TokensKept DEF IInv
<1>4. x.order.number < count'
  BY <1>1 DEF Done
<1> QED
  BY <1>2, <1>3, <1>4 DEF Done

\* A landing: what it newly counts as done is done, nothing landed is forgotten, and the
\* program's count stays within the rows.
LEMMA LandingDoes ==
    ASSUME IInv, Land
    PROVE  /\ landed' \subseteq [tx : Tx, ok : BOOLEAN] /\ landed \subseteq landed'
           /\ \A y \in Tx : [tx |-> y, ok |-> TRUE] \in landed' =>
                [tx |-> y, ok |-> TRUE] \in landed \/ Done(y)'
           /\ flight' \subseteq flight /\ UNCHANGED rows
           /\ count' <= Len(rows)
<1>1. PICK x \in flight :
         /\ x \in Tx /\ x.order.number \in Nat /\ x.order.number < Len(rows)
         /\ flight' = flight \ {x}
         /\ \/ /\ landed' = landed \cup {[tx |-> x, ok |-> FALSE]}
               /\ UNCHANGED <<count, tokens>>
            \/ /\ landed' = landed \cup {[tx |-> x, ok |-> TRUE]}
               /\ x.step = 1 /\ x.order.number = count
               /\ count' = count + 1
               /\ tokens' = Append(tokens, [body |-> x.order.body, by |-> x.by,
                                            named |-> {}, hooked |-> FALSE])
            \/ /\ landed' = landed \cup {[tx |-> x, ok |-> TRUE]}
               /\ x.step = 2 /\ x.order.number < count /\ count' = count
               /\ tokens[x.order.number + 1].named = {}
               /\ tokens' = [tokens EXCEPT ![x.order.number + 1].named =
                               {x.order.body.title.word}]
            \/ /\ landed' = landed \cup {[tx |-> x, ok |-> TRUE]}
               /\ x.step = 3 /\ x.order.number < count /\ count' = count
               /\ tokens' = [tokens EXCEPT ![x.order.number + 1].hooked = TRUE]
         /\ UNCHANGED <<clock, tabVars, requests, rows, mirrored>>
  BY LandIs DEF IInv
<1>2. /\ landed \subseteq [tx : Tx, ok : BOOLEAN] /\ tokens \in Seq(Token)
      /\ count = Len(tokens) /\ count <= Len(rows) /\ Len(rows) \in Nat /\ count \in Nat
      /\ \A n \in 1 .. count : tokens[n] \in Token
  BY DEF IInv, IssuanceTypeOK, Executed
<1>3. PICK ok \in BOOLEAN : landed' = landed \cup {[tx |-> x, ok |-> ok]}
  BY <1>1
<1>4. landed' \subseteq [tx : Tx, ok : BOOLEAN] /\ landed \subseteq landed'
  BY <1>1, <1>2, <1>3
<1>5. count' <= Len(rows)
  BY <1>1, <1>2
<1>6. CASE landed' = landed \cup {[tx |-> x, ok |-> FALSE]}
  <2>1. \A y : [tx |-> y, ok |-> TRUE] # [tx |-> x, ok |-> FALSE]
    OBVIOUS
  <2> QED
    BY <1>1, <1>4, <1>5, <1>6, <2>1
<1>7. CASE landed' = landed \cup {[tx |-> x, ok |-> TRUE]} /\ landed' # landed \cup {[tx |-> x, ok |-> FALSE]}
  <2>1. ASSUME NEW y \in Tx, [tx |-> y, ok |-> TRUE] \in landed', [tx |-> y, ok |-> TRUE] \notin landed
        PROVE  y = x
    <3>1. [tx |-> y, ok |-> TRUE] = [tx |-> x, ok |-> TRUE]
      BY <1>7, <2>1
    <3> QED
      BY <3>1
  <2>2. Done(x)'
    <3>1. CASE x.step = 1
      <4>1. PICK token : token = [body |-> x.order.body, by |-> x.by, named |-> {}, hooked |-> FALSE]
        OBVIOUS
      <4>2. token \in Token
        BY <1>1, <4>1 DEF Token, Tx, Order
      <4>3. tokens' = Append(tokens, token) /\ x.order.number = count /\ count' = count + 1
        BY <1>1, <1>7, <3>1, <4>1
      <4>4. tokens'[x.order.number + 1] = token /\ x.order.number < count'
        BY <1>2, <4>2, <4>3
      <4> QED
        BY <3>1, <4>1, <4>4 DEF Done
    <3>2. CASE x.step = 2
      <4>1. PICK k \in 1 .. count : k = x.order.number + 1
        BY <1>1, <1>2, <1>7, <3>2
      <4>2. PICK token : token = [tokens[k] EXCEPT !.named = {x.order.body.title.word}]
        OBVIOUS
      <4>3. tokens' = [tokens EXCEPT ![k] = token] /\ x.order.number < count'
        BY <1>1, <1>7, <3>2, <4>1, <4>2
      <4>4. token.named = {x.order.body.title.word}
        BY <1>2, <4>1, <4>2 DEF Token
      <4>5. tokens'[k] = token
        BY <1>2, <4>1, <4>3
      <4> QED
        BY <3>2, <4>1, <4>3, <4>4, <4>5 DEF Done
    <3>3. CASE x.step = 3
      <4>1. PICK k \in 1 .. count : k = x.order.number + 1
        BY <1>1, <1>2, <1>7, <3>3
      <4>2. PICK token : token = [tokens[k] EXCEPT !.hooked = TRUE]
        OBVIOUS
      <4>3. tokens' = [tokens EXCEPT ![k] = token] /\ x.order.number < count'
        BY <1>1, <1>7, <3>3, <4>1, <4>2
      <4>4. token.hooked
        BY <1>2, <4>1, <4>2 DEF Token
      <4>5. tokens'[k] = token
        BY <1>2, <4>1, <4>3
      <4> QED
        BY <3>3, <4>1, <4>3, <4>4, <4>5 DEF Done
    <3> QED
      BY <1>1, <3>1, <3>2, <3>3 DEF Tx
  <2> QED
    BY <1>1, <1>4, <1>5, <2>1, <2>2
<1> QED
  BY <1>1, <1>6, <1>7

\* No step but Land touches what has landed, and only a tab and Land the flights.
LEMMA StepsElse ==
    ASSUME IInv, [Next]_vars
    PROVE  \/ Land
           \/ /\ UNCHANGED <<landed, count>>
              /\ \/ \E t \in DOMAIN draft : Walk(t) \/ Ask(t) \/ Sign(t)
                 \/ UNCHANGED <<tabVars, flight>>
<1>1. ASSUME NEW t, Walk(t)
      PROVE  UNCHANGED <<landed, count>>
  BY <1>1 DEF Walk, Edit, GoTo, chainVars
<1>2. ASSUME NEW t, Ask(t)
      PROVE  UNCHANGED <<landed, count>>
  BY <1>2 DEF Ask, Prepare, Post, Asked, ReadCount, Reserve, Decide, Take, Assemble, AnswerLost, Server,
              chainVars
<1>3. ASSUME NEW t, Sign(t)
      PROVE  UNCHANGED <<landed, count>>
  BY <1>3 DEF Sign, Reset, Submit, Send, Confirm, GiveUp, Submitting, chainVars
<1>4. CASE MirrorCreated \/ MirrorNamed \/ Tick \/ UNCHANGED vars
  BY <1>4 DEF MirrorCreated, MirrorNamed, Tick, vars, chainVars
<1> QED
  BY <1>1, <1>2, <1>3, <1>4, StepsAre

\* The clock counts seconds.
LEMMA ClockCounts ==
    ASSUME clock \in Nat, [Next]_vars
    PROVE  clock' \in Nat
<1>1. ASSUME NEW t, Walk(t)
      PROVE  clock' = clock
  BY <1>1 DEF Walk, Edit, GoTo
<1>2. ASSUME NEW t, Ask(t)
      PROVE  clock' = clock
  BY <1>2 DEF Ask, Prepare, Post, Asked, ReadCount, Reserve, Decide, Take, Assemble, AnswerLost, Server
<1>3. ASSUME NEW t, Sign(t)
      PROVE  clock' = clock
  BY <1>3 DEF Sign, Reset, Submit, Send, Confirm, GiveUp, Submitting
<1>4. CASE Land \/ MirrorCreated \/ MirrorNamed
  BY <1>4 DEF Land, MirrorCreated, MirrorNamed
<1>5. CASE Tick \/ UNCHANGED vars
  BY <1>5 DEF Tick, vars
<1> QED
  BY <1>1, <1>2, <1>3, <1>4, <1>5, StepsAre

\* The invariant holds of every reachable state.
LEMMA Invariance == Spec => []IInv
<1>1. Init => IInv
  <2> SUFFICES ASSUME Init
               PROVE  IInv
    OBVIOUS
  <2>1. /\ DOMAIN draft \subseteq Tab
        /\ \A t \in DOMAIN draft : draft[t] \in IF t \in Callers THEN Raws ELSE Drafts
    <3>1. PICK family \in Families :
            draft \in {d \in [DOMAIN family -> UNION Range(family)] : \A t \in DOMAIN d : d[t] \in family[t]}
      BY DEF Init
    <3>2. DOMAIN draft = DOMAIN family /\ \A t \in DOMAIN family : draft[t] \in family[t]
      BY <3>1
    <3> QED
      BY <3>2, TabsAssumption DEF Drafts, Raws
  <2>2. IssuanceTypeOK
    BY <2>1 DEF Init, IssuanceTypeOK, TabTypeOK, Stages, Unshown, Submitted
  <2>3. AllInHand
    BY DEF Init, AllInHand, InHand
  <2>4. Executed /\ Live /\ NamedOnce
    BY DEF Init, Executed, Live, NamedOnce
  <2> QED
    BY <2>2, <2>3, <2>4 DEF IInv
<1>2. IInv /\ [Next]_vars => IInv'
  <2> SUFFICES ASSUME IInv, [Next]_vars
               PROVE  IInv'
    OBVIOUS
  <2>1. /\ tokens' \in Seq(Token) /\ count' \in Nat
        /\ count <= count' /\ count' = Len(tokens')
        /\ \A n \in 1 .. count :
             /\ tokens'[n].body = tokens[n].body
             /\ tokens[n].named # {} => tokens'[n].named = tokens[n].named
        /\ NamedOnce'
    BY TokensKept DEF IInv
  <2>2. /\ rows' \in Seq(Row) /\ Len(rows) <= Len(rows') /\ mirrored' \subseteq Nat
        /\ \A n \in 1 .. Len(rows') : rows'[n].state = "live" =>
             n <= count /\ rows'[n].names.decimals = tokens[n].body.decimals
        /\ \A n \in mirrored' :
             /\ n \in 1 .. Len(rows') /\ rows'[n].state = "live"
             /\ tokens[n].named = {rows'[n].names.word}
    BY RowsKept DEF IInv
  <2>3. /\ Len(rows) \in Nat /\ Len(rows') \in Nat /\ count \in Nat
        /\ DOMAIN rows' = 1 .. Len(rows')
    BY <2>2 DEF IInv, IssuanceTypeOK
  <2>4. clock' \in Nat
    BY ClockCounts DEF IInv, IssuanceTypeOK
  <2>5. Live'
    <3>1. \A n \in 1 .. Len(rows') : n <= count => n \in 1 .. count
      BY <2>3
    <3>2. \A n \in 1 .. Len(rows') : rows'[n].state = "live" =>
            n <= count' /\ rows'[n].names.decimals = tokens'[n].body.decimals
      BY <2>1, <2>2, <2>3, <3>1
    <3>3. \A n \in mirrored' : tokens'[n].named = {rows'[n].names.word}
      BY <2>1, <2>2, <2>3, <3>1
    <3> QED
      BY <2>2, <2>3, <3>2, <3>3 DEF Live
  <2>6. /\ landed' \subseteq [tx : Tx, ok : BOOLEAN] /\ landed \subseteq landed'
        /\ count' <= Len(rows')
        /\ \A y \in Tx : [tx |-> y, ok |-> TRUE] \in landed' => Done(y)'
    <3>1. \A y \in Tx : [tx |-> y, ok |-> TRUE] \in landed => Done(y)'
      BY DoneStays DEF IInv, Executed, Done
    <3>2. landed \subseteq [tx : Tx, ok : BOOLEAN] /\ count <= Len(rows)
      BY DEF IInv, IssuanceTypeOK, Executed
    <3>3. CASE Land
      BY <2>3, <3>1, <3>3, LandingDoes
    <3>4. CASE UNCHANGED <<landed, count>>
      BY <2>2, <2>3, <3>1, <3>2, <3>4
    <3> QED
      BY <3>3, <3>4, StepsElse
  <2>7. /\ TabTypeOK' /\ AllInHand'
        /\ flight' \subseteq Tx /\ \A x \in flight' : x.order.number < Len(rows')
    <3>1. CASE \E t \in DOMAIN draft : TabKept(t)
      <4>1. PICK t \in DOMAIN draft : TabKept(t)
        BY <3>1
      <4>2. ASSUME NEW u \in Tab, u # t
            PROVE  InHand(u)'
        <5>1. /\ pc'[u] = pc[u] /\ order'[u] = order[u]
              /\ shown'[u] = shown[u] /\ progress'[u] = progress[u]
          BY <4>1, <4>2 DEF TabKept
        <5>2. InHand(u) /\ order[u] \subseteq Order
          BY DEF IInv, IssuanceTypeOK, TabTypeOK, AllInHand
        <5> QED
          BY <2>2, <2>3, <2>6, <5>1, <5>2, OthersInHand
      <4> QED
        BY <4>1, <4>2 DEF TabKept, AllInHand
    <3>2. CASE UNCHANGED tabVars /\ flight' \subseteq flight
      <4>1. UNCHANGED <<draft, pc, order, shown, progress, tx>>
        BY <3>2 DEF tabVars, formVars
      <4>2. TabTypeOK'
        BY <4>1 DEF IInv, IssuanceTypeOK, TabTypeOK
      <4>3. ASSUME NEW u \in Tab
            PROVE  InHand(u)'
        <5>1. /\ pc'[u] = pc[u] /\ order'[u] = order[u]
              /\ shown'[u] = shown[u] /\ progress'[u] = progress[u]
          BY <4>1
        <5>2. InHand(u) /\ order[u] \subseteq Order
          BY DEF IInv, IssuanceTypeOK, TabTypeOK, AllInHand
        <5> QED
          BY <2>2, <2>3, <2>6, <5>1, <5>2, OthersInHand
      <4>4. \A x \in flight : x \in Tx /\ x.order.number < Len(rows) /\ x.order.number \in Nat
        BY DEF IInv, IssuanceTypeOK, Executed, Tx, Order
      <4> QED
        BY <2>2, <2>3, <3>2, <4>2, <4>3, <4>4 DEF AllInHand
    <3>3. CASE Land
      <4>1. UNCHANGED tabVars /\ flight' \subseteq flight
        BY <3>3 DEF Land
      <4> QED
        BY <3>2, <4>1
    <3>4. \A t \in DOMAIN draft : Walk(t) \/ Ask(t) \/ Sign(t) => TabKept(t)
      BY <2>2, WalkKeeps, AskKeeps, SignKeeps
    <3> QED
      BY <3>1, <3>2, <3>3, <3>4, StepsElse
  <2>8. IssuanceTypeOK'
    BY <2>1, <2>2, <2>4, <2>6, <2>7 DEF IssuanceTypeOK
  <2>9. Executed'
    BY <2>1, <2>6, <2>7 DEF Executed, Done
  <2> QED
    BY <2>1, <2>5, <2>7, <2>8, <2>9 DEF IInv
<1> QED
  BY <1>1, <1>2, PTL DEF Spec

\* Every variable keeps its type.
THEOREM IssuanceTypeCorrect == Spec => []IssuanceTypeOK
<1>1. IInv => IssuanceTypeOK
  BY DEF IInv
<1> QED
  BY <1>1, Invariance, PTL

\* A tab that says "Issued" has its own token on the chain, whole; and the row of a
\* token whose metadata the worker has seen names that token.
THEOREM IssuedIsNamed == Spec => []IssuedAsNamed
<1>1. IInv => IssuedAsNamed
  <2> SUFFICES ASSUME IInv
               PROVE  IssuedAsNamed
    OBVIOUS
  <2>1. ASSUME NEW t \in Tab, progress[t] = AllConfirmed
        PROVE  \E o \in order[t] :
                 /\ o.number < count
                 /\ LET token == tokens[o.number + 1]
                    IN  token.by = t /\ token.body = o.body /\ token.hooked
                        /\ token.named = {o.body.title.word}
    <3>1. InHand(t) /\ order[t] \subseteq Order
      BY DEF IInv, AllInHand, IssuanceTypeOK, TabTypeOK
    <3>2. DOMAIN progress[t] = 1 .. 3 /\ \A i \in 1 .. 3 : progress[t][i] = "confirmed"
      BY <2>1, ThreeSteps DEF AllConfirmed
    <3>3. shown[t]
      BY <3>1, <3>2 DEF InHand
    <3>4. \A i \in 1 .. 3 : Confirmed(t, i)
      BY <3>1, <3>2, <3>3 DEF InHand
    <3>5. PICK o \in order[t] : [tx |-> [by |-> t, step |-> 1, order |-> o], ok |-> TRUE] \in landed
      <4>1. Confirmed(t, 1)
        BY <3>4
      <4> QED
        BY <4>1 DEF Confirmed
    <3>6. \A i \in 1 .. 3 : [tx |-> [by |-> t, step |-> i, order |-> o], ok |-> TRUE] \in landed
      <4> SUFFICES ASSUME NEW i \in 1 .. 3
                   PROVE  [tx |-> [by |-> t, step |-> i, order |-> o], ok |-> TRUE] \in landed
        OBVIOUS
      <4>1. PICK p \in order[t] : [tx |-> [by |-> t, step |-> i, order |-> p], ok |-> TRUE] \in landed
        BY <3>4 DEF Confirmed
      <4>2. p = o
        BY <3>1, <3>5, <4>1 DEF InHand
      <4> QED
        BY <4>1, <4>2
    <3>7. ASSUME NEW i \in 1 .. 3
          PROVE  Done([by |-> t, step |-> i, order |-> o])
      <4>1. PICK x : x = [by |-> t, step |-> i, order |-> o]
        OBVIOUS
      <4>2. x \in Tx /\ [tx |-> x, ok |-> TRUE] \in landed
        BY <3>1, <3>6, <4>1 DEF Tx
      <4>3. Done(x)
        BY <4>2 DEF IInv, Executed, Done
      <4> QED
        BY <4>1, <4>3
    <3>8. /\ Done([by |-> t, step |-> 1, order |-> o])
          /\ Done([by |-> t, step |-> 2, order |-> o])
          /\ Done([by |-> t, step |-> 3, order |-> o])
      BY <3>7
    <3> QED
      BY <3>8 DEF Done
  <2>2. ASSUME NEW n \in mirrored
        PROVE  /\ tokens[n].named = {rows[n].names.word}
               /\ tokens[n].body.decimals = rows[n].names.decimals
    BY DEF IInv, Live
  <2> QED
    BY <2>1, <2>2 DEF IssuedAsNamed
<1> QED
  BY <1>1, Invariance, PTL

-----------------------------------------------------------------------------
(* What the schema of a policy lets through *)

\* Of the numbers in a set there is a least one.
LEMMA LeastExists ==
    ASSUME NEW S \in SUBSET Nat, S # {}
    PROVE  \E i \in S : \A j \in S : i <= j
<1> DEFINE Less == {x \in Nat \X Nat : x[1] < x[2]}
<1>1. IsWellFoundedOn(Less, Nat)
  BY NatLessThanWellFounded DEF OpToRel
<1>2. PICK i \in S : \A j \in S : ~(<<j, i>> \in Less)
  <2> HIDE DEF Less
  <2> QED
    BY <1>1, WFMin
<1>3. ASSUME NEW j \in S
      PROVE  i <= j
  <2>1. <<j, i>> \in Nat \X Nat /\ <<j, i>>[1] = j /\ <<j, i>>[2] = i
    OBVIOUS
  <2>2. ~(j < i)
    BY <1>2, <2>1
  <2> QED
    BY <2>2
<1> QED
  BY <1>3

\* A list of a set's numbers in order.
Listed(s, C) == s \in [1 .. Cardinality(C) -> C] /\ Ascending(s) /\ ToSet(s) = C

\* The least number goes before the others.
LEMMA LeastFirst ==
    ASSUME NEW C \in SUBSET Nat, IsFiniteSet(C), NEW c \in C, \A d \in C : c <= d,
           NEW s, Listed(s, C \ {c})
    PROVE  \E r : Listed(r, C)
<1> DEFINE n == Cardinality(C)
           r == [i \in 1 .. n |-> IF i = 1 THEN c ELSE s[i - 1]]
<1>1. n \in Nat /\ Cardinality(C \ {c}) = n - 1 /\ n # 0
  <2>1. IsFiniteSet(C \ {c}) /\ Cardinality(C \ {c}) = Cardinality(C) - 1
    BY FS_RemoveElement
  <2>2. Cardinality(C) \in Nat /\ Cardinality(C \ {c}) \in Nat
    BY <2>1, FS_CardinalityType
  <2> QED
    BY <2>1, <2>2
<1> HIDE DEF n
<1>2. s \in [1 .. n - 1 -> C \ {c}]
  BY <1>1 DEF Listed
<1>3. \A i \in 1 .. n : i # 1 => i - 1 \in 1 .. n - 1 /\ s[i - 1] \in C /\ s[i - 1] # c
  BY <1>1, <1>2
<1>4. r \in [1 .. n -> C]
  BY <1>3
<1>5. Ascending(r)
  <2> SUFFICES ASSUME NEW i \in 1 .. n, NEW j \in 1 .. n, i < j
               PROVE  r[i] < r[j]
    BY DEF Ascending
  <2>1. j # 1 /\ r[j] = s[j - 1] /\ s[j - 1] \in C /\ s[j - 1] # c
    <3>1. j # 1
      BY <1>1
    <3>2. s[j - 1] \in C /\ s[j - 1] # c
      BY <1>3, <3>1
    <3>3. r[j] = s[j - 1]
      BY <3>1
    <3> QED
      BY <3>1, <3>2, <3>3
  <2>2. CASE i = 1
    <3>1. c \in Nat /\ s[j - 1] \in Nat /\ c <= s[j - 1] /\ s[j - 1] # c
      BY <2>1
    <3>2. r[i] = c
      BY <2>2
    <3> QED
      BY <2>1, <3>1, <3>2
  <2>3. CASE i # 1
    <3>1. i - 1 \in DOMAIN s /\ j - 1 \in DOMAIN s /\ i - 1 < j - 1
      BY <1>1, <1>2, <1>3, <2>1, <2>3
    <3>2. s[i - 1] < s[j - 1]
      BY <3>1 DEF Listed, Ascending
    <3> QED
      BY <2>1, <2>3, <3>2
  <2> QED
    BY <2>2, <2>3
<1>6. ToSet(r) = C
  <2>1. ToSet(r) \subseteq C
    BY <1>4 DEF ToSet
  <2>2. ASSUME NEW d \in C
        PROVE  d \in ToSet(r)
    <3>1. CASE d = c
      <4>1. 1 \in 1 .. n /\ r[1] = c
        BY <1>1
      <4> QED
        BY <3>1, <4>1 DEF ToSet
    <3>2. CASE d # c
      <4>1. d \in ToSet(s)
        BY <3>2 DEF Listed
      <4>2. PICK k \in 1 .. n - 1 : s[k] = d
        BY <1>2, <4>1 DEF ToSet
      <4>3. k + 1 \in 1 .. n /\ k + 1 # 1 /\ (k + 1) - 1 = k
        BY <1>1
      <4>4. r[k + 1] = d
        BY <4>2, <4>3
      <4> QED
        BY <4>3, <4>4 DEF ToSet
    <3> QED
      BY <3>1, <3>2
  <2> QED
    BY <2>1, <2>2
<1>7. Listed(r, C)
  BY <1>4, <1>5, <1>6 DEF Listed, n
<1> QED
  BY <1>7

\* Every finite set of numbers has such a list, and it is the one sorting chooses.
LEMMA SortedIs ==
    ASSUME NEW C \in SUBSET Nat, IsFiniteSet(C)
    PROVE  Listed(Sorted(C), C)
<1> DEFINE Unlisted(D) == IsFiniteSet(D) /\ ~\E s : Listed(s, D)
           Bad == {n \in Nat : \E D \in SUBSET Nat : Cardinality(D) = n /\ Unlisted(D)}
<1>1. Bad = {}
  <2> SUFFICES ASSUME Bad # {}
               PROVE  FALSE
    OBVIOUS
  <2>1. PICK n \in Bad : \A m \in Bad : n <= m
    <3>1. Bad \in SUBSET Nat
      OBVIOUS
    <3> HIDE DEF Bad
    <3> QED
      BY <3>1, LeastExists
  <2>2. PICK D \in SUBSET Nat : Cardinality(D) = n /\ Unlisted(D)
    BY <2>1
  <2>3. CASE D = {}
    <3>1. Cardinality(D) = 0
      BY <2>3, FS_EmptySet
    <3>2. << >> \in [1 .. 0 -> D] /\ Ascending(<< >>) /\ ToSet(<< >>) = {}
      BY DEF Ascending, ToSet
    <3>3. Listed(<< >>, D)
      BY <2>3, <3>1, <3>2 DEF Listed
    <3> QED
      BY <2>2, <3>3
  <2>4. CASE D # {}
    <3>1. PICK c \in D : \A d \in D : c <= d
      BY <2>4, LeastExists
    <3>2. IsFiniteSet(D \ {c}) /\ Cardinality(D \ {c}) = n - 1 /\ n \in Nat
          /\ Cardinality(D \ {c}) \in Nat
      BY <2>1, <2>2, <3>1, FS_RemoveElement, FS_CardinalityType
    <3>3. n - 1 \notin Bad
      BY <2>1, <3>2
    <3>4. ~Unlisted(D \ {c})
      BY <3>2, <3>3
    <3>5. PICK s : Listed(s, D \ {c})
      BY <3>2, <3>4
    <3>6. \E r : Listed(r, D)
      BY <2>2, <3>1, <3>5, LeastFirst
    <3> QED
      BY <2>2, <3>6
  <2> QED
    BY <2>3, <2>4
<1>2. \E s : Listed(s, C)
  <2>1. Cardinality(C) \in Nat
    BY FS_CardinalityType
  <2> QED
    BY <1>1, <2>1
<1>3. \E s \in [1 .. Cardinality(C) -> C] : Ascending(s) /\ ToSet(s) = C
  BY <1>2 DEF Listed
<1> DEFINE G(s) == Ascending(s) /\ ToSet(s) = C
           chosen == CHOOSE s \in [1 .. Cardinality(C) -> C] : G(s)
<1>4. chosen \in [1 .. Cardinality(C) -> C] /\ G(chosen)
  <2>1. \E s \in [1 .. Cardinality(C) -> C] : G(s)
    BY <1>3
  <2> HIDE DEF G
  <2> QED
    BY <2>1
<1>5. Sorted(C) = chosen
  BY DEF Sorted
<1> QED
  BY <1>4, <1>5 DEF Listed

\* A set of sources has its declared order.
LEMMA DeclaredSources ==
    ASSUME NEW S \in SUBSET Source, S # {}
    PROVE  ToSet(Declared(S)) = S /\ Declared(S) # <<>> /\ IsInjective(Declared(S))
<1> DEFINE all == {STATUS_SOURCES} \cup {<<x>> : x \in Source}
<1>1. \A s \in all : s # <<>> /\ IsInjective(s)
  BY DEF STATUS_SOURCES, Source, IsInjective
<1>2. S = {"provider"} \/ S = {"register"} \/ S = {"provider", "register"}
  BY DEF Source
<1>3. /\ ToSet(STATUS_SOURCES) = {"provider", "register"}
      /\ ToSet(<<"provider">>) = {"provider"} /\ ToSet(<<"register">>) = {"register"}
  BY DEF ToSet, STATUS_SOURCES
<1>4. \E s \in all : ToSet(s) = S
  BY <1>2, <1>3 DEF Source
<1> HIDE DEF all
<1>5. PICK chosen : chosen = CHOOSE s \in all : ToSet(s) = S
  OBVIOUS
<1>6. chosen \in all /\ ToSet(chosen) = S
  BY <1>4, <1>5
<1>7. Declared(S) = chosen
  BY <1>5 DEF Declared, all
<1> QED
  BY <1>1, <1>6, <1>7

\* To write a status rule's sources as they are changes nothing.
LEMMA SameStatus ==
    ASSUME NEW a, NEW b, NEW c, NEW d
    PROVE  [[sources |-> a, minTier |-> b, maxAge |-> c] EXCEPT !.sources = d] =
             [sources |-> d, minTier |-> b, maxAge |-> c]
  OBVIOUS

\* To write a policy's parts as they are leaves the policy as it is.
LEMMA SamePolicy ==
    ASSUME NEW a, NEW b, NEW c, NEW d, NEW p,
           p = [status |-> a, jurisdictions |-> b, transferLimit |-> c, periodLimit |-> d]
    PROVE  [p EXCEPT !.status = a, !.jurisdictions = b] = p
<1> DEFINE q == [status |-> a, jurisdictions |-> b, transferLimit |-> c, periodLimit |-> d]
<1>1. [q EXCEPT !.status = a] = q
  OBVIOUS
<1>2. [q EXCEPT !.jurisdictions = b] = q
  OBVIOUS
<1> HIDE DEF q
<1>3. [[q EXCEPT !.status = a] EXCEPT !.jurisdictions = b] = q
  BY <1>1, <1>2, Zenon
<1>4. p = q
  BY DEF q
<1> QED
  BY <1>3, <1>4, Zenon

\* A list of sources that was accepted, in its declared order, is accepted and stays.
LEMMA StatusInOrder ==
    ASSUME NEW listed \in Seq(Source), NEW tier, NEW age,
           AcceptedStatus([sources |-> listed, minTier |-> tier, maxAge |-> age])
    PROVE  \E list :
             /\ list = Declared(ToSet(listed)) /\ Declared(ToSet(list)) = list
             /\ ToSet(list) = ToSet(listed) /\ ToSet(list) \in SUBSET Source /\ ToSet(list) # {}
             /\ AcceptedStatus([sources |-> list, minTier |-> tier, maxAge |-> age])
<1>1. ToSet(listed) \in SUBSET Source /\ ToSet(listed) # {}
  <2>1. listed # <<>>
    BY DEF AcceptedStatus
  <2>2. 1 \in DOMAIN listed /\ \A i \in DOMAIN listed : listed[i] \in Source
    BY <2>1
  <2> QED
    BY <2>2 DEF ToSet
<1>2. PICK list : list = Declared(ToSet(listed))
  OBVIOUS
<1>3. ToSet(list) = ToSet(listed) /\ list # <<>> /\ IsInjective(list)
  BY <1>1, <1>2, DeclaredSources
<1>4. AcceptedStatus([sources |-> list, minTier |-> tier, maxAge |-> age])
  BY <1>3 DEF AcceptedStatus
<1> QED
  BY <1>1, <1>2, <1>3, <1>4

\* A list of countries that was accepted, sorted, is accepted and stays.
LEMMA CountriesInOrder ==
    ASSUME NEW codes \in Seq(Jurisdiction), AcceptedJurisdictions(codes),
           NEW s, s = Sorted(ToSet(codes))
    PROVE  /\ s \in Seq(Nat) /\ Ascending(s) /\ AcceptedJurisdictions(s)
           /\ ToSet(s) = ToSet(codes) /\ Sorted(ToSet(s)) = s
<1> DEFINE n == Len(codes)
           C == ToSet(codes)
<1>1. n \in 1 .. Fields /\ n \in Nat /\ DOMAIN codes = 1 .. n /\ C \subseteq Capitals
  BY DEF AcceptedJurisdictions
<1>2. C \in SUBSET Nat
  BY <1>1, CodesAssumption
<1>3. IsFiniteSet(C) /\ Cardinality(C) = n
  <2>1. 0 \in Int /\ 1 \in Int /\ n \in Int
    BY <1>1
  <2>2. IsFiniteSet(1 .. n) /\ Cardinality(1 .. n) = n
    BY <1>1, <2>1, FS_Interval
  <2>3. codes \in Bijection(1 .. n, C)
    BY <1>1 DEF ToSet, Bijection, Injection, Surjection, IsInjective, AcceptedJurisdictions
  <2>4. ExistsBijection(1 .. n, C)
    BY <2>3 DEF ExistsBijection
  <2> QED
    BY <2>2, <2>4, FS_Bijection
<1> HIDE DEF n, C
<1>4. Listed(s, C)
  BY <1>2, <1>3, SortedIs DEF C
<1>5. s \in [1 .. n -> C] /\ Ascending(s) /\ ToSet(s) = C
  BY <1>3, <1>4 DEF Listed
<1>6. s \in Seq(Nat) /\ Len(s) = n /\ DOMAIN s = 1 .. n
  <2>1. s \in [1 .. n -> Nat] /\ n \in Nat
    BY <1>1, <1>2, <1>5 DEF n
  <2> QED
    BY <2>1
<1>7. IsInjective(s)
  <2> SUFFICES ASSUME NEW i \in 1 .. n, NEW j \in 1 .. n, s[i] = s[j], i # j
               PROVE  FALSE
    BY <1>6 DEF IsInjective
  <2>1. (i < j => s[i] < s[j]) /\ (j < i => s[j] < s[i])
    <3>1. i \in DOMAIN s /\ j \in DOMAIN s
      BY <1>6
    <3>2. \A k, l \in DOMAIN s : k < l => s[k] < s[l]
      BY <1>5 DEF Ascending
    <3> QED
      BY <3>1, <3>2
  <2>2. s[i] \in Nat /\ s[j] \in Nat /\ i \in Int /\ j \in Int
    <3>1. \A k \in 1 .. n : s[k] \in Nat
      BY <1>2, <1>5
    <3> QED
      BY <1>1, <3>1
  <2> QED
    BY <2>1, <2>2
<1>8. AcceptedJurisdictions(s)
  BY <1>1, <1>5, <1>6, <1>7 DEF AcceptedJurisdictions
<1> QED
  BY <1>5, <1>6, <1>8 DEF C

\* What a rule asks for, in a policy that was let through.
AcceptedRules(policy) ==
    /\ policy.status # {}
    /\ \A s \in policy.status :
         AcceptedStatus(s) /\ ToSet(s.sources) \in SUBSET Source /\ ToSet(s.sources) # {}
    /\ \A codes \in policy.jurisdictions :
         codes \in Seq(Nat) /\ Ascending(codes) /\ AcceptedJurisdictions(codes)
    /\ \A amount \in policy.transferLimit : AcceptedAmount(amount)
    /\ \A limit \in policy.periodLimit : AcceptedPeriod(limit)

\* The schema accepts what it lets through, and leaves it as it is.
LEMMA SchemaStays ==
    ASSUME NEW S, NEW J, NEW T, NEW P, NEW body,
           body = [status |-> S, jurisdictions |-> J, transferLimit |-> T, periodLimit |-> P],
           \A s \in S : \E listed \in Seq(Source) : \E tier, age :
             s = [sources |-> listed, minTier |-> tier, maxAge |-> age],
           J \subseteq Seq(Jurisdiction),
           NEW policy \in PolicyRulesSchema(body)
    PROVE  AcceptedRules(policy) /\ PolicyRulesSchema(policy) = {policy}
<1> DEFINE inOrder(s) == [s EXCEPT !.sources = Declared(ToSet(s.sources))]
<1>1. /\ S # {} /\ \A s \in S : AcceptedStatus(s)
      /\ \A codes \in J : AcceptedJurisdictions(codes)
      /\ \A amount \in T : AcceptedAmount(amount)
      /\ \A limit \in P : AcceptedPeriod(limit)
      /\ policy = [body EXCEPT !.status = {inOrder(s) : s \in @},
                               !.jurisdictions = {Sorted(ToSet(codes)) : codes \in @}]
  BY DEF PolicyRulesSchema
<1>2. PICK statuses : statuses = {inOrder(s) : s \in S}
  OBVIOUS
<1>3. PICK countries : countries = {Sorted(ToSet(codes)) : codes \in J}
  OBVIOUS
<1>4. policy = [status |-> statuses, jurisdictions |-> countries,
                transferLimit |-> T, periodLimit |-> P]
  BY <1>1, <1>2, <1>3
<1>5. ASSUME NEW r \in statuses
      PROVE  /\ AcceptedStatus(r) /\ ToSet(r.sources) \in SUBSET Source /\ ToSet(r.sources) # {}
             /\ inOrder(r) = r
  <2>1. PICK s \in S : r = inOrder(s)
    BY <1>2, <1>5
  <2>2. \E listed \in Seq(Source) : \E tier, age :
          s = [sources |-> listed, minTier |-> tier, maxAge |-> age]
    OBVIOUS
  <2>3. PICK listed \in Seq(Source) : \E tier, age :
          s = [sources |-> listed, minTier |-> tier, maxAge |-> age]
    BY <2>2
  <2>4. PICK tier, age : s = [sources |-> listed, minTier |-> tier, maxAge |-> age]
    BY <2>3
  <2>5. AcceptedStatus([sources |-> listed, minTier |-> tier, maxAge |-> age])
    BY <1>1, <2>4
  <2>6. PICK list :
          /\ list = Declared(ToSet(listed)) /\ Declared(ToSet(list)) = list
          /\ ToSet(list) \in SUBSET Source /\ ToSet(list) # {}
          /\ AcceptedStatus([sources |-> list, minTier |-> tier, maxAge |-> age])
    BY <2>5, StatusInOrder
  <2>7. s.sources = listed
    BY <2>4
  <2>8. r = [[sources |-> listed, minTier |-> tier, maxAge |-> age] EXCEPT !.sources = list]
    BY <2>1, <2>4, <2>6, <2>7
  <2>9. r = [sources |-> list, minTier |-> tier, maxAge |-> age]
    BY <2>8, SameStatus
  <2>10. r.sources = list
    BY <2>9
  <2>11. [r EXCEPT !.sources = list] = r
    BY <2>9, SameStatus
  <2> QED
    BY <2>6, <2>9, <2>10, <2>11
<1>6. ASSUME NEW s \in countries
      PROVE  /\ s \in Seq(Nat) /\ Ascending(s) /\ AcceptedJurisdictions(s)
             /\ Sorted(ToSet(s)) = s
  <2>1. PICK codes \in J : s = Sorted(ToSet(codes))
    BY <1>3, <1>6
  <2> QED
    BY <1>1, <2>1, CountriesInOrder
<1>7. /\ policy.status = statuses /\ policy.jurisdictions = countries
      /\ policy.transferLimit = T /\ policy.periodLimit = P
  BY <1>4
<1> HIDE DEF inOrder
<1>8. statuses # {}
  <2>1. S # {}
    BY <1>1
  <2> QED
    BY <1>2, <2>1
<1>9. AcceptedRules(policy)
  BY <1>1, <1>5, <1>6, <1>7, <1>8 DEF AcceptedRules
<1>10. {inOrder(s) : s \in statuses} = statuses /\ {Sorted(ToSet(codes)) : codes \in countries} = countries
  BY <1>5, <1>6
<1>11. [policy EXCEPT !.status = {inOrder(s) : s \in @},
                      !.jurisdictions = {Sorted(ToSet(codes)) : codes \in @}] = policy
  <2>1. [policy EXCEPT !.status = statuses, !.jurisdictions = countries] = policy
    BY <1>4, SamePolicy, Zenon
  <2> QED
    BY <1>7, <1>10, <2>1
<1>12. PolicyRulesSchema(policy) = {policy}
  <2>1. /\ policy.status # {}
        /\ \A s \in policy.status : AcceptedStatus(s)
        /\ \A codes \in policy.jurisdictions : AcceptedJurisdictions(codes)
        /\ \A amount \in policy.transferLimit : AcceptedAmount(amount)
        /\ \A limit \in policy.periodLimit : AcceptedPeriod(limit)
    BY <1>9 DEF AcceptedRules
  <2>2. PolicyRulesSchema(policy) =
          {[policy EXCEPT !.status = {inOrder(s) : s \in @},
                          !.jurisdictions = {Sorted(ToSet(codes)) : codes \in @}]}
    BY <2>1 DEF PolicyRulesSchema, inOrder
  <2> QED
    BY <1>11, <2>2
<1> QED
  BY <1>9, <1>12
-----------------------------------------------------------------------------
(* What the encoder makes of it, the program takes *)

\* The parameters of a slot, word by word.
LEMMA ParamsAre ==
    ASSUME NEW words, Len(words) \in Nat
    PROVE  /\ \A i \in 1 .. Fields : i <= Len(words) => Params(words)[i] = words[i]
           /\ ZeroTail(Params(words), Len(words))
           /\ Params(words) = [i \in 1 .. Fields |-> Params(words)[i]]
<1>1. Fields \in Nat
  BY LayoutAssumption
<1>2. \A i \in 1 .. Fields : Params(words)[i] = IF i <= Len(words) THEN words[i] ELSE 0
  BY DEF Params
<1>3. Params(words) = [i \in 1 .. Fields |-> Params(words)[i]]
  BY DEF Params
<1>4. \A i \in Len(words) + 1 .. Fields : i \in 1 .. Fields /\ ~(i <= Len(words))
  BY <1>1
<1> QED
  BY <1>2, <1>3, <1>4 DEF ZeroTail

\* The countries read back from their slot.
LEMMA CountriesBack ==
    ASSUME NEW codes \in Seq(Nat), AcceptedJurisdictions(codes)
    PROVE  CodesOf(Params(codes)) = codes
<1> DEFINE n == Len(codes)
           p == Params(codes)
           ends == {i \in 1 .. Fields : p[i] = 0}
<1>1. n \in Nat /\ n \in 1 .. Fields /\ DOMAIN codes = 1 .. n /\ Fields \in Nat
  BY LayoutAssumption DEF AcceptedJurisdictions
<1>2. \A i \in 1 .. n : codes[i] \in Nat /\ codes[i] # 0
  <2>1. \A i \in 1 .. n : codes[i] \in Capitals
    BY <1>1 DEF AcceptedJurisdictions, ToSet
  <2> QED
    BY <2>1, CodesAssumption
<1>3. \A i \in 1 .. n : i \in 1 .. Fields /\ p[i] = codes[i]
  BY <1>1, ParamsAre
<1>4. \A i \in n + 1 .. Fields : p[i] = 0
  BY <1>1, ParamsAre DEF ZeroTail
<1>5. p = [i \in 1 .. Fields |-> p[i]]
  BY <1>1, ParamsAre
<1>6. CodesOf(p) = IF ends = {} THEN p ELSE SubSeq(p, 1, Min(ends) - 1)
  BY DEF CodesOf
<1> HIDE DEF n, p
<1>7. CASE n = Fields
  <2>1. ends = {}
    BY <1>2, <1>3, <1>7
  <2>2. codes = [i \in 1 .. n |-> codes[i]]
    BY <1>1
  <2>3. p = codes
    BY <1>3, <1>5, <1>7, <2>2
  <2> QED
    BY <1>6, <2>1, <2>3 DEF p
<1>8. CASE n # Fields
  <2>1. n + 1 \in ends
    BY <1>1, <1>4, <1>8
  <2>2. \A i \in ends : n + 1 <= i
    <3> SUFFICES ASSUME NEW i \in ends, ~(n + 1 <= i)
                 PROVE  FALSE
      OBVIOUS
    <3>1. i \in 1 .. n /\ p[i] = 0
      BY <1>1
    <3> QED
      BY <1>2, <1>3, <3>1
  <2>3. \A x \in ends : x \in Nat
    BY <1>1
  <2> HIDE DEF ends
  <2>4. Min(ends) = n + 1
    <3>1. \A x \in ends : (\A y \in ends : x <= y) => x = n + 1
      <4> SUFFICES ASSUME NEW x \in ends, \A y \in ends : x <= y
                   PROVE  x = n + 1
        OBVIOUS
      <4>1. x <= n + 1 /\ n + 1 <= x /\ x \in Nat
        BY <2>1, <2>2, <2>3
      <4> QED
        BY <1>1, <4>1
    <3> DEFINE Least(x) == \A y \in ends : x <= y
               m == CHOOSE x \in ends : Least(x)
    <3>2. Min(ends) = m
      BY DEF Min
    <3>3. \E x \in ends : Least(x)
      BY <2>1, <2>2
    <3>4. \A x \in ends : Least(x) => x = n + 1
      BY <3>1
    <3>5. m \in ends /\ Least(m)
      <4> HIDE DEF Least
      <4> QED
        BY <3>3
    <3> HIDE DEF m, Least
    <3> QED
      BY <3>2, <3>4, <3>5
  <2>5. CodesOf(p) = SubSeq(p, 1, n)
    BY <1>1, <1>6, <2>1, <2>4
  <2>6. n \in Int /\ \A i \in 1 .. n : p[i] \in Nat
    BY <1>1, <1>2, <1>3
  <2>7. PICK s : s = SubSeq(p, 1, n)
    OBVIOUS
  <2>8. /\ s \in Seq(Nat) /\ Len(s) = IF 1 <= n THEN n - 1 + 1 ELSE 0
        /\ \A i \in 1 .. n - 1 + 1 : s[i] = p[1 + i - 1]
    BY <2>6, <2>7, SubSeqProperties
  <2>9. Len(s) = n /\ \A i \in 1 .. n : s[i] = p[i]
    BY <1>1, <2>8
  <2>10. s = codes
    <3>1. Len(s) = Len(codes) /\ \A i \in 1 .. Len(s) : s[i] = codes[i]
      BY <1>1, <1>3, <2>9 DEF n
    <3> QED
      BY <2>8, <3>1, SeqEqual
  <2> QED
    BY <2>5, <2>7, <2>10 DEF p
<1> QED
  BY <1>7, <1>8

\* The slot of an accepted list of countries is one the program accepts.
LEMMA CountriesValid ==
    ASSUME NEW codes \in Seq(Nat), Ascending(codes), AcceptedJurisdictions(codes)
    PROVE  ValidJurisdictions(Params(codes))
<1>1. /\ Len(codes) \in 1 .. Fields /\ Len(codes) \in Nat /\ DOMAIN codes = 1 .. Len(codes)
      /\ codes # <<>>
  BY DEF AcceptedJurisdictions
<1>2. \A i \in DOMAIN codes : codes[i] \in Capitals
  BY DEF AcceptedJurisdictions, ToSet
<1>3. ASSUME NEW i \in DOMAIN codes, i > 1
      PROVE  codes[i] > codes[i - 1]
  <2>1. i - 1 \in DOMAIN codes /\ i - 1 < i
    BY <1>1, <1>3
  <2>2. codes[i - 1] < codes[i]
    BY <2>1 DEF Ascending
  <2> QED
    BY <2>2
<1>4. ZeroTail(Params(codes), Len(codes))
  BY <1>1, ParamsAre
<1> QED
  BY <1>1, <1>2, <1>3, <1>4, CountriesBack DEF ValidJurisdictions

\* The sources read back from their mask.
LEMMA SourcesBack ==
    ASSUME NEW list, ToSet(list) \in SUBSET Source, ToSet(list) # {}
    PROVE  /\ StatusSourceMask(list) \in 1 .. STATUS_SOURCE_ALL
           /\ SourcesOf(StatusSourceMask(list)) = ToSet(list)
<1> DEFINE mask == StatusSourceMask(list)
<1>1. STATUS_SOURCE["provider"] = 1 /\ STATUS_SOURCE["register"] = 2
  BY DEF STATUS_SOURCE
<1>2. mask = (IF "provider" \in ToSet(list) THEN 1 ELSE 0)
             + (IF "register" \in ToSet(list) THEN 2 ELSE 0)
  BY <1>1 DEF StatusSourceMask
<1>3. "provider" \in ToSet(list) \/ "register" \in ToSet(list)
  BY DEF Source
<1> HIDE DEF mask
<1>4. /\ (1 \div 1) % 2 = 1 /\ (2 \div 1) % 2 = 0 /\ (3 \div 1) % 2 = 1
      /\ (1 \div 2) % 2 = 0 /\ (2 \div 2) % 2 = 1 /\ (3 \div 2) % 2 = 1
  OBVIOUS
<1>5. /\ "provider" \in SourcesOf(mask) <=> (mask \div 1) % 2 = 1
      /\ "register" \in SourcesOf(mask) <=> (mask \div 2) % 2 = 1
  BY <1>1 DEF SourcesOf, Source
<1>6. /\ mask \in {1, 2, 3}
      /\ "provider" \in ToSet(list) <=> mask = 1 \/ mask = 3
      /\ "register" \in ToSet(list) <=> mask = 2 \/ mask = 3
  BY <1>2, <1>3
<1>7. SourcesOf(mask) \in SUBSET Source
  BY DEF SourcesOf
<1>8. /\ "provider" \in SourcesOf(mask) <=> "provider" \in ToSet(list)
      /\ "register" \in SourcesOf(mask) <=> "register" \in ToSet(list)
  BY <1>4, <1>5, <1>6
<1>9. SourcesOf(mask) = ToSet(list)
  BY <1>7, <1>8 DEF Source
<1> QED
  BY <1>6, <1>9 DEF STATUS_SOURCE_ALL, mask

\* So is the slot of an accepted list of sources.
LEMMA StatusValid ==
    ASSUME NEW s, AcceptedStatus(s), ToSet(s.sources) \in SUBSET Source, ToSet(s.sources) # {}
    PROVE  ValidStatusParams(Params(StatusParams(s)))
<1> DEFINE mask == StatusSourceMask(s.sources)
           age == IF s.maxAge = {} THEN 0 ELSE CHOOSE a \in s.maxAge : TRUE
           words == <<mask, s.minTier, age>>
<1>1. StatusParams(s) = words
  BY DEF StatusParams
<1>2. /\ mask \in 1 .. STATUS_SOURCE_ALL
      /\ SourcesOf(mask) = ToSet(s.sources)
  BY SourcesBack
<1>3. /\ s.maxAge = {} => age = 0
      /\ s.maxAge # {} => age \in MinAge .. MaxAge
  BY DEF AcceptedStatus
<1> HIDE DEF age, mask
<1>4. Len(words) = 3 /\ words[1] = mask /\ words[3] = age
  OBVIOUS
<1> HIDE DEF words
<1>5. 3 \in 1 .. Fields /\ 1 \in 1 .. Fields /\ MinAge \in Nat \ {0}
  BY LayoutAssumption
<1>6. Params(words)[1] = mask /\ Params(words)[3] = age /\ ZeroTail(Params(words), 3)
  <2>1. Len(words) \in Nat /\ 1 <= Len(words) /\ 3 <= Len(words)
    BY <1>4
  <2>2. ZeroTail(Params(words), Len(words))
    BY <2>1, ParamsAre
  <2>3. \A i \in 1 .. Fields : i <= Len(words) => Params(words)[i] = words[i]
    BY <2>1, ParamsAre
  <2> QED
    BY <1>4, <1>5, <2>1, <2>2, <2>3
<1>7. "provider" \in SourcesOf(mask) => age # 0
  <2>1. "provider" \in ToSet(s.sources) => s.maxAge # {}
    BY DEF AcceptedStatus
  <2> QED
    BY <1>2, <1>3, <1>5, <2>1
<1>8. age = 0 \/ age \in MinAge .. MaxAge
  BY <1>3
<1> QED
  BY <1>1, <1>2, <1>6, <1>7, <1>8 DEF ValidStatusParams

\* So is the slot of accepted limits.
LEMMA LimitsValid ==
    ASSUME NEW a, AcceptedAmount(a)
    PROVE  /\ ValidTransferLimit(Params(<<a>>))
           /\ \A w \in MinPeriod .. MaxPeriod : ValidPeriodLimit(Params(<<a, w>>))
<1>1. 1 \in 1 .. Fields /\ 2 \in 1 .. Fields /\ a > 0
  BY LayoutAssumption, WidthAssumption DEF AcceptedAmount
<1>2. Params(<<a>>)[1] = a /\ ZeroTail(Params(<<a>>), 1)
  <2>1. PICK words : words = <<a>>
    OBVIOUS
  <2>2. Len(words) \in Nat /\ Len(words) = 1 /\ words[1] = a
    BY <2>1
  <2>3. ZeroTail(Params(words), Len(words))
    BY <2>2, ParamsAre
  <2>4. \A i \in 1 .. Fields : i <= Len(words) => Params(words)[i] = words[i]
    BY <2>2, ParamsAre
  <2>5. Params(words)[1] = a
    BY <1>1, <2>2, <2>4
  <2> QED
    BY <2>1, <2>2, <2>3, <2>5
<1>3. ASSUME NEW w \in MinPeriod .. MaxPeriod
      PROVE  ValidPeriodLimit(Params(<<a, w>>))
  <2>1. PICK words : words = <<a, w>>
    OBVIOUS
  <2>2. Len(words) \in Nat /\ Len(words) = 2 /\ words[1] = a /\ words[2] = w
    BY <2>1
  <2>3. ZeroTail(Params(words), Len(words))
    BY <2>2, ParamsAre
  <2>4. \A i \in 1 .. Fields : i <= Len(words) => Params(words)[i] = words[i]
    BY <2>2, ParamsAre
  <2>5. Params(words)[1] = a /\ Params(words)[2] = w
    BY <1>1, <2>2, <2>4
  <2>6. ValidPeriodLimit(Params(words))
    BY <1>1, <2>2, <2>3, <2>5 DEF ValidPeriodLimit
  <2> QED
    BY <2>1, <2>6
<1> QED
  BY <1>1, <1>2, <1>3 DEF ValidTransferLimit

\* Slots that belong one after the other: the kinds ascend from one to another.
Fits(slots, lowest, highest) ==
    /\ \A i \in DOMAIN slots :
         /\ slots[i].op = 0 /\ slots[i].kind \in lowest .. highest
         /\ slots[i].kind = STATUS => ValidStatusParams(slots[i].params)
         /\ slots[i].kind = JURISDICTIONS => ValidJurisdictions(slots[i].params)
         /\ slots[i].kind = TRANSFER_LIMIT => ValidTransferLimit(slots[i].params)
         /\ slots[i].kind = PERIOD_LIMIT => ValidPeriodLimit(slots[i].params)
    /\ \A i, j \in DOMAIN slots : i < j => slots[i].kind < slots[j].kind

Joins(u, s, t) == u = s \o t

\* Slots of lower kinds followed by slots of higher kinds: all are in place still.
LEMMA JoinFits ==
    ASSUME NEW R, NEW s \in Seq(R), NEW t \in Seq(R),
           NEW a \in Nat, NEW b \in Nat, NEW c \in Nat, NEW d \in Nat,
           a <= b, b < c, c <= d, Fits(s, a, b), Fits(t, c, d),
           NEW u, Joins(u, s, t)
    PROVE  /\ u \in Seq(R) /\ Len(u) = Len(s) + Len(t) /\ Fits(u, a, d)
           /\ \A i \in 1 .. Len(s) : u[i] = s[i]
<1>1. /\ u \in Seq(R) /\ Len(u) = Len(s) + Len(t)
      /\ \A i \in 1 .. Len(s) + Len(t) :
           u[i] = IF i <= Len(s) THEN s[i] ELSE t[i - Len(s)]
  BY ConcatProperties DEF Joins
<1>2. /\ DOMAIN u = 1 .. Len(s) + Len(t) /\ Len(s) \in Nat /\ Len(t) \in Nat
      /\ DOMAIN s = 1 .. Len(s) /\ DOMAIN t = 1 .. Len(t)
  BY <1>1
<1>3. ASSUME NEW i \in DOMAIN u
      PROVE  \/ i \in DOMAIN s /\ u[i] = s[i]
             \/ i - Len(s) \in DOMAIN t /\ u[i] = t[i - Len(s)] /\ ~(i <= Len(s))
  BY <1>1, <1>2
<1>4. \A i \in DOMAIN s : s[i].kind \in a .. b
  BY DEF Fits
<1>5. \A i \in DOMAIN t : t[i].kind \in c .. d
  BY DEF Fits
<1>6. ASSUME NEW i \in DOMAIN u
      PROVE  /\ u[i].op = 0 /\ u[i].kind \in a .. d
             /\ u[i].kind = STATUS => ValidStatusParams(u[i].params)
             /\ u[i].kind = JURISDICTIONS => ValidJurisdictions(u[i].params)
             /\ u[i].kind = TRANSFER_LIMIT => ValidTransferLimit(u[i].params)
             /\ u[i].kind = PERIOD_LIMIT => ValidPeriodLimit(u[i].params)
  <2>1. a .. b \subseteq a .. d /\ c .. d \subseteq a .. d
    OBVIOUS
  <2>2. CASE i \in DOMAIN s /\ u[i] = s[i]
    BY <1>4, <2>1, <2>2 DEF Fits
  <2>3. CASE i - Len(s) \in DOMAIN t /\ u[i] = t[i - Len(s)]
    BY <1>5, <2>1, <2>3 DEF Fits
  <2> QED
    BY <1>3, <2>2, <2>3
<1>7. ASSUME NEW i \in DOMAIN u, NEW j \in DOMAIN u, i < j
      PROVE  u[i].kind < u[j].kind
  <2>1. CASE i \in DOMAIN s /\ j \in DOMAIN s
    <3>1. u[i] = s[i] /\ u[j] = s[j]
      BY <1>1, <1>2, <2>1
    <3>2. s[i].kind < s[j].kind
      BY <1>7, <2>1 DEF Fits
    <3> QED
      BY <3>1, <3>2
  <2>2. CASE i \in DOMAIN s /\ j \notin DOMAIN s
    <3>1. u[i] = s[i] /\ j - Len(s) \in DOMAIN t /\ u[j] = t[j - Len(s)]
      BY <1>1, <1>2, <2>2
    <3>2. s[i].kind \in a .. b /\ t[j - Len(s)].kind \in c .. d
      BY <1>4, <1>5, <2>2, <3>1
    <3> QED
      BY <3>1, <3>2
  <2>3. CASE i \notin DOMAIN s
    <3>1. /\ i - Len(s) \in DOMAIN t /\ u[i] = t[i - Len(s)]
          /\ j - Len(s) \in DOMAIN t /\ u[j] = t[j - Len(s)]
      <4>1. j \notin DOMAIN s
        BY <1>1, <1>2, <1>7, <2>3
      <4> QED
        BY <1>3, <2>3, <4>1
    <3>2. i - Len(s) < j - Len(s)
      BY <1>2, <1>7
    <3>3. t[i - Len(s)].kind < t[j - Len(s)].kind
      BY <3>1, <3>2 DEF Fits
    <3> QED
      BY <3>1, <3>3
  <2> QED
    BY <2>1, <2>2, <2>3
<1>8. Fits(u, a, d)
  BY <1>6, <1>7 DEF Fits
<1>9. \A i \in 1 .. Len(s) : u[i] = s[i]
  BY <1>1, <1>2
<1> QED
  BY <1>1, <1>8, <1>9

\* The slot of one kind, where the policy has the rule.
OneOf(slots) == IF slots = {} THEN <<>> ELSE <<CHOOSE slot \in slots : TRUE>>

\* A rule that is there has one slot, and one that is not has none.
LEMMA OneFits ==
    ASSUME NEW R, NEW M \in SUBSET R, NEW kind \in 1 .. 4, \A x \in M : Fits(<<x>>, kind, kind)
    PROVE  /\ OneOf(M) \in Seq(R) /\ Len(OneOf(M)) <= 1 /\ Fits(OneOf(M), kind, kind)
           /\ M # {} => Len(OneOf(M)) = 1
<1>1. CASE M = {}
  <2>1. OneOf(M) = <<>>
    BY <1>1 DEF OneOf
  <2>2. Fits(<<>>, kind, kind)
    BY DEF Fits
  <2>3. <<>> \in Seq(R) /\ Len(<<>>) <= 1
    OBVIOUS
  <2> QED
    BY <1>1, <2>1, <2>2, <2>3
<1>2. CASE M # {}
  <2>1. PICK x \in M : OneOf(M) = <<x>>
    BY <1>2 DEF OneOf
  <2> QED
    BY <2>1
<1> QED
  BY <1>1, <1>2

\* A single slot is in place if it is accepted.
LEMMA SlotFits ==
    ASSUME NEW kind \in 1 .. 4, NEW words,
           kind = STATUS => ValidStatusParams(Params(words)),
           kind = JURISDICTIONS => ValidJurisdictions(Params(words)),
           kind = TRANSFER_LIMIT => ValidTransferLimit(Params(words)),
           kind = PERIOD_LIMIT => ValidPeriodLimit(Params(words))
    PROVE  Fits(<<Slot(kind, words)>>, kind, kind)
<1>1. PICK slot : slot = Slot(kind, words)
  OBVIOUS
<1>2. slot.op = 0 /\ slot.kind = kind /\ slot.params = Params(words)
  BY <1>1 DEF Slot
<1>3. DOMAIN <<slot>> = {1} /\ <<slot>>[1] = slot
  OBVIOUS
<1>4. kind \in kind .. kind
  OBVIOUS
<1>5. Fits(<<slot>>, kind, kind)
  BY <1>2, <1>3, <1>4 DEF Fits
<1> QED
  BY <1>1, <1>5

\* Slots that belong one after the other, the first of them the status, and the rest
\* of the array empty, are what the program accepts.
LEMMA FittingValid ==
    ASSUME NEW R, NEW used \in Seq(R), Len(used) \in 1 .. 4, Fits(used, 1, 4),
           used[1].kind = STATUS
    PROVE  Validate([i \in 1 .. MaxSlots |-> IF i <= Len(used) THEN used[i] ELSE EmptySlot])
<1> DEFINE slots == [i \in 1 .. MaxSlots |-> IF i <= Len(used) THEN used[i] ELSE EmptySlot]
           n == Len(used)
<1>1. /\ EMPTY = 0 /\ STATUS = 1 /\ JURISDICTIONS = 2 /\ TRANSFER_LIMIT = 3 /\ PERIOD_LIMIT = 4
  BY DEF EMPTY, STATUS, JURISDICTIONS, TRANSFER_LIMIT, PERIOD_LIMIT
<1>2. MaxSlots \in Nat /\ MaxSlots >= 4 /\ n \in 1 .. 4 /\ DOMAIN used = 1 .. n
  BY LayoutAssumption
<1>3. slots \in Seq({used[i] : i \in 1 .. n} \cup {EmptySlot}) /\ Len(slots) = MaxSlots
      /\ DOMAIN slots = 1 .. MaxSlots
  BY <1>2
<1>4. \A i \in 1 .. MaxSlots : i \in 1 .. n => slots[i] = used[i]
  OBVIOUS
<1>5. \A i \in 1 .. MaxSlots : i \notin 1 .. n => slots[i] = EmptySlot
  BY <1>2
<1>6. EmptySlot.kind = 0 /\ EmptySlot.op = 0
  BY <1>1 DEF EmptySlot, Slot
<1> HIDE DEF slots, n
<1>7. ASSUME NEW i \in 1 .. n
      PROVE  /\ i \in 1 .. MaxSlots /\ slots[i] = used[i]
             /\ slots[i].op = 0 /\ slots[i].kind \in 1 .. 4
             /\ slots[i].kind = 1 => ValidStatusParams(slots[i].params)
             /\ slots[i].kind = 2 => ValidJurisdictions(slots[i].params)
             /\ slots[i].kind = 3 => ValidTransferLimit(slots[i].params)
             /\ slots[i].kind = 4 => ValidPeriodLimit(slots[i].params)
  <2>1. i \in 1 .. MaxSlots /\ slots[i] = used[i]
    BY <1>2, <1>4
  <2> QED
    BY <1>1, <1>2, <2>1 DEF Fits
<1>8. Packed(slots)
  <2> SUFFICES ASSUME NEW i \in 1 .. MaxSlots
               PROVE  /\ slots[i].op = 0
                      /\ slots[i].kind = EMPTY => slots[i] = EmptySlot
                      /\ slots[i].kind # EMPTY =>
                           \A j \in 1 .. i - 1 : slots[j].kind \in 1 .. slots[i].kind - 1
    BY <1>3 DEF Packed
  <2>1. CASE i \notin 1 .. n
    BY <1>1, <1>5, <1>6, <2>1
  <2>2. CASE i \in 1 .. n
    <3>1. slots[i].op = 0 /\ slots[i].kind \in 1 .. 4
      BY <1>7, <2>2
    <3>2. ASSUME NEW j \in 1 .. i - 1
          PROVE  slots[j].kind \in 1 .. slots[i].kind - 1
      <4>1. j \in 1 .. n /\ j < i
        BY <1>2, <2>2
      <4>2. used[j].kind < used[i].kind
        BY <1>2, <2>2, <4>1 DEF Fits
      <4>3. slots[j] = used[j] /\ slots[i] = used[i] /\ slots[j].kind \in 1 .. 4
        BY <1>7, <2>2, <4>1
      <4>4. slots[j].kind < slots[i].kind
        BY <4>2, <4>3
      <4>5. PICK k, l : k = slots[j].kind /\ l = slots[i].kind
        OBVIOUS
      <4>6. k \in 1 .. 4 /\ l \in 1 .. 4 /\ k < l
        BY <3>1, <4>3, <4>4, <4>5
      <4>7. k \in 1 .. l - 1
        BY <4>6
      <4> QED
        BY <4>5, <4>7
    <3> QED
      BY <1>1, <3>1, <3>2
  <2> QED
    BY <2>1, <2>2
<1>9. ASSUME NEW i \in DOMAIN slots
      PROVE  CASE slots[i].kind = EMPTY -> TRUE
               [] slots[i].kind = STATUS -> ValidStatusParams(slots[i].params)
               [] slots[i].kind = JURISDICTIONS -> ValidJurisdictions(slots[i].params)
               [] slots[i].kind = TRANSFER_LIMIT -> ValidTransferLimit(slots[i].params)
               [] slots[i].kind = PERIOD_LIMIT -> ValidPeriodLimit(slots[i].params)
               [] OTHER -> FALSE
  <2>1. CASE i \in 1 .. n
    BY <1>1, <1>7, <2>1
  <2>2. CASE i \notin 1 .. n
    BY <1>1, <1>3, <1>5, <1>6, <2>2
  <2> QED
    BY <2>1, <2>2
<1>10. \E i \in DOMAIN slots : slots[i].kind = STATUS
  <2>1. 1 \in 1 .. n /\ 1 \in DOMAIN slots
    BY <1>2, <1>3
  <2>2. slots[1] = used[1]
    BY <1>7, <2>1
  <2> QED
    BY <2>1, <2>2
<1>11. Validate(slots)
  BY <1>3, <1>8, <1>9, <1>10 DEF Validate
<1> QED
  BY <1>11 DEF slots

\* Two lists joined hold what either holds.
LEMMA JoinHolds ==
    ASSUME NEW R, NEW s \in Seq(R), NEW t \in Seq(R), NEW u, Joins(u, s, t)
    PROVE  ToSet(u) = ToSet(s) \cup ToSet(t)
<1>1. /\ u \in Seq(R) /\ Len(u) = Len(s) + Len(t)
      /\ \A i \in 1 .. Len(s) + Len(t) :
           u[i] = IF i <= Len(s) THEN s[i] ELSE t[i - Len(s)]
  BY ConcatProperties DEF Joins
<1>2. PICK m \in Nat, n \in Nat : m = Len(s) /\ n = Len(t)
  OBVIOUS
<1>3. DOMAIN u = 1 .. m + n /\ DOMAIN s = 1 .. m /\ DOMAIN t = 1 .. n
  BY <1>1, <1>2
<1>4. \A i \in 1 .. m : i \in DOMAIN u /\ u[i] = s[i]
  BY <1>1, <1>2, <1>3
<1>5. \A i \in 1 .. n : m + i \in DOMAIN u /\ u[m + i] = t[i]
  <2> SUFFICES ASSUME NEW i \in 1 .. n
               PROVE  m + i \in 1 .. m + n /\ u[m + i] = t[i]
    BY <1>3
  <2>1. PICK j \in 1 .. m + n : j = m + i
    OBVIOUS
  <2>2. ~(j <= m) /\ j - m = i
    BY <2>1
  <2>3. u[j] = t[j - m]
    BY <1>1, <1>2, <2>2
  <2> QED
    BY <2>1, <2>2, <2>3
<1>6. \A i \in 1 .. m + n : i \in 1 .. m \/ \E j \in 1 .. n : i = m + j
  <2> SUFFICES ASSUME NEW i \in 1 .. m + n, i \notin 1 .. m
               PROVE  \E j \in 1 .. n : i = m + j
    OBVIOUS
  <2>1. i - m \in 1 .. n /\ i = m + (i - m)
    OBVIOUS
  <2> QED
    BY <2>1
<1>7. ToSet(s) \subseteq ToSet(u) /\ ToSet(t) \subseteq ToSet(u)
  <2>1. \A x \in ToSet(s) : x \in ToSet(u)
    BY <1>3, <1>4 DEF ToSet
  <2>2. \A x \in ToSet(t) : x \in ToSet(u)
    BY <1>3, <1>5 DEF ToSet
  <2> QED
    BY <2>1, <2>2
<1>8. ASSUME NEW x \in ToSet(u)
      PROVE  x \in ToSet(s) \cup ToSet(t)
  <2>1. PICK i \in 1 .. m + n : x = u[i]
    BY <1>3, <1>8 DEF ToSet
  <2>2. CASE i \in 1 .. m
    BY <1>3, <1>4, <2>1, <2>2 DEF ToSet
  <2>3. CASE \E j \in 1 .. n : i = m + j
    <3>1. PICK j \in 1 .. n : i = m + j
      BY <2>3
    <3>2. x = t[j]
      BY <1>5, <2>1, <3>1
    <3> QED
      BY <1>3, <3>2 DEF ToSet
  <2> QED
    BY <1>6, <2>2, <2>3
<1> QED
  BY <1>7, <1>8

\* The slots of a policy's rules.
RuleSlots(policy) ==
    ToSet(OneOf({Slot(STATUS, StatusParams(s)) : s \in policy.status}))
      \cup ToSet(OneOf({Slot(JURISDICTIONS, codes) : codes \in policy.jurisdictions}))
      \cup ToSet(OneOf({Slot(TRANSFER_LIMIT, <<a>>) : a \in policy.transferLimit}))
      \cup ToSet(OneOf({Slot(PERIOD_LIMIT, <<l.amount, l.windowSeconds>>) : l \in policy.periodLimit}))

\* A policy the schema accepts as it is, the program accepts as it is encoded: its
\* rules' slots, and no others.
LEMMA AcceptedEncodes ==
    ASSUME NEW policy, AcceptedRules(policy), PolicyRulesSchema(policy) = {policy}
    PROVE  \E slots :
             /\ EncodeRules(policy) = {slots} /\ Validate(slots) /\ DOMAIN slots = 1 .. MaxSlots
             /\ \A i \in 1 .. MaxSlots : slots[i] = EmptySlot \/ slots[i] \in RuleSlots(policy)
             /\ \A slot \in RuleSlots(policy) : \E i \in 1 .. MaxSlots : slots[i] = slot
<1> DEFINE S == {Slot(STATUS, StatusParams(s)) : s \in policy.status}
           J == {Slot(JURISDICTIONS, codes) : codes \in policy.jurisdictions}
           T == {Slot(TRANSFER_LIMIT, <<a>>) : a \in policy.transferLimit}
           P == {Slot(PERIOD_LIMIT, <<l.amount, l.windowSeconds>>) : l \in policy.periodLimit}
           R == S \cup J \cup T \cup P
           used == OneOf(S) \o OneOf(J) \o OneOf(T) \o OneOf(P)
           spelled(all) == [i \in 1 .. MaxSlots |-> IF i <= Len(all) THEN all[i] ELSE EmptySlot]
           E(r) == spelled(OneOf({Slot(STATUS, StatusParams(s)) : s \in r.status})
                     \o OneOf({Slot(JURISDICTIONS, codes) : codes \in r.jurisdictions})
                     \o OneOf({Slot(TRANSFER_LIMIT, <<a>>) : a \in r.transferLimit})
                     \o OneOf({Slot(PERIOD_LIMIT, <<l.amount, l.windowSeconds>>) : l \in r.periodLimit}))
<1>1. /\ STATUS = 1 /\ JURISDICTIONS = 2 /\ TRANSFER_LIMIT = 3 /\ PERIOD_LIMIT = 4
      /\ 1 \in 1 .. 4 /\ 2 \in 1 .. 4 /\ 3 \in 1 .. 4 /\ 4 \in 1 .. 4
  BY DEF STATUS, JURISDICTIONS, TRANSFER_LIMIT, PERIOD_LIMIT
<1>2. /\ policy.status # {}
      /\ \A s \in policy.status :
           AcceptedStatus(s) /\ ToSet(s.sources) \in SUBSET Source /\ ToSet(s.sources) # {}
      /\ \A codes \in policy.jurisdictions :
           codes \in Seq(Nat) /\ Ascending(codes) /\ AcceptedJurisdictions(codes)
      /\ \A amount \in policy.transferLimit : AcceptedAmount(amount)
      /\ \A limit \in policy.periodLimit : AcceptedPeriod(limit)
  BY DEF AcceptedRules
<1>3. \A x \in S : Fits(<<x>>, 1, 1)
  <2>1. \A s \in policy.status : Fits(<<Slot(1, StatusParams(s))>>, 1, 1)
    <3> SUFFICES ASSUME NEW s \in policy.status
                 PROVE  Fits(<<Slot(1, StatusParams(s))>>, 1, 1)
      OBVIOUS
    <3>1. ValidStatusParams(Params(StatusParams(s)))
      BY <1>2, StatusValid
    <3> QED
      BY <1>1, <3>1, SlotFits
  <2> QED
    BY <1>1, <2>1
<1>4. \A x \in J : Fits(<<x>>, 2, 2)
  <2>1. \A codes \in policy.jurisdictions : Fits(<<Slot(2, codes)>>, 2, 2)
    <3> SUFFICES ASSUME NEW codes \in policy.jurisdictions
                 PROVE  Fits(<<Slot(2, codes)>>, 2, 2)
      OBVIOUS
    <3>1. ValidJurisdictions(Params(codes))
      BY <1>2, CountriesValid
    <3> QED
      BY <1>1, <3>1, SlotFits
  <2> QED
    BY <1>1, <2>1
<1>5. \A x \in T : Fits(<<x>>, 3, 3)
  <2>1. \A a \in policy.transferLimit : Fits(<<Slot(3, <<a>>)>>, 3, 3)
    <3> SUFFICES ASSUME NEW a \in policy.transferLimit
                 PROVE  Fits(<<Slot(3, <<a>>)>>, 3, 3)
      OBVIOUS
    <3>1. ValidTransferLimit(Params(<<a>>))
      BY <1>2, LimitsValid
    <3> QED
      BY <1>1, <3>1, SlotFits
  <2> QED
    BY <1>1, <2>1
<1>6. \A x \in P : Fits(<<x>>, 4, 4)
  <2>1. \A l \in policy.periodLimit : Fits(<<Slot(4, <<l.amount, l.windowSeconds>>)>>, 4, 4)
    <3> SUFFICES ASSUME NEW l \in policy.periodLimit
                 PROVE  Fits(<<Slot(4, <<l.amount, l.windowSeconds>>)>>, 4, 4)
      OBVIOUS
    <3>1. AcceptedAmount(l.amount) /\ l.windowSeconds \in MinPeriod .. MaxPeriod
      BY <1>2 DEF AcceptedPeriod
    <3>2. PICK words : words = <<l.amount, l.windowSeconds>>
      OBVIOUS
    <3>3. ValidPeriodLimit(Params(words))
      BY <3>1, <3>2, LimitsValid
    <3>4. Fits(<<Slot(4, words)>>, 4, 4)
      BY <1>1, <3>3, SlotFits
    <3> QED
      BY <3>2, <3>4
  <2> QED
    BY <1>1, <2>1
<1>7. EncodeRules(policy) = {spelled(used)}
  <2>1. EncodeRules(policy) = {E(r) : r \in PolicyRulesSchema(policy)}
    BY DEF EncodeRules, OneOf
  <2>2. E(policy) = spelled(used)
    OBVIOUS
  <2> HIDE DEF E, spelled, used
  <2> QED
    BY <2>1, <2>2
<1>8. S # {} /\ S \in SUBSET R /\ J \in SUBSET R /\ T \in SUBSET R /\ P \in SUBSET R
  <2>1. S # {}
    BY <1>2
  <2> HIDE DEF S, J, T, P
  <2> QED
    BY <2>1
<1> HIDE DEF S, J, T, P, R
<1>9. /\ OneOf(S) \in Seq(R) /\ Len(OneOf(S)) = 1 /\ Fits(OneOf(S), 1, 1)
      /\ OneOf(J) \in Seq(R) /\ Len(OneOf(J)) <= 1 /\ Fits(OneOf(J), 2, 2)
      /\ OneOf(T) \in Seq(R) /\ Len(OneOf(T)) <= 1 /\ Fits(OneOf(T), 3, 3)
      /\ OneOf(P) \in Seq(R) /\ Len(OneOf(P)) <= 1 /\ Fits(OneOf(P), 4, 4)
  <2>1. OneOf(S) \in Seq(R) /\ Len(OneOf(S)) = 1 /\ Fits(OneOf(S), 1, 1)
    BY <1>1, <1>3, <1>8, OneFits
  <2>2. OneOf(J) \in Seq(R) /\ Len(OneOf(J)) <= 1 /\ Fits(OneOf(J), 2, 2)
    BY <1>1, <1>4, <1>8, OneFits
  <2>3. OneOf(T) \in Seq(R) /\ Len(OneOf(T)) <= 1 /\ Fits(OneOf(T), 3, 3)
    BY <1>1, <1>5, <1>8, OneFits
  <2>4. OneOf(P) \in Seq(R) /\ Len(OneOf(P)) <= 1 /\ Fits(OneOf(P), 4, 4)
    BY <1>1, <1>6, <1>8, OneFits
  <2> QED
    BY <2>1, <2>2, <2>3, <2>4
<1>10. PICK s, j, t, p : s = OneOf(S) /\ j = OneOf(J) /\ t = OneOf(T) /\ p = OneOf(P)
  OBVIOUS
<1>11. /\ s \in Seq(R) /\ Len(s) = 1 /\ Fits(s, 1, 1)
       /\ j \in Seq(R) /\ Len(j) <= 1 /\ Fits(j, 2, 2)
       /\ t \in Seq(R) /\ Len(t) <= 1 /\ Fits(t, 3, 3)
       /\ p \in Seq(R) /\ Len(p) <= 1 /\ Fits(p, 4, 4)
  BY <1>9, <1>10
<1>12. /\ 1 \in Nat /\ 2 \in Nat /\ 3 \in Nat /\ 4 \in Nat
       /\ 1 <= 1 /\ 2 <= 2 /\ 3 <= 3 /\ 4 <= 4 /\ 1 < 2 /\ 2 < 3 /\ 3 < 4
       /\ 1 <= 2 /\ 1 <= 3
  OBVIOUS
<1>13. PICK two : Joins(two, s, j)
  BY DEF Joins
<1>14. /\ two \in Seq(R) /\ Len(two) = Len(s) + Len(j) /\ Fits(two, 1, 2)
       /\ \A i \in 1 .. Len(s) : two[i] = s[i]
  <2>1. ASSUME NEW a \in Nat, NEW b \in Nat, NEW c \in Nat, NEW d \in Nat,
               a <= b, b < c, c <= d, Fits(s, a, b), Fits(j, c, d)
        PROVE  /\ two \in Seq(R) /\ Len(two) = Len(s) + Len(j)
               /\ Fits(two, a, d) /\ \A i \in 1 .. Len(s) : two[i] = s[i]
    <3>1. s \in Seq(R) /\ j \in Seq(R)
      BY <1>11, <1>13
    <3> QED
      BY <2>1, <3>1, <1>13, JoinFits
  <2> QED
    BY <1>12, <1>11, <2>1
<1>15. PICK three : Joins(three, two, t)
  BY DEF Joins
<1>16. /\ three \in Seq(R) /\ Len(three) = Len(two) + Len(t) /\ Fits(three, 1, 3)
       /\ \A i \in 1 .. Len(two) : three[i] = two[i]
  <2>1. ASSUME NEW a \in Nat, NEW b \in Nat, NEW c \in Nat, NEW d \in Nat,
               a <= b, b < c, c <= d, Fits(two, a, b), Fits(t, c, d)
        PROVE  /\ three \in Seq(R) /\ Len(three) = Len(two) + Len(t)
               /\ Fits(three, a, d) /\ \A i \in 1 .. Len(two) : three[i] = two[i]
    <3>1. two \in Seq(R) /\ t \in Seq(R)
      BY <1>11, <1>14, <1>15
    <3> QED
      BY <2>1, <3>1, <1>15, JoinFits
  <2> QED
    BY <1>12, <1>11, <1>14, <2>1
<1>17. PICK four : Joins(four, three, p)
  BY DEF Joins
<1>18. /\ four \in Seq(R) /\ Len(four) = Len(three) + Len(p) /\ Fits(four, 1, 4)
       /\ \A i \in 1 .. Len(three) : four[i] = three[i]
  <2>1. ASSUME NEW a \in Nat, NEW b \in Nat, NEW c \in Nat, NEW d \in Nat,
               a <= b, b < c, c <= d, Fits(three, a, b), Fits(p, c, d)
        PROVE  /\ four \in Seq(R) /\ Len(four) = Len(three) + Len(p)
               /\ Fits(four, a, d) /\ \A i \in 1 .. Len(three) : four[i] = three[i]
    <3>1. three \in Seq(R) /\ p \in Seq(R)
      BY <1>11, <1>16, <1>17
    <3> QED
      BY <2>1, <3>1, <1>17, JoinFits
  <2> QED
    BY <1>12, <1>11, <1>16, <2>1
<1>19. /\ Len(j) \in Nat /\ Len(t) \in Nat /\ Len(p) \in Nat
       /\ Len(two) \in 1 .. 2 /\ Len(three) \in 1 .. 3 /\ Len(four) \in 1 .. 4
  <2>1. \A list \in Seq(R) : Len(list) \in Nat
    OBVIOUS
  <2>2. Len(j) \in Nat /\ Len(t) \in Nat /\ Len(p) \in Nat
    BY <1>11, <2>1
  <2>3. PICK l, m, n : l = Len(j) /\ m = Len(t) /\ n = Len(p)
    OBVIOUS
  <2>4. /\ l \in 0 .. 1 /\ m \in 0 .. 1 /\ n \in 0 .. 1
        /\ Len(two) = 1 + l /\ Len(three) = 1 + l + m /\ Len(four) = 1 + l + m + n
    <3>1. l \in Nat /\ m \in Nat /\ n \in Nat /\ l <= 1 /\ m <= 1 /\ n <= 1
      BY <1>11, <2>2, <2>3
    <3>2. Len(two) = 1 + l
      BY <1>11, <1>14, <2>3
    <3>3. Len(three) = 1 + l + m
      BY <1>16, <2>3, <3>2
    <3>4. Len(four) = 1 + l + m + n
      BY <1>18, <2>3, <3>3
    <3> QED
      BY <3>1, <3>2, <3>3, <3>4
  <2> QED
    BY <2>2, <2>4
<1>20. four[1].kind = STATUS
  <2>1. four[1] = three[1] /\ three[1] = two[1] /\ two[1] = s[1]
    BY <1>11, <1>14, <1>16, <1>18, <1>19
  <2>2. 1 \in DOMAIN s
    BY <1>11
  <2>3. s[1].kind \in 1 .. 1
    BY <1>11, <2>2 DEF Fits
  <2> QED
    BY <1>1, <2>1, <2>3
<1>21. Validate(spelled(four))
  BY <1>18, <1>19, <1>20, FittingValid
<1>22. used = four
  BY <1>10, <1>13, <1>15, <1>17, Zenon DEF Joins
<1>23. ToSet(four) = RuleSlots(policy)
  <2>1. ToSet(two) = ToSet(s) \cup ToSet(j)
    BY <1>11, <1>13, JoinHolds
  <2>2. ToSet(three) = ToSet(two) \cup ToSet(t)
    BY <1>11, <1>14, <1>15, JoinHolds
  <2>3. ToSet(four) = ToSet(three) \cup ToSet(p)
    BY <1>11, <1>16, <1>17, JoinHolds
  <2>4. RuleSlots(policy) = ToSet(s) \cup ToSet(j) \cup ToSet(t) \cup ToSet(p)
    BY <1>10 DEF RuleSlots, S, J, T, P
  <2> QED
    BY <2>1, <2>2, <2>3, <2>4
<1>24. PICK slots : slots = spelled(four)
  OBVIOUS
<1>25. PICK n \in 1 .. 4 : n = Len(four) /\ DOMAIN four = 1 .. n /\ n \in 1 .. MaxSlots
  BY <1>18, <1>19, LayoutAssumption
<1>26. /\ DOMAIN slots = 1 .. MaxSlots
       /\ \A i \in 1 .. MaxSlots : slots[i] = IF i \in 1 .. n THEN four[i] ELSE EmptySlot
  BY <1>24, <1>25
<1>27. \A i \in 1 .. MaxSlots : slots[i] = EmptySlot \/ slots[i] \in ToSet(four)
  BY <1>25, <1>26 DEF ToSet
<1>28. \A slot \in ToSet(four) : \E i \in 1 .. MaxSlots : slots[i] = slot
  <2>1. \A i \in 1 .. n : i \in 1 .. MaxSlots
    BY <1>25, LayoutAssumption
  <2> QED
    BY <1>25, <1>26, <2>1 DEF ToSet
<1> HIDE DEF spelled, used
<1>29. EncodeRules(policy) = {slots} /\ Validate(slots)
  BY <1>7, <1>21, <1>22, <1>24
<1>30. /\ \A i \in 1 .. MaxSlots : slots[i] = EmptySlot \/ slots[i] \in RuleSlots(policy)
       /\ \A slot \in RuleSlots(policy) : \E i \in 1 .. MaxSlots : slots[i] = slot
  BY <1>23, <1>27, <1>28
<1> QED
  BY <1>26, <1>29, <1>30

\* The longest an attestation may be old, where the draft asks for one.
AgeOf(d) == IF "provider" \in ToSet(d.sources) THEN hoursToSeconds(d.attestationAgeHours) ELSE {}

\* What a draft's policy says: each rule of the draft, in order.
Says(policy, d) ==
    \E list, countries, period :
      /\ policy = [status |-> {[sources |-> list, minTier |-> d.minTier, maxAge |-> AgeOf(d)]},
                   jurisdictions |-> countries,
                   transferLimit |-> AmountOf(d, d.transferLimit), periodLimit |-> period]
      /\ ToSet(list) = ToSet(d.sources)
      /\ IF d.jurisdictions = <<>> THEN countries = {}
         ELSE \E codes : countries = {codes} /\ ToSet(codes) = ToSet(d.jurisdictions)
      /\ IF d.periodLimit.is = "blank" THEN period = {}
         ELSE \E a \in AmountOf(d, d.periodLimit), w \in hoursToSeconds(d.periodHours) :
                period = {[amount |-> a, windowSeconds |-> w]}

\* The wizard parses a draft into such a policy, and one the schema leaves as it is.
LEMMA ParsedSays ==
    ASSUME NEW d, d.sources \in Seq(Source), d.jurisdictions \in Seq(Jurisdiction),
           NEW policy \in parsedPolicy(d)
    PROVE  Says(policy, d) /\ AcceptedRules(policy) /\ PolicyRulesSchema(policy) = {policy}
<1> DEFINE status == [sources |-> d.sources, minTier |-> d.minTier, maxAge |-> AgeOf(d)]
           body(period) == [status |-> {status}, jurisdictions |-> {d.jurisdictions} \ {<<>>},
                            transferLimit |-> AmountOf(d, d.transferLimit), periodLimit |-> period]
           Period(period) ==
             IF d.periodLimit.is = "blank" THEN period = {}
             ELSE \E a \in AmountOf(d, d.periodLimit), w \in hoursToSeconds(d.periodHours) :
                    period = {[amount |-> a, windowSeconds |-> w]}
           inOrder(s) == [s EXCEPT !.sources = Declared(ToSet(s.sources))]
<1>1. ASSUME NEW b \in draftPolicy(d)
      PROVE  \E period : b = body(period) /\ Period(period)
  <2>1. CASE d.periodLimit.is = "blank"
    <3>1. b = body({})
      BY <2>1 DEF draftPolicy, AgeOf
    <3> HIDE DEF body
    <3> QED
      BY <2>1, <3>1
  <2>2. CASE d.periodLimit.is # "blank"
    <3>1. \E a \in AmountOf(d, d.periodLimit) : \E w \in hoursToSeconds(d.periodHours) :
            b = body({[amount |-> a, windowSeconds |-> w]})
      BY <2>2 DEF draftPolicy, AgeOf
    <3> HIDE DEF body
    <3> QED
      BY <2>2, <3>1
  <2> QED
    BY <2>1, <2>2
<1>2. PICK b \in draftPolicy(d) : policy \in PolicyRulesSchema(b)
  BY DEF parsedPolicy
<1>3. PICK period : b = body(period) /\ Period(period)
  BY <1>1
<1> HIDE DEF Period
<1>4. \A s \in {status} : \E listed \in Seq(Source) : \E tier, a :
        s = [sources |-> listed, minTier |-> tier, maxAge |-> a]
  OBVIOUS
<1>5. {d.jurisdictions} \ {<<>>} \subseteq Seq(Jurisdiction)
  OBVIOUS
<1>6. AcceptedRules(policy) /\ PolicyRulesSchema(policy) = {policy}
  <2> HIDE DEF status
  <2> QED
    BY <1>2, <1>3, <1>4, <1>5, SchemaStays
<1>7. PICK countries : countries = {Sorted(ToSet(codes)) : codes \in {d.jurisdictions} \ {<<>>}}
  OBVIOUS
<1>8. PICK list : list = Declared(ToSet(d.sources))
  OBVIOUS
<1>9. /\ AcceptedStatus(status)
      /\ \A codes \in {d.jurisdictions} \ {<<>>} : AcceptedJurisdictions(codes)
      /\ policy = [b EXCEPT !.status = {inOrder(s) : s \in @},
                            !.jurisdictions = {Sorted(ToSet(codes)) : codes \in @}]
  <2> HIDE DEF status
  <2> QED
    BY <1>2, <1>3 DEF PolicyRulesSchema
<1>10. policy = [status |-> {inOrder(status)}, jurisdictions |-> countries,
                 transferLimit |-> AmountOf(d, d.transferLimit), periodLimit |-> period]
  <2> HIDE DEF status, inOrder
  <2> QED
    BY <1>3, <1>7, <1>9
<1>11. inOrder(status) = [sources |-> list, minTier |-> d.minTier, maxAge |-> AgeOf(d)]
  <2>1. inOrder(status) = [status EXCEPT !.sources = list]
    BY <1>8
  <2> QED
    BY <2>1, SameStatus
<1>12. ToSet(list) = ToSet(d.sources)
  BY <1>8, <1>9, StatusInOrder
<1>13. IF d.jurisdictions = <<>> THEN countries = {}
       ELSE \E codes : countries = {codes} /\ ToSet(codes) = ToSet(d.jurisdictions)
  <2>1. CASE d.jurisdictions = <<>>
    BY <1>7, <2>1
  <2>2. CASE d.jurisdictions # <<>>
    <3>1. PICK codes : codes = Sorted(ToSet(d.jurisdictions))
      OBVIOUS
    <3>2. countries = {codes}
      BY <1>7, <2>2, <3>1
    <3>3. ToSet(codes) = ToSet(d.jurisdictions)
      BY <1>9, <2>2, <3>1, CountriesInOrder
    <3> QED
      BY <2>2, <3>2, <3>3
  <2> QED
    BY <2>1, <2>2
<1>14. Says(policy, d)
  <2> HIDE DEF status, inOrder
  <2> QED
    BY <1>3, <1>10, <1>11, <1>12, <1>13 DEF Says, Period
<1> QED
  BY <1>6, <1>14

\* And so every policy the wizard makes of a draft is one the program accepts.
LEMMA ParsedEncodes ==
    ASSUME NEW d, d.sources \in Seq(Source), d.jurisdictions \in Seq(Jurisdiction),
           NEW policy \in parsedPolicy(d)
    PROVE  \E slots \in EncodeRules(policy) : Validate(slots)
<1>1. AcceptedRules(policy) /\ PolicyRulesSchema(policy) = {policy}
  BY ParsedSays
<1>2. PICK slots : EncodeRules(policy) = {slots} /\ Validate(slots)
  BY <1>1, AcceptedEncodes
<1> QED
  BY <1>2

-----------------------------------------------------------------------------
(* What the api lets through *)

\* A draft's fields.
LEMMA DraftHas ==
    ASSUME NEW d \in Drafts
    PROVE  /\ d.sources \in Seq(Source) /\ d.jurisdictions \in Seq(Jurisdiction) /\ d.minTier \in Nat
           /\ d.decimals \in Option(Nat) /\ d.feeBps \in Option(Nat)
           /\ d.attestationAgeHours \in Option(Nat) /\ d.periodHours \in Option(Nat)
           /\ d.reserveAgeHours \in Option(Nat)
           /\ \A input \in {d.initialSupply, d.reserveAmount, d.transferLimit, d.periodLimit} :
                input.digits \in Nat /\ input.places \in Nat
  BY TabsAssumption DEF Drafts

\* An amount is a number.
LEMMA AmountIsNumber ==
    ASSUME NEW input, input.digits \in Nat, input.places \in Nat, NEW decimals \in Nat,
           NEW amount \in toSmallestUnit(input, decimals)
    PROVE  amount \in Int
<1>1. input.places <= decimals /\ amount = input.digits * 10 ^ (decimals - input.places)
  BY DEF toSmallestUnit
<1>2. PICK n \in Nat : n = decimals - input.places
  BY <1>1
<1>3. 10 ^ n \in Int
  OBVIOUS
<1> QED
  BY <1>1, <1>2, <1>3

\* A body that passes the schema, with an attestation that is current, is refused for
\* nothing but what the api leaves open.
OpenFields == {"AttestationMaxAgeInvalid", "HolderStatusAlreadyExpired"}

LEMMA LetThrough ==
    ASSUME NEW body, NEW at \in Nat, createTokenBodySchema(body), Attested(body, at),
           body.initialSupply \in Int, body.reserve \in Int, body.bps \in Int,
           body.attestedAt \in Int, body.maxAgeSeconds \in Int,
           \E slots \in EncodeRules(body.policy) : Validate(slots)
    PROVE  CreateRefusals(body, at) \subseteq OpenFields /\ TitleFits(body)
<1>1. /\ body.initialSupply <= body.reserve /\ body.bps <= MAX_FEE_BPS
      /\ body.currency \in Currencies /\ body.founderJurisdiction \in Capitals
  BY DEF createTokenBodySchema
<1>2. body.attestedAt <= at /\ at - body.attestedAt <= body.maxAgeSeconds
  BY DEF Attested
<1>3. MAX_FEE_BPS \in Int
  BY DraftAssumption
<1>4. "ReserveCurrencyInvalid" \notin CreateRefusals(body, at)
  BY <1>1 DEF CreateRefusals
<1>5. "FeeRateOutOfRange" \notin CreateRefusals(body, at)
  BY <1>1, <1>3 DEF CreateRefusals
<1>6. "RulesInvalid" \notin CreateRefusals(body, at)
  BY DEF CreateRefusals
<1>7. "AttestationInTheFuture" \notin CreateRefusals(body, at)
  BY <1>2 DEF CreateRefusals
<1>8. "ReserveAttestationExpired" \notin CreateRefusals(body, at)
  BY <1>2 DEF CreateRefusals
<1>9. "ReserveInsufficient" \notin CreateRefusals(body, at)
  BY <1>1 DEF CreateRefusals
<1>10. "HolderJurisdictionInvalid" \notin CreateRefusals(body, at)
  BY <1>1 DEF CreateRefusals
<1>11. CreateRefusals(body, at) \subseteq
         {"ReserveCurrencyInvalid", "AttestationMaxAgeInvalid", "FeeRateOutOfRange",
          "RulesInvalid", "AttestationInTheFuture", "ReserveAttestationExpired",
          "ReserveInsufficient", "HolderJurisdictionInvalid", "HolderStatusAlreadyExpired"}
  BY DEF CreateRefusals
<1>12. TitleFits(body)
  BY DraftAssumption DEF createTokenBodySchema, TitleFits
<1> HIDE DEF CreateRefusals
<1> QED
  BY <1>4, <1>5, <1>6, <1>7, <1>8, <1>9, <1>10, <1>11, <1>12 DEF OpenFields

\* So is a body that the wizard makes, which asks for no end of the founder's status.
LEMMA DraftLetThrough ==
    ASSUME NEW d \in Drafts, NEW now \in Int, NEW at \in Nat,
           NEW body \in toCreateTokenBody(d, now), Attested(body, at)
    PROVE  /\ CreateRefusals(body, at) \subseteq OpenFields /\ TitleFits(body)
           /\ "HolderStatusAlreadyExpired" \notin CreateRefusals(body, at)
<1>1. PICK decimals \in d.decimals, policy \in parsedPolicy(d),
           supply \in AmountOf(d, d.initialSupply), reserve \in AmountOf(d, d.reserveAmount),
           age \in hoursToSeconds(d.reserveAgeHours), bps \in d.feeBps :
        body = [title |-> d.title, decimals |-> decimals, policy |-> policy,
                initialSupply |-> supply, reserve |-> reserve, currency |-> d.reserveCurrency,
                attestedAt |-> now, maxAgeSeconds |-> age, addresses |-> d.addresses,
                bps |-> bps, founderTier |-> d.founderTier,
                founderJurisdiction |-> d.founderJurisdiction, founderExpiresAt |-> 0]
  BY DEF toCreateTokenBody
<1>2. createTokenBodySchema(body)
  BY DEF toCreateTokenBody
<1>3. /\ body.policy = policy /\ body.initialSupply = supply /\ body.reserve = reserve
      /\ body.attestedAt = now /\ body.maxAgeSeconds = age /\ body.bps = bps
      /\ body.founderExpiresAt = 0
  BY <1>1
<1>4. supply \in Int /\ reserve \in Int
  <2>1. DecimalsOrZero(d) \in Nat
    <3>1. d.decimals \in Option(Nat)
      BY DraftHas
    <3>2. CASE d.decimals = {}
      BY <3>2 DEF DecimalsOrZero
    <3>3. CASE d.decimals # {}
      <4>1. PICK n \in Nat : d.decimals = {n}
        BY <3>1, <3>3 DEF Option
      <4> QED
        BY <3>3, <4>1 DEF DecimalsOrZero
    <3> QED
      BY <3>2, <3>3
  <2>2. /\ d.initialSupply.digits \in Nat /\ d.initialSupply.places \in Nat
        /\ d.reserveAmount.digits \in Nat /\ d.reserveAmount.places \in Nat
    BY DraftHas
  <2> QED
    BY <2>1, <2>2, AmountIsNumber DEF AmountOf
<1>5. age \in Int /\ bps \in Int
  <2>1. d.reserveAgeHours \in Option(Nat) /\ d.feeBps \in Option(Nat)
    BY DraftHas
  <2>2. PICK hours \in d.reserveAgeHours : age = hours * Hour
    BY <1>1 DEF hoursToSeconds
  <2>3. hours \in Nat /\ bps \in Nat
    BY <1>1, <2>1, <2>2 DEF Option
  <2> QED
    BY <2>2, <2>3, DraftAssumption
<1>6. \E slots \in EncodeRules(policy) : Validate(slots)
  BY DraftHas, ParsedEncodes
<1>7. CreateRefusals(body, at) \subseteq OpenFields /\ TitleFits(body)
  BY <1>2, <1>3, <1>4, <1>5, <1>6, LetThrough
<1>8. "HolderStatusAlreadyExpired" \notin CreateRefusals(body, at)
  BY <1>3 DEF CreateRefusals
<1> QED
  BY <1>7, <1>8

\* And a body that another client posts.
LEMMA PostLetThrough ==
    ASSUME NEW raw \in Raws, NEW at \in Nat,
           NEW body \in PostedBody(raw, at), Attested(body, at)
    PROVE  CreateRefusals(body, at) \subseteq OpenFields /\ TitleFits(body)
<1>1. /\ DOMAIN raw = {"title", "decimals", "policy", "initialSupply", "reserve", "currency",
                       "attestedAt", "maxAgeSeconds", "addresses", "bps", "founderTier",
                       "founderJurisdiction", "founderExpiresAt"}
      /\ raw.initialSupply \in Nat /\ raw.reserve \in Nat /\ raw.maxAgeSeconds \in Nat
      /\ raw.bps \in Nat /\ raw.policy \in Rules /\ raw.attestedAt \in Option(Nat)
  BY CallersAssumption DEF Raws
<1>2. PICK policy \in PolicyRulesSchema(raw.policy) :
        body = [raw EXCEPT !.policy = policy,
                           !.attestedAt = IF @ = {} THEN at ELSE CHOOSE x \in @ : TRUE]
  BY DEF PostedBody
<1>3. createTokenBodySchema(body)
  BY DEF PostedBody
<1>4. /\ body.policy = policy /\ body.initialSupply = raw.initialSupply
      /\ body.reserve = raw.reserve /\ body.bps = raw.bps
      /\ body.maxAgeSeconds = raw.maxAgeSeconds
      /\ body.attestedAt = IF raw.attestedAt = {} THEN at ELSE CHOOSE x \in raw.attestedAt : TRUE
  BY <1>1, <1>2
<1>5. body.attestedAt \in Int
  <2>1. raw.attestedAt # {} => (CHOOSE x \in raw.attestedAt : TRUE) \in raw.attestedAt
    OBVIOUS
  <2> QED
    BY <1>1, <1>4, <2>1 DEF Option
<1>6. \E slots \in EncodeRules(policy) : Validate(slots)
  <2>1. PICK S, J, T, P :
          /\ raw.policy = [status |-> S, jurisdictions |-> J, transferLimit |-> T, periodLimit |-> P]
          /\ S \in Option([sources : Seq(Source), minTier : Nat, maxAge : Option(Nat)])
          /\ J \in Option(Seq(Jurisdiction))
    BY <1>1 DEF Rules
  <2>2. \A status \in [sources : Seq(Source), minTier : Nat, maxAge : Option(Nat)] :
          \E listed \in Seq(Source) : \E tier, age :
            status = [sources |-> listed, minTier |-> tier, maxAge |-> age]
    OBVIOUS
  <2>3. /\ \A status \in S : \E listed \in Seq(Source) : \E tier, age :
             status = [sources |-> listed, minTier |-> tier, maxAge |-> age]
        /\ J \subseteq Seq(Jurisdiction)
    BY <2>1, <2>2 DEF Option
  <2>4. AcceptedRules(policy) /\ PolicyRulesSchema(policy) = {policy}
    BY <2>1, <2>3, SchemaStays
  <2> QED
    BY <2>4, AcceptedEncodes
<1> QED
  BY <1>1, <1>3, <1>4, <1>5, <1>6, LetThrough

\* Of what a tab is asking about, only such refusals are left, and the founder's end is
\* another client's.
Mirrored(t, o) ==
    /\ CreateRefusals(o.body, o.at) \subseteq OpenFields /\ TitleFits(o.body)
    /\ "HolderStatusAlreadyExpired" \in CreateRefusals(o.body, o.at) => t \in Callers

\* Only what the route has just let through is being asked about, and it stays what it is.
LEMMA AskedAbout ==
    ASSUME IInv, [Next]_vars, NEW t \in Tab, pc'[t] = "asked"
    PROVE  \/ pc[t] = "asked" /\ order'[t] = order[t]
           \/ \E o : order'[t] = {o} /\ Mirrored(t, o)
<1> DEFINE Same == pc'[t] = pc[t] /\ order'[t] = order[t]
<1>1. TabTypeOK /\ pc \in [Tab -> Stages] /\ order \in [Tab -> SUBSET Order] /\ clock \in Nat
  BY DEF IInv, IssuanceTypeOK, TabTypeOK
<1>2. ASSUME NEW u \in DOMAIN draft, Walk(u) \/ Ask(u) \/ Sign(u), u # t
      PROVE  Same
  <2>1. TabKept(u)
    <3>1. rows' \in Seq(Row) /\ Len(rows) <= Len(rows')
      BY RowsKept DEF IInv
    <3> QED
      BY <1>2, <3>1, WalkKeeps, AskKeeps, SignKeeps
  <2> QED
    BY <1>2, <2>1 DEF TabKept
<1>3. ASSUME t \in DOMAIN draft, Prepare(t) \/ Post(t)
      PROVE  \E o : order'[t] = {o} /\ Mirrored(t, o)
  <2>1. \E body : /\ Asked(t, body)
                  /\ CreateRefusals(body, clock) \subseteq OpenFields /\ TitleFits(body)
                  /\ "HolderStatusAlreadyExpired" \in CreateRefusals(body, clock) => t \in Callers
    <3>1. CASE Prepare(t)
      <4>1. PICK skew \in IF t \in Walkers THEN Skew ELSE {0} :
              \E body \in toCreateTokenBody(draft[t], clock + skew) : Asked(t, body)
        BY <3>1 DEF Prepare
      <4>2. PICK body \in toCreateTokenBody(draft[t], clock + skew) : Asked(t, body)
        BY <4>1
      <4>3. skew \in Int
        BY SkewIsInt
      <4>4. draft[t] \in Drafts /\ clock + skew \in Int /\ Attested(body, clock)
        BY <1>1, <1>3, <3>1, <4>2, <4>3 DEF TabTypeOK, Prepare, Asked
      <4> QED
        BY <1>1, <4>2, <4>4, DraftLetThrough
    <3>2. CASE Post(t)
      <4>1. PICK body \in PostedBody(draft[t], clock) : Asked(t, body)
        BY <3>2 DEF Post
      <4>2. draft[t] \in Raws /\ t \in Callers /\ Attested(body, clock)
        BY <1>1, <1>3, <3>2, <4>1 DEF TabTypeOK, Post, Asked
      <4> QED
        BY <1>1, <4>1, <4>2, PostLetThrough
    <3> QED
      BY <1>3, <3>1, <3>2
  <2>2. PICK body : /\ Asked(t, body)
                    /\ CreateRefusals(body, clock) \subseteq OpenFields /\ TitleFits(body)
                    /\ "HolderStatusAlreadyExpired" \in CreateRefusals(body, clock) => t \in Callers
    BY <2>1
  <2>3. PICK o : o = [body |-> body, at |-> clock, number |-> 0, built |-> 0]
    OBVIOUS
  <2>4. order'[t] = {o} /\ o.body = body /\ o.at = clock
    BY <1>1, <2>2, <2>3 DEF Asked
  <2> QED
    BY <2>2, <2>4 DEF Mirrored
<1>4. CASE t \in DOMAIN draft /\ Walk(t)
  BY <1>1, <1>4 DEF Walk, Edit, GoTo
<1>5. CASE t \in DOMAIN draft /\ Ask(t)
  <2>1. CASE Prepare(t) \/ Post(t)
    BY <1>3, <1>5, <2>1
  <2>2. CASE ReadCount(t) \/ Reserve(t) \/ Decide(t) \/ Take(t) \/ Assemble(t) \/ AnswerLost(t)
    <3>1. pc'[t] # "asked"
      BY <1>1, <2>2 DEF ReadCount, Reserve, Decide, Take, Assemble, AnswerLost, Server
    <3> QED
      BY <3>1
  <2> QED
    BY <1>5, <2>1, <2>2 DEF Ask
<1>6. CASE t \in DOMAIN draft /\ Sign(t)
  <2>1. CASE Reset(t)
    BY <1>1, <2>1 DEF Reset
  <2>2. CASE Submit(t) \/ Send(t) \/ Confirm(t) \/ GiveUp(t)
    <3>1. PICK next \in {"signing", "confirming", "assembled", "form"} : pc' = [pc EXCEPT ![t] = next]
      <4>1. PICK i, next : /\ Submitting(t, i, next)
                           /\ next \in {"signing", "confirming", "assembled", "form"}
        <5>1. CASE Submit(t)
          BY <5>1 DEF Submit
        <5>2. CASE Send(t)
          BY <5>2 DEF Send
        <5>3. CASE Confirm(t)
          BY <5>3 DEF Confirm
        <5>4. CASE GiveUp(t)
          <6>1. Submitting(t, tx[t], IF shown[t] THEN "assembled" ELSE "form")
            BY <5>4, Zenon DEF GiveUp
          <6> QED
            BY <6>1
        <5> QED
          BY <2>2, <5>1, <5>2, <5>3, <5>4
      <4> QED
        BY <4>1 DEF Submitting
    <3> QED
      BY <1>1, <3>1
  <2> QED
    BY <1>6, <2>1, <2>2 DEF Sign
<1>7. CASE Land \/ MirrorCreated \/ MirrorNamed \/ Tick \/ UNCHANGED vars
  BY <1>7 DEF Land, MirrorCreated, MirrorNamed, Tick, vars, tabVars
<1> QED
  BY <1>2, <1>4, <1>5, <1>6, <1>7, StepsAre

\* Of the bodies the api lets through, the wizard's or another client's, create_token
\* would refuse only those whose attestation has a period over its ceiling, or whose
\* founder's status has an end that is past; and the wizard asks for no such end.
THEOREM RouteMirrors == Spec => []RouteMirrorsProgram
<1>1. Init => RouteMirrorsProgram
  BY DEF Init, RouteMirrorsProgram
<1>2. IInv /\ RouteMirrorsProgram /\ [Next]_vars => RouteMirrorsProgram'
  <2>1. ASSUME NEW x, NEW o
        PROVE  Mirrored(x, o) <=>
                 /\ CreateRefusals(o.body, o.at) \subseteq
                      {"AttestationMaxAgeInvalid", "HolderStatusAlreadyExpired"}
                 /\ "HolderStatusAlreadyExpired" \in CreateRefusals(o.body, o.at) => x \in Callers
                 /\ TitleFits(o.body)
    BY DEF Mirrored, OpenFields
  <2>2. RouteMirrorsProgram <=>
          \A x \in {u \in Tab : pc[u] = "asked"} : \A o \in order[x] : Mirrored(x, o)
    BY <2>1 DEF RouteMirrorsProgram
  <2>3. RouteMirrorsProgram' <=>
          \A x \in {u \in Tab : pc'[u] = "asked"} : \A o \in order'[x] : Mirrored(x, o)
    BY <2>1 DEF RouteMirrorsProgram, CreateRefusals, TitleFits
  <2> HIDE DEF Mirrored
  <2> SUFFICES ASSUME IInv, RouteMirrorsProgram, [Next]_vars, NEW t \in Tab, pc'[t] = "asked",
                      NEW o \in order'[t]
               PROVE  Mirrored(t, o)
    BY <2>3
  <2> QED
    BY <2>2, AskedAbout
<1> QED
  BY <1>1, <1>2, Invariance, PTL DEF Spec

-----------------------------------------------------------------------------
(* The rulebook: amounts *)

\* Each power of ten is ten times the one before, as far as a token has decimals.
LEMMA PowersOfTen ==
    ASSUME NEW k \in 0 .. 9
    PROVE  10 ^ k \in Nat /\ (k < 9 => 10 ^ (k + 1) = 10 * 10 ^ k)
<1>1. ASSUME k = 0 PROVE 10 ^ k = 1 /\ 10 ^ (k + 1) = 10
  BY <1>1
<1>2. ASSUME k = 1 PROVE 10 ^ k = 10 /\ 10 ^ (k + 1) = 100
  BY <1>2
<1>3. ASSUME k = 2 PROVE 10 ^ k = 100 /\ 10 ^ (k + 1) = 1000
  BY <1>3
<1>4. ASSUME k = 3 PROVE 10 ^ k = 1000 /\ 10 ^ (k + 1) = 10000
  BY <1>4
<1>5. ASSUME k = 4 PROVE 10 ^ k = 10000 /\ 10 ^ (k + 1) = 100000
  BY <1>5
<1>6. ASSUME k = 5 PROVE 10 ^ k = 100000 /\ 10 ^ (k + 1) = 1000000
  BY <1>6
<1>7. ASSUME k = 6 PROVE 10 ^ k = 1000000 /\ 10 ^ (k + 1) = 10000000
  BY <1>7
<1>8. ASSUME k = 7 PROVE 10 ^ k = 10000000 /\ 10 ^ (k + 1) = 100000000
  BY <1>8
<1>9. ASSUME k = 8 PROVE 10 ^ k = 100000000 /\ 10 ^ (k + 1) = 1000000000
  BY <1>9
<1>10. ASSUME k = 9 PROVE 10 ^ k = 1000000000
  BY <1>10
<1>11. k \in {0, 1, 2, 3, 4, 5, 6, 7, 8, 9}
  OBVIOUS
<1>12. PICK p, q : p = 10 ^ k /\ q = 10 ^ (k + 1)
  OBVIOUS
<1>13. p \in Nat /\ (k < 9 => q = 10 * p)
  BY <1>1, <1>2, <1>3, <1>4, <1>5, <1>6, <1>7, <1>8, <1>9, <1>10, <1>11, <1>12
<1> QED
  BY <1>12, <1>13

\* So they multiply.
LEMMA PowersMultiply ==
    ASSUME NEW m \in 0 .. 9, NEW n \in 0 .. 9, m + n <= 9
    PROVE  10 ^ m \in Nat /\ 10 ^ n \in Nat /\ 10 ^ (m + n) = 10 ^ m * 10 ^ n
<1> DEFINE Law(i) == m + i <= 9 => 10 ^ (m + i) = 10 ^ m * 10 ^ i
<1>1. 10 ^ m \in Nat /\ 10 ^ n \in Nat
  BY PowersOfTen
<1>2. Law(0)
  <2>1. 10 ^ 0 = 1 /\ m + 0 = m
    OBVIOUS
  <2> QED
    BY <1>1, <2>1
<1>3. ASSUME NEW i \in 0 .. 8, Law(i)
      PROVE  Law(i + 1)
  <2> SUFFICES ASSUME m + (i + 1) <= 9
               PROVE  10 ^ (m + (i + 1)) = 10 ^ m * 10 ^ (i + 1)
    OBVIOUS
  <2>1. PICK j \in 0 .. 8 : j = m + i
    OBVIOUS
  <2>2. 10 ^ j \in Nat /\ 10 ^ i \in Nat /\ 10 ^ (j + 1) = 10 * 10 ^ j /\ 10 ^ (i + 1) = 10 * 10 ^ i
    <3>1. j \in 0 .. 9 /\ i \in 0 .. 9 /\ j < 9 /\ i < 9
      OBVIOUS
    <3> QED
      BY <3>1, PowersOfTen
  <2>3. 10 ^ j = 10 ^ m * 10 ^ i
    BY <1>3, <2>1
  <2>4. m + (i + 1) = j + 1
    BY <2>1
  <2>5. PICK a, b, c, d : a = 10 ^ j /\ b = 10 ^ m /\ c = 10 ^ i /\ d = 10 ^ (i + 1)
    OBVIOUS
  <2>6. a \in Nat /\ b \in Nat /\ c \in Nat /\ a = b * c /\ d = 10 * c
    BY <1>1, <2>2, <2>3, <2>5
  <2>7. 10 * a = b * d
    BY <2>6
  <2>8. 10 ^ (j + 1) = 10 ^ m * 10 ^ (i + 1)
    BY <2>2, <2>5, <2>7
  <2> QED
    BY <2>4, <2>8
<1> HIDE DEF Law
<1>4. Law(1) /\ Law(2) /\ Law(3) /\ Law(4) /\ Law(5)
  BY <1>2, <1>3
<1>5. Law(6) /\ Law(7) /\ Law(8) /\ Law(9)
  BY <1>3, <1>4
<1>6. n \in {0, 1, 2, 3, 4, 5, 6, 7, 8, 9}
  OBVIOUS
<1>7. Law(n)
  BY <1>2, <1>4, <1>5, <1>6
<1> QED
  BY <1>1, <1>7 DEF Law

\* An amount says what was typed.
LEMMA AmountAsTyped ==
    ASSUME NEW d, d.decimals \in Option(Nat), NEW input, input.digits \in Nat, input.places \in Nat,
           NEW amount \in AmountOf(d, input)
    PROVE  AsTyped(d, input, amount) /\ amount \in Nat
<1>1. PICK n \in Nat : n = DecimalsOrZero(d)
  BY DEF DecimalsOrZero, Option
<1>2. /\ n <= MAX_DECIMALS /\ input.places <= n
      /\ amount = input.digits * 10 ^ (n - input.places)
  <2>1. MAX_DECIMALS \in Int
    BY DraftAssumption
  <2> QED
    BY <1>1, <2>1 DEF AmountOf, toSmallestUnit
<1>3. PICK i \in Nat, j \in Nat, k \in Nat : i = input.digits /\ j = input.places /\ k = n - input.places
  BY <1>2
<1>4. j \in 0 .. 9 /\ k \in 0 .. 9 /\ k + j = n /\ k + j <= 9
  <2>1. PICK max \in 0 .. 9 : max = MAX_DECIMALS
    BY DraftAssumption
  <2>2. n <= max /\ j <= n /\ k = n - j
    BY <1>2, <1>3, <2>1
  <2> QED
    BY <2>2
<1>5. 10 ^ k \in Nat /\ 10 ^ j \in Nat /\ 10 ^ n = 10 ^ k * 10 ^ j
  BY <1>4, PowersMultiply
<1>6. PICK a, b, c : a = 10 ^ k /\ b = 10 ^ j /\ c = 10 ^ n
  OBVIOUS
<1>7. a \in Nat /\ b \in Nat /\ c = a * b
  BY <1>5, <1>6
<1>8. (i * a) * b = i * c /\ i * a \in Nat
  BY <1>7
<1>9. amount = i * a
  BY <1>2, <1>3, <1>6
<1>10. AsTyped(d, input, amount) <=> amount * b = i * c
  BY <1>1, <1>3, <1>6 DEF AsTyped
<1> QED
  BY <1>8, <1>9, <1>10

-----------------------------------------------------------------------------
(* The sentences *)

\* A set of at most one value is any of its members.
LEMMA OptionIs ==
    ASSUME NEW S, NEW option \in Option(S), NEW x \in option
    PROVE  option = {x} /\ (CHOOSE y \in option : TRUE) = x
<1>1. option = {x}
  BY DEF Option
<1> QED
  BY <1>1

\* Hours are a length of time, or none.
LEMMA HoursAreOne ==
    ASSUME NEW hours \in Option(Nat)
    PROVE  hoursToSeconds(hours) \in Option(Nat)
  BY DraftAssumption DEF hoursToSeconds, Option

\* An amount as typed is one amount, or none.
LEMMA AmountIsOne ==
    ASSUME NEW d, NEW input, NEW amount \in AmountOf(d, input)
    PROVE  AmountOf(d, input) = {amount}
  BY DEF AmountOf, toSmallestUnit

\* What a body is made of.
LEMMA BodyHas ==
    ASSUME NEW d \in Drafts, NEW now, NEW body \in toCreateTokenBody(d, now)
    PROVE  /\ body.decimals \in d.decimals /\ body.policy \in parsedPolicy(d)
           /\ body.initialSupply \in AmountOf(d, d.initialSupply)
           /\ body.reserve \in AmountOf(d, d.reserveAmount)
           /\ body.maxAgeSeconds \in hoursToSeconds(d.reserveAgeHours)
           /\ body.currency = d.reserveCurrency /\ body.founderExpiresAt = 0
<1>1. PICK decimals \in d.decimals, policy \in parsedPolicy(d),
           supply \in AmountOf(d, d.initialSupply), reserve \in AmountOf(d, d.reserveAmount),
           age \in hoursToSeconds(d.reserveAgeHours), bps \in d.feeBps :
        body = [title |-> d.title, decimals |-> decimals, policy |-> policy,
                initialSupply |-> supply, reserve |-> reserve, currency |-> d.reserveCurrency,
                attestedAt |-> now, maxAgeSeconds |-> age, addresses |-> d.addresses,
                bps |-> bps, founderTier |-> d.founderTier,
                founderJurisdiction |-> d.founderJurisdiction, founderExpiresAt |-> 0]
  BY DEF toCreateTokenBody
<1> QED
  BY <1>1

\* What the rulebook says is what is signed.
LEMMA SentencesSigned ==
    ASSUME NEW d \in Drafts, NEW now, NEW body \in toCreateTokenBody(d, now), ReadyAt(3, d)
    PROVE  buildClauses(d) = ClausesSigned(body)
<1> DEFINE policy == body.policy
           status == The(policy.status)
<1>1. /\ body.decimals \in d.decimals /\ policy \in parsedPolicy(d)
      /\ body.initialSupply \in AmountOf(d, d.initialSupply)
      /\ body.reserve \in AmountOf(d, d.reserveAmount)
      /\ body.maxAgeSeconds \in hoursToSeconds(d.reserveAgeHours)
      /\ body.currency = d.reserveCurrency
  BY BodyHas
<1>2. Says(policy, d)
  BY <1>1, DraftHas, ParsedSays
<1> HIDE DEF policy
<1>3. PICK list, countries, period :
      /\ policy = [status |-> {[sources |-> list, minTier |-> d.minTier, maxAge |-> AgeOf(d)]},
                   jurisdictions |-> countries,
                   transferLimit |-> AmountOf(d, d.transferLimit), periodLimit |-> period]
      /\ ToSet(list) = ToSet(d.sources)
      /\ IF d.jurisdictions = <<>> THEN countries = {}
         ELSE \E codes : countries = {codes} /\ ToSet(codes) = ToSet(d.jurisdictions)
      /\ IF d.periodLimit.is = "blank" THEN period = {}
         ELSE \E a \in AmountOf(d, d.periodLimit), w \in hoursToSeconds(d.periodHours) :
                period = {[amount |-> a, windowSeconds |-> w]}
  BY <1>2 DEF Says
<1>4. /\ LimitStands(d, d.transferLimit) /\ LimitStands(d, d.periodLimit)
  BY DEF ReadyAt
<1>5. \A input : input.is = "blank" => AmountOf(d, input) = {}
  BY DEF AmountOf, toSmallestUnit
<1>6. /\ policy.jurisdictions = countries /\ policy.periodLimit = period
      /\ policy.transferLimit = AmountOf(d, d.transferLimit)
      /\ status = [sources |-> list, minTier |-> d.minTier, maxAge |-> AgeOf(d)]
  BY <1>3 DEF The
<1>7. /\ status.sources = list /\ status.minTier = d.minTier /\ status.maxAge = AgeOf(d)
  BY <1>6
<1> HIDE DEF status
<1>8. DecimalsOrZero(d) = body.decimals
  BY <1>1, DraftHas, OptionIs DEF DecimalsOrZero
<1>9. /\ AmountOf(d, d.initialSupply) = {body.initialSupply}
      /\ AmountOf(d, d.reserveAmount) = {body.reserve}
  BY <1>1, AmountIsOne
<1>10. hoursToSeconds(d.reserveAgeHours) = {body.maxAgeSeconds}
  BY <1>1, DraftHas, HoursAreOne, OptionIs
<1>11. ToSet(d.jurisdictions) = UNION {ToSet(codes) : codes \in countries}
  <2>1. CASE d.jurisdictions = <<>>
    <3>1. countries = {} /\ ToSet(d.jurisdictions) = {}
      BY <1>3, <2>1 DEF ToSet
    <3> QED
      BY <3>1
  <2>2. CASE d.jurisdictions # <<>>
    <3>1. PICK codes : countries = {codes} /\ ToSet(codes) = ToSet(d.jurisdictions)
      BY <1>3, <2>2
    <3> QED
      BY <3>1
  <2> QED
    BY <2>1, <2>2
<1>12. d.transferLimit.is # "blank" <=> AmountOf(d, d.transferLimit) # {}
  BY <1>4, <1>5 DEF LimitStands
<1>13. /\ d.periodLimit.is # "blank" <=> period # {}
       /\ AmountOf(d, d.periodLimit) = {limit.amount : limit \in period}
       /\ (IF d.periodLimit.is = "blank" THEN {} ELSE hoursToSeconds(d.periodHours))
            = {limit.windowSeconds : limit \in period}
  <2>1. CASE d.periodLimit.is = "blank"
    BY <1>3, <1>5, <2>1
  <2>2. CASE d.periodLimit.is # "blank"
    <3>1. PICK a \in AmountOf(d, d.periodLimit), w \in hoursToSeconds(d.periodHours) :
            period = {[amount |-> a, windowSeconds |-> w]}
      BY <1>3, <2>2
    <3>2. AmountOf(d, d.periodLimit) = {a} /\ hoursToSeconds(d.periodHours) = {w}
      BY DraftHas, AmountIsOne, HoursAreOne, OptionIs
    <3>3. PICK x : x = [amount |-> a, windowSeconds |-> w]
      OBVIOUS
    <3>4. x.amount = a /\ x.windowSeconds = w /\ period = {x}
      BY <3>1, <3>3
    <3> QED
      BY <2>2, <3>2, <3>4
  <2> QED
    BY <2>1, <2>2
<1>14. PICK capped, periodic : /\ capped = (d.transferLimit.is # "blank")
                               /\ periodic = (d.periodLimit.is # "blank")
  OBVIOUS
<1>15. PICK cap, periodCap, window, codes :
        /\ cap = AmountOf(d, d.transferLimit)
        /\ periodCap = AmountOf(d, d.periodLimit)
        /\ window = IF d.periodLimit.is = "blank" THEN {} ELSE hoursToSeconds(d.periodHours)
        /\ codes = ToSet(d.jurisdictions)
  OBVIOUS
<1>16. capped = (policy.transferLimit # {}) /\ periodic = (policy.periodLimit # {})
  BY <1>6, <1>12, <1>13, <1>14
<1>17. PICK sources, tier, age : /\ sources = ToSet(list) /\ tier = d.minTier /\ age = AgeOf(d)
  OBVIOUS
<1>18. buildClauses(d) =
         [decimals |-> body.decimals, initialSupply |-> {body.initialSupply}, sources |-> sources,
          minTier |-> tier, providerAge |-> age, jurisdictions |-> codes, transfersCapped |-> capped,
          transferCap |-> cap, periodsCapped |-> periodic, periodCap |-> periodCap,
          period |-> window, reserve |-> {body.reserve}, currency |-> body.currency,
          reserveAge |-> {body.maxAgeSeconds}]
  BY <1>1, <1>3, <1>8, <1>9, <1>10, <1>14, <1>15, <1>17, Zenon DEF buildClauses, AgeOf
<1>19. ClausesSigned(body) =
         [decimals |-> body.decimals, initialSupply |-> {body.initialSupply}, sources |-> sources,
          minTier |-> tier, providerAge |-> age, jurisdictions |-> codes, transfersCapped |-> capped,
          transferCap |-> cap, periodsCapped |-> periodic, periodCap |-> periodCap,
          period |-> window, reserve |-> {body.reserve}, currency |-> body.currency,
          reserveAge |-> {body.maxAgeSeconds}]
  BY <1>6, <1>7, <1>11, <1>13, <1>15, <1>16, <1>17, Zenon DEF ClausesSigned, policy, status
<1> QED
  BY <1>18, <1>19

-----------------------------------------------------------------------------
(* The scenarios *)

\* What a policy says that was written in order, each of its rules at most once.
Plain(policy, sources, tier, age, countries, caps, periods) ==
    /\ policy.status = {The(policy.status)} /\ ToSet(The(policy.status).sources) = sources
    /\ The(policy.status).minTier = tier /\ The(policy.status).maxAge = age
    /\ sources \in SUBSET Source /\ sources # {} /\ tier \in Nat
    /\ age \in Option(Nat)
    /\ policy.jurisdictions = countries /\ countries \in Option(Seq(Nat) \ {<<>>})
    /\ policy.transferLimit = caps /\ caps \in Option(0 .. MaxU64)
    /\ policy.periodLimit = periods
    /\ periods \in Option([amount : 0 .. MaxU64, windowSeconds : Nat])

\* The policy as both evaluators know it.
Views(view, sources, tier, age, countries, caps, periods) ==
    /\ view.sources = sources /\ view.minTier = tier /\ view.maxAge = age
    /\ view.jurisdictions = {ToSet(codes) : codes \in countries}
    /\ view.transferLimit = caps
    /\ view.periodLimit = {[amount |-> l.amount, window |-> l.windowSeconds] : l \in periods}

\* The wizard evaluates such a policy as it is.
LEMMA WizardViews ==
    ASSUME NEW policy, NEW sources, NEW tier, NEW age, NEW countries, NEW caps, NEW periods,
           Plain(policy, sources, tier, age, countries, caps, periods)
    PROVE  Views(PolicyOf(policy), sources, tier, age, countries, caps, periods)
<1>1. PICK status : status = CHOOSE s \in policy.status : TRUE
  OBVIOUS
<1>2. ToSet(status.sources) = sources /\ status.minTier = tier /\ status.maxAge = age
  BY <1>1 DEF Plain, The
<1>3. PICK limits : limits = {[amount |-> l.amount, window |-> l.windowSeconds] : l \in periods}
  OBVIOUS
<1>4. PICK lists : lists = {ToSet(codes) : codes \in countries}
  OBVIOUS
<1>5. PolicyOf(policy) = [sources |-> sources, minTier |-> tier, maxAge |-> age,
                          jurisdictions |-> lists, transferLimit |-> caps, periodLimit |-> limits]
  BY <1>1, <1>2, <1>3, <1>4 DEF PolicyOf, Plain
<1> QED
  BY <1>3, <1>4, <1>5 DEF Views

\* A party with a record in each source that counts, all of them alike and current.
Known(p, sources, tier, country, denied, now) ==
    \A s \in Source :
      IF s \in sources
      THEN p[s] = [state |-> "record", denied |-> denied, tier |-> tier,
                   jurisdiction |-> country, expires |-> {}, issued |-> now]
      ELSE p[s] = Absent

\* Country is on every list there is.
OnLists(country, countries) == \A codes \in countries : country \in ToSet(codes)

\* The parties of a scenario are known alike, or not at all.
LEMMA PartyIs ==
    ASSUME NEW policy, NEW sources, NEW tier, NEW age, NEW countries, NEW caps, NEW periods,
           Plain(policy, sources, tier, age, countries, caps, periods), NEW now
    PROVE  \E country : /\ OnLists(country, countries)
                        /\ \A denied \in BOOLEAN :
                             /\ Known(party(policy, now, TRUE, denied), sources, tier, country, denied, now)
                             /\ \A s \in Source : party(policy, now, FALSE, denied)[s] = Absent
<1>1. PICK status : status = CHOOSE s \in policy.status : TRUE
  OBVIOUS
<1>2. ToSet(status.sources) = sources /\ status.minTier = tier
  BY <1>1 DEF Plain, The
<1>3. PICK country : country = IF policy.jurisdictions = {} THEN SIMULATED_JURISDICTION
                               ELSE Head(CHOOSE codes \in policy.jurisdictions : TRUE)
  OBVIOUS
<1>4. OnLists(country, countries)
  <2>1. CASE countries = {}
    BY <2>1 DEF OnLists
  <2>2. CASE countries # {}
    <3>1. PICK codes \in countries : codes = CHOOSE c \in countries : TRUE
      BY <2>2
    <3>2. countries = {codes} /\ codes \in Seq(Nat) /\ codes # <<>>
      BY <3>1 DEF Plain, Option
    <3>3. country = codes[1] /\ 1 \in DOMAIN codes
      BY <1>3, <2>2, <3>1, <3>2 DEF Plain
    <3> QED
      BY <3>2, <3>3 DEF OnLists, ToSet
  <2> QED
    BY <2>1, <2>2
<1>5. ASSUME NEW denied \in BOOLEAN
      PROVE  /\ Known(party(policy, now, TRUE, denied), sources, tier, country, denied, now)
             /\ \A s \in Source : party(policy, now, FALSE, denied)[s] = Absent
  <2>1. PICK record : record = [state |-> "record", denied |-> denied, tier |-> tier,
                                jurisdiction |-> country, expires |-> {}, issued |-> now]
    OBVIOUS
  <2>2. party(policy, now, TRUE, denied) = [s \in Source |-> IF s \in sources THEN record ELSE Absent]
    BY <1>1, <1>2, <1>3, <2>1 DEF party
  <2>3. party(policy, now, FALSE, denied) = [s \in Source |-> Absent]
    BY DEF party
  <2> QED
    BY <2>1, <2>2, <2>3 DEF Known
<1> QED
  BY <1>4, <1>5

\* What the wizard sees of such a party: facts, all of them accepted, that say the same.
SeenAlike(seen, tier, country, denied) ==
    /\ ~seen.unavailable /\ seen.fresh # {} /\ seen.accepted # {}
    /\ \A fact \in seen.fresh : fact.denied = denied
    /\ \A fact \in seen.accepted : fact.jurisdiction = country
    /\ Wizard!mergedTier(seen) = tier

\* So sees the wizard a party that is known alike.
LEMMA KnownSeen ==
    ASSUME NEW view, NEW sources, NEW tier, NEW age, NEW countries, NEW caps, NEW periods,
           Views(view, sources, tier, age, countries, caps, periods),
           sources \in SUBSET Source, sources # {}, tier \in Nat, age \in SUBSET Nat,
           NEW p, NEW country, NEW denied, NEW now \in Nat,
           Known(p, sources, tier, country, denied, now)
    PROVE  SeenAlike(Wizard!viewParty(p, view, now), tier, country, denied)
<1> DEFINE seen == Wizard!viewParty(p, view, now)
           current == {s \in {"provider", "register"} :
                         /\ p[s].state = "record"
                         /\ IF s = "provider" THEN Wizard!isProviderCurrent(p.provider, view.maxAge, now)
                            ELSE Wizard!isCurrent(p.register.expires, now)}
           Fact(s) == [source |-> s, denied |-> p[s].denied, tier |-> p[s].tier,
                       jurisdiction |-> p[s].jurisdiction]
<1>1. ASSUME NEW s \in sources
      PROVE  /\ p[s].state = "record" /\ p[s].denied = denied /\ p[s].tier = tier
             /\ p[s].jurisdiction = country /\ p[s].expires = {} /\ p[s].issued = now
             /\ s \in Source
  <2>1. p[s] = [state |-> "record", denied |-> denied, tier |-> tier,
                jurisdiction |-> country, expires |-> {}, issued |-> now]
    BY DEF Known
  <2> QED
    BY <2>1
<1>2. \A s \in Source \ sources : p[s].state = "absent"
  BY DEF Known, Absent
<1>3. Source = {"provider", "register"}
  BY DEF Source
<1>4. current = sources
  <2>1. ASSUME NEW s \in sources PROVE s \in current
    <3>1. s = "provider" => Wizard!isProviderCurrent(p[s], view.maxAge, now)
      BY <1>1 DEF Wizard!isProviderCurrent, Wizard!isCurrent, Views
    <3>2. Wizard!isCurrent(p[s].expires, now)
      BY <1>1 DEF Wizard!isCurrent
    <3> QED
      BY <1>1, <1>3, <3>1, <3>2
  <2>2. ASSUME NEW s \in current PROVE s \in sources
    BY <1>2, <1>3
  <2> QED
    BY <2>1, <2>2
<1>5. /\ seen.fresh = {Fact(s) : s \in current}
      /\ seen.accepted = {fact \in {Fact(s) : s \in current} : fact.source \in view.sources}
      /\ seen.unavailable = ("unavailable" \in {p.provider.state, p.register.state})
  BY DEF Wizard!viewParty
<1> HIDE DEF seen, current
<1>6. \A s \in sources : /\ Fact(s).source = s /\ Fact(s).denied = denied /\ Fact(s).tier = tier
                         /\ Fact(s).jurisdiction = country
  BY <1>1
<1> HIDE DEF Fact
<1>7. seen.fresh = {Fact(s) : s \in sources} /\ seen.accepted = {Fact(s) : s \in sources}
  BY <1>4, <1>5, <1>6 DEF Views
<1>8. ~seen.unavailable
  <2>1. p.provider.state # "unavailable" /\ p.register.state # "unavailable"
    BY <1>1, <1>2, <1>3
  <2> QED
    BY <1>5, <2>1
<1>9. Wizard!mergedTier(seen) = tier
  <2>1. {fact.tier : fact \in seen.accepted} = {tier}
    BY <1>6, <1>7
  <2>2. seen.accepted # {}
    BY <1>7
  <2>3. Wizard!Min({tier}) = tier
    BY DEF Wizard!Min
  <2> QED
    BY <2>1, <2>2, <2>3 DEF Wizard!mergedTier
<1>10. /\ seen.fresh # {} /\ seen.accepted # {}
       /\ \A fact \in seen.fresh : fact.denied = denied
       /\ \A fact \in seen.accepted : fact.jurisdiction = country
  BY <1>6, <1>7
<1> QED
  BY <1>8, <1>9, <1>10 DEF seen, SeenAlike

\* And of one nobody knows: nothing.
LEMMA UnknownSeen ==
    ASSUME NEW view, NEW p, NEW now, \A s \in Source : p[s] = Absent
    PROVE  Wizard!nothingKnown(Wizard!viewParty(p, view, now))
<1>1. p.provider.state = "absent" /\ p.register.state = "absent"
  BY DEF Source, Absent
<1>2. /\ Wizard!viewParty(p, view, now).fresh = {}
      /\ ~Wizard!viewParty(p, view, now).unavailable
  BY <1>1 DEF Wizard!viewParty
<1> QED
  BY <1>2 DEF Wizard!nothingKnown

Fails(i, view, c) ==
    Wizard!CHECKS(Wizard!REFUSAL_CODES[i], view, c, Wizard!viewParty(c.sender, view, c.now),
                  Wizard!viewParty(c.recipient, view, c.now))

\* The wizard's answer is the first check that fails.
LEMMA FirstAnswers ==
    ASSUME NEW view, NEW c
    PROVE  /\ (\A i \in 1 .. 15 : ~Fails(i, view, c)) => Wizard!evaluateTransfer(view, c) = "allowed"
           /\ \A k \in 1 .. 15 : Fails(k, view, c) /\ (\A i \in 1 .. 15 : i < k => ~Fails(i, view, c)) =>
                Wizard!evaluateTransfer(view, c) = Wizard!REFUSAL_CODES[k]
<1> DEFINE codes == Wizard!REFUSAL_CODES
           refused == {i \in DOMAIN codes : Fails(i, view, c)}
<1>1. DOMAIN codes = 1 .. 15
  BY DEF Wizard!REFUSAL_CODES
<1>2. Wizard!evaluateTransfer(view, c) = IF refused = {} THEN "allowed" ELSE codes[Wizard!Min(refused)]
  BY DEF Wizard!evaluateTransfer, Fails
<1> HIDE DEF codes
<1>3. ASSUME NEW k \in 1 .. 15, Fails(k, view, c), \A i \in 1 .. 15 : i < k => ~Fails(i, view, c)
      PROVE  Wizard!evaluateTransfer(view, c) = codes[k]
  <2>1. k \in refused /\ \A i \in refused : k <= i /\ i \in 1 .. 15
    BY <1>1, <1>3
  <2> HIDE DEF refused
  <2>2. PICK min : min = Wizard!Min(refused)
    OBVIOUS
  <2>3. min \in refused /\ \A i \in refused : min <= i
    BY <2>1, <2>2, Zenon DEF Wizard!Min
  <2>4. min = k
    <3>1. min <= k /\ k <= min /\ min \in 1 .. 15
      BY <2>1, <2>3
    <3> QED
      BY <3>1
  <2> QED
    BY <1>2, <2>1, <2>2, <2>4
<1>4. ASSUME \A i \in 1 .. 15 : ~Fails(i, view, c)
      PROVE  Wizard!evaluateTransfer(view, c) = "allowed"
  <2>1. refused = {}
    BY <1>1, <1>4
  <2> QED
    BY <1>2, <2>1
<1> QED
  BY <1>3, <1>4 DEF codes

\* A transfer between parties known alike, under the version that is in force, and the
\* first of its period, can be refused for three reasons.
AlikeFails(view, c, denied, caps, periods) ==
    /\ \A i \in 1 .. 15 : i \notin {7, 10, 12} => ~Fails(i, view, c)
    /\ Fails(7, view, c) <=> denied
    /\ Fails(10, view, c) <=> \E cap \in caps : c.amount > cap
    /\ Fails(12, view, c) <=> \E l \in periods : c.amount > l.amount

Sane(sources, tier, age, periods) ==
    /\ sources \in SUBSET Source /\ sources # {} /\ tier \in Nat /\ age \in SUBSET Nat
    /\ periods \in SUBSET [amount : Nat, windowSeconds : Nat]

AtOnce(c, now, periods) ==
    /\ c.now = now /\ c.policyVersion = c.mintPolicyVersion /\ c.amount \in Nat
    /\ c.velocity = IF periods = {} THEN {} ELSE {[start |-> now, spent |-> 0]}

\* A transfer between parties that are known alike.
LEMMA KnownFails ==
    ASSUME NEW view, NEW sources, NEW tier, NEW age, NEW countries, NEW caps, NEW periods,
           Views(view, sources, tier, age, countries, caps, periods),
           Sane(sources, tier, age, periods),
           NEW country, OnLists(country, countries), NEW denied \in BOOLEAN, NEW now \in Nat,
           NEW c, AtOnce(c, now, periods),
           Known(c.sender, sources, tier, country, FALSE, now),
           Known(c.recipient, sources, tier, country, denied, now)
    PROVE  AlikeFails(view, c, denied, caps, periods)
<1> USE DEF Sane, AtOnce
<1> DEFINE sender == Wizard!viewParty(c.sender, view, now)
           recipient == Wizard!viewParty(c.recipient, view, now)
<1>1. SeenAlike(sender, tier, country, FALSE) /\ SeenAlike(recipient, tier, country, denied)
  BY KnownSeen
<1>2. /\ ~sender.unavailable /\ sender.fresh # {} /\ sender.accepted # {}
      /\ \A fact \in sender.fresh : fact.denied = FALSE
      /\ ~recipient.unavailable /\ recipient.fresh # {} /\ recipient.accepted # {}
      /\ \A fact \in recipient.fresh : fact.denied = denied
      /\ \A fact \in recipient.accepted : fact.jurisdiction = country
      /\ Wizard!mergedTier(recipient) = tier
  <2> HIDE DEF sender, recipient
  <2> QED
    BY <1>1 DEF SeenAlike
<1>3. \A i : Fails(i, view, c) <=> Wizard!CHECKS(Wizard!REFUSAL_CODES[i], view, c, sender, recipient)
  BY DEF Fails
<1> HIDE DEF sender, recipient
<1>4. /\ ~Fails(1, view, c) /\ ~Fails(2, view, c) /\ ~Fails(3, view, c) /\ ~Fails(4, view, c)
      /\ ~Fails(5, view, c) /\ ~Fails(6, view, c) /\ ~Fails(13, view, c) /\ ~Fails(14, view, c)
      /\ ~Fails(15, view, c)
  BY <1>2, <1>3 DEF Wizard!CHECKS, Wizard!REFUSAL_CODES, Wizard!nothingKnown, Wizard!onlyUnaccepted
<1>5. Fails(7, view, c) <=> denied
  <2>1. Fails(7, view, c) <=> \E fact \in recipient.fresh : fact.denied
    BY <1>3 DEF Wizard!CHECKS, Wizard!REFUSAL_CODES
  <2>2. \A fact \in recipient.fresh : fact.denied <=> denied
    BY <1>2
  <2> QED
    BY <1>2, <2>1, <2>2
<1>6. ~Fails(8, view, c)
  <2>1. Fails(8, view, c) <=> Wizard!mergedTier(recipient) < view.minTier
    BY <1>3 DEF Wizard!CHECKS, Wizard!REFUSAL_CODES
  <2> QED
    BY <1>2, <2>1 DEF Views
<1>7. ~Fails(9, view, c)
  <2>1. Fails(9, view, c) <=> \E allowed \in view.jurisdictions, fact \in recipient.accepted :
                                fact.jurisdiction \notin allowed
    BY <1>3 DEF Wizard!CHECKS, Wizard!REFUSAL_CODES
  <2>2. \A allowed \in view.jurisdictions : country \in allowed
    BY DEF Views, OnLists
  <2> QED
    BY <1>2, <2>1, <2>2
<1>8. Fails(10, view, c) <=> \E cap \in caps : c.amount > cap
  BY <1>3 DEF Wizard!CHECKS, Wizard!REFUSAL_CODES, Views
<1>9. ~Fails(11, view, c)
  <2>1. Fails(11, view, c) <=> view.periodLimit # {} /\ c.velocity = {}
    BY <1>3 DEF Wizard!CHECKS, Wizard!REFUSAL_CODES
  <2>2. periods = {} => view.periodLimit = {}
    BY DEF Views
  <2> QED
    BY <2>1, <2>2
<1>10. Fails(12, view, c) <=> \E l \in periods : c.amount > l.amount
  <2>1. Fails(12, view, c) <=> Wizard!periodExceeded(view, c)
    BY <1>3 DEF Wizard!CHECKS, Wizard!REFUSAL_CODES
  <2>2. CASE periods = {}
    BY <2>1, <2>2 DEF Views, Wizard!periodExceeded
  <2>3. CASE periods # {}
    <3>1. PICK counter : counter = [start |-> now, spent |-> 0]
      OBVIOUS
    <3>2. c.velocity = {counter} /\ counter.spent = 0
      BY <2>3, <3>1
    <3>3. \A limit \in view.periodLimit :
            (IF c.now < counter.start + limit.window THEN counter.spent ELSE 0) + c.amount = c.amount
      BY <3>2
    <3>4. Wizard!periodExceeded(view, c) <=> \E limit \in view.periodLimit : c.amount > limit.amount
      BY <3>2, <3>3 DEF Wizard!periodExceeded
    <3>5. (\E limit \in view.periodLimit : c.amount > limit.amount) <=> \E l \in periods : c.amount > l.amount
      <4>1. \A l \in periods : [amount |-> l.amount, window |-> l.windowSeconds].amount = l.amount
        OBVIOUS
      <4> QED
        BY <4>1 DEF Views
    <3> QED
      BY <2>1, <3>4, <3>5
  <2> QED
    BY <2>2, <2>3
<1>11. \A i \in 1 .. 15 : i \in {1, 2, 3, 4, 5, 6, 7, 8, 9, 10, 11, 12, 13, 14, 15}
  OBVIOUS
<1>12. \A i \in 1 .. 15 : i \notin {7, 10, 12} => ~Fails(i, view, c)
  BY <1>4, <1>6, <1>7, <1>9, <1>11
<1> QED
  BY <1>5, <1>8, <1>10, <1>12 DEF AlikeFails

\* To a wallet nobody knows.
LEMMA UnknownAnswer ==
    ASSUME NEW view, NEW c, ~Fails(1, view, c), ~Fails(2, view, c),
           \A s \in Source : c.recipient[s] = Absent
    PROVE  Wizard!evaluateTransfer(view, c) = "RECIPIENT_STATUS_MISSING"
<1>1. Fails(3, view, c)
  <2>1. Wizard!nothingKnown(Wizard!viewParty(c.recipient, view, c.now))
    BY UnknownSeen
  <2>2. Wizard!REFUSAL_CODES[3] = "RECIPIENT_STATUS_MISSING"
    BY DEF Wizard!REFUSAL_CODES
  <2> QED
    BY <2>1, <2>2 DEF Fails, Wizard!CHECKS
<1>2. \A i \in 1 .. 15 : i < 3 => i = 1 \/ i = 2
  OBVIOUS
<1>3. 3 \in 1 .. 15 /\ \A i \in 1 .. 15 : i < 3 => ~Fails(i, view, c)
  BY <1>2
<1>4. Wizard!evaluateTransfer(view, c) = Wizard!REFUSAL_CODES[3]
  BY <1>1, <1>3, FirstAnswers
<1> QED
  BY <1>4 DEF Wizard!REFUSAL_CODES

\* The amounts a transfer is held to.
Holds(within, caps, periods) ==
    /\ within \in Nat
    /\ \A cap \in caps : within <= cap
    /\ \A l \in periods : within <= l.amount

\* A scenario's transfer, between the parties its name tells.
Attempts(c, within, name, policy, now, periods) ==
    /\ c.now = now /\ c.policyVersion = c.mintPolicyVersion /\ c.amount = within
    /\ c.velocity = IF periods = {} THEN {} ELSE {[start |-> now, spent |-> 0]}
    /\ c.sender = party(policy, now, TRUE, FALSE)
    /\ c.recipient = party(policy, now, name # "unverified", name = "denied")

\* The limit that binds, if there is one, and the amount a scenario stays within.
LEMMA BindingIs ==
    ASSUME NEW policy, NEW sources, NEW tier, NEW age, NEW countries, NEW caps, NEW periods,
           Plain(policy, sources, tier, age, countries, caps, periods)
    PROVE  \E within \in Nat :
             /\ Holds(within, caps, periods)
             /\ IF caps = {} /\ periods = {} THEN bindingLimit(policy) = {} /\ within = 1
                ELSE /\ bindingLimit(policy) = {within}
                     /\ within \in caps \/ \E l \in periods : within = l.amount
<1> DEFINE all == caps \cup {l.amount : l \in periods}
<1>1. Limits(policy) = all
  BY DEF Limits, Plain
<1>2. all \in SUBSET Nat
  <2>1. MaxU64 \in Nat
    BY WidthAssumption
  <2>2. \A l \in periods : l.amount \in 0 .. MaxU64
    BY DEF Plain, Option
  <2>3. \A cap \in caps : cap \in 0 .. MaxU64
    BY DEF Plain, Option
  <2>4. \A n \in 0 .. MaxU64 : n \in Nat
    BY <2>1
  <2>5. \A x \in all : x \in Nat
    BY <2>2, <2>3, <2>4
  <2> QED
    BY <2>5
<1>3. CASE caps = {} /\ periods = {}
  <2>1. bindingLimit(policy) = {}
    BY <1>1, <1>3 DEF bindingLimit
  <2> QED
    BY <1>3, <2>1 DEF Holds
<1>4. CASE ~(caps = {} /\ periods = {})
  <2>1. all # {}
    BY <1>4
  <2>2. PICK within : within = Min(all)
    OBVIOUS
  <2>3. within \in all /\ \A x \in all : within <= x
    <3> HIDE DEF all
    <3>1. \E x \in all : \A y \in all : x <= y
      BY <1>2, <2>1, LeastExists
    <3> QED
      BY <2>2, <3>1, Zenon DEF Min
  <2>4. bindingLimit(policy) = {within}
    BY <1>1, <2>1, <2>2 DEF bindingLimit
  <2>5. within \in caps \/ \E l \in periods : within = l.amount
    BY <2>3
  <2>6. Holds(within, caps, periods)
    BY <1>2, <2>3 DEF Holds
  <2> QED
    BY <1>4, <2>4, <2>5, <2>6 DEF Holds
<1> QED
  BY <1>3, <1>4

\* A scenario is the transfer its name tells.
LEMMA ScenarioIs ==
    ASSUME NEW policy, NEW sources, NEW tier, NEW age, NEW countries, NEW caps, NEW periods,
           Plain(policy, sources, tier, age, countries, caps, periods),
           NEW now, NEW name, NEW within \in Nat,
           IF bindingLimit(policy) = {} THEN within = 1 ELSE bindingLimit(policy) = {within}
    PROVE  LET over == name = "over-limit" /\ bindingLimit(policy) # {} /\ within < MaxU64
               scenario == buildScenario(policy, name, now)
           IN  /\ scenario.applicable <=> name # "over-limit" \/ over
               /\ scenario.paused <=> name = "paused"
               /\ Attempts(scenario.context, IF over THEN within + 1 ELSE within,
                           name, policy, now, periods)
<1> DEFINE over == name = "over-limit" /\ bindingLimit(policy) # {} /\ within < MaxU64
           scenario == buildScenario(policy, name, now)
<1>1. (IF bindingLimit(policy) = {} THEN 1 ELSE CHOOSE l \in bindingLimit(policy) : TRUE) = within
  <2>1. CASE bindingLimit(policy) = {}
    BY <2>1
  <2>2. CASE bindingLimit(policy) # {}
    <3>1. (CHOOSE l \in {within} : TRUE) = within
      OBVIOUS
    <3> QED
      BY <2>2, <3>1
  <2> QED
    BY <2>1, <2>2
<1>2. PICK amount : amount = IF over THEN within + 1 ELSE within
  OBVIOUS
<1>3. PICK sender, recipient : /\ sender = party(policy, now, TRUE, FALSE)
                               /\ recipient = party(policy, now, name # "unverified", name = "denied")
  OBVIOUS
<1>4. PICK velocity : velocity = IF periods = {} THEN {} ELSE {[start |-> now, spent |-> 0]}
  OBVIOUS
<1>5. policy.periodLimit = periods
  BY DEF Plain
<1>6. PICK ctx : ctx = context(policy, now, amount, sender, recipient)
  OBVIOUS
<1>7. ctx = [now |-> now, sender |-> sender, recipient |-> recipient, amount |-> amount,
             velocity |-> velocity, policyVersion |-> 1, mintPolicyVersion |-> 1]
  BY <1>4, <1>5, <1>6 DEF context
<1>8. scenario = [applicable |-> name # "over-limit" \/ over, paused |-> name = "paused",
                  context |-> ctx]
  <2> HIDE DEF over
  <2>1. scenario = [applicable |-> name # "over-limit" \/ over, paused |-> name = "paused",
                    context |-> context(policy, now, IF over THEN within + 1 ELSE within,
                                        party(policy, now, TRUE, FALSE),
                                        party(policy, now, name # "unverified", name = "denied"))]
    BY <1>1, Zenon DEF buildScenario, over
  <2> QED
    BY <1>2, <1>3, <1>6, <2>1
<1> HIDE DEF over, scenario
<1>9. /\ scenario.applicable <=> name # "over-limit" \/ over
      /\ scenario.paused <=> name = "paused" 
      /\ scenario.context = ctx
  BY <1>8
<1>10. Attempts(ctx, amount, name, policy, now, periods)
  BY <1>3, <1>4, <1>7 DEF Attempts
<1> QED
  BY <1>2, <1>9, <1>10 DEF over, scenario

\* Between wallets that are known alike.
LEMMA KnownAnswer ==
    ASSUME NEW view, NEW c, NEW denied \in BOOLEAN, NEW caps, NEW periods,
           AlikeFails(view, c, denied, caps, periods)
    PROVE  Wizard!evaluateTransfer(view, c) =
             IF denied THEN "RECIPIENT_DENIED"
             ELSE IF \E cap \in caps : c.amount > cap THEN "TRANSFER_LIMIT_EXCEEDED"
             ELSE IF \E l \in periods : c.amount > l.amount THEN "PERIOD_LIMIT_EXCEEDED"
             ELSE "allowed"
<1> USE DEF AlikeFails
<1>1. /\ Wizard!REFUSAL_CODES[7] = "RECIPIENT_DENIED"
      /\ Wizard!REFUSAL_CODES[10] = "TRANSFER_LIMIT_EXCEEDED"
      /\ Wizard!REFUSAL_CODES[12] = "PERIOD_LIMIT_EXCEEDED"
  BY DEF Wizard!REFUSAL_CODES
<1>2. \A k \in {7, 10, 12} : k \in 1 .. 15
  OBVIOUS
<1>3. \A k \in {7, 10, 12} :
        Fails(k, view, c) /\ (\A i \in {7, 10, 12} : i < k => ~Fails(i, view, c)) =>
          Wizard!evaluateTransfer(view, c) = Wizard!REFUSAL_CODES[k]
  <2> SUFFICES ASSUME NEW k \in {7, 10, 12}, Fails(k, view, c),
                      \A i \in {7, 10, 12} : i < k => ~Fails(i, view, c)
               PROVE  Wizard!evaluateTransfer(view, c) = Wizard!REFUSAL_CODES[k]
    OBVIOUS
  <2>1. \A i \in 1 .. 15 : i < k => ~Fails(i, view, c)
    OBVIOUS
  <2> QED
    BY <1>2, <2>1, FirstAnswers
<1>4. CASE denied
  <2>1. Wizard!evaluateTransfer(view, c) = Wizard!REFUSAL_CODES[7]
    BY <1>3, <1>4
  <2> QED
    BY <1>1, <1>4, <2>1
<1>5. CASE ~denied /\ \E cap \in caps : c.amount > cap
  <2>1. Wizard!evaluateTransfer(view, c) = Wizard!REFUSAL_CODES[10]
    BY <1>3, <1>5
  <2> QED
    BY <1>1, <1>5, <2>1
<1>6. CASE ~denied /\ ~(\E cap \in caps : c.amount > cap) /\ \E l \in periods : c.amount > l.amount
  <2>1. Wizard!evaluateTransfer(view, c) = Wizard!REFUSAL_CODES[12]
    BY <1>3, <1>6
  <2> QED
    BY <1>1, <1>6, <2>1
<1>7. CASE ~denied /\ ~(\E cap \in caps : c.amount > cap) /\ ~(\E l \in periods : c.amount > l.amount)
  <2>1. \A i \in 1 .. 15 : ~Fails(i, view, c)
    BY <1>7
  <2>2. Wizard!evaluateTransfer(view, c) = "allowed"
    BY <2>1, FirstAnswers
  <2> QED
    BY <1>7, <2>2
<1> QED
  BY <1>4, <1>5, <1>6, <1>7

\* What the scenarios of a policy are answered.
LEMMA ScenarioAnswers ==
    ASSUME NEW policy, NEW sources, NEW tier, NEW age, NEW countries, NEW caps, NEW periods,
           Plain(policy, sources, tier, age, countries, caps, periods), NEW now \in Nat,
           NEW within \in Nat, NEW name, NEW c, Attempts(c, within, name, policy, now, periods)
    PROVE  Wizard!evaluateTransfer(PolicyOf(policy), c) =
             IF name = "unverified" THEN "RECIPIENT_STATUS_MISSING"
             ELSE IF name = "denied" THEN "RECIPIENT_DENIED"
             ELSE IF \E cap \in caps : within > cap THEN "TRANSFER_LIMIT_EXCEEDED"
             ELSE IF \E l \in periods : within > l.amount THEN "PERIOD_LIMIT_EXCEEDED"
             ELSE "allowed"
<1> DEFINE view == PolicyOf(policy)
<1>1. Views(view, sources, tier, age, countries, caps, periods)
  BY WizardViews
<1>2. Sane(sources, tier, age, periods)
  <2>1. periods \in SUBSET [amount : 0 .. MaxU64, windowSeconds : Nat]
    BY DEF Plain, Option
  <2>2. \A l \in [amount : 0 .. MaxU64, windowSeconds : Nat] : l \in [amount : Nat, windowSeconds : Nat]
    BY WidthAssumption
  <2> QED
    BY <2>1, <2>2 DEF Plain, Option, Sane
<1>3. PICK country :
        /\ OnLists(country, countries)
        /\ \A denied \in BOOLEAN :
             /\ Known(party(policy, now, TRUE, denied), sources, tier, country, denied, now)
             /\ \A s \in Source : party(policy, now, FALSE, denied)[s] = Absent
  BY PartyIs
<1>4. /\ c.now = now /\ c.policyVersion = c.mintPolicyVersion /\ c.amount = within
      /\ c.velocity = IF periods = {} THEN {} ELSE {[start |-> now, spent |-> 0]}
      /\ c.sender = party(policy, now, TRUE, FALSE)
      /\ c.recipient = party(policy, now, name # "unverified", name = "denied")
  BY DEF Attempts
<1> HIDE DEF view
<1>5. Known(c.sender, sources, tier, country, FALSE, now)
  BY <1>3, <1>4
<1>6. CASE name = "unverified"
  <2>1. \A s \in Source : c.recipient[s] = Absent
    <3>1. c.recipient = party(policy, now, FALSE, FALSE)
      BY <1>4, <1>6
    <3> QED
      BY <1>3, <3>1
  <2>2. SeenAlike(Wizard!viewParty(c.sender, view, now), tier, country, FALSE)
    BY <1>1, <1>2, <1>5, KnownSeen DEF Sane
  <2>3. ~Fails(1, view, c) /\ ~Fails(2, view, c)
    BY <1>4, <2>2 DEF SeenAlike, Fails, Wizard!CHECKS, Wizard!REFUSAL_CODES, Wizard!nothingKnown
  <2> QED
    BY <1>6, <2>1, <2>3, UnknownAnswer DEF view
<1>7. CASE name # "unverified"
  <2>1. PICK denied \in BOOLEAN : denied = (name = "denied")
    OBVIOUS
  <2>2. Known(c.recipient, sources, tier, country, denied, now)
    <3>1. c.recipient = party(policy, now, TRUE, denied)
      BY <1>4, <1>7, <2>1
    <3> QED
      BY <1>3, <3>1
  <2>3. AlikeFails(view, c, denied, caps, periods)
    <3>1. AtOnce(c, now, periods)
      BY <1>4 DEF AtOnce
    <3>2. OnLists(country, countries)
      BY <1>3
    <3> QED
      BY <1>1, <1>2, <1>5, <2>2, <3>1, <3>2, KnownFails
  <2>4. Wizard!evaluateTransfer(view, c) =
          IF denied THEN "RECIPIENT_DENIED"
          ELSE IF \E cap \in caps : c.amount > cap THEN "TRANSFER_LIMIT_EXCEEDED"
          ELSE IF \E l \in periods : c.amount > l.amount THEN "PERIOD_LIMIT_EXCEEDED"
          ELSE "allowed"
    BY <2>3, KnownAnswer
  <2> QED
    BY <1>4, <1>7, <2>1, <2>4 DEF view
<1> QED
  BY <1>6, <1>7

\* The policies the wizard makes are plain.
LEMMA ParsedPlain ==
    ASSUME NEW d \in Drafts, NEW policy \in parsedPolicy(d)
    PROVE  \E sources, tier, age, countries, caps, periods :
             Plain(policy, sources, tier, age, countries, caps, periods)
<1>1. Says(policy, d) /\ AcceptedRules(policy)
  BY DraftHas, ParsedSays
<1>2. PICK list, countries, period :
      /\ policy = [status |-> {[sources |-> list, minTier |-> d.minTier, maxAge |-> AgeOf(d)]},
                   jurisdictions |-> countries,
                   transferLimit |-> AmountOf(d, d.transferLimit), periodLimit |-> period]
      /\ ToSet(list) = ToSet(d.sources)
      /\ IF d.jurisdictions = <<>> THEN countries = {}
         ELSE \E codes : countries = {codes} /\ ToSet(codes) = ToSet(d.jurisdictions)
      /\ IF d.periodLimit.is = "blank" THEN period = {}
         ELSE \E a \in AmountOf(d, d.periodLimit), w \in hoursToSeconds(d.periodHours) :
                period = {[amount |-> a, windowSeconds |-> w]}
  BY <1>1 DEF Says
<1>3. PICK caps, age, tier : caps = AmountOf(d, d.transferLimit) /\ age = AgeOf(d) /\ tier = d.minTier
  OBVIOUS
<1>4. PICK status : status = [sources |-> list, minTier |-> tier, maxAge |-> age]
  OBVIOUS
<1>5. /\ policy.status = {status} /\ policy.jurisdictions = countries
      /\ policy.transferLimit = caps /\ policy.periodLimit = period
  BY <1>2, <1>3, <1>4
<1>6. status.sources = list /\ status.minTier = tier /\ status.maxAge = age
  BY <1>4
<1>7. The(policy.status) = status
  BY <1>5 DEF The
<1>8. /\ ToSet(list) \in SUBSET Source /\ ToSet(list) # {}
      /\ \A codes \in countries : codes \in Seq(Nat) /\ AcceptedJurisdictions(codes)
      /\ \A cap \in caps : AcceptedAmount(cap)
      /\ \A l \in period : AcceptedPeriod(l)
  BY <1>1, <1>5, <1>6 DEF AcceptedRules
<1>9. tier \in Nat
  BY <1>3, DraftHas
<1>10. age \in Option(Nat)
  <2>1. {} \in Option(Nat)
    BY DEF Option
  <2>2. hoursToSeconds(d.attestationAgeHours) \in Option(Nat)
    BY DraftHas, HoursAreOne
  <2> QED
    BY <1>3, <2>1, <2>2 DEF AgeOf
<1>11. countries \in Option(Seq(Nat) \ {<<>>})
  <2>1. \A codes \in countries : codes # <<>>
    BY <1>8 DEF AcceptedJurisdictions
  <2>2. \A x, y \in countries : x = y
    BY <1>2
  <2> QED
    BY <1>8, <2>1, <2>2 DEF Option
<1>12. caps \in Option(0 .. MaxU64)
  <2>1. \A x, y \in caps : x = y
    BY <1>3 DEF AmountOf, toSmallestUnit
  <2>2. \A x \in caps : x \in 0 .. MaxU64
    BY <1>8, WidthAssumption DEF AcceptedAmount
  <2> QED
    BY <2>1, <2>2 DEF Option
<1>13. period \in Option([amount : 0 .. MaxU64, windowSeconds : Nat])
  <2>1. CASE d.periodLimit.is = "blank"
    BY <1>2, <2>1 DEF Option
  <2>2. CASE d.periodLimit.is # "blank"
    <3>1. PICK a, w : period = {[amount |-> a, windowSeconds |-> w]}
      BY <1>2, <2>2
    <3>2. PICK x : x = [amount |-> a, windowSeconds |-> w]
      OBVIOUS
    <3>3. period = {x} /\ x.amount = a /\ x.windowSeconds = w
      BY <3>1, <3>2
    <3>4. a \in 0 .. MaxU64 /\ w \in Nat
      <4>1. AcceptedPeriod(x)
        BY <1>8, <3>3
      <4>2. MinPeriod \in Nat /\ MaxPeriod \in Nat /\ MaxU64 \in Nat
        BY LayoutAssumption, WidthAssumption
      <4> QED
        BY <3>3, <4>1, <4>2 DEF AcceptedPeriod, AcceptedAmount
    <3>5. x \in [amount : 0 .. MaxU64, windowSeconds : Nat]
      BY <3>2, <3>4
    <3> QED
      BY <3>3, <3>5 DEF Option
  <2> QED
    BY <2>1, <2>2
<1>14. Plain(policy, ToSet(list), tier, age, countries, caps, period)
  BY <1>5, <1>6, <1>7, <1>8, <1>9, <1>10, <1>11, <1>12, <1>13, Zenon DEF Plain
<1> QED
  BY <1>14

\* And their scenarios are answered as they are labelled.
LEMMA Labelled ==
    ASSUME NEW policy, NEW sources, NEW tier, NEW age, NEW countries, NEW caps, NEW periods,
           Plain(policy, sources, tier, age, countries, caps, periods), clock \in Nat
    PROVE  ScenariosAsLabelled(policy)
<1> DEFINE scenario(name) == buildScenario(policy, name, clock)
           c(name) == scenario(name).context
           answer(name) == simulateTransfer(policy, scenario(name))
           Some == ~(caps = {} /\ periods = {})
<1>1. PICK within \in Nat :
        /\ Holds(within, caps, periods)
        /\ IF caps = {} /\ periods = {} THEN bindingLimit(policy) = {} /\ within = 1
           ELSE /\ bindingLimit(policy) = {within}
                /\ within \in caps \/ \E l \in periods : within = l.amount
  BY BindingIs
<1>2. IF bindingLimit(policy) = {} THEN within = 1 ELSE bindingLimit(policy) = {within}
  BY <1>1
<1>3. bindingLimit(policy) # {} <=> Some
  BY <1>1
<1>4. ASSUME NEW name
      PROVE  LET over == name = "over-limit" /\ Some /\ within < MaxU64
             IN  /\ scenario(name).applicable <=> name # "over-limit" \/ over
                 /\ scenario(name).paused <=> name = "paused"
                 /\ Attempts(c(name), IF over THEN within + 1 ELSE within, name, policy, clock, periods)
  BY <1>2, <1>3, ScenarioIs
<1>5. ASSUME NEW name, name # "paused"
      PROVE  answer(name) = Wizard!evaluateTransfer(PolicyOf(policy), c(name))
  BY <1>4, <1>5 DEF simulateTransfer
<1>6. answer("paused") = "TRANSFERS_PAUSED"
  BY <1>4 DEF simulateTransfer
<1>7. ~(\E cap \in caps : within > cap) /\ ~(\E l \in periods : within > l.amount)
  <2>1. \A cap \in caps : cap \in Int
    BY WidthAssumption DEF Plain, Option
  <2>2. \A l \in periods : l.amount \in Int
    BY WidthAssumption DEF Plain, Option
  <2> QED
    BY <1>1, <2>1, <2>2 DEF Holds
<1> HIDE DEF scenario, answer
<1>8. /\ answer("verified") = "allowed" /\ answer("unverified") = "RECIPIENT_STATUS_MISSING"
      /\ answer("denied") = "RECIPIENT_DENIED"
  <2>1. ASSUME NEW name \in {"verified", "unverified", "denied"}
        PROVE  answer(name) = IF name = "unverified" THEN "RECIPIENT_STATUS_MISSING"
                              ELSE IF name = "denied" THEN "RECIPIENT_DENIED"
                              ELSE "allowed"
    <3>1. name # "over-limit" /\ name # "paused"
      OBVIOUS
    <3>2. Attempts(c(name), within, name, policy, clock, periods)
      BY <1>4, <3>1
    <3> HIDE DEF c
    <3>3. Wizard!evaluateTransfer(PolicyOf(policy), c(name)) =
            IF name = "unverified" THEN "RECIPIENT_STATUS_MISSING"
            ELSE IF name = "denied" THEN "RECIPIENT_DENIED"
            ELSE IF \E cap \in caps : within > cap THEN "TRANSFER_LIMIT_EXCEEDED"
            ELSE IF \E l \in periods : within > l.amount THEN "PERIOD_LIMIT_EXCEEDED"
            ELSE "allowed"
      BY <3>2, ScenarioAnswers
    <3>4. answer(name) = Wizard!evaluateTransfer(PolicyOf(policy), c(name))
      BY <1>5, <3>1 DEF c
    <3> QED
      BY <1>7, <3>3, <3>4
  <2> QED
    BY <2>1
<1>9. answer("over-limit") =
        IF ~scenario("over-limit").applicable THEN "allowed"
        ELSE IF bindingLimit(policy) = policy.transferLimit THEN "TRANSFER_LIMIT_EXCEEDED"
        ELSE "PERIOD_LIMIT_EXCEEDED"
  <2>1. PICK name : name = "over-limit"
    OBVIOUS
  <2>2. scenario(name).applicable <=> Some /\ within < MaxU64
    BY <1>4, <2>1
  <2>3. PICK amount \in Nat : /\ amount = IF Some /\ within < MaxU64 THEN within + 1 ELSE within
                              /\ Attempts(c(name), amount, name, policy, clock, periods)
    BY <1>4, <2>1
  <2>4. answer(name) =
          IF \E cap \in caps : amount > cap THEN "TRANSFER_LIMIT_EXCEEDED"
          ELSE IF \E l \in periods : amount > l.amount THEN "PERIOD_LIMIT_EXCEEDED"
          ELSE "allowed"
    <3>1. answer(name) = Wizard!evaluateTransfer(PolicyOf(policy), c(name))
      BY <1>5, <2>1
    <3>2. name # "unverified" /\ name # "denied"
      BY <2>1
    <3> HIDE DEF c
    <3>3. Wizard!evaluateTransfer(PolicyOf(policy), c(name)) =
            IF name = "unverified" THEN "RECIPIENT_STATUS_MISSING"
            ELSE IF name = "denied" THEN "RECIPIENT_DENIED"
            ELSE IF \E cap \in caps : amount > cap THEN "TRANSFER_LIMIT_EXCEEDED"
            ELSE IF \E l \in periods : amount > l.amount THEN "PERIOD_LIMIT_EXCEEDED"
            ELSE "allowed"
      BY <2>3, ScenarioAnswers
    <3> QED
      BY <3>1, <3>2, <3>3
  <2>5. CASE ~(Some /\ within < MaxU64)
    BY <1>7, <2>1, <2>2, <2>3, <2>4, <2>5
  <2>6. CASE Some /\ within < MaxU64
    <3>1. amount = within + 1 /\ bindingLimit(policy) = {within}
      BY <1>1, <2>3, <2>6
    <3>2. policy.transferLimit = caps /\ \A x, y \in caps : x = y
      BY DEF Plain, Option
    <3>3. CASE within \in caps
      <4>1. caps = {within} /\ \E cap \in caps : amount > cap
        <5>1. caps = {within}
          BY <3>2, <3>3
        <5>2. amount > within
          BY <3>1
        <5> QED
          BY <5>1, <5>2
      <4> QED
        BY <2>1, <2>2, <2>4, <2>6, <3>1, <3>2, <4>1
    <3>4. CASE within \notin caps
      <4>1. bindingLimit(policy) # policy.transferLimit
        BY <3>1, <3>2, <3>4
      <4>2. ~\E cap \in caps : amount > cap
        <5>1. \A cap \in caps : cap \in Int /\ within <= cap /\ within # cap
          BY <1>1, <3>4, WidthAssumption DEF Plain, Option, Holds
        <5> QED
          BY <3>1, <5>1
      <4>3. \E l \in periods : amount > l.amount
        BY <1>1, <2>6, <3>1, <3>4
      <4> QED
        BY <2>1, <2>2, <2>4, <2>6, <4>1, <4>2, <4>3
    <3> QED
      BY <3>3, <3>4
  <2> QED
    BY <2>5, <2>6
<1>10. \A name \in SCENARIO_NAMES : simulateScenarios(policy, clock)[name] = answer(name)
  BY DEF simulateScenarios, answer, scenario
<1>11. {"verified", "unverified", "denied", "paused", "over-limit"} \subseteq SCENARIO_NAMES
  BY DEF SCENARIO_NAMES
<1> QED
  BY <1>6, <1>8, <1>9, <1>10, <1>11 DEF ScenariosAsLabelled, scenario

-----------------------------------------------------------------------------
(* The founder's first transfer *)

\* The slots hold these rules, and no others.
Filled(slots, rules) ==
    /\ DOMAIN slots = 1 .. MaxSlots
    /\ \A i \in 1 .. MaxSlots : slots[i] = EmptySlot \/ slots[i] \in rules
    /\ \A slot \in rules : \E i \in 1 .. MaxSlots : slots[i] = slot

\* What the hook takes for a kind: its one slot.
LEMMA FirstIs ==
    ASSUME NEW slots, NEW rules, Filled(slots, rules), NEW kind \in 1 .. 4, NEW own \in SUBSET rules,
           \A x \in rules : x.kind = kind <=> x \in own,
           \A x, y \in own : x = y
    PROVE  FirstOf(slots, kind) = {x.params : x \in own}
<1> DEFINE found == {i \in DOMAIN slots : slots[i].kind = kind}
<1>1. DOMAIN slots = 1 .. MaxSlots /\ MaxSlots \in Nat
  BY LayoutAssumption DEF Filled
<1>2. EmptySlot.kind = 0
  BY DEF EmptySlot, Slot, EMPTY
<1>3. \A i \in found : slots[i] \in own
  BY <1>1, <1>2 DEF Filled
<1>4. \A x \in own : \E i \in found : slots[i] = x
  BY <1>1 DEF Filled
<1>5. found \in SUBSET Nat
  BY <1>1
<1>6. FirstOf(slots, kind) = IF found = {} THEN {} ELSE {slots[Min(found)].params}
  BY DEF FirstOf
<1> HIDE DEF found
<1>7. CASE own = {}
  BY <1>3, <1>6, <1>7
<1>8. CASE own # {}
  <2>1. PICK x \in own : TRUE
    BY <1>8
  <2>2. found # {}
    BY <1>4, <2>1
  <2>3. PICK first : first = Min(found)
    OBVIOUS
  <2>4. first \in found
    <3>1. \E i \in found : \A j \in found : i <= j
      BY <1>5, <2>2, LeastExists
    <3> QED
      BY <2>3, <3>1, Zenon DEF Min
  <2>5. slots[first] = x
    BY <1>3, <2>1, <2>4
  <2>6. own = {x}
    BY <2>1
  <2>7. FirstOf(slots, kind) = {x.params}
    BY <1>6, <2>2, <2>3, <2>5
  <2> QED
    BY <2>6, <2>7
<1> QED
  BY <1>7, <1>8

\* A rule that is there at most once is held as it is.
LEMMA OneHolds ==
    ASSUME NEW M, \A x, y \in M : x = y
    PROVE  ToSet(OneOf(M)) = M
<1>1. CASE M = {}
  BY <1>1 DEF OneOf, ToSet
<1>2. CASE M # {}
  <2>1. PICK x : x = CHOOSE slot \in M : TRUE
    OBVIOUS
  <2>2. x \in M /\ OneOf(M) = <<x>>
    BY <1>2, <2>1 DEF OneOf
  <2>3. ToSet(<<x>>) = {x}
    BY DEF ToSet
  <2> QED
    BY <2>2, <2>3
<1> QED
  BY <1>1, <1>2

\* The slots of a plain policy, kind by kind.
StatusSlots(status) == {Slot(STATUS, StatusParams(s)) : s \in status}
CountrySlots(countries) == {Slot(JURISDICTIONS, codes) : codes \in countries}
CapSlots(caps) == {Slot(TRANSFER_LIMIT, <<a>>) : a \in caps}
PeriodSlots(periods) == {Slot(PERIOD_LIMIT, <<l.amount, l.windowSeconds>>) : l \in periods}

\* They are its rules' slots, none of them more than one.
LEMMA PlainSlots ==
    ASSUME NEW policy, NEW sources, NEW tier, NEW age, NEW countries, NEW caps, NEW periods,
           Plain(policy, sources, tier, age, countries, caps, periods)
    PROVE  /\ RuleSlots(policy) = StatusSlots(policy.status) \cup CountrySlots(countries)
                                    \cup CapSlots(caps) \cup PeriodSlots(periods)
           /\ \A x, y \in StatusSlots(policy.status) : x = y
           /\ \A x, y \in CountrySlots(countries) : x = y
           /\ \A x, y \in CapSlots(caps) : x = y
           /\ \A x, y \in PeriodSlots(periods) : x = y
<1>1. PICK status : policy.status = {status}
  BY DEF Plain
<1>2. \A x, y \in StatusSlots(policy.status) : x = y
  BY <1>1 DEF StatusSlots
<1>3. \A x, y \in countries : x = y
  BY DEF Plain, Option
<1>4. \A x, y \in caps : x = y
  BY DEF Plain, Option
<1>5. \A x, y \in periods : x = y
  BY DEF Plain, Option
<1>6. \A x, y \in CountrySlots(countries) : x = y
  BY <1>3 DEF CountrySlots
<1>7. \A x, y \in CapSlots(caps) : x = y
  BY <1>4 DEF CapSlots
<1>8. \A x, y \in PeriodSlots(periods) : x = y
  BY <1>5 DEF PeriodSlots
<1>9. policy.jurisdictions = countries /\ policy.transferLimit = caps /\ policy.periodLimit = periods
  BY DEF Plain
<1>10. RuleSlots(policy) = ToSet(OneOf(StatusSlots(policy.status)))
                             \cup ToSet(OneOf(CountrySlots(countries)))
                             \cup ToSet(OneOf(CapSlots(caps))) \cup ToSet(OneOf(PeriodSlots(periods)))
  BY <1>9 DEF RuleSlots, StatusSlots, CountrySlots, CapSlots, PeriodSlots
<1>11. /\ ToSet(OneOf(StatusSlots(policy.status))) = StatusSlots(policy.status)
       /\ ToSet(OneOf(CountrySlots(countries))) = CountrySlots(countries)
       /\ ToSet(OneOf(CapSlots(caps))) = CapSlots(caps)
       /\ ToSet(OneOf(PeriodSlots(periods))) = PeriodSlots(periods)
  BY <1>2, <1>6, <1>7, <1>8, OneHolds
<1> QED
  BY <1>2, <1>6, <1>7, <1>8, <1>10, <1>11

\* A slot has the kind and the words it was made of.
LEMMA SlotIs ==
    ASSUME NEW kind, NEW words
    PROVE  Slot(kind, words).kind = kind /\ Slot(kind, words).params = Params(words)
<1>1. PICK p : p = Params(words)
  OBVIOUS
<1>2. Slot(kind, words) = [kind |-> kind, op |-> 0, params |-> p]
  BY <1>1 DEF Slot
<1> QED
  BY <1>1, <1>2

\* A word of a slot that has room for it.
LEMMA WordIs ==
    ASSUME NEW words, NEW n \in 1 .. 4, Len(words) = n, NEW i \in 1 .. n
    PROVE  Params(words)[i] = words[i]
<1>1. i \in 1 .. Fields /\ i <= Len(words) /\ Len(words) \in Nat
  BY LayoutAssumption
<1> QED
  BY <1>1, ParamsAre

\* The hook reads in the slots what the wizard means by the policy.
LEMMA HookReads ==
    ASSUME NEW policy, NEW sources, NEW tier, NEW age, NEW countries, NEW caps, NEW periods,
           Plain(policy, sources, tier, age, countries, caps, periods), AcceptedRules(policy),
           NEW slots, Filled(slots, RuleSlots(policy))
    PROVE  /\ Views(ReadPolicy(slots), sources, tier, age, countries, caps, periods)
           /\ ~ReadPolicy(slots).unknownKind
<1> DEFINE rules == RuleSlots(policy)
<1>1. /\ STATUS = 1 /\ JURISDICTIONS = 2 /\ TRANSFER_LIMIT = 3 /\ PERIOD_LIMIT = 4
      /\ 1 \in 1 .. 4 /\ 2 \in 1 .. 4 /\ 3 \in 1 .. 4 /\ 4 \in 1 .. 4
  BY DEF STATUS, JURISDICTIONS, TRANSFER_LIMIT, PERIOD_LIMIT
<1>2. /\ rules = StatusSlots(policy.status) \cup CountrySlots(countries)
                   \cup CapSlots(caps) \cup PeriodSlots(periods)
      /\ \A x, y \in StatusSlots(policy.status) : x = y
      /\ \A x, y \in CountrySlots(countries) : x = y
      /\ \A x, y \in CapSlots(caps) : x = y
      /\ \A x, y \in PeriodSlots(periods) : x = y
  BY PlainSlots
<1> HIDE DEF rules
<1>3. /\ \A x \in StatusSlots(policy.status) : x.kind = 1
      /\ \A x \in CountrySlots(countries) : x.kind = 2
      /\ \A x \in CapSlots(caps) : x.kind = 3
      /\ \A x \in PeriodSlots(periods) : x.kind = 4
  <2>1. \A x \in StatusSlots(policy.status) : x.kind = 1
    BY <1>1, SlotIs DEF StatusSlots
  <2>2. \A x \in CountrySlots(countries) : x.kind = 2
    BY <1>1, SlotIs DEF CountrySlots
  <2>3. \A x \in CapSlots(caps) : x.kind = 3
    <3> DEFINE Given(a) == <<a>>
    <3>1. CapSlots(caps) = {Slot(TRANSFER_LIMIT, Given(a)) : a \in caps}
      BY DEF CapSlots
    <3> HIDE DEF Given
    <3> QED
      BY <1>1, <3>1, SlotIs
  <2>4. \A x \in PeriodSlots(periods) : x.kind = 4
    <3> DEFINE Given(l) == <<l.amount, l.windowSeconds>>
    <3>1. PeriodSlots(periods) = {Slot(PERIOD_LIMIT, Given(l)) : l \in periods}
      BY DEF PeriodSlots
    <3> HIDE DEF Given
    <3> QED
      BY <1>1, <3>1, SlotIs
  <2> QED
    BY <2>1, <2>2, <2>3, <2>4
<1>4. /\ StatusSlots(policy.status) \in SUBSET rules /\ CountrySlots(countries) \in SUBSET rules
      /\ CapSlots(caps) \in SUBSET rules /\ PeriodSlots(periods) \in SUBSET rules
      /\ \A x \in rules : x.kind = 1 <=> x \in StatusSlots(policy.status)
      /\ \A x \in rules : x.kind = 2 <=> x \in CountrySlots(countries)
      /\ \A x \in rules : x.kind = 3 <=> x \in CapSlots(caps)
      /\ \A x \in rules : x.kind = 4 <=> x \in PeriodSlots(periods)
  <2>1. PICK a, b, c, e : /\ a = StatusSlots(policy.status) /\ b = CountrySlots(countries)
                          /\ c = CapSlots(caps) /\ e = PeriodSlots(periods)
    OBVIOUS
  <2>2. rules = a \cup b \cup c \cup e
    BY <1>2, <2>1
  <2>3. /\ \A x \in a : x.kind = 1
        /\ \A x \in b : x.kind = 2
        /\ \A x \in c : x.kind = 3
        /\ \A x \in e : x.kind = 4
    BY <1>3, <2>1
  <2>4. /\ \A x \in rules : x.kind = 1 <=> x \in a
        /\ \A x \in rules : x.kind = 2 <=> x \in b
        /\ \A x \in rules : x.kind = 3 <=> x \in c
        /\ \A x \in rules : x.kind = 4 <=> x \in e
    BY <2>2, <2>3
  <2> QED
    BY <2>1, <2>2, <2>4
<1>5. Filled(slots, rules)
  BY DEF rules
<1>6. /\ FirstOf(slots, STATUS) = {x.params : x \in StatusSlots(policy.status)}
      /\ FirstOf(slots, JURISDICTIONS) = {x.params : x \in CountrySlots(countries)}
      /\ FirstOf(slots, TRANSFER_LIMIT) = {x.params : x \in CapSlots(caps)}
      /\ FirstOf(slots, PERIOD_LIMIT) = {x.params : x \in PeriodSlots(periods)}
  <2>1. FirstOf(slots, 1) = {x.params : x \in StatusSlots(policy.status)}
    BY <1>1, <1>2, <1>4, <1>5, FirstIs
  <2>2. FirstOf(slots, 2) = {x.params : x \in CountrySlots(countries)}
    BY <1>1, <1>2, <1>4, <1>5, FirstIs
  <2>3. FirstOf(slots, 3) = {x.params : x \in CapSlots(caps)}
    BY <1>1, <1>2, <1>4, <1>5, FirstIs
  <2>4. FirstOf(slots, 4) = {x.params : x \in PeriodSlots(periods)}
    BY <1>1, <1>2, <1>4, <1>5, FirstIs
  <2> QED
    BY <1>1, <2>1, <2>2, <2>3, <2>4
<1>7. PICK status : policy.status = {status} /\ status = The(policy.status)
  BY DEF Plain
<1>8. /\ ToSet(status.sources) = sources /\ status.minTier = tier /\ status.maxAge = age
      /\ sources \in SUBSET Source /\ sources # {} /\ age \in Option(Nat)
  BY <1>7 DEF Plain
<1>9. PICK p : p = Params(StatusParams(status))
  OBVIOUS
<1>10. FirstOf(slots, STATUS) = {p}
  <2>1. Slot(STATUS, StatusParams(status)).params = p
    BY <1>9, SlotIs
  <2>2. StatusSlots(policy.status) = {Slot(STATUS, StatusParams(status))}
    BY <1>7 DEF StatusSlots
  <2> QED
    BY <1>6, <2>1, <2>2
<1>11. Fields \in Nat /\ Fields >= 4
  BY LayoutAssumption
<1>12. SourcesOf(p[1]) = sources /\ p[2] = tier /\ {p[3]} \ {0} = age
  <2>1. PICK seconds : seconds = IF age = {} THEN 0 ELSE CHOOSE a \in age : TRUE
    OBVIOUS
  <2>2. PICK mask : mask = StatusSourceMask(status.sources)
    OBVIOUS
  <2>3. PICK words : words = <<mask, tier, seconds>>
    OBVIOUS
  <2>4. StatusParams(status) = words
    BY <1>8, <2>1, <2>2, <2>3 DEF StatusParams
  <2>5. Len(words) = 3 /\ words[1] = mask /\ words[2] = tier /\ words[3] = seconds
    BY <2>3
  <2>6. p[1] = mask /\ p[2] = tier /\ p[3] = seconds
    <3>1. 3 \in 1 .. 4 /\ 1 \in 1 .. 3 /\ 2 \in 1 .. 3 /\ 3 \in 1 .. 3
      OBVIOUS
    <3> QED
      BY <1>9, <2>4, <2>5, <3>1, WordIs
  <2>7. SourcesOf(mask) = sources
    BY <1>8, <2>2, SourcesBack
  <2>8. {seconds} \ {0} = age
    <3>1. CASE age = {}
      BY <2>1, <3>1
    <3>2. CASE age # {}
      <4>1. age = {seconds}
        BY <1>8, <2>1, <3>2 DEF Option
      <4>2. age \subseteq MinAge .. MaxAge
        BY <1>7, <1>8 DEF AcceptedRules, AcceptedStatus
      <4>3. seconds # 0
        BY <4>1, <4>2, LayoutAssumption
      <4> QED
        BY <4>1, <4>3
    <3> QED
      BY <3>1, <3>2
  <2> QED
    BY <2>6, <2>7, <2>8
<1>13. {ToSet(CodesOf(q)) : q \in FirstOf(slots, JURISDICTIONS)} = {ToSet(codes) : codes \in countries}
  <2>1. FirstOf(slots, JURISDICTIONS) = {Params(codes) : codes \in countries}
    <3>1. \A codes \in countries : Slot(JURISDICTIONS, codes).params = Params(codes)
      BY SlotIs
    <3> QED
      BY <1>6, <3>1 DEF CountrySlots
  <2>2. \A codes \in countries : CodesOf(Params(codes)) = codes
    <3>1. \A codes \in countries : codes \in Seq(Nat) /\ AcceptedJurisdictions(codes)
      BY DEF Plain, AcceptedRules
    <3> QED
      BY <3>1, CountriesBack
  <2> QED
    BY <2>1, <2>2
<1>14. {q[1] : q \in FirstOf(slots, TRANSFER_LIMIT)} = caps
  <2>1. FirstOf(slots, TRANSFER_LIMIT) = {Params(<<a>>) : a \in caps}
    <3>1. \A a \in caps : Slot(TRANSFER_LIMIT, <<a>>).params = Params(<<a>>)
      BY SlotIs
    <3> DEFINE S(a) == Slot(TRANSFER_LIMIT, <<a>>)
               P(a) == Params(<<a>>)
    <3>2. FirstOf(slots, TRANSFER_LIMIT) = {x.params : x \in {S(a) : a \in caps}}
      BY <1>6 DEF CapSlots
    <3>3. \A a \in caps : S(a).params = P(a)
      BY <3>1
    <3> HIDE DEF S, P
    <3>4. FirstOf(slots, TRANSFER_LIMIT) = {P(a) : a \in caps}
      BY <3>2, <3>3
    <3> QED
      BY <3>4 DEF P
  <2>2. ASSUME NEW a \in caps
        PROVE  Params(<<a>>)[1] = a
    <3>1. PICK words : words = <<a>>
      OBVIOUS
    <3>2. Len(words) = 1 /\ words[1] = a /\ 1 \in 1 .. 4 /\ 1 \in 1 .. 1
      BY <3>1
    <3>3. Params(words)[1] = words[1]
      BY <3>2, WordIs
    <3> QED
      BY <3>1, <3>2, <3>3
  <2> DEFINE P(a) == Params(<<a>>)
  <2> HIDE DEF P
  <2>3. FirstOf(slots, TRANSFER_LIMIT) = {P(a) : a \in caps} /\ \A a \in caps : P(a)[1] = a
    BY <2>1, <2>2 DEF P
  <2> QED
    BY <2>3
<1>15. {[amount |-> q[1], window |-> q[2]] : q \in FirstOf(slots, PERIOD_LIMIT)}
         = {[amount |-> l.amount, window |-> l.windowSeconds] : l \in periods}
  <2> DEFINE Given(l) == <<l.amount, l.windowSeconds>>
             P(l) == Params(Given(l))
  <2>1. PeriodSlots(periods) = {Slot(PERIOD_LIMIT, Given(l)) : l \in periods}
    BY DEF PeriodSlots
  <2>2. \A l \in periods : Len(Given(l)) = 2 /\ Given(l)[1] = l.amount /\ Given(l)[2] = l.windowSeconds
    OBVIOUS
  <2> HIDE DEF Given
  <2>3. \A l \in periods : Slot(PERIOD_LIMIT, Given(l)).params = P(l)
    BY SlotIs
  <2>4. \A l \in periods : P(l)[1] = l.amount /\ P(l)[2] = l.windowSeconds
    <3>1. 2 \in 1 .. 4 /\ 1 \in 1 .. 2 /\ 2 \in 1 .. 2
      OBVIOUS
    <3> QED
      BY <2>2, <3>1, WordIs
  <2> HIDE DEF P
  <2>5. FirstOf(slots, PERIOD_LIMIT) = {P(l) : l \in periods}
    BY <1>6, <2>1, <2>3
  <2> QED
    BY <2>4, <2>5
<1>16. \A i \in DOMAIN slots : ~(slots[i].kind > PERIOD_LIMIT)
  <2>1. EmptySlot.kind = 0
    BY DEF EmptySlot, Slot, EMPTY
  <2>2. \A x \in rules : x.kind \in 1 .. 4
    BY <1>1, <1>2, <1>3
  <2> QED
    BY <1>1, <1>5, <2>1, <2>2 DEF Filled
<1>17. PICK view : view = ReadPolicy(slots)
  OBVIOUS
<1>18. /\ view.sources = sources /\ view.minTier = tier /\ view.maxAge = age
       /\ view.jurisdictions = {ToSet(codes) : codes \in countries}
       /\ view.transferLimit = caps
       /\ view.periodLimit = {[amount |-> l.amount, window |-> l.windowSeconds] : l \in periods}
       /\ ~view.unknownKind
  <2>1. PICK lists, limits :
          /\ lists = {ToSet(CodesOf(q)) : q \in FirstOf(slots, JURISDICTIONS)}
          /\ limits = {[amount |-> q[1], window |-> q[2]] : q \in FirstOf(slots, PERIOD_LIMIT)}
    OBVIOUS
  <2>2. UNION {SourcesOf(q[1]) : q \in FirstOf(slots, STATUS)} = sources
    BY <1>10, <1>12
  <2>3. (IF FirstOf(slots, STATUS) = {} THEN 0 ELSE (CHOOSE q \in FirstOf(slots, STATUS) : TRUE)[2]) = tier
    <3>1. (CHOOSE q \in {p} : TRUE) = p
      OBVIOUS
    <3> QED
      BY <1>10, <1>12, <3>1
  <2>4. {q[3] : q \in FirstOf(slots, STATUS)} \ {0} = age
    BY <1>10, <1>12
  <2>5. PICK unknown \in BOOLEAN : unknown = \E i \in DOMAIN slots : slots[i].kind > PERIOD_LIMIT
    OBVIOUS
  <2>6. view = [sources |-> sources, minTier |-> tier, maxAge |-> age, jurisdictions |-> lists,
                transferLimit |-> caps, periodLimit |-> limits, unknownKind |-> unknown]
    BY <1>14, <1>17, <2>1, <2>2, <2>3, <2>4, <2>5, Zenon DEF ReadPolicy
  <2>7. ~unknown
    BY <1>16, <2>5
  <2>8. /\ view.sources = sources /\ view.minTier = tier /\ view.maxAge = age
        /\ view.jurisdictions = lists /\ view.transferLimit = caps
        /\ view.periodLimit = limits /\ view.unknownKind = unknown
    BY <2>6
  <2> QED
    BY <1>13, <1>15, <2>1, <2>7, <2>8
<1> QED
  BY <1>17, <1>18 DEF Views

\* The program's answer is its first check that fails.
LEMMA HookAnswers ==
    ASSUME NEW view, NEW c
    PROVE  /\ (\A i \in 1 .. 13 : ~Checks(view, c)[i][2]) => Evaluate(view, c) = "allowed"
           /\ \A k \in 1 .. 13 :
                Checks(view, c)[k][2] /\ (\A i \in 1 .. 13 : i < k => ~Checks(view, c)[i][2]) =>
                  Evaluate(view, c) = Checks(view, c)[k][1]
<1> DEFINE checks == Checks(view, c)
           failed == {i \in DOMAIN checks : checks[i][2]}
<1>1. DOMAIN checks = 1 .. 13
  BY DEF Checks
<1>2. Evaluate(view, c) = IF failed = {} THEN "allowed"
                          ELSE checks[CHOOSE i \in failed : \A j \in failed : i <= j][1]
  BY DEF Evaluate
<1> HIDE DEF checks
<1>3. ASSUME NEW k \in 1 .. 13, checks[k][2], \A i \in 1 .. 13 : i < k => ~checks[i][2]
      PROVE  Evaluate(view, c) = checks[k][1]
  <2>1. k \in failed /\ \A i \in failed : k <= i /\ i \in 1 .. 13
    BY <1>1, <1>3
  <2> HIDE DEF failed
  <2>2. PICK min : min = CHOOSE i \in failed : \A j \in failed : i <= j
    OBVIOUS
  <2>3. min \in failed /\ \A i \in failed : min <= i
    BY <2>1, <2>2, Zenon
  <2>4. min = k
    <3>1. min <= k /\ k <= min /\ min \in 1 .. 13
      BY <2>1, <2>3
    <3> QED
      BY <3>1
  <2> QED
    BY <1>2, <2>1, <2>2, <2>4
<1>4. ASSUME \A i \in 1 .. 13 : ~checks[i][2]
      PROVE  Evaluate(view, c) = "allowed"
  <2>1. failed = {}
    BY <1>1, <1>4
  <2> QED
    BY <1>2, <2>1
<1> QED
  BY <1>3, <1>4 DEF checks

\* What the program has of the founder: the register's record, and no other.
Recorded(p) ==
    /\ p["provider"].state = "absent" /\ p["register"].state = "record"
    /\ p["register"].denied = FALSE /\ p["register"].expires = {}

\* What the program finds of a party that is known alike.
FoundAlike(p, view, tier, country, now) ==
    /\ ~OutOfReach(p) /\ ~NothingKnown(p, view, now) /\ ~OnlyUnaccepted(p, view, now)
    /\ ~Denied(p, view, now) /\ ~TierTooLow(p, view, now) /\ ~JurisdictionRefused(p, view, now)

\* So finds the program a party that is known alike.
LEMMA KnownFound ==
    ASSUME NEW view, NEW sources, NEW tier, NEW age, NEW countries, NEW caps, NEW periods,
           Views(view, sources, tier, age, countries, caps, periods),
           Sane(sources, tier, age, periods),
           NEW country, OnLists(country, countries), NEW now \in Nat, NEW p,
           Known(p, sources, tier, country, FALSE, now)
    PROVE  FoundAlike(p, view, tier, country, now)
<1> USE DEF Sane
<1>1. ASSUME NEW s \in sources
      PROVE  /\ p[s].state = "record" /\ p[s].denied = FALSE /\ p[s].tier = tier
             /\ p[s].jurisdiction = country /\ p[s].expires = {} /\ p[s].issued = now
             /\ s \in Source
  <2>1. p[s] = [state |-> "record", denied |-> FALSE, tier |-> tier,
                jurisdiction |-> country, expires |-> {}, issued |-> now]
    BY DEF Known
  <2> QED
    BY <2>1
<1>2. \A s \in Source \ sources : p[s].state = "absent"
  BY DEF Known, Absent
<1>3. Fresh(p, view, now) = sources
  <2>1. ASSUME NEW s \in sources PROVE s \in Fresh(p, view, now)
    <3>1. s = "provider" => ProviderCurrent(p[s], view, now)
      <4>1. \A a \in view.maxAge : a \in Nat /\ now - now <= a
        <5>1. now - now = 0 /\ view.maxAge \in SUBSET Nat
          BY DEF Views
        <5> QED
          BY <5>1
      <4>2. \A a \in view.maxAge : now - p[s].issued <= a
        BY <1>1, <4>1
      <4> QED
        BY <1>1, <4>2 DEF ProviderCurrent, IsCurrent
    <3>2. IsCurrent(p[s], now)
      BY <1>1 DEF IsCurrent
    <3> QED
      BY <1>1, <3>1, <3>2 DEF Fresh
  <2>2. ASSUME NEW s \in Fresh(p, view, now) PROVE s \in sources
    BY <1>2 DEF Fresh
  <2> QED
    BY <2>1, <2>2
<1>4. Accepted(p, view, now) = sources
  BY <1>3 DEF Accepted, Views
<1>5. ~OutOfReach(p)
  BY <1>1, <1>2 DEF OutOfReach
<1>6. ~NothingKnown(p, view, now) /\ ~OnlyUnaccepted(p, view, now)
  BY <1>3, <1>4 DEF NothingKnown, OnlyUnaccepted
<1>7. ~Denied(p, view, now)
  BY <1>1, <1>3 DEF Denied
<1>8. ~TierTooLow(p, view, now)
  <2>1. view.minTier = tier /\ ~(tier < tier)
    BY DEF Views
  <2> QED
    BY <1>1, <1>4, <2>1 DEF TierTooLow
<1>9. ~JurisdictionRefused(p, view, now)
  <2>1. \A allowed \in view.jurisdictions : country \in allowed
    BY DEF Views, OnLists
  <2> QED
    BY <1>1, <1>4, <2>1 DEF JurisdictionRefused
<1> QED
  BY <1>5, <1>6, <1>7, <1>8, <1>9 DEF FoundAlike

\* Between the founder and such a party, within the limits.
LEMMA FounderAnswer ==
    ASSUME NEW view, NEW sources, NEW tier, NEW age, NEW countries, NEW caps, NEW periods,
           Views(view, sources, tier, age, countries, caps, periods), ~view.unknownKind,
           Sane(sources, tier, age, periods),
           \A l \in periods : l.amount <= MaxU64,
           NEW country, OnLists(country, countries), NEW now \in Nat,
           NEW c, AtOnce(c, now, periods), Recorded(c.sender),
           Known(c.recipient, sources, tier, country, FALSE, now),
           ~\E cap \in caps : c.amount > cap, ~\E l \in periods : c.amount > l.amount
    PROVE  Evaluate(view, c) =
             IF "register" \in sources THEN "allowed" ELSE "STATUS_SOURCE_NOT_ACCEPTED"
<1> USE DEF Sane, AtOnce
<1> DEFINE sender == c.sender
           recipient == c.recipient
<1>1. FoundAlike(recipient, view, tier, country, now)
  BY KnownFound
<1>2. Fresh(sender, view, now) = {"register"}
  BY DEF Recorded, Fresh, Source, IsCurrent
<1>3. /\ ~OutOfReach(sender) /\ ~NothingKnown(sender, view, now) /\ ~Denied(sender, view, now)
      /\ OnlyUnaccepted(sender, view, now) <=> "register" \notin sources
  <2>1. ~OutOfReach(sender)
    BY DEF Recorded, OutOfReach, Source
  <2>2. ~Denied(sender, view, now)
    BY <1>2 DEF Recorded, Denied
  <2>3. OnlyUnaccepted(sender, view, now) <=> "register" \notin sources
    BY <1>2 DEF OnlyUnaccepted, Accepted, Views
  <2> QED
    BY <1>2, <2>1, <2>2, <2>3 DEF NothingKnown
<1>4. ~PeriodExceeded(view, c)
  <2>1. CASE periods = {}
    BY <2>1 DEF Views, PeriodExceeded
  <2>2. CASE periods # {}
    <3>1. PICK counter : counter = [start |-> now, spent |-> 0]
      OBVIOUS
    <3>2. c.velocity = {counter} /\ counter.spent = 0
      BY <2>2, <3>1
    <3>3. ASSUME NEW limit \in view.periodLimit
          PROVE  ~(SaturatingAdd(0, c.amount) > limit.amount)
      <4>1. PICK l \in periods : limit = [amount |-> l.amount, window |-> l.windowSeconds]
        BY DEF Views
      <4>2. limit.amount = l.amount /\ l.amount \in Nat /\ MaxU64 \in Nat
        BY <4>1, WidthAssumption
      <4> QED
        BY <4>2 DEF SaturatingAdd
    <3>4. \A limit \in view.periodLimit :
            (IF WindowOpen(counter, limit, c.now) THEN counter.spent ELSE 0) = 0
      BY <3>2
    <3> QED
      BY <3>2, <3>3, <3>4 DEF PeriodExceeded
  <2> QED
    BY <2>1, <2>2
<1>5. view.periodLimit # {} => c.velocity # {}
  BY DEF Views
<1>6. ~\E limit \in view.transferLimit : c.amount > limit
  BY DEF Views
<1> DEFINE checks == Checks(view, c)
<1>7. /\ checks[1][2] <=> c.policyVersion # c.mintPolicyVersion
      /\ checks[2][2] <=> NothingKnown(sender, view, now)
      /\ checks[3][2] <=> NothingKnown(recipient, view, now)
      /\ checks[4][2] <=> OnlyUnaccepted(sender, view, now) \/ OnlyUnaccepted(recipient, view, now)
      /\ checks[5][2] <=> OutOfReach(sender) \/ OutOfReach(recipient)
      /\ checks[6][2] <=> Denied(sender, view, now)
      /\ checks[7][2] <=> Denied(recipient, view, now)
      /\ checks[8][2] <=> TierTooLow(recipient, view, now)
      /\ checks[9][2] <=> JurisdictionRefused(recipient, view, now)
      /\ checks[10][2] <=> \E limit \in view.transferLimit : c.amount > limit
      /\ checks[11][2] <=> view.periodLimit # {} /\ c.velocity = {}
      /\ checks[12][2] <=> PeriodExceeded(view, c)
      /\ checks[13][2] <=> view.unknownKind
      /\ checks[4][1] = "STATUS_SOURCE_NOT_ACCEPTED"
  BY DEF Checks
<1> HIDE DEF checks, sender, recipient
<1>8. /\ ~checks[1][2] /\ ~checks[2][2] /\ ~checks[3][2] /\ ~checks[5][2] /\ ~checks[6][2]
      /\ ~checks[7][2] /\ ~checks[8][2] /\ ~checks[9][2] /\ ~checks[10][2] /\ ~checks[11][2]
      /\ ~checks[12][2] /\ ~checks[13][2]
  BY <1>1, <1>3, <1>4, <1>5, <1>6, <1>7 DEF FoundAlike
<1>9. checks[4][2] <=> "register" \notin sources
  BY <1>1, <1>3, <1>7 DEF FoundAlike
<1>10. \A i \in 1 .. 13 : i \in {1, 2, 3, 4, 5, 6, 7, 8, 9, 10, 11, 12, 13}
  OBVIOUS
<1>11. \A i \in 1 .. 13 : i # 4 => ~checks[i][2]
  BY <1>8, <1>10
<1>12. CASE "register" \in sources
  <2>1. \A i \in 1 .. 13 : ~checks[i][2]
    BY <1>9, <1>11, <1>12
  <2> QED
    BY <1>12, <2>1, HookAnswers DEF checks
<1>13. CASE "register" \notin sources
  <2>1. 4 \in 1 .. 13 /\ checks[4][2] /\ \A i \in 1 .. 13 : i < 4 => ~checks[i][2]
    BY <1>9, <1>11, <1>13
  <2>2. Evaluate(view, c) = checks[4][1]
    BY <2>1, HookAnswers DEF checks
  <2> QED
    BY <1>7, <1>13, <2>2
<1> QED
  BY <1>12, <1>13

\* The founder's first transfer, of an amount within the limits.
LEMMA FirstTransferIs ==
    ASSUME NEW policy, NEW sources, NEW tier, NEW age, NEW countries, NEW caps, NEW periods,
           Plain(policy, sources, tier, age, countries, caps, periods), NEW now, NEW founder
    PROVE  LET c == [buildScenario(policy, "verified", now).context EXCEPT !.sender = founder]
           IN  /\ AtOnce(c, now, periods) /\ c.sender = founder
               /\ c.recipient = party(policy, now, TRUE, FALSE)
               /\ ~\E cap \in caps : c.amount > cap
               /\ ~\E l \in periods : c.amount > l.amount
<1>1. PICK within \in Nat :
        /\ Holds(within, caps, periods)
        /\ IF caps = {} /\ periods = {} THEN bindingLimit(policy) = {} /\ within = 1
           ELSE /\ bindingLimit(policy) = {within}
                /\ within \in caps \/ \E l \in periods : within = l.amount
  BY BindingIs
<1>2. IF bindingLimit(policy) = {} THEN within = 1 ELSE bindingLimit(policy) = {within}
  BY <1>1
<1>3. PICK scenario, name : scenario = buildScenario(policy, name, now) /\ name = "verified"
  OBVIOUS
<1>4. PICK given : given = scenario.context
  OBVIOUS
<1>5. Attempts(given, within, name, policy, now, periods)
  <2>1. LET over == name = "over-limit" /\ bindingLimit(policy) # {} /\ within < MaxU64
        IN  Attempts(buildScenario(policy, name, now).context, IF over THEN within + 1 ELSE within,
                     name, policy, now, periods)
    BY <1>2, ScenarioIs
  <2> QED
    BY <1>3, <1>4, <2>1
<1>6. PICK amount, sender, recipient, velocity :
        given = [now |-> now, sender |-> sender, recipient |-> recipient, amount |-> amount,
                 velocity |-> velocity, policyVersion |-> 1, mintPolicyVersion |-> 1]
  <2>1. PICK amount, sender, recipient : given = context(policy, now, amount, sender, recipient)
    BY <1>3, <1>4 DEF buildScenario
  <2>2. PICK velocity : velocity = IF policy.periodLimit = {} THEN {} ELSE {[start |-> now, spent |-> 0]}
    OBVIOUS
  <2> QED
    BY <2>1, <2>2 DEF context
<1>7. PICK c : c = [given EXCEPT !.sender = founder]
  OBVIOUS
<1>8. /\ c.sender = founder /\ c.now = given.now /\ c.recipient = given.recipient
      /\ c.amount = given.amount /\ c.velocity = given.velocity
      /\ c.policyVersion = given.policyVersion /\ c.mintPolicyVersion = given.mintPolicyVersion
  BY <1>6, <1>7
<1>9. /\ given.now = now /\ given.policyVersion = given.mintPolicyVersion /\ given.amount = within
      /\ given.velocity = IF periods = {} THEN {} ELSE {[start |-> now, spent |-> 0]}
      /\ given.recipient = party(policy, now, TRUE, FALSE)
  <2>1. name # "unverified" /\ ~(name = "denied")
    BY <1>3
  <2> QED
    BY <1>5, <2>1 DEF Attempts
<1>10. ~(\E cap \in caps : within > cap) /\ ~(\E l \in periods : within > l.amount)
  <2>1. \A cap \in caps : cap \in Int
    BY WidthAssumption DEF Plain, Option
  <2>2. \A l \in periods : l.amount \in Int
    BY WidthAssumption DEF Plain, Option
  <2> QED
    BY <1>1, <2>1, <2>2 DEF Holds
<1>11. AtOnce(c, now, periods)
  BY <1>8, <1>9 DEF AtOnce
<1>12. c = [buildScenario(policy, "verified", now).context EXCEPT !.sender = founder]
  BY <1>3, <1>4, <1>7
<1>13. c.sender = founder /\ c.recipient = party(policy, now, TRUE, FALSE) /\ c.amount = within
  BY <1>8, <1>9
<1> QED
  BY <1>10, <1>11, <1>12, <1>13

\* The rule the founder's first transfer goes by.
LEMMA FounderPasses ==
    ASSUME NEW body, NEW sources, NEW tier, NEW age, NEW countries, NEW caps, NEW periods,
           Plain(body.policy, sources, tier, age, countries, caps, periods),
           AcceptedRules(body.policy), PolicyRulesSchema(body.policy) = {body.policy},
           body.founderExpiresAt = 0, clock \in Nat
    PROVE  FounderSends(body)
<1> DEFINE policy == body.policy
           founder == FounderParty(body)
           ctx == [buildScenario(policy, "verified", clock).context EXCEPT !.sender = founder]
<1>1. PICK slots : EncodeRules(policy) = {slots} /\ Filled(slots, RuleSlots(policy))
  BY AcceptedEncodes DEF Filled
<1>2. The(EncodeRules(policy)) = slots
  BY <1>1 DEF The
<1>3. PICK view : view = ReadPolicy(slots)
  OBVIOUS
<1>4. Views(view, sources, tier, age, countries, caps, periods) /\ ~view.unknownKind
  BY <1>1, <1>3, HookReads
<1>5. Sane(sources, tier, age, periods) /\ \A l \in periods : l.amount <= MaxU64
  <2>1. periods \in SUBSET [amount : 0 .. MaxU64, windowSeconds : Nat]
    BY DEF Plain, Option
  <2>2. \A l \in [amount : 0 .. MaxU64, windowSeconds : Nat] :
          l \in [amount : Nat, windowSeconds : Nat] /\ l.amount <= MaxU64
    BY WidthAssumption
  <2> QED
    BY <2>1, <2>2 DEF Plain, Option, Sane
<1>6. PICK country :
        /\ OnLists(country, countries)
        /\ \A denied \in BOOLEAN :
             /\ Known(party(policy, clock, TRUE, denied), sources, tier, country, denied, clock)
             /\ \A s \in Source : party(policy, clock, FALSE, denied)[s] = Absent
  BY PartyIs
<1>7. Recorded(founder)
  <2>1. PICK record : record = [state |-> "record", denied |-> FALSE, tier |-> body.founderTier,
                                jurisdiction |-> body.founderJurisdiction, expires |-> {}, issued |-> 0]
    OBVIOUS
  <2>2. founder = [provider |-> Absent, register |-> record]
    <3>1. {body.founderExpiresAt} \ {0} = {}
      OBVIOUS
    <3> QED
      BY <2>1, <3>1 DEF FounderParty
  <2>3. record.state = "record" /\ record.denied = FALSE /\ record.expires = {}
    BY <2>1
  <2> QED
    BY <2>2, <2>3 DEF Recorded, Absent
<1> HIDE DEF founder
<1>8. /\ AtOnce(ctx, clock, periods) /\ ctx.sender = founder
      /\ ctx.recipient = party(policy, clock, TRUE, FALSE)
      /\ ~\E cap \in caps : ctx.amount > cap
      /\ ~\E l \in periods : ctx.amount > l.amount
  BY FirstTransferIs
<1>9. PICK c : c = ctx
  OBVIOUS
<1>10. Recorded(c.sender) /\ Known(c.recipient, sources, tier, country, FALSE, clock)
  BY <1>6, <1>7, <1>8, <1>9
<1>11. Evaluate(view, c) = IF "register" \in sources THEN "allowed" ELSE "STATUS_SOURCE_NOT_ACCEPTED"
  <2>1. /\ AtOnce(c, clock, periods)
        /\ ~\E cap \in caps : c.amount > cap
        /\ ~\E l \in periods : c.amount > l.amount
    BY <1>8, <1>9
  <2> HIDE DEF policy
  <2> QED
    BY <1>4, <1>5, <1>6, <1>10, <2>1, FounderAnswer
<1>12. ToSet(The(policy.status).sources) = sources
  BY DEF Plain
<1>13. Evaluate(ReadPolicy(The(EncodeRules(policy))), ctx) =
         IF "register" \in ToSet(The(policy.status).sources) THEN "allowed"
         ELSE "STATUS_SOURCE_NOT_ACCEPTED"
  BY <1>2, <1>3, <1>9, <1>11, <1>12
<1> QED
  BY <1>13 DEF FounderSends, founder

\* Of a body, the rulebook of its draft tells what it is.
LEMMA RulebookOf ==
    ASSUME NEW d \in Drafts, clock \in Nat, NEW body \in toCreateTokenBody(d, clock)
    PROVE  /\ FounderSends(body)
           /\ AsTyped(d, d.initialSupply, body.initialSupply)
           /\ AsTyped(d, d.reserveAmount, body.reserve)
           /\ ReadyAt(3, d) =>
                /\ buildClauses(d) = ClausesSigned(body)
                /\ \A amount \in body.policy.transferLimit : AsTyped(d, d.transferLimit, amount)
<1>1. /\ body.policy \in parsedPolicy(d)
      /\ body.initialSupply \in AmountOf(d, d.initialSupply)
      /\ body.reserve \in AmountOf(d, d.reserveAmount) /\ body.founderExpiresAt = 0
  BY BodyHas
<1>2. FounderSends(body)
  <2>1. PICK sources, tier, age, countries, caps, periods :
          Plain(body.policy, sources, tier, age, countries, caps, periods)
    BY <1>1, ParsedPlain
  <2>2. AcceptedRules(body.policy) /\ PolicyRulesSchema(body.policy) = {body.policy}
    BY <1>1, DraftHas, ParsedSays
  <2> QED
    BY <1>1, <2>1, <2>2, FounderPasses
<1>3. /\ d.decimals \in Option(Nat)
      /\ d.initialSupply.digits \in Nat /\ d.initialSupply.places \in Nat
      /\ d.reserveAmount.digits \in Nat /\ d.reserveAmount.places \in Nat
      /\ d.transferLimit.digits \in Nat /\ d.transferLimit.places \in Nat
  BY DraftHas
<1>4. AsTyped(d, d.initialSupply, body.initialSupply) /\ AsTyped(d, d.reserveAmount, body.reserve)
  BY <1>1, <1>3, AmountAsTyped
<1>5. \A amount \in body.policy.transferLimit : AsTyped(d, d.transferLimit, amount)
  <2>1. Says(body.policy, d)
    BY <1>1, DraftHas, ParsedSays
  <2>2. body.policy.transferLimit = AmountOf(d, d.transferLimit)
    <3>1. PICK status, countries, period, caps :
            /\ body.policy = [status |-> status, jurisdictions |-> countries,
                              transferLimit |-> caps, periodLimit |-> period]
            /\ caps = AmountOf(d, d.transferLimit)
      BY <2>1 DEF Says
    <3> QED
      BY <3>1
  <2> QED
    BY <1>3, <2>2, AmountAsTyped
<1> QED
  BY <1>2, <1>4, <1>5, SentencesSigned

\* What the rulebook shows before anything is signed is what the program will do: its
\* sentences are those of the body and of the amounts as typed, its scenarios are
\* answered as labelled, and the founder can send just where the register is a source.
THEOREM RulebookIsTrue == Spec => []RulebookTells
<1>1. IInv => RulebookTells
  <2> SUFFICES ASSUME IInv, NEW t \in DOMAIN draft \cap Walkers
               PROVE  LET d == draft[t]
                      IN  /\ \A policy \in parsedPolicy(d) : ScenariosAsLabelled(policy)
                          /\ \A body \in toCreateTokenBody(d, clock) :
                               /\ FounderSends(body)
                               /\ AsTyped(d, d.initialSupply, body.initialSupply)
                               /\ AsTyped(d, d.reserveAmount, body.reserve)
                               /\ ReadyAt(3, d) =>
                                    /\ buildClauses(d) = ClausesSigned(body)
                                    /\ \A amount \in body.policy.transferLimit :
                                         AsTyped(d, d.transferLimit, amount)
    BY DEF RulebookTells
  <2>1. PICK d : d = draft[t]
    OBVIOUS
  <2>2. d \in Drafts /\ clock \in Nat
    BY <2>1, TabsAssumption DEF IInv, IssuanceTypeOK, TabTypeOK
  <2>3. ASSUME NEW policy \in parsedPolicy(d)
        PROVE  ScenariosAsLabelled(policy)
    <3>1. PICK sources, tier, age, countries, caps, periods :
            Plain(policy, sources, tier, age, countries, caps, periods)
      BY <2>2, <2>3, ParsedPlain
    <3> QED
      BY <2>2, <3>1, Labelled
  <2> QED
    BY <2>1, <2>2, <2>3, RulebookOf
<1> QED
  BY <1>1, Invariance, PTL
=============================================================================
