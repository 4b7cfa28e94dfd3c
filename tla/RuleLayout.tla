----------------------------- MODULE RuleLayout -----------------------------
(***************************************************************************)
(* A policy as the slots of PolicyConfig.rules.  What the program accepts  *)
(* (rules/layout.rs), what the hook reads of it (rules/evaluate.rs), and   *)
(* the client's encoder and decoder (packages/policy, layout.ts over the   *)
(* schemas of model.ts).  The 22 bytes of a slot's parameters are Fields   *)
(* words: a field of any width, or the pair of letters of a country, is    *)
(* one word.  An error is {}, a result a set of one.                       *)
(***************************************************************************)
EXTENDS TransferRules, SequencesExt

CONSTANTS
    Capitals,      \* the codes made of two capital letters
    MaxSlots,      \* MAX_RULE_SLOTS
    Fields,        \* MAX_JURISDICTIONS; bound: the words of a slot
    MinAge,        \* MIN_ATTESTATION_AGE_SECONDS
    MaxAge,        \* MAX_ATTESTATION_AGE_SECONDS
    MinPeriod,     \* MIN_PERIOD_SECONDS
    MaxPeriod      \* MAX_PERIOD_SECONDS

ASSUME CodesAssumption == Capitals \subseteq Jurisdiction /\ Jurisdiction \subseteq Nat \ {0}
ASSUME LayoutAssumption ==
    /\ MaxSlots \in Nat /\ MaxSlots >= 4
    /\ Fields \in Nat /\ Fields >= 4
    /\ MinAge \in Nat \ {0} /\ MaxAge \in Nat
    /\ MinPeriod \in Nat \ {0} /\ MaxPeriod \in Nat

-----------------------------------------------------------------------------
EMPTY == 0
STATUS == 1
JURISDICTIONS == 2
TRANSFER_LIMIT == 3
PERIOD_LIMIT == 4

STATUS_SOURCE == [provider |-> 1, register |-> 2]
STATUS_SOURCE_ALL == 3
SourcesOf(mask) == {s \in Source : (mask \div STATUS_SOURCE[s]) % 2 = 1}

\* A rule as it is stored: two bytes and its parameters, none wider than 64 bits.
RuleSlot == [kind : Nat, op : Nat, params : [1 .. Fields -> 0 .. MaxU64]]

Params(words) == [i \in 1 .. Fields |-> IF i <= Len(words) THEN words[i] ELSE 0]
Slot(kind, words) == [kind |-> kind, op |-> 0, params |-> Params(words)]
EmptySlot == Slot(EMPTY, <<>>)

\* require_zero_tail: the words after the first n are padding.
ZeroTail(params, n) == \A i \in n + 1 .. Fields : params[i] = 0

\* The countries of a rule, up to the first pair of zeros.
CodesOf(params) ==
    LET ends == {i \in 1 .. Fields : params[i] = 0}
    IN  IF ends = {} THEN params ELSE SubSeq(params, 1, Min(ends) - 1)

-----------------------------------------------------------------------------
(* The program: layout::validate *)

ValidStatusParams(params) ==
    LET mask == params[1]
        age == params[3]
    IN  /\ mask \in 1 .. STATUS_SOURCE_ALL
        /\ age = 0 \/ age \in MinAge .. MaxAge
        /\ "provider" \in SourcesOf(mask) => age # 0
        /\ ZeroTail(params, 3)

\* A slip of layout.rs: a code is compared for difference with the one before.
ValidJurisdictionsUnsorted(params) ==
    LET codes == CodesOf(params)
    IN  /\ codes # <<>>
        /\ \A i \in DOMAIN codes : codes[i] \in Capitals /\ (i > 1 => codes[i] # codes[i - 1])
        /\ ZeroTail(params, Len(codes))

ValidJurisdictions(params) ==
    LET codes == CodesOf(params)
    IN  /\ codes # <<>>
        /\ \A i \in DOMAIN codes : codes[i] \in Capitals /\ (i > 1 => codes[i] > codes[i - 1])
        /\ ZeroTail(params, Len(codes))

ValidTransferLimit(params) == params[1] > 0 /\ ZeroTail(params, 1)

ValidPeriodLimit(params) ==
    params[1] > 0 /\ params[2] \in MinPeriod .. MaxPeriod /\ ZeroTail(params, 2)

\* The array as both readers want it: the rules first, each kind once and in
\* order, nothing in the slots after them and no second byte.
Packed(slots) ==
    \A i \in DOMAIN slots :
      /\ slots[i].op = 0
      /\ slots[i].kind = EMPTY => slots[i] = EmptySlot
      /\ slots[i].kind # EMPTY => \A j \in 1 .. i - 1 : slots[j].kind \in 1 .. slots[i].kind - 1

Validate(slots) ==
    /\ Len(slots) = MaxSlots
    /\ Packed(slots)
    /\ \A i \in DOMAIN slots :
         LET params == slots[i].params
         IN  CASE slots[i].kind = EMPTY -> TRUE
               [] slots[i].kind = STATUS -> ValidStatusParams(params)
               [] slots[i].kind = JURISDICTIONS -> ValidJurisdictions(params)
               [] slots[i].kind = TRANSFER_LIMIT -> ValidTransferLimit(params)
               [] slots[i].kind = PERIOD_LIMIT -> ValidPeriodLimit(params)
               [] OTHER -> FALSE
    /\ \E i \in DOMAIN slots : slots[i].kind = STATUS

-----------------------------------------------------------------------------
(* The hook: PolicyView::read *)

\* Every slot is looked at, and the first of a kind counts.
FirstOf(slots, kind) ==
    LET found == {i \in DOMAIN slots : slots[i].kind = kind}
    IN  IF found = {} THEN {} ELSE {slots[Min(found)].params}

ReadPolicy(slots) ==
    LET status == FirstOf(slots, STATUS)
    IN  [sources |-> UNION {SourcesOf(p[1]) : p \in status},
         minTier |-> IF status = {} THEN 0 ELSE (CHOOSE p \in status : TRUE)[2],
         maxAge |-> {p[3] : p \in status} \ {0},
         jurisdictions |-> {ToSet(CodesOf(p)) : p \in FirstOf(slots, JURISDICTIONS)},
         transferLimit |-> {p[1] : p \in FirstOf(slots, TRANSFER_LIMIT)},
         periodLimit |-> {[amount |-> p[1], window |-> p[2]] : p \in FirstOf(slots, PERIOD_LIMIT)},
         unknownKind |-> \E i \in DOMAIN slots : slots[i].kind > PERIOD_LIMIT]

-----------------------------------------------------------------------------
(* The client: policyRulesSchema, encodeRules and decodeRules *)

STATUS_SOURCES == <<"provider", "register">>

AcceptedStatus(status) ==
    /\ status.sources # <<>> /\ IsInjective(status.sources)
    /\ status.maxAge \subseteq MinAge .. MaxAge
    /\ "provider" \in ToSet(status.sources) => status.maxAge # {}

AcceptedJurisdictions(codes) ==
    /\ Len(codes) \in 1 .. Fields
    /\ IsInjective(codes) /\ ToSet(codes) \subseteq Capitals

AcceptedAmount(amount) == amount \in 1 .. MaxU64

AcceptedPeriod(limit) ==
    AcceptedAmount(limit.amount) /\ limit.windowSeconds \in MinPeriod .. MaxPeriod

\* A set of sources, in the order they are declared; and of countries, sorted.
Declared(sources) ==
    CHOOSE s \in {STATUS_SOURCES} \cup {<<x>> : x \in Source} : ToSet(s) = sources
Ascending(codes) == \A i, j \in DOMAIN codes : i < j => codes[i] < codes[j]
Sorted(countries) ==
    CHOOSE codes \in [1 .. Cardinality(countries) -> countries] :
      Ascending(codes) /\ ToSet(codes) = countries

\* A body that passes is put in order: sources as declared, countries sorted.
PolicyRulesSchema(body) ==
    IF /\ body.status # {}
       /\ \A status \in body.status : AcceptedStatus(status)
       /\ \A codes \in body.jurisdictions : AcceptedJurisdictions(codes)
       /\ \A amount \in body.transferLimit : AcceptedAmount(amount)
       /\ \A limit \in body.periodLimit : AcceptedPeriod(limit)
    THEN {[body EXCEPT
             !.status = {[status EXCEPT
                !.sources = Declared(ToSet(status.sources))] : status \in @},
             !.jurisdictions = {Sorted(ToSet(codes)) : codes \in @}]}
    ELSE {}

StatusSourceMask(sources) ==
    LET bit(s) == IF s \in ToSet(sources) THEN STATUS_SOURCE[s] ELSE 0
    IN  bit("provider") + bit("register")

StatusParams(status) ==
    <<StatusSourceMask(status.sources), status.minTier,
      IF status.maxAge = {} THEN 0 ELSE CHOOSE age \in status.maxAge : TRUE>>

\* One slot for each rule, in the order of SLOT_ORDER, and the rest zero.
EncodeRules(body) ==
    {LET one(S) == IF S = {} THEN <<>> ELSE <<CHOOSE slot \in S : TRUE>>
         used == one({Slot(STATUS, StatusParams(s)) : s \in rules.status})
              \o one({Slot(JURISDICTIONS, codes) : codes \in rules.jurisdictions})
              \o one({Slot(TRANSFER_LIMIT, <<a>>) : a \in rules.transferLimit})
              \o one({Slot(PERIOD_LIMIT, <<l.amount, l.windowSeconds>>) : l \in rules.periodLimit})
     IN  [i \in 1 .. MaxSlots |-> IF i <= Len(used) THEN used[i] ELSE EmptySlot] :
       rules \in PolicyRulesSchema(body)}

\* A mask that names no source, or an unknown one, is an error of its own.
ReadStatus(params) ==
    [sources |-> Declared(SourcesOf(params[1])),
     minTier |-> params[2], maxAge |-> {params[3]} \ {0}]

DecodeRules(slots) ==
    IF /\ Len(slots) = MaxSlots
       /\ Packed(slots)
       /\ \A i \in DOMAIN slots : slots[i].kind <= PERIOD_LIMIT
       /\ \A p \in FirstOf(slots, STATUS) : p[1] \in 1 .. STATUS_SOURCE_ALL
    THEN PolicyRulesSchema(
           [status |-> {ReadStatus(p) : p \in FirstOf(slots, STATUS)},
            jurisdictions |-> {CodesOf(p) : p \in FirstOf(slots, JURISDICTIONS)},
            transferLimit |-> {p[1] : p \in FirstOf(slots, TRANSFER_LIMIT)},
            periodLimit |-> {[amount |-> p[1], windowSeconds |-> p[2]] :
                               p \in FirstOf(slots, PERIOD_LIMIT)}])
    ELSE {}

\* A body as evaluateTransfer takes it.
PolicyOf(rules) ==
    LET status == CHOOSE s \in rules.status : TRUE
    IN  [sources |-> ToSet(status.sources), minTier |-> status.minTier,
         maxAge |-> status.maxAge,
         jurisdictions |-> {ToSet(codes) : codes \in rules.jurisdictions},
         transferLimit |-> rules.transferLimit,
         periodLimit |-> {[amount |-> l.amount, window |-> l.windowSeconds] :
                            l \in rules.periodLimit}]
=============================================================================
