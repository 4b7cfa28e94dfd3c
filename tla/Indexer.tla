------------------------------- MODULE Indexer -------------------------------
(***************************************************************************)
(* The worker: it reads the program's transactions from a node, in chain   *)
(* order, and writes the mirror and the journal's rows.  The chain grows   *)
(* beside it; notifications of a socket only say "look now".  The process  *)
(* may die between any two steps, a listing may come from a node that lags, *)
(* and a statement that fails may or may not have had its effect.          *)
(*                                                                         *)
(* A transaction is known by its position in the chain; its signature is a *)
(* number, which orders the journal within a slot.  Its body is its        *)
(* decoding: the statements its changes are written by, and its events.    *)
(***************************************************************************)
EXTENDS Integers, Sequences, FiniteSets, SequencesExt

CONSTANTS Ledgers,      \* the chains considered: sequences of [slot, sig, body]
          MaxFaults,    \* crashes and failures, together
          RECENT_SIGNATURES

ASSUME FaultsAssumption == MaxFaults \in Nat
ASSUME RecentAssumption == RECENT_SIGNATURES \in Nat \ {0}
(* What a change is written by.  A founding takes two statements. *)
StatementsOf(change) ==
  IF change.kind = "issuer_initialized"
  THEN << change, [kind |-> "role_assignments", members |-> change.members] >>
  ELSE << change >>

Kinds == {"issuer_initialized", "role_assignments", "token_created",
          "token_metadata", "token_policy", "delegation_set",
          "holder_thawed", "holder_status"}

(* A sequence whatever its elements. *)
IsSeq(s) == s \in Seq({s[i] : i \in DOMAIN s})

ASSUME LedgersAssumption ==
  \A l \in Ledgers :
    /\ IsSeq(l)
    /\ \A i \in DOMAIN l :
         /\ l[i].slot \in Nat \ {0} /\ l[i].sig \in Nat
         /\ IsSeq(l[i].body.events)
         /\ IsSeq(l[i].body.statements)
         /\ \A n \in DOMAIN l[i].body.statements :
              l[i].body.statements[n].kind \in Kinds
    /\ \A i, j \in DOMAIN l : i <= j => l[i].slot <= l[j].slot

(* The issuer of the chain is founded once, before its delegation changes   *)
(* (initialize_issuer creates the account that set_delegation takes), and a *)
(* transaction's changes of the delegation are numbered in order            *)
(* (decode.ts, changeIndex).                                                *)
ASSUME DelegationsAssumption ==
  \A l \in Ledgers : \A i, j \in DOMAIN l :
    \A m \in DOMAIN l[i].body.statements, n \in DOMAIN l[j].body.statements :
      LET a == l[i].body.statements[m]
          b == l[j].body.statements[n]
      IN  /\ /\ a.kind = "issuer_initialized"
             /\ b.kind \in {"issuer_initialized", "delegation_set"}
             => i < j \/ (i = j /\ m <= n)
          /\ a.kind = "delegation_set" => a.changeIndex \in Nat
          /\ /\ a.kind = "delegation_set" /\ b.kind = "delegation_set"
             /\ i = j /\ m < n
             => a.changeIndex < b.changeIndex

(* What is set has been made before: the name and the policy of a token     *)
(* after its account (set_token_metadata and set_policy take the account),  *)
(* and a wallet's status after its record, which a thaw or the token's      *)
(* creation makes (set_holder_status takes the record without init).        *)
ASSUME AccountsAssumption ==
  \A l \in Ledgers : \A j \in DOMAIN l : \A n \in DOMAIN l[j].body.statements :
    LET b == l[j].body.statements[n]
    IN  b.kind \in {"token_metadata", "token_policy", "holder_status"} =>
          \E i \in DOMAIN l : \E m \in DOMAIN l[i].body.statements :
            LET a == l[i].body.statements[m]
            IN  /\ i < j \/ (i = j /\ m < n)
                /\ IF b.kind = "holder_status"
                   THEN a.kind = "holder_thawed" /\ a.wallet = b.wallet
                   ELSE a.kind = "token_created"

VARIABLES
  ledger,       \* the whole chain, as it will be
  tip,          \* how much of it has been confirmed
  up,           \* the process runs
  subscribed,   \* it has made its first pass; the socket and the timer are on
  stopping,     \* it has been asked to stop
  running,      \* the follower's pass: "no", "listing" or "walking"
  again,        \* a wake arrived during the pass
  timer,        \* a pass is scheduled
  pending,      \* the positions the pass has still to handle
  cursor,       \* the last transaction applied, in memory; 0 for none
  recent,       \* the signatures applied last
  halted,       \* a transaction failed to apply since the last resume
  work,         \* the transaction in hand and its next statement
  db,           \* the mirror and the journal's rows
  saved,        \* the cursor row; 0 for none
  faults,       \* how many faults there have been
  reach,        \* the furthest transaction whose statements were begun
  owed          \* a notification no listing has been made since

chain == <<ledger, tip>>
follower == <<subscribed, stopping, running, again, timer, pending>>
vars == <<ledger, tip, up, subscribed, stopping, running, again, timer,
          pending, cursor, recent, halted, work, db, saved, faults, reach, owed>>

Larger(a, b) == IF a > b THEN a ELSE b

Nothing == << >>
Just(x) == <<x>>

(***************************************************************************)
(* The statements a transaction is applied by, in order: those of the      *)
(* changes to the mirror, then its events in one insert.                   *)
(***************************************************************************)
Statements(p) ==
  LET body == ledger[p].body
  IN  body.statements
        \o IF body.events = << >> THEN << >> ELSE << [kind |-> "events"] >>

EmptyMirror ==
  [issuer |-> Nothing, roles |-> Nothing, token |-> Nothing,
   holders |-> {}, delegations |-> {}, rows |-> {}]

(* A wallet's row of the holders table, absent or present. *)
Held(d, wallet) == {h \in d.holders : h.wallet = wallet}

PutHolder(d, row) ==
  [d EXCEPT !.holders = (@ \ Held(d, row.wallet)) \cup {row}]

(* A status the change does not carry leaves the row's as it is. *)
HolderThawed(d, c) ==
  PutHolder(d, [wallet |-> c.wallet, state |-> "thawed",
                status |-> IF c.status # Nothing THEN c.status
                           ELSE IF Held(d, c.wallet) = {} THEN Nothing
                           ELSE (CHOOSE h \in Held(d, c.wallet) : TRUE).status])

(* An update: a wallet without a row gets none. *)
HolderStatusSet(d, c) ==
  [d EXCEPT !.holders =
     {IF h.wallet = c.wallet THEN [h EXCEPT !.status = Just(c.status)] ELSE h :
        h \in @}]

(* A slip of DelegationSet: the history keyed by the transaction alone. *)
DelegationSetOnce(d, p, c) ==
  LET row == [at |-> p, index |-> c.changeIndex,
              previous |-> [key |-> d.issuer[1].key, mask |-> d.issuer[1].mask],
              next |-> [key |-> c.key, mask |-> c.mask]]
      known == \E r \in d.delegations : r.at = p
  IN  [d EXCEPT !.delegations = IF known THEN @ ELSE @ \cup {row},
                !.issuer = Just([key |-> c.key, mask |-> c.mask])]

(* A slip of DelegationSet: the history written whenever it is applied. *)
DelegationSetAgain(d, p, c) ==
  LET row == [at |-> p, index |-> c.changeIndex,
              previous |-> [key |-> d.issuer[1].key, mask |-> d.issuer[1].mask],
              next |-> [key |-> c.key, mask |-> c.mask]]
  IN  [d EXCEPT !.delegations = @ \cup {row},
                !.issuer = Just([key |-> c.key, mask |-> c.mask])]

(* The history row names what the mirror held before, and is written once. *)
DelegationSet(d, p, c) ==
  LET row == [at |-> p, index |-> c.changeIndex,
              previous |-> [key |-> d.issuer[1].key, mask |-> d.issuer[1].mask],
              next |-> [key |-> c.key, mask |-> c.mask]]
      known == \E r \in d.delegations : r.at = p /\ r.index = c.changeIndex
  IN  [d EXCEPT !.delegations = IF known THEN @ ELSE @ \cup {row},
                !.issuer = Just([key |-> c.key, mask |-> c.mask])]

TokenCreated(d, c) ==
  [d EXCEPT !.token =
     Just([policy |-> c.policyVersion,
           name |-> IF @ = Nothing THEN "" ELSE @[1].name])]

(* What a statement of p's makes of the database. *)
Perform(d, p, s) ==
  CASE s.kind = "issuer_initialized" ->
         [d EXCEPT !.issuer = Just([key |-> s.key, mask |-> s.mask])]
    [] s.kind = "role_assignments" -> [d EXCEPT !.roles = Just(s.members)]
    [] s.kind = "token_created" -> TokenCreated(d, s)
    [] s.kind = "token_metadata" ->
         IF d.token = Nothing THEN d ELSE [d EXCEPT !.token[1].name = s.name]
    [] s.kind = "token_policy" ->
         IF d.token = Nothing THEN d
         ELSE [d EXCEPT !.token[1].policy = s.policyVersion]
    [] s.kind = "delegation_set" -> DelegationSet(d, p, s)
    [] s.kind = "holder_thawed" -> HolderThawed(d, s)
    [] s.kind = "holder_status" -> HolderStatusSet(d, s)
    [] s.kind = "events" ->
         [d EXCEPT !.rows =
            @ \cup {<<p, n>> : n \in DOMAIN ledger[p].body.events}]

(* A delegation change of an issuer not mirrored is refused. *)
Performable(d, s) == s.kind = "delegation_set" => d.issuer # Nothing

(***************************************************************************)
(* The chain: a slot is confirmed whole.                                   *)
(***************************************************************************)
WholeSlots(n) ==
  n \in 1..Len(ledger) - 1 => ledger[n].slot < ledger[n + 1].slot

Produce ==
  /\ \E n \in tip + 1..Len(ledger) :
       /\ WholeSlots(n)
       /\ \A m \in tip + 1..n - 1 : ~WholeSlots(m)
       /\ tip' = n
  /\ UNCHANGED <<ledger, up, follower, cursor, recent, halted, work, db,
                 saved, faults, reach, owed>>

(***************************************************************************)
(* The process.                                                            *)
(***************************************************************************)
IDLE == [pos |-> 0, next |-> 0]

Fault == faults < MaxFaults /\ faults' = faults + 1

(* It resumes from the cursor row and makes a first pass before it listens. *)
Start ==
  /\ ~up
  /\ up' = TRUE
  /\ cursor' = saved
  /\ recent' = IF saved = 0 THEN << >> ELSE << saved >>
  /\ running' = "listing"
  /\ UNCHANGED <<chain, subscribed, stopping, again, timer, pending, halted,
                 work, db, saved, faults, reach, owed>>

(* Memory is gone: the socket, the follower's and the indexer's. *)
Gone ==
  /\ up' = FALSE /\ subscribed' = FALSE /\ stopping' = FALSE
  /\ running' = "no" /\ again' = FALSE /\ timer' = FALSE /\ pending' = << >>
  /\ cursor' = 0 /\ recent' = << >> /\ halted' = FALSE /\ work' = IDLE
  /\ owed' = FALSE

Crash ==
  /\ up /\ Fault
  /\ Gone
  /\ UNCHANGED <<chain, db, saved, reach>>

Stop ==
  /\ subscribed /\ ~stopping
  /\ stopping' = TRUE
  /\ timer' = FALSE
  /\ UNCHANGED <<chain, up, subscribed, running, again, pending, cursor,
                 recent, halted, work, db, saved, faults, reach, owed>>

(* The pass under way is finished first. *)
Exit ==
  /\ stopping /\ running = "no"
  /\ Gone
  /\ UNCHANGED <<chain, db, saved, faults, reach>>

(***************************************************************************)
(* The follower.                                                           *)
(***************************************************************************)
(* A notification, of any transaction confirmed; it may be repeated, and a *)
(* lost one is one that is never delivered.                                *)
Wake(p) ==
  /\ subscribed
  /\ p \in 1..tip
  /\ IF running # "no" THEN again' = TRUE /\ UNCHANGED timer
     ELSE timer' = (timer \/ ~stopping) /\ UNCHANGED again
  /\ owed' = TRUE
  /\ UNCHANGED <<chain, up, subscribed, stopping, running, pending, cursor,
                 recent, halted, work, db, saved, faults, reach>>

(* A slip of Pass: a halt is never lifted. *)
PassHalted ==
  /\ IF running = "no" THEN running' = "listing" ELSE UNCHANGED running
  /\ UNCHANGED halted

(* A pass under way is shared, a new one starts by lifting the halt. *)
Pass ==
  IF running = "no" THEN running' = "listing" /\ halted' = FALSE
  ELSE UNCHANGED <<running, halted>>

TimerFires ==
  /\ timer
  /\ timer' = FALSE
  /\ Pass
  /\ UNCHANGED <<chain, up, subscribed, stopping, again, pending, cursor,
                 recent, work, db, saved, faults, reach, owed>>

Interval ==
  /\ subscribed /\ ~stopping
  /\ running = "no"
  /\ Pass
  /\ UNCHANGED <<chain, up, subscribed, stopping, again, timer, pending,
                 cursor, recent, work, db, saved, faults, reach, owed>>

(* What ends a pass: a wake during it schedules the next. *)
EndPass ==
  /\ running' = "no"
  /\ pending' = << >>
  /\ subscribed' = TRUE
  /\ IF again /\ ~stopping THEN again' = FALSE /\ timer' = TRUE
     ELSE UNCHANGED <<again, timer>>

(* The signatures after the cursor, oldest first, as far as the node has   *)
(* read; a node that has not met the cursor's lists all it has.            *)
ListUpTo(v) ==
  /\ running = "listing"
  /\ WholeSlots(v)
  /\ running' = "walking"
  /\ LET from == IF cursor <= v THEN cursor + 1 ELSE 1
     IN  pending' = [i \in 1..v - from + 1 |-> from + i - 1]
  /\ owed' = FALSE
  /\ UNCHANGED <<chain, up, subscribed, stopping, again, timer, cursor,
                 recent, halted, work, db, saved, faults, reach>>

List == \E v \in 0..tip : ListUpTo(v)

ListFails ==
  /\ running = "listing" /\ Fault
  /\ EndPass
  /\ owed' = FALSE
  /\ UNCHANGED <<chain, up, stopping, cursor, recent, halted, work, db, saved,
                 reach>>

PassOver ==
  /\ running = "walking" /\ work = IDLE /\ pending = << >>
  /\ EndPass
  /\ UNCHANGED <<chain, up, stopping, cursor, recent, halted, work, db, saved,
                 faults, reach, owed>>

(***************************************************************************)
(* One transaction of the pass.                                            *)
(***************************************************************************)
(* A slip of IsBehind: everything of the cursor's slot is behind it. *)
SlotIsBehind(p) ==
  /\ cursor # 0
  /\ ledger[p].slot <= ledger[cursor].slot

IsBehind(p) ==
  /\ cursor # 0
  /\ \/ ledger[p].slot < ledger[cursor].slot
     \/ /\ ledger[p].slot = ledger[cursor].slot
        /\ p \in {recent[i] : i \in DOMAIN recent}

(* A transaction handed to a halted queue ends the pass as one behind the  *)
(* cursor does not.                                                        *)
Skip ==
  /\ running = "walking" /\ work = IDLE /\ pending # << >>
  /\ halted \/ IsBehind(Head(pending))
  /\ IF halted THEN EndPass
     ELSE /\ pending' = Tail(pending)
          /\ UNCHANGED <<subscribed, running, again, timer>>
  /\ UNCHANGED <<chain, up, stopping, cursor, recent, halted, work, db, saved,
                 faults, reach, owed>>

(* It is fetched and decoded; nothing is written yet. *)
Fetchable ==
  /\ running = "walking" /\ work = IDLE /\ pending # << >>
  /\ ~halted /\ ~IsBehind(Head(pending))

Fetch ==
  /\ Fetchable
  /\ work' = [pos |-> Head(pending), next |-> 1]
  /\ pending' = Tail(pending)
  /\ UNCHANGED <<chain, up, subscribed, stopping, running, again, timer,
                 cursor, recent, halted, db, saved, faults, reach, owed>>

(* A failure halts the queue and ends the pass; the cursor stays. *)
Halts ==
  /\ halted' = TRUE
  /\ work' = IDLE
  /\ EndPass
  /\ UNCHANGED <<chain, up, stopping, cursor, recent, saved, owed>>

FetchFails ==
  /\ Fetchable /\ Fault
  /\ Halts
  /\ UNCHANGED <<db, reach>>

InHand == work.pos # 0 /\ work.next <= Len(Statements(work.pos))

Performed(p, s) ==
  /\ db' = Perform(db, p, s)
  /\ reach' = IF p > reach THEN p ELSE reach

Write ==
  /\ InHand
  /\ LET s == Statements(work.pos)[work.next]
     IN  /\ Performable(db, s)
         /\ Performed(work.pos, s)
  /\ work' = [work EXCEPT !.next = @ + 1]
  /\ UNCHANGED <<chain, up, follower, cursor, recent, halted, saved, faults,
                 owed>>

(* The connection may break before the statement's effect or after it. *)
WriteFails ==
  /\ InHand
  /\ LET s == Statements(work.pos)[work.next]
     IN  /\ Performable(db, s) => Fault
         /\ ~Performable(db, s) => UNCHANGED faults
         /\ \/ UNCHANGED <<db, reach>>
            \/ Performable(db, s) /\ Performed(work.pos, s)
  /\ Halts

(* Only now does the cursor move, and only then is it saved. *)
Done == work.pos # 0 /\ work.next = Len(Statements(work.pos)) + 1

Remember(p) ==
  LET all == Append(recent, p)
  IN  IF Len(all) > RECENT_SIGNATURES THEN Tail(all) ELSE all

Advance ==
  /\ Done
  /\ cursor' = work.pos
  /\ recent' = Remember(work.pos)
  /\ reach' = IF work.pos > reach THEN work.pos ELSE reach
  /\ work' = [work EXCEPT !.next = @ + 1]
  /\ UNCHANGED <<chain, up, follower, halted, db, saved, faults, owed>>

Saving == work.pos # 0 /\ work.next = Len(Statements(work.pos)) + 2

Save ==
  /\ Saving
  /\ saved' = cursor
  /\ work' = IDLE
  /\ UNCHANGED <<chain, up, follower, cursor, recent, halted, db, faults,
                 reach, owed>>

(* The pass is given up, and the queue not halted: the cursor in memory is *)
(* ahead of the row.                                                       *)
SaveFails ==
  /\ Saving /\ Fault
  /\ saved' \in {saved, cursor}
  /\ work' = IDLE
  /\ EndPass
  /\ UNCHANGED <<chain, up, stopping, cursor, recent, halted, db, reach, owed>>

(***************************************************************************)
(* The specification.                                                      *)
(***************************************************************************)
Init ==
  /\ ledger \in Ledgers /\ tip = 0
  /\ up = FALSE /\ subscribed = FALSE /\ stopping = FALSE
  /\ running = "no" /\ again = FALSE /\ timer = FALSE /\ pending = << >>
  /\ cursor = 0 /\ recent = << >> /\ halted = FALSE /\ work = IDLE
  /\ db = EmptyMirror /\ saved = 0
  /\ faults = 0 /\ reach = 0 /\ owed = FALSE

(* What the process does of its own. *)
Step ==
  \/ TimerFires \/ Interval \/ List \/ PassOver
  \/ Skip \/ Fetch \/ Write \/ Advance \/ Save

Next ==
  \/ Produce
  \/ Start \/ Crash \/ Stop \/ Exit
  \/ \E p \in 1..tip : Wake(p)
  \/ Step
  \/ ListFails \/ FetchFails \/ WriteFails \/ SaveFails

Spec == Init /\ [][Next]_vars

(***************************************************************************)
(* Fairness: the chain goes on, the process does what it can, and a node   *)
(* that lags catches up now and then.                                      *)
(***************************************************************************)
Fairness ==
  /\ WF_vars(Produce)
  /\ WF_vars(Step)
  /\ SF_vars(ListUpTo(tip) /\ tip = Len(ledger))

(***************************************************************************)
(* Properties.                                                             *)
(***************************************************************************)
EventsOf(p) == {p} \X DOMAIN ledger[p].body.events

(* The rows are a prefix of the chain: every event of each transaction      *)
(* before the furthest one begun, that one's all or none, nothing after it; *)
(* and neither the cursor in memory nor its row is ever past a transaction  *)
(* whose rows are missing.  A crash, a failed statement, a lost             *)
(* notification and a lagging node leave no gap                             *)
(* (apps/worker indexer/cursor.ts, follow.ts).                              *)
MirrorIsAPrefix ==
  /\ \A p \in 1..tip : p < reach => EventsOf(p) \subseteq db.rows
  /\ reach > 0 => EventsOf(reach) \cap db.rows \in {{}, EventsOf(reach)}
  /\ \A row \in db.rows : row[1] <= reach
  /\ \A p \in 1..Larger(cursor, saved) : EventsOf(p) \subseteq db.rows
  /\ reach <= tip

(* What a transaction's statements make of a database, one after another;   *)
(* and what the first n transactions make of an empty one.                  *)
Through(p, d) ==
  LET after[i \in 0..Len(Statements(p))] ==
        IF i = 0 THEN d ELSE Perform(after[i - 1], p, Statements(p)[i])
  IN  after[Len(Statements(p))]

Replay(n) ==
  LET after[p \in 0..n] == IF p = 0 THEN EmptyMirror ELSE Through(p, after[p - 1])
  IN  after[n]

(* Whatever was applied again after a restart, with older values written    *)
(* over newer ones on the way, the mirror is that of the chain once the     *)
(* cursor is back at the furthest transaction begun (apply.ts).             *)
MirrorRowsSettle ==
  up /\ work = IDLE /\ cursor = reach => db = Replay(cursor)

(* At every moment, applied again or not, the history of delegation changes *)
(* is a chain: each names as previous what the one before it made, the      *)
(* first what the founding made (apply.ts, the delegation_set case).        *)
Earlier(a, b) == a.at < b.at \/ (a.at = b.at /\ a.index < b.index)

DelegationHistoryChains ==
  \A r \in db.delegations :
    LET before == {q \in db.delegations : Earlier(q, r)}
        last == {q \in before : \A x \in before : ~Earlier(q, x)}
    IN  IF before # {} THEN \E q \in last : r.previous = q.next
        ELSE \A p \in 1..tip : \A i \in DOMAIN ledger[p].body.statements :
               LET c == ledger[p].body.statements[i]
               IN  c.kind = "issuer_initialized" =>
                     r.previous = [key |-> c.key, mask |-> c.mask]

(* A notification the program has not looked for is not forgotten: a        *)
(* listing is under way or scheduled, or will be when the pass ends         *)
(* (follow.ts, wake and pass).                                              *)
NoWakeForgotten ==
  owed => running = "listing" \/ again \/ timer \/ stopping

(* A process that stays up comes to have applied the whole chain, whatever  *)
(* notifications are lost and whatever failed on the way: a halt is lifted  *)
(* by the next pass, and the interval brings one (cursor.ts, run.ts).       *)
CatchesUp ==
  <>[](up /\ ~stopping) => <>[](tip = Len(ledger) /\ cursor = tip)
=============================================================================
