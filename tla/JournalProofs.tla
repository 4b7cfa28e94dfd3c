---------------------------- MODULE JournalProofs ----------------------------
(***************************************************************************)
(* The indexer and the journal, for any chain, any number of faults, any   *)
(* memory of recent signatures and any readers.  First the indexer alone:  *)
(* the journal's rows are a prefix of the chain, and no notification is    *)
(* forgotten.  Then what the journal shows: the indexer and the frontier   *)
(* together implement LedgerMirror.  The refinement is of safety: what is  *)
(* shown is a whole number of slots of the chain, and is never taken back. *)
(* Then the mirror, though statements are applied again: its history of    *)
(* the delegation is a chain, and it comes to what the chain, replayed     *)
(* from nothing, makes.  Last what is read, in the order of the rows'      *)
(* keys: an export is what the verifier finds on the chain, and the feed   *)
(* passes over nothing.                                                    *)
(***************************************************************************)
EXTENDS Journal, FiniteSetTheorems, SequenceTheorems, WellFoundedInduction, TLAPS

-----------------------------------------------------------------------------
(* The indexer.                                                            *)

Applied(p) == EventsOf(p) \subseteq db.rows
AppliedBelow(n) == \A p \in 1..n - 1 : Applied(p)

-----------------------------------------------------------------------------
(* What MirrorIsAPrefix rests on.                                          *)

Shape ==
  /\ ledger \in Ledgers /\ tip \in 0..Len(ledger)
  /\ reach \in 0..tip /\ cursor \in 0..reach /\ saved \in 0..reach
  /\ recent \in Seq(1..reach) /\ pending \in Seq(1..tip)
  /\ work \in [pos : 0..tip, next : Nat]
  /\ work.pos # 0 => work.next >= 1
  /\ "rows" \in DOMAIN db

(* Only a pass that walks has anything before it or in hand. *)
Busy ==
  /\ ~up => running = "no" /\ ~timer /\ ~subscribed
  /\ running # "walking" => pending = << >> /\ work.pos = 0

(* Rows of the furthest transaction begun and of those before it, and      *)
(* everything remembered has been applied.                                 *)
Written ==
  /\ \A row \in db.rows : row[1] \in 1..reach
  /\ AppliedBelow(reach)
  /\ reach > 0 => EventsOf(reach) \cap db.rows \in {{}, EventsOf(reach)}
  /\ AppliedBelow(cursor + 1) /\ AppliedBelow(saved + 1)
  /\ \A i \in DOMAIN recent : Applied(recent[i])

(* A pass walks without a gap, from somewhere in the applied prefix.       *)
Walked ==
  /\ \A i \in 1..Len(pending) - 1 : pending[i + 1] = pending[i] + 1
  /\ work.pos = 0 /\ pending # << >> => AppliedBelow(pending[1])
  /\ work.pos # 0 =>
       /\ AppliedBelow(work.pos)
       /\ pending # << >> => pending[1] = work.pos + 1
       /\ work.next > Len(Statements(work.pos)) => Applied(work.pos)

IInv == Shape /\ Busy /\ Written /\ Walked

-----------------------------------------------------------------------------
(* A sequence over a set is one over a larger set.                         *)
LEMMA SeqGrows ==
    ASSUME NEW S, NEW T, S \subseteq T, NEW q \in Seq(S)
    PROVE  q \in Seq(T)
OBVIOUS

(* What a statement makes of the rows: only the insert of the events       *)
(* touches them, and it adds all of its transaction's.                     *)
LEMMA PerformRows ==
    ASSUME NEW d, NEW p, NEW s, "rows" \in DOMAIN d,
           s.kind \in Kinds \cup {"events"}
    PROVE  /\ "rows" \in DOMAIN Perform(d, p, s)
           /\ s.kind \in Kinds => Perform(d, p, s).rows = d.rows
           /\ s.kind = "events" => Perform(d, p, s).rows = d.rows \cup EventsOf(p)
<1>1. CASE s.kind = "events"
  BY <1>1 DEF Perform, EventsOf, Kinds
<1>2. CASE s.kind \in {"issuer_initialized", "role_assignments", "token_created"}
  BY <1>2 DEF Perform, TokenCreated, Kinds
<1>3. CASE s.kind \in {"token_metadata", "token_policy"}
  BY <1>3 DEF Perform, Kinds
<1>4. CASE s.kind = "delegation_set"
  BY <1>4 DEF Perform, DelegationSet, Kinds
<1>5. CASE s.kind \in {"holder_thawed", "holder_status"}
  BY <1>5 DEF Perform, HolderThawed, HolderStatusSet, PutHolder, Kinds
<1> QED
  BY <1>1, <1>2, <1>3, <1>4, <1>5 DEF Kinds

(* A sequence with one more.                                               *)
LEMMA OneMore ==
    ASSUME NEW S, NEW q \in Seq(S), NEW e, NEW r, r = q \o << e >>
    PROVE  /\ Len(q) \in Nat /\ Len(r) = Len(q) + 1
           /\ \A n \in 1..Len(q) : r[n] = q[n]
           /\ r[Len(q) + 1] = e
<1>1. q \in Seq(S \cup {e}) /\ << e >> \in Seq(S \cup {e}) /\ Len(q) \in Nat
  OBVIOUS
<1> QED
  BY <1>1

(* The statements of a transaction: those of its changes, and one more for *)
(* its events, where it has any.                                           *)
LEMMA StatementsKinds ==
    ASSUME ledger \in Ledgers, NEW p \in DOMAIN ledger
    PROVE  /\ Len(Statements(p)) \in Nat
           /\ \A n \in 1..Len(Statements(p)) :
                /\ Statements(p)[n].kind \in Kinds \cup {"events"}
                /\ n = Len(Statements(p)) =>
                     EventsOf(p) = {} \/ Statements(p)[n].kind = "events"
           /\ Len(Statements(p)) = 0 => EventsOf(p) = {}
<1> DEFINE body == ledger[p].body
           each == body.statements
<1>1. /\ IsSeq(body.events) /\ IsSeq(each)
      /\ \A n \in DOMAIN each : each[n].kind \in Kinds
  BY LedgersAssumption
<1>2. each \in Seq({each[i] : i \in DOMAIN each})
  BY <1>1 DEF IsSeq
<1>3. Len(each) \in Nat /\ DOMAIN each = 1..Len(each)
  BY <1>2
<1>4. CASE body.events = << >>
  <2>1. EventsOf(p) = {}
    BY <1>4 DEF EventsOf
  <2>2. Statements(p) = each
    BY <1>2, <1>4 DEF Statements
  <2> QED
    BY <1>1, <1>3, <2>1, <2>2
<1>5. CASE body.events # << >>
  <2> PICK insert : insert = [kind |-> "events"]
    OBVIOUS
  <2> PICK m, all : m = Len(each) /\ all = Statements(p)
    OBVIOUS
  <2>1. all = each \o << insert >>
    BY <1>5 DEF Statements
  <2>2. Len(all) = m + 1 /\ all[m + 1] = insert /\ \A n \in 1..m : all[n] = each[n]
    BY <1>2, <2>1, OneMore
  <2> HIDE DEF each, body
  <2> QED
    BY <1>1, <1>3, <2>2
<1> QED
  BY <1>4, <1>5

(* A position before the cursor in slot, or remembered, has been applied.  *)
LEMMA BehindIsApplied ==
    ASSUME IInv, NEW p \in 1..tip, IsBehind(p)
    PROVE  Applied(p)
<1>1. cursor \in 1..Len(ledger) /\ p \in 1..Len(ledger)
  BY DEF IInv, Shape, IsBehind
<1>2. CASE ledger[p].slot < ledger[cursor].slot
  <2>1. \A i, j \in DOMAIN ledger : i <= j => ledger[i].slot <= ledger[j].slot
    BY LedgersAssumption DEF IInv, Shape
  <2>2. \A i \in DOMAIN ledger : ledger[i].slot \in Nat
    BY LedgersAssumption DEF IInv, Shape
  <2>3. DOMAIN ledger = 1..Len(ledger)
    BY LedgersAssumption DEF IInv, Shape, IsSeq
  <2>4. p < cursor
    BY <1>1, <1>2, <2>1, <2>2, <2>3
  <2> QED
    BY <1>1, <2>4 DEF IInv, Written, AppliedBelow
<1>3. CASE p \in {recent[i] : i \in DOMAIN recent}
  BY <1>3 DEF IInv, Written
<1> QED
  BY <1>2, <1>3 DEF IsBehind

-----------------------------------------------------------------------------
(* The steps.                                                              *)

(* What a step that writes nothing leaves of Written.                      *)
LEMMA WrittenFrame ==
    ASSUME IInv, UNCHANGED <<ledger, db, reach, cursor, recent>>,
           saved' \in {saved, cursor}
    PROVE  Written'
<1>1. \A p : Applied(p)' <=> Applied(p)
  BY DEF Applied, EventsOf
<1>2. \A n : AppliedBelow(n)' <=> AppliedBelow(n)
  BY <1>1 DEF AppliedBelow
<1>3. EventsOf(reach)' = EventsOf(reach)
  BY DEF EventsOf
<1> QED
  BY <1>1, <1>2, <1>3 DEF IInv, Written

(* Steps beside the walk: the chain grows, a pass is called for, the       *)
(* process is asked to stop.                                               *)
LEMMA BesideTheWalk ==
    ASSUME IInv, UNCHANGED <<ledger, db, reach, cursor, saved, recent, pending, work, up>>,
           tip' \in tip..Len(ledger),
           running' # "walking" \/ running' = running,
           ~up => running' = "no" /\ ~timer' /\ ~subscribed',
           running' # running => running = "no"
    PROVE  IInv'
<1>1. Written'
  BY WrittenFrame
<1>2. Shape'
  <2>1. 1..tip \subseteq 1..tip'
    BY DEF IInv, Shape
  <2>2. pending' \in Seq(1..tip')
    BY <2>1 DEF IInv, Shape
  <2>3. work' \in [pos : 0..tip', next : Nat]
    BY DEF IInv, Shape
  <2> QED
    BY <2>2, <2>3 DEF IInv, Shape
<1>3. Busy'
  BY DEF IInv, Busy
<1>4. Walked'
  BY DEF IInv, Walked, AppliedBelow, Applied, EventsOf, Statements
<1> QED
  BY <1>1, <1>2, <1>3, <1>4 DEF IInv

(* Steps that give the walk up, with nothing more written.                 *)
LEMMA WalkGivenUp ==
    ASSUME IInv, UNCHANGED <<ledger, tip, db, reach, cursor, recent, up>>,
           saved' \in {saved, cursor}, EndPass, running # "no",
           work' = IDLE \/ (work.pos = 0 /\ work' = work)
    PROVE  IInv'
<1>1. Written'
  BY WrittenFrame
<1>2. Shape'
  BY DEF IInv, Shape, IDLE, EndPass
<1>3. Busy'
  BY DEF IInv, Busy, IDLE, EndPass
<1>4. Walked'
  BY DEF IInv, Walked, IDLE, EndPass
<1> QED
  BY <1>1, <1>2, <1>3, <1>4 DEF IInv

LEMMA StartKeeps == ASSUME IInv, Start PROVE IInv'
<1>1. \A p : Applied(p)' <=> Applied(p)
  BY DEF Applied, EventsOf, Start, chain
<1>2. \A n : AppliedBelow(n)' <=> AppliedBelow(n)
  BY <1>1 DEF AppliedBelow
<1>3. Shape' /\ Busy'
  <2>1. recent' \in Seq(1..reach)
    <3>1. CASE saved = 0
      BY <3>1 DEF Start
    <3>2. CASE saved # 0
      <4>1. saved \in 1..reach
        BY <3>2 DEF IInv, Shape
      <4> QED
        BY <3>2, <4>1 DEF Start
    <3> QED
      BY <3>1, <3>2
  <2>2. pending = << >> /\ work.pos = 0
    BY DEF IInv, Busy, Start
  <2> QED
    BY <2>1, <2>2 DEF IInv, Shape, Busy, Start, chain
<1>4. Written'
  <2>1. \A i \in DOMAIN recent' : Applied(recent'[i])
    <3>1. CASE saved = 0
      BY <3>1 DEF Start
    <3>2. CASE saved # 0
      <4>1. recent' = << saved >> /\ saved \in 1..saved + 1 - 1
        BY <3>2 DEF IInv, Shape, Start
      <4> QED
        BY <4>1 DEF IInv, Written, AppliedBelow
    <3> QED
      BY <3>1, <3>2
  <2>2. EventsOf(reach)' = EventsOf(reach)
    BY DEF EventsOf, Start, chain
  <2> QED
    BY <1>1, <1>2, <2>1, <2>2 DEF IInv, Written, Start
<1>5. Walked'
  BY DEF IInv, Walked, Busy, Start
<1> QED
  BY <1>3, <1>4, <1>5 DEF IInv

LEMMA GoneKeeps ==
    ASSUME IInv, Gone, UNCHANGED <<ledger, tip, db, saved, reach>>
    PROVE  IInv'
<1>1. \A p : Applied(p)' <=> Applied(p)
  BY DEF Applied, EventsOf
<1>2. \A n : AppliedBelow(n)' <=> AppliedBelow(n)
  BY <1>1 DEF AppliedBelow
<1>3. Shape' /\ Busy'
  BY DEF IInv, Shape, Busy, Gone, IDLE
<1>4. Written'
  <2>1. EventsOf(reach)' = EventsOf(reach)
    BY DEF EventsOf
  <2>2. AppliedBelow(1)
    BY DEF AppliedBelow
  <2> QED
    BY <1>1, <1>2, <2>1, <2>2 DEF IInv, Written, Gone
<1>5. Walked'
  BY DEF Walked, Gone, IDLE
<1> QED
  BY <1>3, <1>4, <1>5 DEF IInv

(* A listing starts right after the cursor, or at the beginning where the  *)
(* node has not met the cursor: either way in the applied prefix.          *)
LEMMA ListKeeps == ASSUME IInv, List PROVE IInv'
<1> PICK v \in 0..tip : ListUpTo(v)
  BY DEF List
<1> DEFINE from == IF cursor <= v THEN cursor + 1 ELSE 1
<1>1. /\ tip \in Nat /\ cursor \in Nat /\ v \in 0..tip
      /\ from \in Nat /\ v - from + 1 \in Nat /\ from >= 1
  BY DEF IInv, Shape
<1>2. pending' = [i \in 1..v - from + 1 |-> from + i - 1]
  BY DEF ListUpTo
<1>3. work.pos = 0 /\ running = "listing" /\ up
  BY DEF IInv, Busy, ListUpTo
<1>4. Written'
  BY WrittenFrame DEF ListUpTo, chain
<1>5. Shape'
  <2>1. \A i \in 1..v - from + 1 : from + i - 1 \in 1..tip
    BY <1>1
  <2>2. pending' \in Seq(1..tip)
    BY <1>1, <1>2, <2>1
  <2> QED
    BY <2>2 DEF IInv, Shape, ListUpTo, chain
<1>6. Busy'
  BY <1>3 DEF IInv, Busy, ListUpTo
<1>7. Walked'
  <2>1. \A i \in 1..Len(pending') - 1 : pending'[i + 1] = pending'[i] + 1
    BY <1>1, <1>2
  <2>2. pending' # << >> => pending'[1] = from
    BY <1>1, <1>2
  <2>3. AppliedBelow(from)
    BY <1>1 DEF IInv, Written, AppliedBelow
  <2>4. \A n : AppliedBelow(n)' <=> AppliedBelow(n)
    BY DEF AppliedBelow, Applied, EventsOf, ListUpTo, chain
  <2>5. pending' # << >> => AppliedBelow(pending[1])'
    BY <2>2, <2>3, <2>4
  <2>6. work'.pos = 0
    BY <1>3 DEF ListUpTo
  <2> QED
    BY <2>1, <2>5, <2>6 DEF Walked
<1> QED
  BY <1>4, <1>5, <1>6, <1>7 DEF IInv

(* What the first of the pending and the rest of them are.                 *)
LEMMA PendingParts ==
    ASSUME IInv, pending # << >>
    PROVE  /\ Head(pending) \in 1..tip /\ Head(pending) = pending[1]
           /\ Tail(pending) \in Seq(1..tip)
           /\ \A i \in 1..Len(Tail(pending)) - 1 :
                Tail(pending)[i + 1] = Tail(pending)[i] + 1
           /\ Tail(pending) # << >> => Tail(pending)[1] = pending[1] + 1
<1>1. pending \in Seq(1..tip) /\ Len(pending) \in Nat /\ Len(pending) >= 1
  BY DEF IInv, Shape
<1>2. /\ Len(Tail(pending)) = Len(pending) - 1
      /\ \A i \in 1..Len(pending) - 1 : Tail(pending)[i] = pending[i + 1]
      /\ Head(pending) = pending[1] /\ Tail(pending) \in Seq(1..tip)
  BY <1>1
<1>3. \A i \in 1..Len(pending) - 1 : pending[i + 1] = pending[i] + 1
  BY DEF IInv, Walked
<1>4. Tail(pending) # << >> => Len(pending) >= 2
  BY <1>1, <1>2
<1>5. Tail(pending) # << >> => Tail(pending)[1] = pending[1] + 1
  BY <1>1, <1>2, <1>3, <1>4
<1>6. \A i \in 1..Len(Tail(pending)) - 1 : Tail(pending)[i + 1] = Tail(pending)[i] + 1
  <2> TAKE i \in 1..Len(Tail(pending)) - 1
  <2>1. i + 1 \in 1..Len(pending) - 1 /\ i \in 1..Len(pending) - 1
    BY <1>1, <1>2
  <2> QED
    BY <1>2, <1>3, <2>1
<1>7. pending[1] \in 1..tip
  <2>1. 1 \in 1..Len(pending)
    BY <1>1
  <2> QED
    BY <1>1, <2>1, ElementOfSeq
<1> QED
  BY <1>2, <1>5, <1>6, <1>7

LEMMA SkipKeeps == ASSUME IInv, Skip PROVE IInv'
<1>1. CASE halted
  BY <1>1, WalkGivenUp DEF Skip, IDLE, chain
<1>2. CASE ~halted
  <2>1. /\ pending # << >> /\ IsBehind(Head(pending)) /\ work.pos = 0
        /\ pending' = Tail(pending) /\ work' = work
    BY <1>2 DEF Skip, IDLE
  <2>2. Written'
    BY <1>2, WrittenFrame DEF Skip, chain
  <2>3. Shape'
    BY <1>2, <2>1, PendingParts DEF IInv, Shape, Skip, chain
  <2>4. Busy'
    BY <1>2 DEF IInv, Busy, Skip
  <2>5. Walked'
    <3>1. Applied(pending[1])
      BY <2>1, PendingParts, BehindIsApplied
    <3>2. AppliedBelow(pending[1] + 1)
      BY <2>1, <3>1, PendingParts DEF IInv, Walked, AppliedBelow
    <3>3. \A n : AppliedBelow(n)' <=> AppliedBelow(n)
      BY DEF AppliedBelow, Applied, EventsOf, Skip, chain
    <3> QED
      BY <2>1, <3>2, <3>3, PendingParts DEF Walked
  <2> QED
    BY <2>2, <2>3, <2>4, <2>5 DEF IInv
<1> QED
  BY <1>1, <1>2

LEMMA FetchKeeps == ASSUME IInv, Fetch PROVE IInv'
<1> DEFINE p == Head(pending)
<1>1. /\ pending # << >> /\ work.pos = 0 /\ running = "walking"
      /\ pending' = Tail(pending) /\ work' = [pos |-> p, next |-> 1]
  BY DEF Fetch, Fetchable, IDLE
<1>2. p \in 1..tip /\ p = pending[1]
  BY <1>1, PendingParts
<1>3. Written'
  BY WrittenFrame DEF Fetch, chain
<1>4. Shape'
  BY <1>1, <1>2, PendingParts DEF IInv, Shape, Fetch, chain
<1>5. Busy'
  BY DEF IInv, Busy, Fetch, Fetchable
<1>6. Walked'
  <2>1. AppliedBelow(p)
    BY <1>1, <1>2 DEF IInv, Walked
  <2>2. Len(Statements(p)) \in Nat /\ (Len(Statements(p)) = 0 => Applied(p))
    <3>1. p \in DOMAIN ledger /\ ledger \in Ledgers
      BY <1>2, LedgersAssumption DEF IInv, Shape, IsSeq
    <3> QED
      BY <3>1, StatementsKinds DEF Applied
  <2>3. \A n : /\ AppliedBelow(n)' <=> AppliedBelow(n)
               /\ Applied(n)' <=> Applied(n)
    BY DEF AppliedBelow, Applied, EventsOf, Fetch, chain
  <2>4. \A n : Statements(n)' = Statements(n)
    BY DEF Statements, Fetch, chain
  <2>5. /\ \A i \in 1..Len(pending') - 1 : pending'[i + 1] = pending'[i] + 1
        /\ pending' # << >> => pending'[1] = p + 1
    BY <1>1, <1>2, PendingParts
  <2>6. work'.pos = p /\ work'.next = 1 /\ p # 0
    BY <1>1, <1>2 DEF IInv, Shape
  <2>7. work'.next > Len(Statements(p)) => Applied(p)
    BY <2>2, <2>6
  <2> HIDE DEF p
  <2> QED
    BY <2>1, <2>3, <2>4, <2>5, <2>6, <2>7 DEF Walked
<1> QED
  BY <1>3, <1>4, <1>5, <1>6 DEF IInv

(* A statement keeps the rows a prefix: it adds none, or all of its        *)
(* transaction's, before which everything is applied.                      *)
LEMMA PerformedKeeps ==
    ASSUME IInv, InHand, Performed(work.pos, Statements(work.pos)[work.next]),
           UNCHANGED <<ledger, tip, cursor, saved, recent>>
    PROVE  /\ Written'
           /\ \A n : Applied(n) => Applied(n)'
           /\ \A n : n = work.pos /\ work.next = Len(Statements(n)) => Applied(n)'
           /\ "rows" \in DOMAIN db'
           /\ reach' \in reach..tip
<1> PICK p : p = work.pos
  OBVIOUS
<1> DEFINE s == Statements(p)[work.next]
<1>1. p \in 1..tip /\ p \in DOMAIN ledger /\ ledger \in Ledgers
  BY LedgersAssumption DEF IInv, Shape, InHand, IsSeq
<1>2. work.next \in 1..Len(Statements(p))
  BY <1>1, StatementsKinds DEF IInv, Shape, InHand
<1>3. /\ s.kind \in Kinds \cup {"events"}
      /\ work.next = Len(Statements(p)) => EventsOf(p) = {} \/ s.kind = "events"
  BY <1>1, <1>2, StatementsKinds
<1>4. db' = Perform(db, p, s) /\ reach' = (IF p > reach THEN p ELSE reach)
  BY DEF Performed
<1> HIDE DEF s
<1>5. /\ "rows" \in DOMAIN db'
      /\ s.kind \in Kinds => db'.rows = db.rows
      /\ s.kind = "events" => db'.rows = db.rows \cup EventsOf(p)
  BY <1>3, <1>4, PerformRows DEF IInv, Shape
<1>6. reach' \in reach..tip
  BY <1>1, <1>4 DEF IInv, Shape
<1>7. \A n : EventsOf(n)' = EventsOf(n)
  BY DEF EventsOf
<1>8. \A n : Applied(n) => Applied(n)'
  BY <1>3, <1>5, <1>7 DEF Applied
<1>9. work.next = Len(Statements(p)) => Applied(p)'
  BY <1>3, <1>5, <1>7 DEF Applied
<1>10. Written'
  <2>1. \A row \in db'.rows : row[1] \in 1..reach'
    <3>1. \A row \in EventsOf(p) : row[1] = p
      BY DEF EventsOf
    <3>2. db'.rows \subseteq db.rows \cup EventsOf(p)
      BY <1>3, <1>5
    <3>3. 1..reach \subseteq 1..reach' /\ p \in 1..reach'
      BY <1>1, <1>4 DEF IInv, Shape
    <3> QED
      BY <3>1, <3>2, <3>3 DEF IInv, Written
  <2>2. AppliedBelow(reach)'
    <3>1. AppliedBelow(p) /\ AppliedBelow(reach)
      BY <1>1 DEF IInv, Written, Walked
    <3>2. (\A n \in 1..p - 1 : Applied(n)') /\ (\A n \in 1..reach - 1 : Applied(n)')
      BY <1>8, <3>1 DEF AppliedBelow
    <3> QED
      BY <1>4, <3>2 DEF AppliedBelow
  <2>3. reach' > 0 => EventsOf(reach') \cap db'.rows \in {{}, EventsOf(reach')}
    <3>1. \A n : \A row \in EventsOf(n) : row[1] = n
      BY DEF EventsOf
    <3>2. CASE s.kind = "events" /\ p = reach'
      BY <1>5, <3>2
    <3>3. CASE p < reach'
      <4>1. reach' = reach /\ EventsOf(reach') \cap EventsOf(p) = {}
        BY <1>1, <1>4, <3>1, <3>3 DEF IInv, Shape
      <4>2. EventsOf(reach') \cap db'.rows = EventsOf(reach) \cap db.rows
        BY <1>3, <1>5, <4>1
      <4> QED
        BY <4>1, <4>2 DEF IInv, Written
    <3>4. CASE s.kind \in Kinds /\ reach' = reach
      BY <1>5, <3>4 DEF IInv, Written
    <3>5. CASE s.kind \in Kinds /\ p > reach
      <4>1. reach' = p /\ \A row \in db.rows : row[1] # p
        BY <1>1, <1>4, <3>5 DEF IInv, Shape, Written
      <4>2. EventsOf(reach') \cap db'.rows = {}
        BY <1>5, <3>1, <3>5, <4>1
      <4> QED
        BY <4>2
    <3> QED
      BY <1>1, <1>3, <1>4, <3>2, <3>3, <3>4, <3>5 DEF IInv, Shape
  <2>4. AppliedBelow(cursor + 1)' /\ AppliedBelow(saved + 1)'
    BY <1>8 DEF IInv, Written, AppliedBelow
  <2>5. \A i \in DOMAIN recent' : Applied(recent[i])'
    BY <1>8 DEF IInv, Written
  <2> QED
    BY <1>7, <2>1, <2>2, <2>3, <2>4, <2>5 DEF Written
<1> QED
  BY <1>5, <1>6, <1>8, <1>9, <1>10

LEMMA WriteKeeps == ASSUME IInv, Write PROVE IInv'
<1>1. /\ InHand /\ Performed(work.pos, Statements(work.pos)[work.next])
      /\ work' = [work EXCEPT !.next = @ + 1]
      /\ UNCHANGED <<ledger, tip, up, follower, cursor, saved, recent>>
  BY DEF Write, chain
<1>2. /\ Written'
      /\ \A n : Applied(n) => Applied(n)'
      /\ \A n : n = work.pos /\ work.next = Len(Statements(n)) => Applied(n)'
      /\ "rows" \in DOMAIN db' /\ reach' \in reach..tip
  BY <1>1, PerformedKeeps
<1>3. /\ work \in [pos : 0..tip, next : Nat]
      /\ work' = [pos |-> work.pos, next |-> work.next + 1]
  BY <1>1 DEF IInv, Shape
<1>4. Shape'
  <2>1. /\ 0..reach \subseteq 0..reach' /\ 1..reach \subseteq 1..reach'
        /\ reach' \in 0..tip
    BY <1>2 DEF IInv, Shape
  <2>2. recent \in Seq(1..reach')
    BY <2>1, SeqGrows DEF IInv, Shape
  <2>3. work' \in [pos : 0..tip', next : Nat] /\ work'.next >= 1
    BY <1>1, <1>3
  <2> QED
    BY <1>1, <1>2, <2>1, <2>2, <2>3 DEF IInv, Shape, follower
<1>5. Busy'
  BY <1>1, <1>3 DEF IInv, Busy, follower
<1>6. Walked'
  <2>1. \A n : Statements(n)' = Statements(n)
    BY <1>1 DEF Statements
  <2>2. \A n : AppliedBelow(n) => AppliedBelow(n)'
    BY <1>2 DEF AppliedBelow
  <2>3. /\ work.pos # 0 /\ AppliedBelow(work.pos)
        /\ pending # << >> => pending[1] = work.pos + 1
        /\ \A i \in 1..Len(pending) - 1 : pending[i + 1] = pending[i] + 1
    BY <1>1 DEF IInv, Walked, InHand
  <2>4. work.next + 1 > Len(Statements(work.pos)) => work.next = Len(Statements(work.pos))
    <3>1. work.pos \in DOMAIN ledger /\ ledger \in Ledgers
      BY <2>3, LedgersAssumption DEF IInv, Shape, IsSeq
    <3>2. Len(Statements(work.pos)) \in Nat
      BY <3>1, StatementsKinds
    <3> QED
      BY <1>1, <1>3, <3>2 DEF InHand
  <2>5. pending' = pending
    BY <1>1 DEF follower
  <2> QED
    BY <1>2, <1>3, <2>1, <2>2, <2>3, <2>4, <2>5 DEF Walked
<1> QED
  BY <1>2, <1>4, <1>5, <1>6 DEF IInv

(* A statement that fails has had its effect or not; the walk is given up. *)
LEMMA WriteFailsKeeps == ASSUME IInv, WriteFails PROVE IInv'
<1>1. /\ InHand /\ EndPass /\ work' = IDLE
      /\ UNCHANGED <<ledger, tip, up, cursor, saved, recent>>
  BY DEF WriteFails, Halts, chain
<1>2. running = "walking"
  BY <1>1 DEF IInv, Busy, InHand
<1>3. CASE UNCHANGED <<db, reach>>
  BY <1>1, <1>2, <1>3, WalkGivenUp
<1>4. CASE Performed(work.pos, Statements(work.pos)[work.next])
  <2>1. Written' /\ "rows" \in DOMAIN db' /\ reach' \in reach..tip
    BY <1>1, <1>4, PerformedKeeps
  <2>2. Shape'
    <3>1. /\ 0..reach \subseteq 0..reach' /\ 1..reach \subseteq 1..reach'
          /\ reach' \in 0..tip
      BY <2>1 DEF IInv, Shape
    <3>2. recent \in Seq(1..reach')
      BY <3>1, SeqGrows DEF IInv, Shape
    <3> QED
      BY <1>1, <2>1, <3>1, <3>2 DEF IInv, Shape, IDLE, EndPass
  <2>3. Busy'
    BY <1>1, <1>2 DEF IInv, Busy, IDLE, EndPass
  <2>4. Walked'
    BY <1>1 DEF Walked, IDLE, EndPass
  <2> QED
    BY <2>1, <2>2, <2>3, <2>4 DEF IInv
<1> QED
  BY <1>3, <1>4 DEF WriteFails

(* The cursor moves to a transaction before which everything is applied,   *)
(* and whose own statements have all been performed.                       *)
LEMMA AdvanceKeeps == ASSUME IInv, Advance PROVE IInv'
<1> PICK p : p = work.pos
  OBVIOUS
<1>1. /\ p \in 1..tip /\ work.next = Len(Statements(p)) + 1
      /\ work' = [pos |-> p, next |-> work.next + 1]
      /\ cursor' = p /\ recent' = Remember(p)
      /\ reach' = IF p > reach THEN p ELSE reach
      /\ UNCHANGED <<ledger, tip, up, follower, db, saved>>
  <2>1. work \in [pos : 0..tip, next : Nat] /\ tip \in Nat
    BY DEF IInv, Shape
  <2>2. /\ p # 0 /\ work.next = Len(Statements(p)) + 1
        /\ work' = [work EXCEPT !.next = @ + 1]
        /\ cursor' = p /\ recent' = Remember(p)
        /\ reach' = IF p > reach THEN p ELSE reach
        /\ UNCHANGED <<ledger, tip, up, follower, db, saved>>
    BY DEF Advance, Done, chain
  <2> QED
    BY <2>1, <2>2
<1>2. Len(Statements(p)) \in Nat
  <2>1. p \in DOMAIN ledger /\ ledger \in Ledgers
    BY <1>1, LedgersAssumption DEF IInv, Shape, IsSeq
  <2> QED
    BY <2>1, StatementsKinds
<1>3. Applied(p) /\ AppliedBelow(p)
  BY <1>1, <1>2 DEF IInv, Walked
<1>4. \A n : (Applied(n)' <=> Applied(n)) /\ (AppliedBelow(n)' <=> AppliedBelow(n))
  BY <1>1 DEF Applied, AppliedBelow, EventsOf
<1>5. /\ reach' \in 0..tip /\ p \in 1..reach' /\ 0..reach \subseteq 0..reach'
      /\ 1..reach \subseteq 1..reach'
  BY <1>1 DEF IInv, Shape
<1>6. recent' \in Seq(1..reach') /\ \A i \in DOMAIN recent' : Applied(recent'[i])
  <2> DEFINE all == Append(recent, p)
  <2>1. recent \in Seq(1..reach') /\ all \in Seq(1..reach')
    <3>1. recent \in Seq(1..reach')
      BY <1>5, SeqGrows DEF IInv, Shape
    <3> QED
      BY <1>5, <3>1
  <2>2. \A i \in 1..Len(all) : Applied(all[i])
    BY <1>3, <2>1 DEF IInv, Written
  <2>3. CASE recent' = all
    BY <2>1, <2>2, <2>3
  <2>4. CASE recent' = Tail(all) /\ all # << >>
    BY <2>1, <2>2, <2>4
  <2>5. all # << >>
    BY <2>1
  <2> QED
    BY <1>1, <2>3, <2>4, <2>5 DEF Remember
<1>7. Shape'
  BY <1>1, <1>2, <1>5, <1>6 DEF IInv, Shape, follower
<1>8. Busy'
  BY <1>1 DEF IInv, Busy, follower
<1>9. Written'
  <2>1. AppliedBelow(reach')
    BY <1>1, <1>3 DEF IInv, Written
  <2>2. AppliedBelow(cursor' + 1)
    BY <1>1, <1>3 DEF AppliedBelow
  <2>3. EventsOf(reach') \cap db.rows \in {{}, EventsOf(reach')}
    BY <1>1, <1>3 DEF IInv, Shape, Written, Applied
  <2>4. \A n : EventsOf(n)' = EventsOf(n)
    BY <1>1 DEF EventsOf
  <2> QED
    BY <1>1, <1>4, <1>5, <1>6, <2>1, <2>2, <2>3, <2>4 DEF IInv, Written
<1>10. Walked'
  <2>1. \A n : Statements(n)' = Statements(n)
    BY <1>1 DEF Statements
  <2> QED
    BY <1>1, <1>3, <1>4, <2>1 DEF IInv, Walked, follower
<1> QED
  BY <1>7, <1>8, <1>9, <1>10 DEF IInv

LEMMA SaveKeeps == ASSUME IInv, Save PROVE IInv'
<1>1. /\ work.pos # 0 /\ work' = IDLE /\ saved' = cursor
      /\ work.next = Len(Statements(work.pos)) + 2
      /\ UNCHANGED <<ledger, tip, up, follower, db, reach, cursor, recent>>
  BY DEF Save, Saving, chain
<1>2. Written'
  BY <1>1, WrittenFrame
<1>3. Shape'
  BY <1>1 DEF IInv, Shape, IDLE, follower
<1>4. Busy'
  BY <1>1 DEF IInv, Busy, IDLE, follower
<1>5. Walked'
  <2>1. work.pos \in 1..tip /\ Len(Statements(work.pos)) \in Nat
    <3>1. work.pos \in 1..tip /\ work.pos \in DOMAIN ledger /\ ledger \in Ledgers
      BY <1>1, LedgersAssumption DEF IInv, Shape, IsSeq
    <3> QED
      BY <3>1, StatementsKinds
  <2>2. AppliedBelow(work.pos + 1)
    BY <1>1, <2>1 DEF IInv, Walked, AppliedBelow
  <2>3. \A n : AppliedBelow(n)' <=> AppliedBelow(n)
    BY <1>1 DEF Applied, AppliedBelow, EventsOf
  <2> QED
    BY <1>1, <2>2, <2>3 DEF IInv, Walked, IDLE, follower
<1> QED
  BY <1>2, <1>3, <1>4, <1>5 DEF IInv

-----------------------------------------------------------------------------
LEMMA InitHolds == Init => IInv
<1> SUFFICES ASSUME Init PROVE IInv
  OBVIOUS
<1>1. Len(ledger) \in Nat
  BY LedgersAssumption DEF Init, IsSeq
<1>2. Shape
  BY <1>1 DEF Init, Shape, IDLE, EmptyMirror
<1>3. Busy /\ Walked
  BY DEF Init, Busy, Walked, IDLE
<1>4. Written
  BY DEF Init, Written, AppliedBelow, EmptyMirror
<1> QED
  BY <1>2, <1>3, <1>4 DEF IInv

LEMMA NextKeeps == IInv /\ [Next]_vars => IInv'
<1> SUFFICES ASSUME IInv, [Next]_vars PROVE IInv'
  OBVIOUS
<1>0. tip \in Nat /\ Len(ledger) \in Nat /\ tip <= Len(ledger)
  BY LedgersAssumption DEF IInv, Shape, IsSeq
<1>1. CASE Produce
  <2>1. tip' \in tip..Len(ledger)
    BY <1>0, <1>1 DEF Produce
  <2> QED
    BY <1>1, <2>1, BesideTheWalk DEF Produce, follower, IInv, Busy
<1>2. CASE Start
  BY <1>2, StartKeeps
<1>3. CASE Crash \/ Exit
  BY <1>3, GoneKeeps DEF Crash, Exit, chain
<1>4. CASE Stop
  BY <1>0, <1>4, BesideTheWalk DEF Stop, chain, IInv, Busy
<1>5. CASE \E p \in 1..tip : Wake(p)
  BY <1>0, <1>5, BesideTheWalk DEF Wake, chain, IInv, Busy
<1>6. CASE TimerFires
  BY <1>0, <1>6, BesideTheWalk DEF TimerFires, Pass, chain, IInv, Busy
<1>7. CASE Interval
  BY <1>0, <1>7, BesideTheWalk DEF Interval, Pass, chain, IInv, Busy
<1>8. CASE List
  BY <1>8, ListKeeps
<1>9. CASE ListFails
  <2>1. work.pos = 0
    BY <1>9 DEF IInv, Busy, ListFails
  <2> QED
    BY <1>9, <2>1, WalkGivenUp DEF ListFails, chain
<1>10. CASE PassOver
  BY <1>10, WalkGivenUp DEF PassOver, chain
<1>11. CASE Skip
  BY <1>11, SkipKeeps
<1>12. CASE Fetch
  BY <1>12, FetchKeeps
<1>13. CASE FetchFails
  BY <1>13, WalkGivenUp DEF FetchFails, Fetchable, Halts, chain
<1>14. CASE Write
  BY <1>14, WriteKeeps
<1>15. CASE WriteFails
  BY <1>15, WriteFailsKeeps
<1>16. CASE Advance
  BY <1>16, AdvanceKeeps
<1>17. CASE Save
  BY <1>17, SaveKeeps
<1>18. CASE SaveFails
  <2>1. running = "walking"
    BY <1>18 DEF IInv, Busy, SaveFails, Saving
  <2> QED
    BY <1>18, <2>1, WalkGivenUp DEF SaveFails, chain
<1>19. CASE UNCHANGED vars
  BY <1>0, <1>19, BesideTheWalk DEF vars, IInv, Busy
<1> QED
  BY <1>1, <1>2, <1>3, <1>4, <1>5, <1>6, <1>7, <1>8, <1>9, <1>10, <1>11, <1>12,
     <1>13, <1>14, <1>15, <1>16, <1>17, <1>18, <1>19 DEF Next, Step

LEMMA Invariance == Spec => []IInv
<1> QED
  BY InitHolds, NextKeeps, PTL DEF Spec

-----------------------------------------------------------------------------
(* The journal's rows are a prefix of the chain, without a gap, whatever   *)
(* crashes, fails, lags or is never notified.                              *)
THEOREM RowsAreAPrefix == Spec => []MirrorIsAPrefix
<1>1. IInv => MirrorIsAPrefix
  <2> SUFFICES ASSUME IInv PROVE MirrorIsAPrefix
    OBVIOUS
  <2>1. tip \in Nat /\ reach \in 0..tip /\ cursor \in 0..reach /\ saved \in 0..reach
    <3>1. Len(ledger) \in Nat
      BY LedgersAssumption DEF IInv, Shape, IsSeq
    <3> QED
      BY <3>1 DEF IInv, Shape
  <2>2. /\ \A p \in 1..reach - 1 : Applied(p)
        /\ \A p \in 1..cursor : Applied(p)
        /\ \A p \in 1..saved : Applied(p)
    BY <2>1 DEF IInv, Written, AppliedBelow
  <2>3. \A p \in 1..tip : p < reach => Applied(p)
    BY <2>1, <2>2
  <2>4. \A row \in db.rows : row[1] <= reach
    BY <2>1 DEF IInv, Written
  <2>5. \A p \in 1..Larger(cursor, saved) : Applied(p)
    BY <2>1, <2>2 DEF Larger
  <2>6. reach > 0 => EventsOf(reach) \cap db.rows \in {{}, EventsOf(reach)}
    BY DEF IInv, Written
  <2> QED
    BY <2>1, <2>3, <2>4, <2>5, <2>6 DEF MirrorIsAPrefix, Applied
<1> QED
  BY <1>1, Invariance, PTL

-----------------------------------------------------------------------------
(* Where a notification stands by the state of the pass.                   *)
WakeInv ==
  /\ running \in {"no", "listing", "walking"}
  /\ owed /\ running = "walking" => again
  /\ owed /\ running = "no" => timer \/ stopping

(* The end of a pass leaves a notification with a pass to come.            *)
LEMMA EndPassServes ==
    ASSUME EndPass, UNCHANGED stopping, owed' => again
    PROVE  WakeInv'
BY DEF EndPass, WakeInv

LEMMA WakeInductive == IInv /\ WakeInv /\ [Next]_vars => WakeInv'
<1> SUFFICES ASSUME IInv, WakeInv, [Next]_vars PROVE WakeInv'
  OBVIOUS
<1>1. CASE Produce \/ Write \/ Advance \/ Save \/ UNCHANGED vars
  BY <1>1 DEF WakeInv, Produce, Write, Advance, Save, vars, follower
<1>2. CASE Start
  BY <1>2 DEF WakeInv, Start
<1>3. CASE Crash \/ Exit
  BY <1>3 DEF WakeInv, Crash, Exit, Gone
<1>4. CASE Stop
  BY <1>4 DEF WakeInv, Stop
<1>5. CASE \E p \in 1..tip : Wake(p)
  <2> PICK p \in 1..tip : Wake(p)
    BY <1>5
  <2>1. CASE running = "no"
    BY <2>1 DEF WakeInv, Wake
  <2>2. CASE running # "no"
    BY <2>2 DEF WakeInv, Wake
  <2> QED
    BY <2>1, <2>2
<1>6. CASE TimerFires
  <2>1. CASE running = "no"
    BY <1>6, <2>1 DEF WakeInv, TimerFires, Pass
  <2>2. CASE running # "no"
    BY <1>6, <2>2 DEF WakeInv, TimerFires, Pass
  <2> QED
    BY <2>1, <2>2
<1>7. CASE Interval
  BY <1>7 DEF WakeInv, Interval, Pass
<1>8. CASE List
  BY <1>8 DEF WakeInv, List, ListUpTo
<1>9. CASE ListFails
  BY <1>9, EndPassServes DEF ListFails
<1>10. CASE PassOver
  BY <1>10, EndPassServes DEF WakeInv, PassOver
<1>11. CASE Skip
  <2>1. CASE halted
    BY <1>11, <2>1, EndPassServes DEF WakeInv, Skip
  <2>2. CASE ~halted
    BY <1>11, <2>2 DEF WakeInv, Skip
  <2> QED
    BY <2>1, <2>2
<1>12. CASE Fetch
  BY <1>12 DEF WakeInv, Fetch
<1>13. CASE FetchFails
  BY <1>13, EndPassServes DEF WakeInv, FetchFails, Fetchable, Halts
<1>14. CASE WriteFails
  <2>1. running = "walking"
    BY <1>14 DEF IInv, Busy, WriteFails, InHand
  <2> QED
    BY <1>14, <2>1, EndPassServes DEF WakeInv, WriteFails, Halts
<1>15. CASE SaveFails
  <2>1. running = "walking"
    BY <1>15 DEF IInv, Busy, SaveFails, Saving
  <2> QED
    BY <1>15, <2>1, EndPassServes DEF WakeInv, SaveFails
<1> QED
  BY <1>1, <1>2, <1>3, <1>4, <1>5, <1>6, <1>7, <1>8, <1>9, <1>10, <1>11, <1>12,
     <1>13, <1>14, <1>15 DEF Next, Step

(* No notification is forgotten: while one is owed a listing, a pass is    *)
(* listing, scheduled or bound to be, or the process has been told to stop.*)
THEOREM WakesAreServed == Spec => []NoWakeForgotten
<1>1. Init => WakeInv
  BY DEF Init, WakeInv
<1>2. WakeInv => NoWakeForgotten
  BY DEF WakeInv, NoWakeForgotten
<1> QED
  BY <1>1, <1>2, WakeInductive, Invariance, PTL DEF Spec

-----------------------------------------------------------------------------
(* A walk goes back within the slot of the cursor, never to an earlier one: *)
(* what is in hand is no earlier than the cursor, nor the cursor than its  *)
(* row.                                                                    *)
Ahead ==
  /\ up /\ saved # 0 => cursor # 0 /\ ledger[saved].slot <= ledger[cursor].slot
  /\ work.pos # 0 /\ cursor # 0 => ledger[cursor].slot <= ledger[work.pos].slot

(* No row is of an event that the chain has not.                           *)
RealRows == \A row \in db.rows : row \in EventsOf(row[1])

MInv == IInv /\ Ahead /\ RealRows

(* The numbers of a set have a least.                                      *)
LEMMA LeastPosition ==
    ASSUME NEW S \in SUBSET Nat, S # {}
    PROVE  \E i \in S : \A j \in S : i <= j
<1> DEFINE Less == {x \in Nat \X Nat : x[1] < x[2]}
<1>1. IsWellFoundedOn(Less, Nat)
  BY NatLessThanWellFounded DEF OpToRel
<1>2. PICK i \in S : \A j \in S : ~(<<j, i>> \in Less)
  <2> HIDE DEF Less
  <2> QED
    BY <1>1, WFMin
<1>3. ASSUME NEW j \in S
      PROVE  i <= j
  <2>1. <<j, i>> \in Nat \X Nat /\ <<j, i>>[1] = j /\ <<j, i>>[2] = i
    OBVIOUS
  <2> QED
    BY <1>2, <2>1
<1> QED
  BY <1>3

(* The chain's slots, in order.                                            *)
LEMMA Slots ==
    ASSUME IInv
    PROVE  /\ tip \in Nat /\ Len(ledger) \in Nat /\ tip <= Len(ledger)
           /\ DOMAIN ledger = 1..Len(ledger)
           /\ saved \in 0..tip /\ cursor \in 0..tip /\ work.pos \in 0..tip
           /\ \A p \in 1..tip : ledger[p].slot \in Nat /\ ledger[p].slot > 0
           /\ \A p \in 1..Len(ledger) : ledger[p].slot \in Nat
           /\ \A p, q \in 1..Len(ledger) : p <= q => ledger[p].slot <= ledger[q].slot
<1>1. /\ ledger \in Ledgers /\ DOMAIN ledger = 1..Len(ledger) /\ Len(ledger) \in Nat
  BY LedgersAssumption DEF IInv, Shape, IsSeq
<1>2. /\ \A p \in 1..Len(ledger) : ledger[p].slot \in Nat \ {0}
      /\ \A p, q \in 1..Len(ledger) : p <= q => ledger[p].slot <= ledger[q].slot
  BY <1>1, LedgersAssumption
<1>3. /\ tip \in 0..Len(ledger) /\ reach \in 0..tip /\ cursor \in 0..reach
      /\ saved \in 0..reach /\ work.pos \in 0..tip
  BY DEF IInv, Shape
<1> QED
  BY <1>1, <1>2, <1>3

(* A step of the journal's readers leaves the indexer as it was.           *)
LEMMA ReadersRead ==
    ASSUME JNext
    PROVE  \/ Next
           \/ UNCHANGED <<ledger, tip, up, subscribed, stopping, running, again, timer,
                          pending, cursor, recent, halted, work, db, saved, reach, owed>>
BY DEF JNext, Reading, ReadFrontier, ReadWindow, Manifest, ExportPage, ExportFails,
   Connect, Poll, Deliver, Break, vars, follower

LEMMA AheadInductive ==
    ASSUME MInv, Next \/ UNCHANGED <<ledger, up, cursor, work, saved>>
    PROVE  Ahead'
<1> USE DEF MInv
<1>1. CASE UNCHANGED <<ledger, up, cursor, work, saved>>
  BY <1>1 DEF Ahead
<1>2. CASE Start
  <2>1. work.pos = 0
    BY <1>2 DEF IInv, Busy, Start
  <2>2. saved # 0 => ledger[saved].slot \in Nat
    BY Slots
  <2> QED
    BY <1>2, <2>1, <2>2 DEF Ahead, Start, chain
<1>3. CASE Crash \/ Exit
  BY <1>3 DEF Ahead, Crash, Exit, Gone, IDLE
<1>4. CASE Produce \/ Stop \/ (\E p \in 1..tip : Wake(p)) \/ TimerFires \/ Interval
             \/ List \/ ListFails \/ PassOver \/ Skip
  <2>1. UNCHANGED <<ledger, up, cursor, work, saved>>
    BY <1>4 DEF Produce, Stop, Wake, TimerFires, Interval, List, ListUpTo, ListFails,
       PassOver, Skip, chain
  <2> QED
    BY <1>1, <2>1
<1>5. CASE Fetch
  <2>1. PICK p : p = Head(pending)
    OBVIOUS
  <2>2. p \in 1..tip
    BY <1>5, <2>1, PendingParts DEF Fetch, Fetchable
  <2>3. cursor # 0 => ledger[cursor].slot <= ledger[p].slot
    BY <1>5, <2>1, <2>2, Slots DEF Fetch, Fetchable, IsBehind
  <2>4. work'.pos = p /\ UNCHANGED <<ledger, up, cursor, saved>>
    BY <1>5, <2>1 DEF Fetch, chain
  <2> QED
    BY <2>3, <2>4 DEF Ahead
<1>6. CASE Write
  <2>1. work'.pos = work.pos /\ UNCHANGED <<ledger, up, cursor, saved>>
    BY <1>6 DEF Write, chain, IInv, Shape
  <2> QED
    BY <2>1 DEF Ahead
<1>7. CASE FetchFails \/ WriteFails
  <2>1. work'.pos = 0 /\ UNCHANGED <<ledger, up, cursor, saved>>
    BY <1>7 DEF FetchFails, WriteFails, Halts, IDLE, chain
  <2> QED
    BY <2>1 DEF Ahead
<1>8. CASE Advance
  <2>1. /\ work.pos # 0 /\ work'.pos = work.pos /\ cursor' = work.pos
        /\ UNCHANGED <<ledger, up, saved>>
    BY <1>8 DEF Advance, Done, chain, IInv, Shape
  <2>2. up
    BY <2>1 DEF IInv, Busy
  <2>3. saved # 0 => ledger[saved].slot <= ledger[work.pos].slot
    BY <2>1, <2>2, Slots DEF Ahead
  <2>4. ledger[work.pos].slot \in Nat
    BY <2>1, Slots
  <2> QED
    BY <2>1, <2>3, <2>4 DEF Ahead
<1>9. CASE Save \/ SaveFails
  <2>1. /\ work'.pos = 0 /\ saved' \in {saved, cursor}
        /\ UNCHANGED <<ledger, up, cursor>>
    BY <1>9 DEF Save, SaveFails, IDLE, chain
  <2>2. cursor # 0 => ledger[cursor].slot \in Nat
    BY Slots
  <2> QED
    BY <2>1, <2>2 DEF Ahead
<1> QED
  BY <1>1, <1>2, <1>3, <1>4, <1>5, <1>6, <1>7, <1>8, <1>9 DEF Next, Step

(* Rows come by the statement in hand alone, all of its transaction's.     *)
LEMMA WhatIsWritten ==
    ASSUME IInv, Next
    PROVE  \/ UNCHANGED db
           \/ /\ work.pos \in 1..tip /\ UNCHANGED <<ledger, tip, saved, cursor>>
              /\ db'.rows \in {db.rows, db.rows \cup EventsOf(work.pos)}
<1>1. CASE InHand /\ Performed(work.pos, Statements(work.pos)[work.next])
                  /\ UNCHANGED <<ledger, tip, saved, cursor>>
  <2>1. PICK p : p = work.pos
    OBVIOUS
  <2>2. p \in 1..tip /\ p \in DOMAIN ledger /\ ledger \in Ledgers
    BY <1>1, <2>1, LedgersAssumption DEF IInv, Shape, InHand, IsSeq
  <2>3. work.next \in 1..Len(Statements(p))
    BY <1>1, <2>1, <2>2, StatementsKinds DEF IInv, Shape, InHand
  <2>4. PICK s : s = Statements(p)[work.next]
    OBVIOUS
  <2>5. s.kind \in Kinds \cup {"events"}
    BY <2>2, <2>3, <2>4, StatementsKinds
  <2>6. db' = Perform(db, p, s) /\ "rows" \in DOMAIN db
    BY <1>1, <2>1, <2>4 DEF Performed, IInv, Shape
  <2>7. db'.rows \in {db.rows, db.rows \cup EventsOf(p)}
    BY <2>5, <2>6, PerformRows
  <2> QED
    BY <1>1, <2>1, <2>2, <2>7
<1>2. CASE Write
  BY <1>1, <1>2 DEF Write, chain
<1>3. CASE WriteFails
  BY <1>1, <1>3 DEF WriteFails, Halts, chain
<1>4. CASE ~Write /\ ~WriteFails
  BY <1>4 DEF Next, Step, Produce, Start, Crash, Stop, Exit, Wake, TimerFires, Interval,
     List, ListUpTo, ListFails, PassOver, Skip, Fetch, FetchFails, Halts, Advance, Save,
     SaveFails
<1> QED
  BY <1>1, <1>2, <1>3, <1>4

LEMMA LedgerStays == ASSUME Next PROVE UNCHANGED ledger
BY DEF Next, Step, Produce, Start, Crash, Stop, Exit, Wake, TimerFires, Interval, List,
   ListUpTo, ListFails, PassOver, Skip, Fetch, FetchFails, Halts, Write, WriteFails,
   Advance, Save, SaveFails, chain

LEMMA RealRowsKept ==
    ASSUME MInv, Next \/ UNCHANGED <<ledger, db>>
    PROVE  RealRows'
<1>1. UNCHANGED ledger
  BY LedgerStays
<1>2. \A p : EventsOf(p)' = EventsOf(p)
  BY <1>1 DEF EventsOf
<1>3. \A p : \A row \in EventsOf(p) : row[1] = p
  BY DEF EventsOf
<1>4. \E p : db'.rows \subseteq db.rows \cup EventsOf(p)
  BY WhatIsWritten DEF MInv
<1> QED
  BY <1>2, <1>3, <1>4 DEF MInv, RealRows

LEMMA IndexerKept ==
    ASSUME IInv,
           \/ Next
           \/ UNCHANGED <<ledger, tip, up, subscribed, stopping, running, again, timer,
                          pending, cursor, recent, halted, work, db, saved, reach, owed>>
    PROVE  IInv'
<1>1. CASE Next
  BY <1>1, NextKeeps
<1>2. CASE ~Next
  <2>1. tip' \in tip..Len(ledger)
    BY <1>2, Slots
  <2> QED
    BY <1>2, <2>1, BesideTheWalk DEF IInv, Busy
<1> QED
  BY <1>1, <1>2

LEMMA MirrorInvariance == JSpec => []MInv
<1>1. JInit => MInv
  BY InitHolds DEF JInit, Init, MInv, Ahead, RealRows, IDLE, EmptyMirror
<1>2. MInv /\ [JNext]_jvars => MInv'
  <2> SUFFICES ASSUME MInv, [JNext]_jvars
               PROVE  MInv'
    OBVIOUS
  <2>1. \/ Next
        \/ UNCHANGED <<ledger, tip, up, subscribed, stopping, running, again, timer,
                       pending, cursor, recent, halted, work, db, saved, reach, owed>>
    BY ReadersRead DEF jvars, vars
  <2>2. IInv'
    BY <2>1, IndexerKept DEF MInv
  <2>3. Ahead'
    BY <2>1, AheadInductive
  <2>4. RealRows'
    BY <2>1, RealRowsKept
  <2> QED
    BY <2>2, <2>3, <2>4 DEF MInv
<1> QED
  BY <1>1, <1>2, PTL DEF JSpec

-----------------------------------------------------------------------------
(* What is shown.                                                          *)

(* The rows of the slots before a position's.                              *)
RowsBefore(s) == {row \in db.rows : ledger[row[1]].slot < ledger[s].slot}

LEMMA ShownRows ==
    ASSUME MInv, saved # 0
    PROVE  Shown = RowsBefore(saved)
<1>1. ledger[saved].slot \in Nat /\ ledger[saved].slot > 0
  BY Slots DEF MInv
<1>2. Frontier.horizon = ledger[saved].slot - 1
  BY <1>1 DEF Frontier, Larger
<1>3. \A row \in db.rows : ledger[row[1]].slot \in Nat
  <2>1. \A row \in db.rows : row[1] \in 1..tip
    BY Slots DEF MInv, IInv, Shape, Written
  <2> QED
    BY <2>1, Slots DEF MInv
<1> QED
  BY <1>1, <1>2, <1>3 DEF Shown, SlotOf, RowsBefore

(* Where the slot of a position begins.                                    *)
LEMMA SlotBegins ==
    ASSUME IInv, NEW s \in 1..tip
    PROVE  \E m \in 1..s :
             /\ ledger[m].slot = ledger[s].slot
             /\ \A p \in 1..m - 1 : ledger[p].slot < ledger[m].slot
             /\ \A p \in m..tip : ~(ledger[p].slot < ledger[m].slot)
<1> DEFINE Same == {p \in 1..s : ledger[p].slot = ledger[s].slot}
<1>1. Same \in SUBSET Nat /\ s \in Same
  BY Slots
<1>2. PICK m \in Same : \A p \in Same : m <= p
  BY <1>1, LeastPosition
<1>3. m \in 1..s /\ ledger[m].slot = ledger[s].slot
  BY <1>2
<1>4. ASSUME NEW p \in 1..m - 1
      PROVE  ledger[p].slot < ledger[m].slot
  <2>1. p \in 1..s /\ p \notin Same
    BY <1>2, <1>3, <1>4, Slots
  <2> QED
    BY <1>3, <2>1, Slots
<1>5. ASSUME NEW p \in m..tip
      PROVE  ~(ledger[p].slot < ledger[m].slot)
  BY <1>3, Slots
<1> QED
  BY <1>3, <1>4, <1>5

(* They are whole slots of the chain, where all before it is applied.      *)
LEMMA RowsBeforeWhole ==
    ASSUME MInv, NEW s \in 1..tip, AppliedBelow(s + 1)
    PROVE  \/ RowsBefore(s) = {}
           \/ \E n \in 1..tip : /\ n < Len(ledger) => ledger[n].slot < ledger[n + 1].slot
                                /\ RowsBefore(s) = Mirror!EventsUpTo(n)
<1>1. PICK m \in 1..s :
        /\ ledger[m].slot = ledger[s].slot
        /\ \A p \in 1..m - 1 : ledger[p].slot < ledger[m].slot
        /\ \A p \in m..tip : ~(ledger[p].slot < ledger[m].slot)
  BY SlotBegins DEF MInv
<1>2. /\ tip \in Nat /\ s \in 1..tip /\ m \in 1..tip /\ m - 1 \in 0..tip
      /\ (m - 1) + 1 = m
  BY <1>1, Slots DEF MInv
<1>3. \A row \in db.rows : row[1] \in 1..tip /\ row \in EventsOf(row[1])
  BY <1>2 DEF MInv, IInv, Shape, Written, RealRows
<1>4. \A p \in 1..m - 1 : EventsOf(p) \subseteq db.rows
  BY <1>1, <1>2 DEF AppliedBelow, Applied
<1>5. \A row : row \in RowsBefore(s) <=> \E p \in 1..m - 1 : row \in EventsOf(p)
  <2>1. ASSUME NEW row \in RowsBefore(s)
        PROVE  \E p \in 1..m - 1 : row \in EventsOf(p)
    <3>1. row \in db.rows /\ ledger[row[1]].slot < ledger[m].slot
      BY <1>1 DEF RowsBefore
    <3>2. row[1] \in 1..m - 1
      BY <1>1, <1>2, <1>3, <3>1
    <3> QED
      BY <1>3, <3>1, <3>2
  <2>2. ASSUME NEW p \in 1..m - 1, NEW row \in EventsOf(p)
        PROVE  row \in RowsBefore(s)
    <3>1. row[1] = p
      BY DEF EventsOf
    <3> QED
      BY <1>1, <1>4, <3>1 DEF RowsBefore
  <2> QED
    BY <2>1, <2>2
<1>6. RowsBefore(s) = Mirror!EventsUpTo(m - 1)
  BY <1>5 DEF Mirror!EventsUpTo, EventsOf
<1>7. CASE m = 1
  BY <1>5, <1>7
<1>8. CASE m # 1
  <2>1. m - 1 \in 1..tip /\ ledger[m - 1].slot < ledger[m].slot
    BY <1>1, <1>2, <1>8
  <2> QED
    BY <1>2, <1>6, <2>1
<1> QED
  BY <1>7, <1>8

-----------------------------------------------------------------------------
(* The refinement.                                                         *)

LEMMA ShownStays ==
    ASSUME MInv, UNCHANGED <<ledger, saved>>,
           saved # 0 => RowsBefore(saved)' = RowsBefore(saved),
           saved # 0 => \A row \in db'.rows : ledger[row[1]].slot \in Nat
    PROVE  Shown' = Shown
<1>1. CASE saved = 0
  BY <1>1 DEF Shown
<1>2. CASE saved # 0
  <2>1. ledger[saved].slot \in Nat /\ ledger[saved].slot > 0
    BY <1>2, Slots DEF MInv
  <2>2. Frontier'.horizon = ledger[saved].slot - 1
    BY <1>2, <2>1 DEF Frontier, Larger
  <2>3. Shown' = RowsBefore(saved)'
    BY <1>2, <2>1, <2>2 DEF Shown, SlotOf, RowsBefore
  <2> QED
    BY <1>2, <2>3, ShownRows
<1> QED
  BY <1>1, <1>2

(* A statement writes nothing of a slot that is shown already.             *)
LEMMA WritesAreAhead ==
    ASSUME MInv, work.pos \in 1..tip, UNCHANGED <<ledger, tip, saved, cursor>>,
           db'.rows \in {db.rows, db.rows \cup EventsOf(work.pos)}
    PROVE  Shown' = Shown
<1>1. \A row \in EventsOf(work.pos) : row[1] = work.pos
  BY DEF EventsOf
<1>2. \A row \in db'.rows : ledger[row[1]].slot \in Nat
  <2>1. \A row \in db'.rows : row[1] \in 1..tip
    BY <1>1, Slots DEF MInv, IInv, Shape, Written
  <2> QED
    BY <2>1, Slots DEF MInv
<1>3. ASSUME saved # 0
      PROVE  RowsBefore(saved)' = RowsBefore(saved)
  <2>1. /\ cursor # 0 /\ ledger[saved].slot <= ledger[cursor].slot
        /\ ledger[cursor].slot <= ledger[work.pos].slot
    <3>1. work.pos # 0 /\ up
      BY Slots DEF MInv, IInv, Busy
    <3> QED
      BY <1>3, <3>1 DEF MInv, Ahead
  <2>2. /\ ledger[saved].slot \in Nat /\ ledger[cursor].slot \in Nat
        /\ ledger[work.pos].slot \in Nat
    BY <1>3, <2>1, Slots DEF MInv
  <2>3. ~(ledger[work.pos].slot < ledger[saved].slot)
    BY <2>1, <2>2
  <2> QED
    BY <1>1, <2>3 DEF RowsBefore
<1> QED
  BY <1>2, <1>3, ShownStays

(* Saving the cursor shows the slots before the cursor's.                  *)
LEMMA SavingShows ==
    ASSUME MInv, UNCHANGED <<ledger, tip, db>>, saved' = cursor, up
    PROVE  Mirror!Show \/ Shown' = Shown
<1>1. CASE cursor = 0
  <2>1. saved = 0
    BY <1>1 DEF MInv, Ahead
  <2> QED
    BY <1>1, <2>1 DEF Shown
<1>2. CASE cursor # 0
  <2>1. cursor \in 1..tip /\ ledger[cursor].slot \in Nat /\ ledger[cursor].slot > 0
    BY <1>2, Slots DEF MInv
  <2>2. \A row \in db.rows : ledger[row[1]].slot \in Nat
    <3>1. \A row \in db.rows : row[1] \in 1..tip
      BY Slots DEF MInv, IInv, Shape, Written
    <3> QED
      BY <3>1, Slots DEF MInv
  <2>3. Shown' = RowsBefore(cursor)
    <3>1. Frontier'.horizon = ledger[cursor].slot - 1
      BY <1>2, <2>1 DEF Frontier, Larger
    <3> QED
      BY <1>2, <2>1, <2>2, <3>1 DEF Shown, SlotOf, RowsBefore
  <2>4. Shown \subseteq Shown'
    <3>1. CASE saved = 0
      BY <3>1 DEF Shown
    <3>2. CASE saved # 0
      <4>1. /\ ledger[saved].slot <= ledger[cursor].slot
            /\ ledger[saved].slot \in Nat
        BY <3>2, Slots DEF MInv, Ahead
      <4>2. RowsBefore(saved) \subseteq RowsBefore(cursor)
        BY <2>1, <2>2, <4>1 DEF RowsBefore
      <4> QED
        BY <2>3, <3>2, <4>2, ShownRows
    <3> QED
      BY <3>1, <3>2
  <2>5. CASE RowsBefore(cursor) = {}
    BY <2>3, <2>4, <2>5
  <2>6. CASE RowsBefore(cursor) # {}
    <3>1. AppliedBelow(cursor + 1)
      BY DEF MInv, IInv, Written
    <3>2. PICK n \in 1..tip : /\ n < Len(ledger) => ledger[n].slot < ledger[n + 1].slot
                              /\ RowsBefore(cursor) = Mirror!EventsUpTo(n)
      BY <2>1, <2>6, <3>1, RowsBeforeWhole
    <3> QED
      BY <2>3, <2>4, <3>2 DEF Mirror!Show
  <2> QED
    BY <2>5, <2>6
<1> QED
  BY <1>1, <1>2

LEMMA StepRefines ==
    ASSUME MInv, [JNext]_jvars
    PROVE  [Mirror!Next]_<<ledger, tip, Shown>>
<1>1. CASE UNCHANGED <<ledger, tip, saved, db>>
  BY <1>1 DEF Shown, Frontier, Rows, SlotOf, OfMint
<1>2. CASE Next /\ ~UNCHANGED db
  <2>1. Shown' = Shown /\ UNCHANGED <<ledger, tip>>
    BY <1>2, WhatIsWritten, WritesAreAhead DEF MInv
  <2> QED
    BY <2>1
<1>3. CASE Produce
  <2>1. tip' \in tip + 1..Len(ledger) /\ UNCHANGED <<ledger, saved, db>>
    BY <1>3 DEF Produce
  <2>2. Shown' = Shown
    BY <2>1 DEF Shown, Frontier, Rows, SlotOf, OfMint
  <2> QED
    BY <2>1, <2>2 DEF Mirror!Next, Mirror!Confirm
<1>4. CASE Save \/ SaveFails
  <2>1. UNCHANGED <<ledger, tip, db>> /\ saved' \in {saved, cursor} /\ work.pos # 0
    BY <1>4 DEF Save, SaveFails, Saving, chain
  <2>2. up
    BY <2>1 DEF MInv, IInv, Busy
  <2>3. CASE saved' = cursor
    BY <2>1, <2>2, <2>3, SavingShows DEF Mirror!Next
  <2>4. CASE saved' = saved
    BY <1>1, <2>1, <2>4
  <2> QED
    BY <2>1, <2>3, <2>4
<1>5. CASE Next /\ UNCHANGED db /\ ~Produce /\ ~Save /\ ~SaveFails
  <2>1. UNCHANGED <<ledger, tip, saved, db>>
    BY <1>5 DEF Next, Step, Start, Crash, Stop, Exit, Wake, TimerFires, Interval, List,
       ListUpTo, ListFails, PassOver, Skip, Fetch, FetchFails, Halts, Write, WriteFails,
       Advance, chain
  <2> QED
    BY <1>1, <2>1
<1> QED
  BY <1>1, <1>2, <1>3, <1>4, <1>5, ReadersRead DEF jvars, vars

(* What a reader can be shown is whole slots of the chain, and never less  *)
(* than it was, for any chain, any crashes, failures, lagging nodes and    *)
(* lost notifications, and whatever is read at the same time.              *)
THEOREM JournalImplementsMirror == JSpec => ImplementsMirror
<1>1. JInit => Mirror!Init
  BY DEF JInit, Init, Mirror!Init, Shown
<1>2. MInv /\ [JNext]_jvars => [Mirror!Next]_<<ledger, tip, Shown>>
  BY StepRefines
<1> QED
  BY <1>1, <1>2, MirrorInvariance, PTL DEF JSpec, ImplementsMirror, Mirror!Spec

-----------------------------------------------------------------------------
(* The history of delegation changes.                                      *)
(*                                                                         *)
(* A place is a transaction and a statement of it; the places are ordered. *)
(* The issuer's row says what the last change up to some place f made, and *)
(* the history has exactly the changes up to some place g, which is no     *)
(* earlier.  What is behind the cursor, its row or the statement in hand   *)
(* is up to f: so a statement applied again, at f or before it, finds its  *)
(* row written, and one applied for the first time finds the issuer's row  *)
(* saying what the change before it made.                                  *)

Place == Nat \X Nat
UpTo(a, f) == a[1] < f[1] \/ (a[1] = f[1] /\ a[2] <= f[2])

ChangeKinds == {"issuer_initialized", "delegation_set"}
Told(l, a) == l[a[1]].body.statements[a[2]]
Spoken(l) ==
  {a \in Place : a[1] \in DOMAIN l /\ a[2] \in DOMAIN l[a[1]].body.statements}
Changes(l) == {a \in Spoken(l) : Told(l, a).kind \in ChangeKinds}
Delegations(l) == {a \in Changes(l) : Told(l, a).kind = "delegation_set"}
Made(l, a) == [key |-> Told(l, a).key, mask |-> Told(l, a).mask]

IsLast(l, a, f) ==
  /\ a \in Changes(l) /\ UpTo(a, f)
  /\ \A b \in Changes(l) : UpTo(b, f) => UpTo(b, a)
JustBefore(l, b, a) ==
  /\ b \in Changes(l) /\ b # a /\ UpTo(b, a)
  /\ \A c \in Changes(l) : c # a /\ UpTo(c, a) => UpTo(c, b)

IssuerAsOf(l, issuer, f) ==
  \/ issuer = Nothing /\ \A a \in Changes(l) : ~UpTo(a, f)
  \/ \E a \in Changes(l) : IsLast(l, a, f) /\ issuer = Just(Made(l, a))

RowOf(l, r, a) ==
  /\ r.at = a[1] /\ r.index = Told(l, a).changeIndex /\ r.next = Made(l, a)
  /\ \E b \in Changes(l) : JustBefore(l, b, a) /\ r.previous = Made(l, b)

HistoryAsOf(l, rows, g) ==
  /\ \A r \in rows : \E a \in Delegations(l) : UpTo(a, g) /\ RowOf(l, r, a)
  /\ \A a \in Delegations(l) : UpTo(a, g) => \E r \in rows : RowOf(l, r, a)

RowsAsOf(l, issuer, rows, f, g) ==
  /\ f \in Place /\ g \in Place /\ UpTo(f, g)
  /\ IssuerAsOf(l, issuer, f) /\ HistoryAsOf(l, rows, g)

(* What has been performed for good, or since the process started.         *)
Behind(a) ==
  a[1] <= saved \/ a[1] <= cursor \/ (a[1] = work.pos /\ a[2] < work.next)

Chained ==
  /\ {"issuer", "delegations"} \subseteq DOMAIN db
  /\ \E f, g \in Place :
       /\ RowsAsOf(ledger, db.issuer, db.delegations, f, g)
       /\ \A a \in Changes(ledger) : Behind(a) => UpTo(a, f)

(* A pass takes the transactions one after another from the cursor on: a   *)
(* node that has not met the cursor lists what is behind it alone, since a *)
(* slot is confirmed whole.                                                *)
InTurn ==
  /\ up => saved <= cursor
  /\ \A i \in DOMAIN recent : recent[i] <= cursor
  /\ work.pos # 0 =>
       work.pos = IF work.next <= Len(Statements(work.pos)) + 1 THEN cursor + 1 ELSE cursor
  /\ work.pos = 0 /\ pending # << >> =>
       \/ pending[1] = cursor + 1
       \/ cursor # 0 /\ \A i \in DOMAIN pending :
                          ledger[pending[i]].slot < ledger[cursor].slot

CInv == IInv /\ Chained /\ InTurn

-----------------------------------------------------------------------------
LEMMA PlacesOrdered ==
    /\ \A a \in Place : UpTo(a, a)
    /\ \A a, b \in Place : UpTo(a, b) \/ UpTo(b, a)
    /\ \A a, b \in Place : UpTo(a, b) /\ UpTo(b, a) => a = b
    /\ \A a, b, c \in Place : UpTo(a, b) /\ UpTo(b, c) => UpTo(a, c)
<1>1. \A a, b \in Place : UpTo(a, b) /\ UpTo(b, a) => a = b
  <2> SUFFICES ASSUME NEW a \in Place, NEW b \in Place, UpTo(a, b), UpTo(b, a)
               PROVE  a = b
    OBVIOUS
  <2>1. a[1] = b[1] /\ a[2] = b[2]
    BY DEF Place, UpTo
  <2> QED
    BY <2>1 DEF Place
<1> QED
  BY <1>1 DEF Place, UpTo

(* What a statement makes of the issuer's row and the history.             *)
LEMMA PerformBeside ==
    ASSUME NEW d, NEW p, NEW s, {"issuer", "delegations"} \subseteq DOMAIN d,
           s.kind \in (Kinds \cup {"events"}) \ ChangeKinds
    PROVE  /\ {"issuer", "delegations"} \subseteq DOMAIN Perform(d, p, s)
           /\ Perform(d, p, s).issuer = d.issuer
           /\ Perform(d, p, s).delegations = d.delegations
<1>1. CASE s.kind = "events"
  BY <1>1 DEF Perform
<1>2. CASE s.kind \in {"role_assignments", "token_created"}
  BY <1>2 DEF Perform, TokenCreated
<1>3. CASE s.kind \in {"token_metadata", "token_policy"}
  BY <1>3 DEF Perform
<1>4. CASE s.kind \in {"holder_thawed", "holder_status"}
  BY <1>4 DEF Perform, HolderThawed, HolderStatusSet, PutHolder
<1> QED
  BY <1>1, <1>2, <1>3, <1>4 DEF Kinds, ChangeKinds

LEMMA PerformChange ==
    ASSUME NEW d, NEW p, NEW s, {"issuer", "delegations"} \subseteq DOMAIN d,
           s.kind \in ChangeKinds
    PROVE  /\ {"issuer", "delegations"} \subseteq DOMAIN Perform(d, p, s)
           /\ Perform(d, p, s).issuer = Just([key |-> s.key, mask |-> s.mask])
           /\ Perform(d, p, s).delegations =
                IF s.kind = "delegation_set" THEN DelegationSet(d, p, s).delegations
                ELSE d.delegations
<1>1. CASE s.kind = "issuer_initialized"
  BY <1>1 DEF Perform
<1>2. CASE s.kind = "delegation_set"
  BY <1>2 DEF Perform, DelegationSet
<1> QED
  BY <1>1, <1>2 DEF ChangeKinds

(* The history with one more row, unless it has a row of that change.      *)
WithRow(rows, at, index, previous, next) ==
  IF \E r \in rows : r.at = at /\ r.index = index THEN rows
  ELSE rows \cup {[at |-> at, index |-> index, previous |-> previous, next |-> next]}

(* A row written again is known, one written first follows the issuer's.   *)
LEMMA DelegationRow ==
    ASSUME NEW d, NEW p, NEW s, {"issuer", "delegations"} \subseteq DOMAIN d,
           NEW v, d.issuer = Just([key |-> v.key, mask |-> v.mask])
    PROVE  DelegationSet(d, p, s).delegations =
             WithRow(d.delegations, p, s.changeIndex, [key |-> v.key, mask |-> v.mask],
                     [key |-> s.key, mask |-> s.mask])
<1> PICK x : x = [key |-> v.key, mask |-> v.mask]
  OBVIOUS
<1>1. d.issuer[1] = x
  BY DEF Just
<1>2. d.issuer[1].key = v.key /\ d.issuer[1].mask = v.mask
  BY <1>1
<1> QED
  BY <1>2 DEF DelegationSet, WithRow

(* The changes of a chain: their kinds and their numbers.                  *)
LEMMA ChangesKnown ==
    ASSUME NEW l \in Ledgers
    PROVE  /\ Changes(l) \subseteq Place /\ Delegations(l) \subseteq Changes(l)
           /\ \A a \in Changes(l) :
                a \notin Delegations(l) => Told(l, a).kind = "issuer_initialized"
           /\ \A a, b \in Changes(l) : a \notin Delegations(l) => UpTo(a, b)
           /\ \A a, b \in Delegations(l) :
                /\ Told(l, a).changeIndex \in Nat
                /\ a[1] = b[1] /\ a[2] < b[2] =>
                     Told(l, a).changeIndex < Told(l, b).changeIndex
<1>1. Changes(l) \subseteq Place /\ Delegations(l) \subseteq Changes(l)
  BY DEF Spoken, Changes, Delegations
<1>2. \A a \in Changes(l) :
        a \notin Delegations(l) => Told(l, a).kind = "issuer_initialized"
  BY DEF Changes, Delegations, ChangeKinds
<1>3. ASSUME NEW a \in Changes(l), NEW b \in Changes(l), a \notin Delegations(l)
      PROVE  UpTo(a, b)
  <2>1. /\ a[1] \in DOMAIN l /\ a[2] \in DOMAIN l[a[1]].body.statements
        /\ b[1] \in DOMAIN l /\ b[2] \in DOMAIN l[b[1]].body.statements
        /\ l[a[1]].body.statements[a[2]].kind = "issuer_initialized"
        /\ l[b[1]].body.statements[b[2]].kind \in {"issuer_initialized", "delegation_set"}
    BY <1>2, <1>3 DEF Spoken, Changes, Told, ChangeKinds
  <2>2. a[1] < b[1] \/ (a[1] = b[1] /\ a[2] <= b[2])
    BY <2>1, DelegationsAssumption
  <2> QED
    BY <2>2 DEF UpTo
<1>4. ASSUME NEW a \in Delegations(l), NEW b \in Delegations(l)
      PROVE  /\ Told(l, a).changeIndex \in Nat
             /\ a[1] = b[1] /\ a[2] < b[2] =>
                  Told(l, a).changeIndex < Told(l, b).changeIndex
  <2>1. /\ a[1] \in DOMAIN l /\ a[2] \in DOMAIN l[a[1]].body.statements
        /\ b[1] \in DOMAIN l /\ b[2] \in DOMAIN l[b[1]].body.statements
        /\ l[a[1]].body.statements[a[2]].kind = "delegation_set"
        /\ l[b[1]].body.statements[b[2]].kind = "delegation_set"
    BY DEF Delegations, Changes, Spoken, Told
  <2> QED
    BY <2>1, DelegationsAssumption DEF Told
<1> QED
  BY <1>1, <1>2, <1>3, <1>4

(* Rows of one number of one transaction are one change's.                 *)
LEMMA OneRowEach ==
    ASSUME NEW l \in Ledgers, NEW a \in Delegations(l), NEW b \in Delegations(l),
           a[1] = b[1], Told(l, a).changeIndex = Told(l, b).changeIndex
    PROVE  a = b
<1>1. a \in Place /\ b \in Place
  BY ChangesKnown
<1>2. ~(a[2] < b[2]) /\ ~(b[2] < a[2])
  BY ChangesKnown
<1>3. a[2] \in Nat /\ b[2] \in Nat
  BY <1>1 DEF Place
<1>4. a[2] = b[2]
  BY <1>2, <1>3
<1> QED
  BY <1>1, <1>4 DEF Place

(* The history as the property reads it.                                   *)
LEMMA HistoryTold ==
    ASSUME NEW l \in Ledgers, NEW rows, NEW g \in Place, HistoryAsOf(l, rows, g),
           NEW r \in rows
    PROVE  LET before == {q \in rows : Earlier(q, r)}
               last == {q \in before : \A x \in before : ~Earlier(q, x)}
           IN  \/ \E q \in last : r.previous = q.next
               \/ /\ before = {}
                  /\ \E b \in Changes(l) : b \notin Delegations(l) /\ r.previous = Made(l, b)
<1> DEFINE before == {q \in rows : Earlier(q, r)}
           last == {q \in before : \A x \in before : ~Earlier(q, x)}
<1>1. PICK a \in Delegations(l) : UpTo(a, g) /\ RowOf(l, r, a)
  BY DEF HistoryAsOf
<1>2. PICK b \in Changes(l) : JustBefore(l, b, a) /\ r.previous = Made(l, b)
  BY <1>1 DEF RowOf
<1>3. ASSUME NEW c \in Delegations(l), NEW e \in Delegations(l), NEW x, NEW y,
             RowOf(l, x, c), RowOf(l, y, e)
      PROVE  Earlier(x, y) <=> UpTo(c, e) /\ c # e
  <2>1. /\ x.at = c[1] /\ x.index = Told(l, c).changeIndex
        /\ y.at = e[1] /\ y.index = Told(l, e).changeIndex
    BY <1>3 DEF RowOf
  <2>2. c \in Place /\ e \in Place
    BY ChangesKnown
  <2>3. c[1] \in Nat /\ c[2] \in Nat /\ e[1] \in Nat /\ e[2] \in Nat
    BY <2>2 DEF Place
  <2>4. x.index \in Nat /\ y.index \in Nat
    BY <2>1, ChangesKnown
  <2>5. c[1] = e[1] => /\ c[2] < e[2] => x.index < y.index
                       /\ e[2] < c[2] => y.index < x.index
    BY <2>1, ChangesKnown
  <2>6. c = e => x.index = y.index
    BY <2>1
  <2>7. c # e => c[1] # e[1] \/ c[2] # e[2]
    BY <2>2 DEF Place
  <2>8. x.at = c[1] /\ y.at = e[1]
    BY <2>1
  <2> QED
    BY <2>3, <2>4, <2>5, <2>6, <2>7, <2>8 DEF Earlier, UpTo
<1>4. \A q \in rows : \E c \in Delegations(l) : RowOf(l, q, c)
  BY DEF HistoryAsOf
<1>5. a \in Place /\ b \in Place
  BY ChangesKnown
<1>6. CASE b \in Delegations(l)
  <2>1. UpTo(b, a) /\ b # a /\ UpTo(b, g)
    BY <1>1, <1>2, <1>5, PlacesOrdered DEF JustBefore
  <2>2. PICK q \in rows : RowOf(l, q, b)
    BY <1>6, <2>1 DEF HistoryAsOf
  <2>3. q \in before
    BY <1>1, <1>3, <1>6, <2>1, <2>2
  <2>4. ASSUME NEW x \in before, Earlier(q, x)
        PROVE  FALSE
    <3>1. PICK c \in Delegations(l) : RowOf(l, x, c)
      BY <1>4
    <3>2. UpTo(b, c) /\ b # c /\ UpTo(c, a) /\ c # a
      BY <1>1, <1>3, <1>6, <2>2, <2>4, <3>1
    <3>3. c \in Changes(l) /\ c \in Place
      BY ChangesKnown
    <3>4. UpTo(c, b)
      BY <1>2, <3>2, <3>3 DEF JustBefore
    <3> QED
      BY <1>5, <3>2, <3>3, <3>4, PlacesOrdered
  <2>5. r.previous = q.next
    BY <1>2, <2>2 DEF RowOf
  <2> QED
    BY <2>3, <2>4, <2>5
<1>7. CASE b \notin Delegations(l)
  <2>1. ASSUME NEW x \in before
        PROVE  FALSE
    <3>1. PICK c \in Delegations(l) : RowOf(l, x, c)
      BY <1>4
    <3>2. UpTo(c, a) /\ c # a
      BY <1>1, <1>3, <3>1
    <3>3. c \in Changes(l) /\ c \in Place /\ UpTo(b, c)
      BY <1>7, ChangesKnown
    <3>4. UpTo(c, b)
      BY <1>2, <3>2, <3>3 DEF JustBefore
    <3>5. c = b
      BY <1>5, <3>3, <3>4, PlacesOrdered
    <3> QED
      BY <1>7, <3>5
  <2>2. before = {}
    BY <2>1
  <2> QED
    BY <1>2, <1>7, <2>2
<1> QED
  BY <1>6, <1>7

(* What the change at a place makes of the history.                        *)
WrittenAs(l, issuer, rows, w, later) ==
  /\ w \notin Delegations(l) => later = rows
  /\ w \in Delegations(l) =>
       /\ issuer # Nothing
       /\ \A b \in Changes(l) : issuer = Just(Made(l, b)) =>
            later = WithRow(rows, w[1], Told(l, w).changeIndex, Made(l, b), Made(l, w))

(* A change performed again finds its row; one performed for the first     *)
(* time, right after the last, writes it.                                  *)
LEMMA ChangePasses ==
    ASSUME NEW l \in Ledgers, NEW issuer, NEW rows, NEW f \in Place, NEW g \in Place,
           RowsAsOf(l, issuer, rows, f, g),
           NEW w \in Changes(l),
           \A a \in Changes(l) : a # w /\ UpTo(a, w) => UpTo(a, f),
           NEW later, WrittenAs(l, issuer, rows, w, later)
    PROVE  \E h \in Place : /\ RowsAsOf(l, Just(Made(l, w)), later, w, h)
                            /\ ~UpTo(w, g) => h = w
<1>1. /\ UpTo(f, g) /\ IssuerAsOf(l, issuer, f)
      /\ \A r \in rows : \E a \in Delegations(l) : UpTo(a, g) /\ RowOf(l, r, a)
      /\ \A a \in Delegations(l) : UpTo(a, g) => \E r \in rows : RowOf(l, r, a)
  BY DEF RowsAsOf, HistoryAsOf
<1>2. w \in Place /\ Delegations(l) \subseteq Changes(l) /\ Changes(l) \subseteq Place
  BY ChangesKnown
<1>3. IssuerAsOf(l, Just(Made(l, w)), w)
  BY <1>2, PlacesOrdered DEF IssuerAsOf, IsLast
<1>4. \A r : RowOf(l, r, w) => r.at = w[1] /\ r.index = Told(l, w).changeIndex
  BY DEF RowOf
<1>5. w \in Delegations(l) =>
        \E b \in Changes(l) : IsLast(l, b, f) /\ issuer = Just(Made(l, b))
  BY <1>1 DEF IssuerAsOf, WrittenAs
<1>6. CASE UpTo(w, g)
  <2>1. w \in Delegations(l) =>
          \E r \in rows : r.at = w[1] /\ r.index = Told(l, w).changeIndex
    BY <1>1, <1>4, <1>6
  <2>2. later = rows
    BY <1>5, <2>1 DEF WrittenAs, WithRow
  <2> QED
    BY <1>1, <1>2, <1>3, <1>6, <2>2 DEF RowsAsOf, HistoryAsOf
<1>7. CASE ~UpTo(w, g)
  <2>1. UpTo(g, w) /\ UpTo(w, w) /\ ~UpTo(w, f) /\ UpTo(f, w)
    BY <1>1, <1>2, <1>7, PlacesOrdered
  <2>2. \A a \in Changes(l) : a # w /\ UpTo(a, w) => UpTo(a, g)
    BY <1>1, <1>2, PlacesOrdered
  <2>3. \A a \in Changes(l) : UpTo(a, g) => UpTo(a, w)
    BY <1>2, <2>1, PlacesOrdered
  <2>4. CASE w \notin Delegations(l)
    <3>1. HistoryAsOf(l, later, w)
      BY <1>1, <1>2, <2>2, <2>3, <2>4 DEF HistoryAsOf, WrittenAs
    <3> QED
      BY <1>2, <1>3, <2>1, <3>1 DEF RowsAsOf
  <2>5. CASE w \in Delegations(l)
    <3>1. PICK b \in Changes(l) : IsLast(l, b, f) /\ issuer = Just(Made(l, b))
      BY <1>5, <2>5
    <3>2. JustBefore(l, b, w)
      BY <1>2, <2>1, <3>1, PlacesOrdered DEF IsLast, JustBefore
    <3>3. PICK row : row = [at |-> w[1], index |-> Told(l, w).changeIndex,
                            previous |-> Made(l, b), next |-> Made(l, w)]
      OBVIOUS
    <3>4. RowOf(l, row, w)
      BY <3>2, <3>3 DEF RowOf
    <3>5. ~\E r \in rows : r.at = w[1] /\ r.index = Told(l, w).changeIndex
      <4> SUFFICES ASSUME NEW r \in rows, r.at = w[1], r.index = Told(l, w).changeIndex
                   PROVE  FALSE
        OBVIOUS
      <4>1. PICK a \in Delegations(l) : UpTo(a, g) /\ RowOf(l, r, a)
        BY <1>1
      <4>2. a = w
        BY <2>5, <4>1, OneRowEach DEF RowOf
      <4> QED
        BY <1>7, <4>1, <4>2
    <3>6. later = rows \cup {row}
      BY <2>5, <3>1, <3>3, <3>5 DEF WrittenAs, WithRow
    <3>7. \A r \in later : \E a \in Delegations(l) : UpTo(a, w) /\ RowOf(l, r, a)
      BY <1>1, <1>2, <2>1, <2>3, <2>5, <3>4, <3>6
    <3>8. \A a \in Delegations(l) : UpTo(a, w) => \E r \in later : RowOf(l, r, a)
      BY <1>1, <1>2, <2>2, <3>4, <3>6
    <3> QED
      BY <1>2, <1>3, <2>1, <3>7, <3>8 DEF RowsAsOf, HistoryAsOf
  <2> QED
    BY <2>4, <2>5
<1> QED
  BY <1>6, <1>7

(* The places of a transaction's statements; the last may be its events'.  *)
LEMMA StatementPlace ==
    ASSUME ledger \in Ledgers, NEW p \in DOMAIN ledger, p \in Nat,
           NEW n \in 1..Len(Statements(p))
    PROVE  /\ <<p, n>> \in Place
           /\ Statements(p)[n].kind \in Kinds \cup {"events"}
           /\ <<p, n>> \in Spoken(ledger) <=> Statements(p)[n].kind # "events"
           /\ <<p, n>> \in Spoken(ledger) => Statements(p)[n] = Told(ledger, <<p, n>>)
           /\ <<p, n>> \in Changes(ledger) <=> Statements(p)[n].kind \in ChangeKinds
<1> DEFINE body == ledger[p].body
           each == body.statements
<1>1. /\ IsSeq(body.events) /\ IsSeq(each)
      /\ \A i \in DOMAIN each : each[i].kind \in Kinds
  BY LedgersAssumption
<1>2. each \in Seq({each[i] : i \in DOMAIN each})
  BY <1>1 DEF IsSeq
<1>3. Len(each) \in Nat /\ DOMAIN each = 1..Len(each)
  BY <1>2
<1>4. Len(Statements(p)) \in Nat /\ Statements(p)[n].kind \in Kinds \cup {"events"}
  BY StatementsKinds
<1>5. n \in Nat /\ <<p, n>> \in Place /\ <<p, n>>[1] = p /\ <<p, n>>[2] = n
  BY <1>4 DEF Place
<1>6. IF n \in DOMAIN each THEN Statements(p)[n] = each[n]
      ELSE Statements(p)[n].kind = "events"
  <2>1. CASE body.events = << >>
    <3>1. Statements(p) = each
      BY <1>2, <2>1 DEF Statements
    <3> QED
      BY <1>3, <3>1
  <2>2. CASE body.events # << >>
    <3> DEFINE insert == [kind |-> "events"]
               S == {each[i] : i \in DOMAIN each} \cup {insert}
    <3>1. Statements(p) = each \o << insert >>
      BY <2>2 DEF Statements
    <3>2. each \in Seq(S) /\ << insert >> \in Seq(S)
      BY <1>2
    <3>3. /\ Len(Statements(p)) = Len(each) + 1
          /\ \A i \in 1..Len(each) : Statements(p)[i] = each[i]
          /\ Statements(p)[Len(each) + 1] = insert
      BY <1>3, <3>1, <3>2
    <3>4. n \in 1..Len(each) \/ n = Len(each) + 1
      BY <1>3, <1>5, <3>3
    <3>5. Len(each) + 1 \notin DOMAIN each /\ insert.kind = "events"
      BY <1>3
    <3> HIDE DEF insert, each
    <3> QED
      BY <1>3, <3>3, <3>4, <3>5
  <2> QED
    BY <2>1, <2>2
<1>7. "events" \notin ChangeKinds /\ "events" \notin Kinds
  BY DEF ChangeKinds, Kinds
<1>8. Told(ledger, <<p, n>>) = each[n]
  BY <1>5 DEF Told
<1>9. /\ <<p, n>> \in Spoken(ledger) <=> n \in DOMAIN each
      /\ <<p, n>> \in Changes(ledger) <=> n \in DOMAIN each /\ each[n].kind \in ChangeKinds
  BY <1>5, <1>8 DEF Spoken, Changes
<1> HIDE DEF each, body
<1> QED
  BY <1>1, <1>4, <1>5, <1>6, <1>7, <1>8, <1>9

(* Where the statement in hand stands.                                     *)
LEMMA HandPlace ==
    ASSUME IInv, InHand
    PROVE  /\ ledger \in Ledgers /\ work.pos \in DOMAIN ledger /\ work.pos \in Nat
           /\ work.next \in 1..Len(Statements(work.pos))
           /\ cursor \in Nat /\ saved \in Nat /\ up
<1>1. ledger \in Ledgers /\ DOMAIN ledger = 1..Len(ledger) /\ Len(ledger) \in Nat
  BY LedgersAssumption DEF IInv, Shape, IsSeq
<1>2. /\ tip \in Nat /\ work \in [pos : 0..tip, next : Nat] /\ work.next >= 1
      /\ work.pos \in 1..tip /\ tip <= Len(ledger) /\ cursor \in Nat /\ saved \in Nat
  BY <1>1 DEF IInv, Shape, InHand
<1>3. Len(Statements(work.pos)) \in Nat
  BY <1>1, <1>2, StatementsKinds
<1>4. up
  BY DEF IInv, Busy, InHand
<1> QED
  BY <1>1, <1>2, <1>3, <1>4 DEF InHand

(* What is behind the statement in hand is what was spoken before it.      *)
LEMMA HandInTurn ==
    ASSUME IInv, InTurn, InHand, NEW w, w = <<work.pos, work.next>>
    PROVE  /\ w \in Place /\ w[1] = work.pos /\ w[2] = work.next
           /\ \A a \in Place : a # w /\ UpTo(a, w) => Behind(a)
           /\ \A a \in Place : Behind(a) => UpTo(a, w)
<1> PICK p, n : p = work.pos /\ n = work.next
  OBVIOUS
<1>1. /\ ledger \in Ledgers /\ p \in DOMAIN ledger /\ p \in Nat
      /\ n \in 1..Len(Statements(p)) /\ cursor \in Nat /\ saved \in Nat /\ saved <= cursor
      /\ Len(Statements(p)) \in Nat
  BY HandPlace, StatementsKinds DEF InTurn
<1>2. p = cursor + 1
  BY <1>1 DEF InHand, InTurn
<1>3. w \in Place /\ w[1] = p /\ w[2] = n /\ n \in Nat
  BY <1>1 DEF Place
<1>4. ASSUME NEW a \in Place
      PROVE  (a # w /\ UpTo(a, w) => Behind(a)) /\ (Behind(a) => UpTo(a, w))
  <2>1. a[1] \in Nat /\ a[2] \in Nat /\ (a[1] = p /\ a[2] = n => a = w)
    BY DEF Place
  <2> QED
    BY <1>1, <1>2, <1>3, <2>1 DEF UpTo, Behind
<1> QED
  BY <1>3, <1>4

(* What a change's statement makes of the issuer's row and the history.    *)
LEMMA PerformWrites ==
    ASSUME NEW l \in Ledgers, NEW w \in Changes(l), NEW s, s = Told(l, w),
           NEW d, {"issuer", "delegations"} \subseteq DOMAIN d, Performable(d, s),
           NEW e, e = Perform(d, w[1], s)
    PROVE  /\ {"issuer", "delegations"} \subseteq DOMAIN e
           /\ e.issuer = Just(Made(l, w))
           /\ WrittenAs(l, d.issuer, d.delegations, w, e.delegations)
<1>1. s.kind \in ChangeKinds
  BY DEF Changes
<1>2. /\ {"issuer", "delegations"} \subseteq DOMAIN e
      /\ e.issuer = Just(Made(l, w))
      /\ e.delegations = IF s.kind = "delegation_set" THEN DelegationSet(d, w[1], s).delegations
                         ELSE d.delegations
  BY <1>1, PerformChange DEF Made
<1>3. w \notin Delegations(l) => e.delegations = d.delegations
  BY <1>2, ChangesKnown
<1>4. ASSUME w \in Delegations(l)
      PROVE  /\ d.issuer # Nothing
             /\ \A b \in Changes(l) : d.issuer = Just(Made(l, b)) =>
                  e.delegations = WithRow(d.delegations, w[1], Told(l, w).changeIndex,
                                          Made(l, b), Made(l, w))
  <2>1. s.kind = "delegation_set"
    BY <1>4 DEF Delegations
  <2>2. d.issuer # Nothing
    BY <2>1 DEF Performable
  <2>3. ASSUME NEW b \in Changes(l), d.issuer = Just(Made(l, b))
        PROVE  e.delegations = WithRow(d.delegations, w[1], Told(l, w).changeIndex,
                                       Made(l, b), Made(l, w))
    <3>1. PICK v : v = Told(l, b)
      OBVIOUS
    <3>2. d.issuer = Just([key |-> v.key, mask |-> v.mask])
      BY <2>3, <3>1 DEF Made
    <3>3. DelegationSet(d, w[1], s).delegations =
            WithRow(d.delegations, w[1], s.changeIndex, [key |-> v.key, mask |-> v.mask],
                    [key |-> s.key, mask |-> s.mask])
      BY <3>2, DelegationRow
    <3> QED
      BY <1>2, <2>1, <3>1, <3>3 DEF Made
  <2> QED
    BY <2>2, <2>3
<1> QED
  BY <1>2, <1>3, <1>4 DEF WrittenAs

(* The statement in hand, performed, leaves the issuer's row as of it if it *)
(* is a change, and the history as of some place no earlier.               *)
LEMMA PerformedChains ==
    ASSUME CInv, InHand,
           Performable(db, Statements(work.pos)[work.next]),
           Performed(work.pos, Statements(work.pos)[work.next])
    PROVE  /\ {"issuer", "delegations"} \subseteq DOMAIN db'
           /\ \E f, g \in Place :
                /\ RowsAsOf(ledger, db'.issuer, db'.delegations, f, g)
                /\ \A a \in Changes(ledger) :
                     Behind(a) \/ a = <<work.pos, work.next>> => UpTo(a, f)
<1> PICK p, n : p = work.pos /\ n = work.next
  OBVIOUS
<1> PICK s : s = Statements(p)[n]
  OBVIOUS
<1> PICK w : w = <<p, n>>
  OBVIOUS
<1> USE DEF CInv
<1>1. /\ ledger \in Ledgers /\ p \in DOMAIN ledger /\ p \in Nat
      /\ n \in 1..Len(Statements(p)) /\ cursor \in Nat /\ saved \in Nat /\ saved <= cursor
  BY HandPlace DEF InTurn
<1>2. /\ w \in Place /\ w[1] = p /\ w[2] = n
      /\ s.kind \in Kinds \cup {"events"}
      /\ w \in Changes(ledger) <=> s.kind \in ChangeKinds
      /\ w \in Changes(ledger) => s = Told(ledger, w)
  BY <1>1, StatementPlace DEF Place, Changes
<1>4. db' = Perform(db, p, s) /\ {"issuer", "delegations"} \subseteq DOMAIN db
  BY DEF Performed, Chained
<1>5. PICK f \in Place, g \in Place :
        /\ RowsAsOf(ledger, db.issuer, db.delegations, f, g)
        /\ \A a \in Changes(ledger) : Behind(a) => UpTo(a, f)
  BY DEF Chained
<1>6. Changes(ledger) \subseteq Place
  BY <1>1, ChangesKnown
<1>7. /\ \A a \in Changes(ledger) : a # w /\ UpTo(a, w) => Behind(a)
      /\ \A a \in Changes(ledger) : Behind(a) => UpTo(a, w)
  BY <1>6, HandInTurn
<1>9. CASE w \notin Changes(ledger)
  <2>1. s.kind \notin ChangeKinds
    BY <1>2, <1>9
  <2>2. {"issuer", "delegations"} \subseteq DOMAIN db'
    BY <1>2, <1>4, <2>1, PerformBeside
  <2>3. db'.issuer = db.issuer /\ db'.delegations = db.delegations
    BY <1>2, <1>4, <2>1, PerformBeside
  <2> QED
    BY <1>5, <1>9, <2>2, <2>3
<1>10. CASE w \in Changes(ledger)
  <2>1. s = Told(ledger, w)
    BY <1>2, <1>10
  <2>2. /\ {"issuer", "delegations"} \subseteq DOMAIN db'
        /\ db'.issuer = Just(Made(ledger, w))
        /\ WrittenAs(ledger, db.issuer, db.delegations, w, db'.delegations)
    BY <1>1, <1>2, <1>4, <1>10, <2>1, PerformWrites
  <2>5. \A a \in Changes(ledger) : a # w /\ UpTo(a, w) => UpTo(a, f)
    BY <1>5, <1>7
  <2>6. PICK h \in Place :
          RowsAsOf(ledger, Just(Made(ledger, w)), db'.delegations, w, h)
    BY <1>1, <1>5, <1>10, <2>2, <2>5, ChangePasses
  <2>7. UpTo(w, w)
    BY <1>2, PlacesOrdered
  <2> QED
    BY <1>2, <1>7, <2>2, <2>6, <2>7
<1> QED
  BY <1>9, <1>10

-----------------------------------------------------------------------------
(* The steps.                                                              *)

(* Statements have positions, and numbers from one on.                     *)
LEMMA SpokenPlaces ==
    ASSUME ledger \in Ledgers
    PROVE  \A a \in Spoken(ledger) :
             /\ a \in Place
             /\ a[1] \in 1..Len(ledger) /\ a[2] \in Nat /\ a[2] >= 1
             /\ Len(Statements(a[1])) \in Nat /\ a[2] <= Len(Statements(a[1]))
<1> TAKE a \in Spoken(ledger)
<1>1. DOMAIN ledger = 1..Len(ledger) /\ Len(ledger) \in Nat
  BY LedgersAssumption DEF IsSeq
<1> PICK p, n : p = a[1] /\ n = a[2]
  OBVIOUS
<1>2. p \in 1..Len(ledger) /\ n \in DOMAIN ledger[p].body.statements
  BY <1>1 DEF Spoken
<1>a. PICK each : each = ledger[p].body.statements
  OBVIOUS
<1>3. PICK S : each \in Seq(S)
  <2>1. IsSeq(each)
    BY <1>a, <1>1, <1>2, LedgersAssumption
  <2> QED
    BY <2>1 DEF IsSeq
<1>4. n \in 1..Len(each) /\ Len(each) \in Nat
  <2>1. n \in DOMAIN each
    BY <1>a, <1>2
  <2> QED
    BY <1>3, <2>1
<1>5. Len(Statements(p)) \in {Len(each), Len(each) + 1}
  <2>1. CASE ledger[p].body.events = << >>
    BY <1>a, <1>3, <2>1 DEF Statements
  <2>2. CASE ledger[p].body.events # << >>
    <3>1. Statements(p) = each \o << [kind |-> "events"] >>
      BY <1>a, <2>2 DEF Statements
    <3>2. Len(Statements(p)) = Len(each) + 1
      BY <1>3, <3>1, OneMore
    <3> QED
      BY <3>2
  <2> QED
    BY <2>1, <2>2
<1>6. a \in Place
  BY DEF Spoken
<1> QED
  BY <1>1, <1>2, <1>4, <1>5, <1>6

(* What a step does to the database and to what is behind: it writes       *)
(* nothing and puts nothing more behind, or it performs the statement in   *)
(* hand and puts no more than that behind.  What was performed in memory   *)
(* only is no longer behind when the process goes down.                    *)
LEMMA OneStatement ==
    ASSUME IInv, InTurn,
           Next \/ UNCHANGED <<ledger, db, saved, cursor, work, reach>>
    PROVE  /\ UNCHANGED ledger /\ reach' >= reach
           /\ \/ /\ UNCHANGED db
                 /\ \A a \in Spoken(ledger) : Behind(a)' => Behind(a)
              \/ /\ InHand
                 /\ Performable(db, Statements(work.pos)[work.next])
                 /\ Performed(work.pos, Statements(work.pos)[work.next])
                 /\ \A a \in Spoken(ledger) :
                      Behind(a)' => Behind(a) \/ a = <<work.pos, work.next>>
<1>0. /\ tip \in Nat /\ saved \in 0..tip /\ cursor \in 0..tip /\ work.pos \in 0..tip
      /\ reach \in Nat /\ work.next \in Nat /\ ledger \in Ledgers
      /\ \A a \in Spoken(ledger) :
           /\ a \in Place /\ a[1] \in Nat /\ a[1] >= 1 /\ a[2] \in Nat /\ a[2] >= 1
           /\ Len(Statements(a[1])) \in Nat /\ a[2] <= Len(Statements(a[1]))
  BY Slots, SpokenPlaces DEF IInv, Shape
<1>1. CASE UNCHANGED <<ledger, db, saved, cursor, work, reach>>
  BY <1>0, <1>1 DEF Behind
<1>2. CASE Produce \/ Stop \/ (\E p \in 1..tip : Wake(p)) \/ TimerFires \/ Interval
             \/ List \/ ListFails \/ PassOver \/ Skip
  <2>1. UNCHANGED <<ledger, db, saved, cursor, work, reach>>
    BY <1>2 DEF Produce, Stop, Wake, TimerFires, Interval, List, ListUpTo, ListFails,
       PassOver, Skip, chain
  <2> QED
    BY <1>1, <2>1
<1>3. CASE Start \/ Crash \/ Exit \/ FetchFails
  <2>1. UNCHANGED <<ledger, db, saved, reach>> /\ cursor' \in {saved, 0, cursor}
    BY <1>3 DEF Start, Crash, Exit, Gone, FetchFails, Halts, chain
  <2>2. work'.pos = 0 \/ work' = work
    BY <1>3 DEF Start, Crash, Exit, Gone, FetchFails, Halts, IDLE
  <2>3. \A a \in Spoken(ledger) : Behind(a)' => Behind(a)
    BY <1>0, <2>1, <2>2 DEF Behind
  <2> QED
    BY <1>0, <2>1, <2>3
<1>4. CASE Fetch
  <2>1. UNCHANGED <<ledger, db, saved, cursor, reach>> /\ work'.next = 1
    BY <1>4 DEF Fetch, chain
  <2>2. \A a \in Spoken(ledger) : Behind(a)' => Behind(a)
    BY <1>0, <2>1 DEF Behind
  <2> QED
    BY <1>0, <2>1, <2>2
<1>5. CASE Advance
  <2>1. /\ UNCHANGED <<ledger, db, saved>> /\ cursor' = work.pos /\ work'.pos = work.pos
        /\ work.pos # 0 /\ work.next = Len(Statements(work.pos)) + 1
        /\ reach' = IF work.pos > reach THEN work.pos ELSE reach
    BY <1>5 DEF Advance, Done, chain, IInv, Shape
  <2>2. Len(Statements(work.pos)) \in Nat
    <3>1. work.pos \in DOMAIN ledger /\ work.pos \in Nat
      BY <1>0, <2>1, Slots
    <3> QED
      BY <1>0, <3>1, StatementsKinds
  <2>3. work.pos = cursor + 1
    BY <2>1, <2>2 DEF InTurn
  <2>4. ASSUME NEW a \in Spoken(ledger), Behind(a)'
        PROVE  Behind(a)
    <3>1. a[1] <= saved \/ a[1] <= work.pos
      BY <1>0, <2>1, <2>4 DEF Behind
    <3>2. CASE a[1] = work.pos
      BY <1>0, <2>1, <3>2 DEF Behind
    <3>3. CASE a[1] # work.pos /\ a[1] <= work.pos
      BY <1>0, <2>3, <3>3 DEF Behind
    <3> QED
      BY <3>1, <3>2, <3>3 DEF Behind
  <2> QED
    BY <1>0, <2>1, <2>4
<1>6. CASE Save \/ SaveFails
  <2>1. /\ UNCHANGED <<ledger, db, cursor, reach>> /\ saved' \in {saved, cursor}
        /\ work'.pos = 0
    BY <1>6 DEF Save, SaveFails, IDLE, chain
  <2>2. \A a \in Spoken(ledger) : Behind(a)' => Behind(a)
    BY <1>0, <2>1 DEF Behind
  <2> QED
    BY <1>0, <2>1, <2>2
<1>7. ASSUME Performed(work.pos, Statements(work.pos)[work.next])
      PROVE  reach' >= reach
  BY <1>0, <1>7 DEF Performed
<1>8. CASE Write
  <2>1. /\ InHand /\ Performable(db, Statements(work.pos)[work.next])
        /\ Performed(work.pos, Statements(work.pos)[work.next])
        /\ work' = [work EXCEPT !.next = @ + 1]
        /\ UNCHANGED <<ledger, saved, cursor>>
    BY <1>8 DEF Write, chain
  <2>2. work'.pos = work.pos /\ work'.next = work.next + 1
    BY <2>1 DEF IInv, Shape
  <2>3. ASSUME NEW a \in Spoken(ledger), Behind(a)'
        PROVE  Behind(a) \/ a = <<work.pos, work.next>>
    <3>1. Behind(a) \/ (a[1] = work.pos /\ a[2] = work.next)
      BY <1>0, <2>1, <2>2, <2>3 DEF Behind
    <3>2. a[1] = work.pos /\ a[2] = work.next => a = <<work.pos, work.next>>
      BY <1>0 DEF Place
    <3> QED
      BY <3>1, <3>2
  <2> QED
    BY <1>7, <2>1, <2>3
<1>9. CASE WriteFails
  <2>1. InHand /\ work'.pos = 0 /\ UNCHANGED <<ledger, saved, cursor>>
    BY <1>9 DEF WriteFails, Halts, IDLE, chain
  <2>2. \A a \in Spoken(ledger) : Behind(a)' => Behind(a)
    BY <1>0, <2>1 DEF Behind
  <2>3. \/ UNCHANGED <<db, reach>>
        \/ /\ Performable(db, Statements(work.pos)[work.next])
           /\ Performed(work.pos, Statements(work.pos)[work.next])
    BY <1>9 DEF WriteFails
  <2> QED
    BY <1>0, <1>7, <2>1, <2>2, <2>3
<1> QED
  BY <1>1, <1>2, <1>3, <1>4, <1>5, <1>6, <1>8, <1>9 DEF Next, Step

LEMMA ChainedKeeps ==
    ASSUME CInv, Next \/ UNCHANGED <<ledger, db, saved, cursor, work, reach>>
    PROVE  Chained'
<1> USE DEF CInv
<1>0. Changes(ledger) \subseteq Spoken(ledger)
  BY DEF Changes
<1>1. CASE UNCHANGED <<ledger, db>> /\ \A a \in Spoken(ledger) : Behind(a)' => Behind(a)
  <2>1. PICK f \in Place, g \in Place :
          /\ RowsAsOf(ledger, db.issuer, db.delegations, f, g)
          /\ \A a \in Changes(ledger) : Behind(a) => UpTo(a, f)
    BY DEF Chained
  <2>2. \A a \in Changes(ledger) : Behind(a)' => UpTo(a, f)
    BY <1>0, <1>1, <2>1
  <2>3. {"issuer", "delegations"} \subseteq DOMAIN db'
    BY <1>1 DEF Chained
  <2> QED
    BY <1>1, <2>1, <2>2, <2>3 DEF Chained
<1>2. CASE /\ InHand /\ Performable(db, Statements(work.pos)[work.next])
           /\ Performed(work.pos, Statements(work.pos)[work.next])
           /\ UNCHANGED ledger
           /\ \A a \in Spoken(ledger) :
                Behind(a)' => Behind(a) \/ a = <<work.pos, work.next>>
  <2>1. PICK f \in Place, g \in Place :
          /\ RowsAsOf(ledger, db'.issuer, db'.delegations, f, g)
          /\ \A a \in Changes(ledger) :
               Behind(a) \/ a = <<work.pos, work.next>> => UpTo(a, f)
    BY <1>2, PerformedChains
  <2>2. {"issuer", "delegations"} \subseteq DOMAIN db'
    BY <1>2, PerformedChains
  <2>3. \A a \in Changes(ledger) : Behind(a)' => UpTo(a, f)
    BY <1>0, <1>2, <2>1
  <2> QED
    BY <1>2, <2>1, <2>2, <2>3 DEF Chained
<1> QED
  BY <1>1, <1>2, OneStatement

(* Remembering a transaction remembers none after it.                      *)
LEMMA RemembersNoLater ==
    ASSUME NEW n \in Nat, recent \in Seq(Nat), NEW p \in Nat, n <= p,
           \A i \in DOMAIN recent : recent[i] <= n
    PROVE  \A i \in DOMAIN Remember(p) : Remember(p)[i] <= p
<1> DEFINE all == Append(recent, p)
<1>1. /\ all \in Seq(Nat) /\ all # << >> /\ Len(all) = Len(recent) + 1
      /\ \A i \in 1..Len(all) : all[i] <= p
  OBVIOUS
<1>2. CASE Remember(p) = all
  BY <1>1, <1>2
<1>3. CASE Remember(p) = Tail(all)
  BY <1>1, <1>3
<1> QED
  BY <1>2, <1>3 DEF Remember

LEMMA InTurnKeeps ==
    ASSUME CInv,
           Next \/ UNCHANGED <<ledger, up, saved, cursor, recent, work, pending>>
    PROVE  InTurn'
<1> USE DEF CInv
<1>0. /\ tip \in Nat /\ Len(ledger) \in Nat /\ tip <= Len(ledger)
      /\ saved \in 0..tip /\ cursor \in 0..tip /\ work.pos \in 0..tip
  BY Slots
<1>1. CASE UNCHANGED <<ledger, up, saved, cursor, recent, work, pending>>
  BY <1>1 DEF InTurn, Statements
<1>2. CASE Produce \/ Stop \/ (\E p \in 1..tip : Wake(p)) \/ TimerFires \/ Interval
  <2>1. UNCHANGED <<ledger, up, saved, cursor, recent, work, pending>>
    BY <1>2 DEF Produce, Stop, Wake, TimerFires, Interval, follower, chain
  <2> QED
    BY <1>1, <2>1
<1>3. CASE Start
  <2>1. pending = << >> /\ work.pos = 0
    BY <1>3 DEF IInv, Busy, Start
  <2>2. \A i \in DOMAIN recent' : recent'[i] <= cursor'
    BY <1>0, <1>3 DEF Start
  <2> QED
    BY <1>0, <1>3, <2>1, <2>2 DEF InTurn, Start
<1>4. CASE Crash \/ Exit
  BY <1>4 DEF InTurn, Crash, Exit, Gone, IDLE
<1>5. CASE ListFails \/ PassOver \/ FetchFails \/ WriteFails \/ SaveFails \/ (Skip /\ halted)
  <2>1. /\ pending' = << >> /\ work'.pos = 0 /\ UNCHANGED <<cursor, recent, up>>
        /\ saved' \in {saved, cursor}
    BY <1>5 DEF ListFails, PassOver, FetchFails, WriteFails, SaveFails, Skip, Halts,
       EndPass, IDLE, IInv, Busy
  <2> QED
    BY <1>0, <2>1 DEF InTurn
<1>6. CASE List
  <2> PICK v \in 0..tip : ListUpTo(v)
    BY <1>6 DEF List
  <2>1. work.pos = 0 /\ UNCHANGED <<ledger, up, saved, cursor, recent, work>> /\ WholeSlots(v)
    BY DEF IInv, Busy, ListUpTo, chain
  <2>2. CASE cursor <= v
    <3>1. pending' = [i \in 1..v - cursor |-> cursor + i]
      BY <1>0, <2>2 DEF ListUpTo
    <3>2. pending' # << >> => pending'[1] = cursor + 1
      BY <1>0, <2>2, <3>1
    <3> QED
      BY <2>1, <3>2 DEF InTurn
  <2>3. CASE ~(cursor <= v)
    <3>1. pending' = [i \in 1..v |-> i]
      BY <1>0, <2>3 DEF ListUpTo
    <3>2. ASSUME NEW i \in 1..v
          PROVE  ledger[i].slot < ledger[cursor].slot
      <4>1. v \in 1..Len(ledger) - 1 /\ i \in 1..Len(ledger) /\ v + 1 \in 1..Len(ledger)
            /\ cursor \in 1..Len(ledger) /\ i <= v /\ v + 1 <= cursor
        BY <1>0, <2>3
      <4>2. ledger[v].slot < ledger[v + 1].slot
        BY <2>1, <4>1 DEF WholeSlots
      <4>3. v \in 1..Len(ledger)
        BY <4>1
      <4>4. /\ ledger[i].slot \in Nat /\ ledger[v].slot \in Nat
            /\ ledger[v + 1].slot \in Nat /\ ledger[cursor].slot \in Nat
        BY <4>1, <4>3, Slots
      <4>5. ledger[i].slot <= ledger[v].slot /\ ledger[v + 1].slot <= ledger[cursor].slot
        BY <4>1, <4>3, Slots
      <4> QED
        BY <4>2, <4>4, <4>5
    <3>3. \A i \in DOMAIN pending' : ledger[pending'[i]].slot < ledger[cursor].slot
      BY <3>1, <3>2
    <3>4. cursor # 0
      BY <1>0, <2>3
    <3> QED
      BY <2>1, <3>3, <3>4 DEF InTurn
  <2> QED
    BY <2>2, <2>3
<1>7. ASSUME pending # << >>, work.pos = 0
      PROVE  /\ Head(pending) = pending[1] /\ pending[1] \in 1..tip
             /\ IF IsBehind(Head(pending))
                THEN /\ cursor # 0
                     /\ \A i \in DOMAIN pending : ledger[pending[i]].slot < ledger[cursor].slot
                ELSE pending[1] = cursor + 1
  <2>1. Head(pending) = pending[1] /\ pending[1] \in 1..tip
    BY <1>7, PendingParts
  <2>2. 1 \in DOMAIN pending
    BY <1>7 DEF IInv, Shape
  <2>3. CASE pending[1] = cursor + 1
    <3>1. cursor # 0 => /\ ledger[cursor].slot <= ledger[cursor + 1].slot
                        /\ ledger[cursor].slot \in Nat /\ ledger[cursor + 1].slot \in Nat
      <4>1. cursor + 1 \in 1..Len(ledger) /\ (cursor # 0 => cursor \in 1..Len(ledger))
        BY <1>0, <2>1, <2>3
      <4> QED
        BY <1>0, <4>1, Slots
    <3>2. cursor + 1 \notin {recent[i] : i \in DOMAIN recent}
      BY <1>0 DEF InTurn
    <3>3. ~IsBehind(cursor + 1)
      BY <3>1, <3>2 DEF IsBehind
    <3> QED
      BY <2>1, <2>3, <3>3
  <2>4. CASE cursor # 0 /\ \A i \in DOMAIN pending :
                             ledger[pending[i]].slot < ledger[cursor].slot
    <3>1. IsBehind(pending[1])
      BY <2>2, <2>4 DEF IsBehind
    <3> QED
      BY <2>1, <2>4, <3>1
  <2> QED
    BY <1>7, <2>3, <2>4 DEF InTurn
<1>8. CASE Skip /\ ~halted
  <2>1. /\ pending # << >> /\ work.pos = 0 /\ IsBehind(Head(pending))
        /\ pending' = Tail(pending) /\ work' = work
        /\ UNCHANGED <<ledger, up, saved, cursor, recent>>
    BY <1>8 DEF Skip, IDLE, chain
  <2>2. \A i \in DOMAIN Tail(pending) : i + 1 \in DOMAIN pending
                                         /\ Tail(pending)[i] = pending[i + 1]
    BY <2>1 DEF IInv, Shape
  <2> QED
    BY <1>7, <2>1, <2>2 DEF InTurn
<1>9. CASE Fetch
  <2>1. /\ pending # << >> /\ work.pos = 0 /\ ~IsBehind(Head(pending))
        /\ work'.pos = Head(pending) /\ work'.next = 1
        /\ UNCHANGED <<ledger, up, saved, cursor, recent>>
    BY <1>9 DEF Fetch, Fetchable, IDLE, chain
  <2>2. work'.pos = cursor + 1 /\ work'.pos # 0
    BY <1>0, <1>7, <2>1
  <2>3. \A p : Statements(p)' = Statements(p)
    BY <2>1 DEF Statements
  <2>4. Len(Statements(cursor + 1)) \in Nat
    <3>1. cursor + 1 \in DOMAIN ledger /\ ledger \in Ledgers
      BY <1>7, <2>1, Slots DEF IInv, Shape
    <3> QED
      BY <3>1, StatementsKinds
  <2>5. work'.next <= Len(Statements(work'.pos)) + 1
    BY <2>1, <2>2, <2>4
  <2> QED
    BY <2>1, <2>2, <2>3, <2>5 DEF InTurn
<1>10. CASE Write
  <2>1. /\ InHand /\ work'.pos = work.pos /\ work'.next = work.next + 1 /\ work.next \in Nat
        /\ UNCHANGED <<ledger, up, saved, cursor, recent>>
    BY <1>10 DEF Write, chain, IInv, Shape
  <2>2. Len(Statements(work.pos)) \in Nat /\ work.next <= Len(Statements(work.pos))
        /\ work.pos # 0
    BY <2>1, HandPlace, StatementsKinds DEF InHand
  <2>3. \A p : Statements(p)' = Statements(p)
    BY <2>1 DEF Statements
  <2>4. work.pos = cursor + 1
    BY <2>1, <2>2 DEF InTurn
  <2> QED
    BY <2>1, <2>2, <2>3, <2>4 DEF InTurn
<1>11. CASE Advance
  <2>1. /\ work.pos # 0 /\ work'.pos = work.pos /\ work'.next = work.next + 1
        /\ work.next = Len(Statements(work.pos)) + 1
        /\ cursor' = work.pos /\ recent' = Remember(work.pos) /\ UNCHANGED <<ledger, up, saved>>
    BY <1>11 DEF Advance, Done, chain, IInv, Shape
  <2>2. Len(Statements(work.pos)) \in Nat
    <3>1. work.pos \in DOMAIN ledger /\ ledger \in Ledgers
      BY <1>0, <2>1, Slots DEF IInv, Shape
    <3> QED
      BY <3>1, StatementsKinds
  <2>3. work.pos = cursor + 1
    BY <2>1, <2>2 DEF InTurn
  <2>4. \A p : Statements(p)' = Statements(p)
    BY <2>1 DEF Statements
  <2>5. \A i \in DOMAIN recent' : recent'[i] <= cursor'
    <3>1. recent \in Seq(Nat)
      <4>1. 1..reach \subseteq Nat
        OBVIOUS
      <4> QED
        BY <4>1, SeqGrows DEF IInv, Shape
    <3>2. \A i \in DOMAIN recent : recent[i] <= cursor
      BY DEF InTurn
    <3>3. cursor \in Nat /\ work.pos \in Nat /\ cursor <= work.pos
      BY <1>0, <2>3
    <3>4. \A i \in DOMAIN Remember(work.pos) : Remember(work.pos)[i] <= work.pos
      BY <3>1, <3>2, <3>3, RemembersNoLater
    <3> QED
      BY <2>1, <3>4
  <2>6. up => saved <= cursor'
    BY <1>0, <2>1, <2>3 DEF InTurn
  <2>7. ~(work'.next <= Len(Statements(work.pos)) + 1)
    BY <2>1, <2>2
  <2> QED
    BY <2>1, <2>4, <2>5, <2>6, <2>7 DEF InTurn
<1>12. CASE Save
  <2>1. /\ work.pos # 0 /\ work'.pos = 0 /\ saved' = cursor
        /\ work.next = Len(Statements(work.pos)) + 2
        /\ UNCHANGED <<ledger, up, cursor, recent, pending>>
    BY <1>12 DEF Save, Saving, IDLE, chain, follower
  <2>2. Len(Statements(work.pos)) \in Nat
    <3>1. work.pos \in DOMAIN ledger /\ ledger \in Ledgers
      BY <1>0, <2>1, Slots DEF IInv, Shape
    <3> QED
      BY <3>1, StatementsKinds
  <2>3. work.pos = cursor
    BY <2>1, <2>2 DEF InTurn
  <2>4. pending # << >> => pending[1] = work.pos + 1
    BY <2>1 DEF IInv, Walked
  <2> QED
    BY <1>0, <2>1, <2>3, <2>4 DEF InTurn
<1> QED
  BY <1>1, <1>2, <1>3, <1>4, <1>5, <1>6, <1>8, <1>9, <1>10, <1>11, <1>12 DEF Next, Step

LEMMA HistoryInvariance == JSpec => []CInv
<1>1. JInit => CInv
  <2> SUFFICES ASSUME JInit PROVE CInv
    OBVIOUS
  <2>1. Init /\ IInv
    BY InitHolds DEF JInit
  <2>2. InTurn
    BY <2>1 DEF Init, InTurn, IDLE
  <2>3. PICK f : f = <<0, 0>>
    OBVIOUS
  <2>4. f \in Place /\ \A a \in Changes(ledger) : ~UpTo(a, f)
    <3>1. f \in Place /\ f[1] = 0 /\ f[2] = 0
      BY <2>3 DEF Place
    <3>2. \A a \in Changes(ledger) : a[1] \in Nat /\ a[1] >= 1
      BY <2>1, SpokenPlaces, Slots DEF Changes, IInv, Shape
    <3> QED
      BY <3>1, <3>2 DEF UpTo
  <2>5. UpTo(f, f)
    BY <2>4, PlacesOrdered
  <2>6. /\ db.issuer = Nothing /\ db.delegations = {}
        /\ {"issuer", "delegations"} \subseteq DOMAIN db
    BY <2>1 DEF Init, EmptyMirror
  <2>7. RowsAsOf(ledger, db.issuer, db.delegations, f, f)
    <3>1. Delegations(ledger) \subseteq Changes(ledger)
      BY DEF Delegations
    <3> QED
      BY <2>4, <2>5, <2>6, <3>1 DEF RowsAsOf, IssuerAsOf, HistoryAsOf
  <2>8. \A a \in Changes(ledger) : ~Behind(a)
    <3>1. saved = 0 /\ cursor = 0 /\ work.pos = 0
      BY <2>1 DEF Init, IDLE
    <3>2. \A a \in Changes(ledger) : a[1] \in Nat /\ a[1] >= 1
      BY <2>1, SpokenPlaces, Slots DEF Changes, IInv, Shape
    <3> QED
      BY <3>1, <3>2 DEF Behind
  <2> QED
    BY <2>1, <2>2, <2>4, <2>6, <2>7, <2>8 DEF CInv, Chained
<1>2. CInv /\ [JNext]_jvars => CInv'
  <2> SUFFICES ASSUME CInv, [JNext]_jvars
               PROVE  CInv'
    OBVIOUS
  <2>1. \/ Next
        \/ UNCHANGED <<ledger, tip, up, subscribed, stopping, running, again, timer,
                       pending, cursor, recent, halted, work, db, saved, reach, owed>>
    BY ReadersRead DEF jvars, vars
  <2>2. Chained' /\ InTurn'
    BY <2>1, ChainedKeeps, InTurnKeeps
  <2>3. IInv'
    BY <2>1, IndexerKept DEF CInv
  <2> QED
    BY <2>2, <2>3 DEF CInv
<1> QED
  BY <1>1, <1>2, PTL DEF JSpec

(* The history of delegation changes is a chain, for every chain and       *)
(* however often the indexer crashes, fails or applies again: each row     *)
(* names as previous what the row before it made, and the first what the   *)
(* founding made (apply.ts, the delegation_set case).                      *)
THEOREM HistoryChains == JSpec => []DelegationHistoryChains
<1>1. CInv => DelegationHistoryChains
  <2> SUFFICES ASSUME CInv, NEW r \in db.delegations
               PROVE  LET before == {q \in db.delegations : Earlier(q, r)}
                          last == {q \in before : \A x \in before : ~Earlier(q, x)}
                      IN  IF before # {} THEN \E q \in last : r.previous = q.next
                          ELSE \A p \in 1..tip : \A i \in DOMAIN ledger[p].body.statements :
                                 LET c == ledger[p].body.statements[i]
                                 IN  c.kind = "issuer_initialized" =>
                                       r.previous = [key |-> c.key, mask |-> c.mask]
    BY DEF DelegationHistoryChains
  <2> DEFINE before == {q \in db.delegations : Earlier(q, r)}
             last == {q \in before : \A x \in before : ~Earlier(q, x)}
  <2>1. PICK g \in Place : HistoryAsOf(ledger, db.delegations, g)
    BY DEF CInv, Chained, RowsAsOf
  <2>2. ledger \in Ledgers
    BY DEF CInv, IInv, Shape
  <2>3. \/ \E q \in last : r.previous = q.next
        \/ /\ before = {}
           /\ \E b \in Changes(ledger) :
                b \notin Delegations(ledger) /\ r.previous = Made(ledger, b)
    BY <2>1, <2>2, HistoryTold
  <2>4. ASSUME NEW b \in Changes(ledger), b \notin Delegations(ledger),
               r.previous = Made(ledger, b),
               NEW p \in 1..tip, NEW i \in DOMAIN ledger[p].body.statements,
               ledger[p].body.statements[i].kind = "issuer_initialized"
        PROVE  r.previous = [key |-> ledger[p].body.statements[i].key,
                             mask |-> ledger[p].body.statements[i].mask]
    <3> PICK a : a = <<p, i>>
      OBVIOUS
    <3>1. a[1] = p /\ a[2] = i /\ Told(ledger, a) = ledger[p].body.statements[i]
      BY DEF Told
    <3>2. p \in Nat /\ i \in Nat /\ p \in DOMAIN ledger
      <4>1. p \in 1..Len(ledger) /\ p \in DOMAIN ledger
        BY Slots DEF CInv
      <4>2. DOMAIN ledger[p].body.statements = 1..Len(ledger[p].body.statements)
        BY <2>2, <4>1, LedgersAssumption DEF IsSeq
      <4> QED
        BY <4>1, <4>2, Slots DEF CInv
    <3>3. a \in Changes(ledger) /\ a \notin Delegations(ledger)
      BY <2>4, <3>1, <3>2 DEF Spoken, Changes, Delegations, ChangeKinds, Place
    <3>4. a = b
      BY <2>2, <2>4, <3>3, ChangesKnown, PlacesOrdered
    <3> QED
      BY <2>4, <3>1, <3>4 DEF Made
  <2>5. before # {} => \E q \in last : r.previous = q.next
    BY <2>3
  <2>6. ASSUME before = {}
        PROVE  \A p \in 1..tip : \A i \in DOMAIN ledger[p].body.statements :
                 ledger[p].body.statements[i].kind = "issuer_initialized" =>
                   r.previous = [key |-> ledger[p].body.statements[i].key,
                                 mask |-> ledger[p].body.statements[i].mask]
    BY <2>3, <2>4, <2>6
  <2> QED
    BY <2>5, <2>6
<1> QED
  BY <1>1, HistoryInvariance, PTL

-----------------------------------------------------------------------------
(* The mirror, cell by cell.                                               *)
(*                                                                         *)
(* A cell is a column that a statement writes whole: the issuer's row, the *)
(* roles, the token's policy and its name, and for each wallet whether it  *)
(* has a row and the status in it.  What a statement writes in a cell does *)
(* not hang on what the database held, so a cell says what the last of its *)
(* writers up to some place e wrote.  The cells' places differ while old   *)
(* statements are applied again; each is no earlier than what is behind,   *)
(* and none is past the furthest transaction begun.                        *)

HolderKinds == {"holder_thawed", "holder_status"}
Wallets(l) ==
  {Told(l, a).wallet : a \in {b \in Spoken(l) : Told(l, b).kind \in HolderKinds}}
Cells(l) ==
  ({"issuer", "roles", "policy", "name"} \X {Nothing})
    \cup ({"thawed", "status"} \X Wallets(l))

Writes(c, s) ==
  CASE c[1] = "issuer" -> s.kind \in ChangeKinds
    [] c[1] = "roles" -> s.kind = "role_assignments"
    [] c[1] = "policy" -> s.kind \in {"token_created", "token_policy"}
    [] c[1] = "name" -> s.kind = "token_metadata"
    [] c[1] = "thawed" -> s.kind = "holder_thawed" /\ s.wallet = c[2]
    [] c[1] = "status" -> /\ s.kind \in HolderKinds /\ s.wallet = c[2]
                          /\ s.kind = "holder_thawed" => s.status # Nothing

ValueOf(c, s) ==
  CASE c[1] = "issuer" -> Just([key |-> s.key, mask |-> s.mask])
    [] c[1] = "roles" -> Just(s.members)
    [] c[1] = "policy" -> Just(s.policyVersion)
    [] c[1] = "name" -> s.name
    [] c[1] = "thawed" -> "thawed"
    [] c[1] = "status" -> IF s.kind = "holder_thawed" THEN s.status ELSE Just(s.status)

Blank(c) ==
  CASE c[1] = "name" -> ""
    [] c[1] = "thawed" -> "absent"
    [] OTHER -> Nothing

StatusOf(d, wallet) ==
  IF Held(d, wallet) = {} THEN Nothing ELSE (CHOOSE h \in Held(d, wallet) : TRUE).status

PolicyIn(token) == IF token = Nothing THEN Nothing ELSE Just(token[1].policy)
NameIn(token) == IF token = Nothing THEN "" ELSE token[1].name

Field(d, c) ==
  CASE c[1] = "issuer" -> d.issuer
    [] c[1] = "roles" -> d.roles
    [] c[1] = "policy" -> PolicyIn(d.token)
    [] c[1] = "name" -> NameIn(d.token)
    [] c[1] = "thawed" -> IF Held(d, c[2]) = {} THEN "absent" ELSE "thawed"
    [] c[1] = "status" -> StatusOf(d, c[2])

Writers(l, c) == {a \in Spoken(l) : Writes(c, Told(l, a))}
AsOf(l, c, x, e) ==
  \/ x = Blank(c) /\ \A a \in Writers(l, c) : ~UpTo(a, e)
  \/ \E a \in Writers(l, c) :
       /\ UpTo(a, e) /\ x = ValueOf(c, Told(l, a))
       /\ \A b \in Writers(l, c) : UpTo(b, e) => UpTo(b, a)

(* The columns there are, and at most one row for a wallet.                *)
Columns(d) ==
  d = [issuer |-> d.issuer, roles |-> d.roles, token |-> d.token, holders |-> d.holders,
       delegations |-> d.delegations, rows |-> d.rows]
TokenRow(token) ==
  token = Nothing \/ token = Just([policy |-> token[1].policy, name |-> token[1].name])
HolderRows(l, holders) ==
  /\ \A h \in holders :
       /\ h = [wallet |-> h.wallet, state |-> "thawed", status |-> h.status]
       /\ h.wallet \in Wallets(l)
  /\ \A g, h \in holders : g.wallet = h.wallet => g = h
DelegationRows(rows) ==
  \A r \in rows : r = [at |-> r.at, index |-> r.index, previous |-> r.previous, next |-> r.next]
IsMirror(l, d) ==
  Columns(d) /\ TokenRow(d.token) /\ HolderRows(l, d.holders) /\ DelegationRows(d.delegations)

(* What a statement needs to find.                                         *)
Ready(d, s) ==
  /\ s.kind \in {"token_metadata", "token_policy"} => d.token # Nothing
  /\ s.kind = "holder_status" => Held(d, s.wallet) # {}
  /\ s.kind = "delegation_set" => d.issuer # Nothing

-----------------------------------------------------------------------------
(* The status a thaw leaves; a holder's row put in place, and the status   *)
(* of one set.                                                             *)
ThawStatus(d, s) == IF s.status # Nothing THEN s.status ELSE StatusOf(d, s.wallet)
WithThawed(d, w, x) ==
  (d.holders \ Held(d, w)) \cup {[wallet |-> w, state |-> "thawed", status |-> x]}
WithStatus(d, w, x) ==
  {IF h.wallet = w THEN [h EXCEPT !.status = x] ELSE h : h \in d.holders}

(* What a statement makes of the columns.                                  *)
LEMMA PerformColumns ==
    ASSUME NEW d, NEW p, NEW s, Columns(d), s.kind \in Kinds \cup {"events"},
           NEW e, e = Perform(d, p, s)
    PROVE  /\ Columns(e)
           /\ e.issuer = IF s.kind \in ChangeKinds THEN Just([key |-> s.key, mask |-> s.mask])
                         ELSE d.issuer
           /\ e.roles = IF s.kind = "role_assignments" THEN Just(s.members) ELSE d.roles
           /\ s.kind \notin {"token_created", "token_metadata", "token_policy"} =>
                e.token = d.token
           /\ s.kind = "holder_thawed" =>
                e.holders = WithThawed(d, s.wallet, ThawStatus(d, s))
           /\ s.kind = "holder_status" =>
                e.holders = WithStatus(d, s.wallet, Just(s.status))
           /\ s.kind \notin HolderKinds => e.holders = d.holders
           /\ e.delegations = IF s.kind = "delegation_set" THEN DelegationSet(d, p, s).delegations
                              ELSE d.delegations
<1> USE DEF ChangeKinds, HolderKinds, WithThawed, WithStatus
<1>1. CASE s.kind \in {"events", "issuer_initialized", "role_assignments"}
  BY <1>1 DEF Perform, Columns
<1>2. CASE s.kind = "token_created"
  BY <1>2 DEF Perform, Columns, TokenCreated
<1>3. CASE s.kind = "token_metadata"
  BY <1>3 DEF Perform, Columns
<1>4. CASE s.kind = "token_policy"
  BY <1>4 DEF Perform, Columns
<1>5. CASE s.kind = "delegation_set"
  BY <1>5 DEF Perform, Columns, DelegationSet
<1>6. CASE s.kind = "holder_thawed"
  BY <1>6 DEF Perform, Columns, HolderThawed, PutHolder, StatusOf, ThawStatus
<1>7. CASE s.kind = "holder_status"
  BY <1>7 DEF Perform, Columns, HolderStatusSet
<1> QED
  BY <1>1, <1>2, <1>3, <1>4, <1>5, <1>6, <1>7 DEF Kinds

(* And of the token's row.                                                 *)
LEMMA TokenRowIs ==
    ASSUME NEW x, NEW y, NEW token, token = Just([policy |-> x, name |-> y])
    PROVE  TokenRow(token) /\ PolicyIn(token) = Just(x) /\ NameIn(token) = y
BY DEF TokenRow, PolicyIn, NameIn, Just, Nothing

(* What a statement that finds what it needs makes of the token's row.     *)
LEMMA PerformToken ==
    ASSUME NEW d, NEW p, NEW s, Columns(d), TokenRow(d.token), NEW e, e = Perform(d, p, s),
           s.kind \in {"token_metadata", "token_policy"} => d.token # Nothing,
           s.kind \in Kinds \cup {"events"}
    PROVE  /\ TokenRow(e.token)
           /\ PolicyIn(e.token) = IF s.kind \in {"token_created", "token_policy"}
                                  THEN Just(s.policyVersion) ELSE PolicyIn(d.token)
           /\ NameIn(e.token) = IF s.kind = "token_metadata" THEN s.name ELSE NameIn(d.token)
<1>1. CASE s.kind = "token_created"
  <2>1. e.token = Just([policy |-> s.policyVersion, name |-> NameIn(d.token)])
    BY <1>1 DEF Perform, Columns, TokenCreated, NameIn
  <2> QED
    BY <1>1, <2>1, TokenRowIs
<1>2. CASE s.kind = "token_metadata"
  <2>1. PICK x, y : d.token = Just([policy |-> x, name |-> y])
    BY <1>2 DEF TokenRow
  <2>2. e.token = Just([policy |-> x, name |-> s.name])
    BY <1>2, <2>1 DEF Perform, Columns, Just, Nothing
  <2> QED
    BY <1>2, <2>1, <2>2, TokenRowIs
<1>3. CASE s.kind = "token_policy"
  <2>1. PICK x, y : d.token = Just([policy |-> x, name |-> y])
    BY <1>3 DEF TokenRow
  <2>2. e.token = Just([policy |-> s.policyVersion, name |-> y])
    BY <1>3, <2>1 DEF Perform, Columns, Just, Nothing
  <2> QED
    BY <1>3, <2>1, <2>2, TokenRowIs
<1>4. CASE s.kind \notin {"token_created", "token_metadata", "token_policy"}
  <2>1. e.token = d.token
    BY <1>4 DEF Perform, Columns, DelegationSet, HolderThawed, HolderStatusSet, PutHolder, Kinds
  <2> QED
    BY <1>4, <2>1
<1> QED
  BY <1>1, <1>2, <1>3, <1>4

(* A wallet has no row, or one.                                            *)
LEMMA OneRow ==
    ASSUME NEW l, NEW d, HolderRows(l, d.holders), NEW h \in d.holders
    PROVE  Held(d, h.wallet) = {h} /\ StatusOf(d, h.wallet) = h.status
<1>1. Held(d, h.wallet) = {h}
  BY DEF HolderRows, Held
<1>2. (CHOOSE x \in {h} : TRUE) = h
  OBVIOUS
<1> QED
  BY <1>1, <1>2 DEF StatusOf

(* A holder's row put in place is the wallet's one row; the other wallets' *)
(* stay.                                                                   *)
LEMMA ThawedRows ==
    ASSUME NEW l, NEW d, HolderRows(l, d.holders), NEW w \in Wallets(l), NEW x,
           NEW e, e.holders = WithThawed(d, w, x)
    PROVE  /\ HolderRows(l, e.holders)
           /\ Held(e, w) # {} /\ StatusOf(e, w) = x
           /\ \A v : v # w => Held(e, v) = Held(d, v) /\ StatusOf(e, v) = StatusOf(d, v)
<1> PICK row : row = [wallet |-> w, state |-> "thawed", status |-> x]
  OBVIOUS
<1>1. row.wallet = w /\ row.status = x /\ row \in e.holders
      /\ row = [wallet |-> row.wallet, state |-> "thawed", status |-> row.status]
  BY DEF WithThawed
<1>2. \A h : h \in e.holders <=> h = row \/ (h \in d.holders /\ h.wallet # w)
  BY DEF Held, WithThawed
<1>3. HolderRows(l, e.holders)
  BY <1>1, <1>2 DEF HolderRows
<1>4. Held(e, w) # {} /\ StatusOf(e, w) = x
  <2>1. Held(e, w) = {row}
    BY <1>1, <1>2 DEF Held
  <2>2. (CHOOSE h \in {row} : TRUE) = row
    OBVIOUS
  <2> QED
    BY <1>1, <2>1, <2>2 DEF StatusOf
<1>5. ASSUME NEW v, v # w
      PROVE  Held(e, v) = Held(d, v) /\ StatusOf(e, v) = StatusOf(d, v)
  <2>1. Held(e, v) = Held(d, v)
    BY <1>1, <1>2, <1>5 DEF Held
  <2> QED
    BY <2>1 DEF StatusOf
<1> QED
  BY <1>3, <1>4, <1>5

(* So is the row of a wallet that has one, its status set.                 *)
LEMMA StatusRows ==
    ASSUME NEW l, NEW d, HolderRows(l, d.holders), NEW w, NEW x, Held(d, w) # {},
           NEW e, e.holders = WithStatus(d, w, x)
    PROVE  /\ HolderRows(l, e.holders)
           /\ Held(e, w) # {} /\ StatusOf(e, w) = x
           /\ \A v : v # w => Held(e, v) = Held(d, v) /\ StatusOf(e, v) = StatusOf(d, v)
<1> PICK h \in d.holders : h.wallet = w
  BY DEF Held
<1>1. h = [wallet |-> w, state |-> "thawed", status |-> h.status] /\ w \in Wallets(l)
  BY DEF HolderRows
<1>2. [h EXCEPT !.status = x] = [wallet |-> w, state |-> "thawed", status |-> x]
  BY <1>1
<1>3. \A g : g \in d.holders <=> g = h \/ g \in d.holders \ Held(d, w)
  <2>1. Held(d, h.wallet) = {h}
    BY OneRow
  <2> QED
    BY <2>1
<1>4. \A g \in d.holders \ Held(d, w) : g.wallet # w
  BY DEF Held
<1>5. e.holders = WithThawed(d, w, x)
  <2> DEFINE Put(g) == IF g.wallet = w THEN [g EXCEPT !.status = x] ELSE g
  <2>1. e.holders = {Put(g) : g \in d.holders}
    BY DEF WithStatus
  <2>2. Put(h) = [wallet |-> w, state |-> "thawed", status |-> x]
    BY <1>2
  <2>3. \A g \in d.holders \ Held(d, w) : Put(g) = g
    BY <1>4
  <2> HIDE DEF Put
  <2> QED
    BY <1>3, <2>1, <2>2, <2>3 DEF WithThawed
<1> QED
  BY <1>1, <1>5, ThawedRows

(* A row added to the history is of the transaction in hand.               *)
LEMMA DelegationColumns ==
    ASSUME NEW d, DelegationRows(d.delegations), NEW p, NEW s, Columns(d)
    PROVE  /\ DelegationRows(DelegationSet(d, p, s).delegations)
           /\ \A r \in DelegationSet(d, p, s).delegations : r \in d.delegations \/ r.at = p
<1> PICK row : row = [at |-> p, index |-> s.changeIndex,
                      previous |-> [key |-> d.issuer[1].key, mask |-> d.issuer[1].mask],
                      next |-> [key |-> s.key, mask |-> s.mask]]
  OBVIOUS
<1>1. DelegationSet(d, p, s).delegations \in {d.delegations, d.delegations \cup {row}}
  BY DEF DelegationSet, Columns
<1>2. /\ row = [at |-> row.at, index |-> row.index, previous |-> row.previous,
                next |-> row.next]
      /\ row.at = p
  OBVIOUS
<1> QED
  BY <1>1, <1>2 DEF DelegationRows

(* A statement that finds what it needs writes its cells and no other.     *)
LEMMA PerformCells ==
    ASSUME NEW l, NEW d, IsMirror(l, d), NEW p, NEW s, s.kind \in Kinds \cup {"events"},
           Ready(d, s), s.kind \in HolderKinds => s.wallet \in Wallets(l),
           NEW e, e = Perform(d, p, s)
    PROVE  /\ IsMirror(l, e)
           /\ \A r \in e.delegations : r \in d.delegations \/ r.at = p
           /\ \A c \in Cells(l) :
                Field(e, c) = IF Writes(c, s) THEN ValueOf(c, s) ELSE Field(d, c)
<1>0. Columns(d) /\ TokenRow(d.token) /\ HolderRows(l, d.holders) /\ DelegationRows(d.delegations)
  BY DEF IsMirror
<1>a. PICK k : k = s.kind
  OBVIOUS
<1>1. /\ Columns(e)
      /\ e.issuer = IF k \in ChangeKinds THEN Just([key |-> s.key, mask |-> s.mask])
                    ELSE d.issuer
      /\ e.roles = IF k = "role_assignments" THEN Just(s.members) ELSE d.roles
      /\ k \notin {"token_created", "token_metadata", "token_policy"} => e.token = d.token
      /\ k = "holder_thawed" =>
           e.holders = WithThawed(d, s.wallet, ThawStatus(d, s))
      /\ k = "holder_status" => e.holders = WithStatus(d, s.wallet, Just(s.status))
      /\ k \notin HolderKinds => e.holders = d.holders
      /\ e.delegations = IF k = "delegation_set" THEN DelegationSet(d, p, s).delegations
                         ELSE d.delegations
  BY <1>0, <1>a, PerformColumns
<1>2. /\ TokenRow(e.token)
      /\ PolicyIn(e.token) = IF k \in {"token_created", "token_policy"}
                             THEN Just(s.policyVersion) ELSE PolicyIn(d.token)
      /\ NameIn(e.token) = IF k = "token_metadata" THEN s.name ELSE NameIn(d.token)
  BY <1>0, <1>a, PerformToken DEF Ready
<1>4. k \in HolderKinds => s.wallet \in Wallets(l)
  BY <1>a
<1>5. /\ HolderRows(l, e.holders)
      /\ \A v : Held(e, v) = {} <=> Held(d, v) = {} /\ ~(k = "holder_thawed" /\ s.wallet = v)
      /\ \A v : StatusOf(e, v) =
             IF /\ k \in HolderKinds /\ s.wallet = v
                /\ k = "holder_thawed" => s.status # Nothing
             THEN IF k = "holder_thawed" THEN s.status ELSE Just(s.status)
             ELSE StatusOf(d, v)
  <2>1. CASE k = "holder_thawed"
    <3>1. PICK x : x = ThawStatus(d, s)
      OBVIOUS
    <3>2. e.holders = WithThawed(d, s.wallet, x) /\ s.wallet \in Wallets(l)
      BY <1>1, <1>4, <2>1, <3>1 DEF HolderKinds
    <3>3. /\ HolderRows(l, e.holders)
          /\ Held(e, s.wallet) # {} /\ StatusOf(e, s.wallet) = x
          /\ \A v : v # s.wallet => Held(e, v) = Held(d, v) /\ StatusOf(e, v) = StatusOf(d, v)
      BY <1>0, <3>2, ThawedRows
    <3> QED
      BY <2>1, <3>1, <3>3 DEF HolderKinds, ThawStatus
  <2>2. CASE k = "holder_status"
    <3>1. e.holders = WithStatus(d, s.wallet, Just(s.status)) /\ Held(d, s.wallet) # {}
      BY <1>a, <1>1, <2>2 DEF Ready
    <3>2. /\ HolderRows(l, e.holders)
          /\ Held(e, s.wallet) # {} /\ StatusOf(e, s.wallet) = Just(s.status)
          /\ \A v : v # s.wallet => Held(e, v) = Held(d, v) /\ StatusOf(e, v) = StatusOf(d, v)
      BY <1>0, <3>1, StatusRows
    <3> QED
      BY <2>2, <3>1, <3>2 DEF HolderKinds
  <2>3. CASE k \notin HolderKinds
    <3>1. e.holders = d.holders
      BY <1>1, <2>3
    <3>2. \A v : Held(e, v) = Held(d, v)
      BY <3>1 DEF Held
    <3>3. ASSUME NEW v
          PROVE  StatusOf(e, v) = StatusOf(d, v)
      <4>1. Held(e, v) = Held(d, v)
        BY <3>2
      <4> QED
        BY <4>1 DEF StatusOf
    <3>4. k # "holder_thawed"
      BY <2>3 DEF HolderKinds
    <3>5. HolderRows(l, e.holders)
      BY <1>0, <3>1
    <3> QED
      BY <2>3, <3>2, <3>3, <3>4, <3>5
  <2> QED
    BY <2>1, <2>2, <2>3 DEF HolderKinds
<1>6. /\ DelegationRows(e.delegations)
      /\ \A r \in e.delegations : r \in d.delegations \/ r.at = p
  BY <1>0, <1>1, DelegationColumns
<1>7. ASSUME NEW c \in Cells(l)
      PROVE  Field(e, c) = IF Writes(c, s) THEN ValueOf(c, s) ELSE Field(d, c)
  <2>1. CASE c[1] = "issuer"
    BY <1>a, <1>1, <2>1 DEF Field, Writes, ValueOf
  <2>2. CASE c[1] = "roles"
    BY <1>a, <1>1, <2>2 DEF Field, Writes, ValueOf
  <2>3. CASE c[1] \in {"policy", "name"}
    BY <1>a, <1>2, <2>3 DEF Field, Writes, ValueOf
  <2>4. CASE c[1] = "thawed"
    BY <1>a, <1>5, <2>4 DEF Field, Writes, ValueOf
  <2>5. CASE c[1] = "status"
    BY <1>a, <1>5, <2>5 DEF Field, Writes, ValueOf
  <2> QED
    BY <2>1, <2>2, <2>3, <2>4, <2>5 DEF Cells
<1> QED
  BY <1>1, <1>2, <1>5, <1>6, <1>7 DEF IsMirror

-----------------------------------------------------------------------------
(* What a database shows of the chain.                                     *)

(* Each cell is as of some place that no statement before w is later than. *)
Current(l, d, w) ==
  \A c \in Cells(l) : \E e \in Place :
    /\ AsOf(l, c, Field(d, c), e)
    /\ \A a \in Writers(l, c) : a # w /\ UpTo(a, w) => UpTo(a, e)

(* A cell's writer leaves it as of that writer's place.                    *)
LEMMA CellWritten ==
    ASSUME NEW l, NEW c, NEW w \in Writers(l, c)
    PROVE  AsOf(l, c, ValueOf(c, Told(l, w)), w)
<1>1. w \in Place
  BY DEF Writers, Spoken
<1> QED
  BY <1>1, PlacesOrdered DEF AsOf

(* A cell as of a place is as of any place that the same writers are up    *)
(* to.                                                                     *)
LEMMA CellCarried ==
    ASSUME NEW l, NEW c, NEW x, NEW e, AsOf(l, c, x, e), NEW f,
           \A a \in Writers(l, c) : UpTo(a, e) <=> UpTo(a, f)
    PROVE  AsOf(l, c, x, f)
BY DEF AsOf

(* A cell that has been written says what its last writer wrote.           *)
LEMMA CellSays ==
    ASSUME NEW l, NEW c, NEW x, NEW e, AsOf(l, c, x, e),
           NEW a \in Writers(l, c), UpTo(a, e)
    PROVE  \E b \in Writers(l, c) : x = ValueOf(c, Told(l, b))
BY DEF AsOf

(* Two values of a cell as of the same writers are the same.               *)
LEMMA CellsAgree ==
    ASSUME NEW l, NEW c, NEW x, NEW y, NEW e, NEW f, AsOf(l, c, x, e), AsOf(l, c, y, f),
           \A a \in Writers(l, c) : UpTo(a, e) <=> UpTo(a, f)
    PROVE  x = y
<1>1. AsOf(l, c, y, e)
  BY CellCarried
<1>2. Writers(l, c) \subseteq Place
  BY DEF Writers, Spoken
<1>3. CASE \A a \in Writers(l, c) : ~UpTo(a, e)
  BY <1>1, <1>3 DEF AsOf
<1>4. CASE \E a \in Writers(l, c) : UpTo(a, e)
  <2>1. PICK a \in Writers(l, c) :
          /\ UpTo(a, e) /\ x = ValueOf(c, Told(l, a))
          /\ \A b \in Writers(l, c) : UpTo(b, e) => UpTo(b, a)
    BY <1>4 DEF AsOf
  <2>2. PICK b \in Writers(l, c) :
          /\ UpTo(b, e) /\ y = ValueOf(c, Told(l, b))
          /\ \A x2 \in Writers(l, c) : UpTo(x2, e) => UpTo(x2, b)
    BY <1>1, <1>4 DEF AsOf
  <2>3. a = b
    BY <1>2, <2>1, <2>2, PlacesOrdered
  <2> QED
    BY <2>1, <2>2, <2>3
<1> QED
  BY <1>3, <1>4

(* A holder's statement names a wallet of the chain's.                     *)
LEMMA WalletsTold ==
    ASSUME NEW l, NEW a \in Spoken(l), Told(l, a).kind \in HolderKinds
    PROVE  Told(l, a).wallet \in Wallets(l)
BY DEF Wallets

(* A statement finds what it needs where all before it has been applied.   *)
LEMMA ReadyFound ==
    ASSUME NEW l \in Ledgers, NEW d, NEW w \in Spoken(l), Current(l, d, w),
           NEW s, s = Told(l, w), s.kind = "delegation_set" => d.issuer # Nothing
    PROVE  Ready(d, s)
<1>1. ASSUME s.kind \in {"token_metadata", "token_policy", "holder_status"}
      PROVE  \E a \in Spoken(l) :
               /\ a # w /\ UpTo(a, w)
               /\ IF s.kind = "holder_status"
                  THEN Told(l, a).kind = "holder_thawed" /\ Told(l, a).wallet = s.wallet
                  ELSE Told(l, a).kind = "token_created"
  <2>1. PICK j, n : j = w[1] /\ n = w[2]
    OBVIOUS
  <2>2. j \in DOMAIN l /\ n \in DOMAIN l[j].body.statements /\ j \in Nat /\ n \in Nat
    BY <2>1 DEF Spoken, Place
  <2>3. s = l[j].body.statements[n]
    BY <2>1 DEF Told
  <2>4. PICK i \in DOMAIN l : \E m \in DOMAIN l[i].body.statements :
          /\ i < j \/ (i = j /\ m < n)
          /\ IF s.kind = "holder_status"
             THEN /\ l[i].body.statements[m].kind = "holder_thawed"
                  /\ l[i].body.statements[m].wallet = s.wallet
             ELSE l[i].body.statements[m].kind = "token_created"
    BY <1>1, <2>2, <2>3, AccountsAssumption
  <2>5. PICK m \in DOMAIN l[i].body.statements :
          /\ i < j \/ (i = j /\ m < n)
          /\ IF s.kind = "holder_status"
             THEN /\ l[i].body.statements[m].kind = "holder_thawed"
                  /\ l[i].body.statements[m].wallet = s.wallet
             ELSE l[i].body.statements[m].kind = "token_created"
    BY <2>4
  <2>6. PICK a : a = <<i, m>>
    OBVIOUS
  <2>7. a[1] = i /\ a[2] = m /\ Told(l, a) = l[i].body.statements[m]
    BY <2>6 DEF Told
  <2>8. i \in Nat /\ m \in Nat
    <3>1. IsSeq(l) /\ IsSeq(l[i].body.statements)
      BY LedgersAssumption
    <3>2. DOMAIN l = 1..Len(l) /\ Len(l) \in Nat
      BY <3>1 DEF IsSeq
    <3> PICK each : each = l[i].body.statements
      OBVIOUS
    <3>3. DOMAIN each = 1..Len(each) /\ Len(each) \in Nat
      BY <3>1 DEF IsSeq
    <3> QED
      BY <3>2, <3>3
  <2>9. a \in Spoken(l)
    BY <2>6, <2>7, <2>8 DEF Spoken, Place
  <2>10. UpTo(a, w) /\ a # w
    BY <2>1, <2>2, <2>5, <2>7, <2>8 DEF UpTo
  <2> QED
    BY <2>5, <2>7, <2>9, <2>10
<1>2. ASSUME s.kind \in {"token_metadata", "token_policy"}
      PROVE  d.token # Nothing
  <2>1. PICK a \in Spoken(l) : a # w /\ UpTo(a, w) /\ Told(l, a).kind = "token_created"
    BY <1>1, <1>2
  <2>2. PICK c : c = <<"policy", Nothing>>
    OBVIOUS
  <2>3. c \in Cells(l) /\ c[1] = "policy"
    BY <2>2 DEF Cells
  <2>4. a \in Writers(l, c)
    BY <2>1, <2>3 DEF Writers, Writes
  <2>5. PICK e \in Place : AsOf(l, c, Field(d, c), e) /\ UpTo(a, e)
    BY <2>1, <2>3, <2>4 DEF Current
  <2>6. PICK b \in Writers(l, c) : Field(d, c) = ValueOf(c, Told(l, b))
    BY <2>4, <2>5, CellSays
  <2>7. PICK y : Field(d, c) = Just(y)
    BY <2>3, <2>6 DEF ValueOf
  <2>8. PolicyIn(d.token) # Nothing
    BY <2>3, <2>7 DEF Field, Just, Nothing
  <2> QED
    BY <2>8 DEF PolicyIn
<1>3. ASSUME s.kind = "holder_status"
      PROVE  Held(d, s.wallet) # {}
  <2>1. PICK a \in Spoken(l) : /\ a # w /\ UpTo(a, w) /\ Told(l, a).kind = "holder_thawed"
                               /\ Told(l, a).wallet = s.wallet
    BY <1>1, <1>3
  <2>2. PICK c : c = <<"thawed", s.wallet>>
    OBVIOUS
  <2>3. c \in Cells(l) /\ c[1] = "thawed" /\ c[2] = s.wallet
    BY <1>3, <2>2, WalletsTold DEF Cells, HolderKinds
  <2>4. a \in Writers(l, c)
    BY <2>1, <2>3 DEF Writers, Writes
  <2>5. PICK e \in Place : AsOf(l, c, Field(d, c), e) /\ UpTo(a, e)
    BY <2>1, <2>3, <2>4 DEF Current
  <2>6. PICK b \in Writers(l, c) : Field(d, c) = ValueOf(c, Told(l, b))
    BY <2>4, <2>5, CellSays
  <2>7. Field(d, c) = "thawed"
    BY <2>3, <2>6 DEF ValueOf
  <2> QED
    BY <2>3, <2>7 DEF Field
<1> QED
  BY <1>2, <1>3 DEF Ready

-----------------------------------------------------------------------------
(* The mirror settles.                                                     *)

Settling ==
  /\ IsMirror(ledger, db)
  /\ \A r \in db.delegations : r.at \in 0..reach
  /\ \A c \in Cells(ledger) : \E e \in Place :
       /\ AsOf(ledger, c, Field(db, c), e)
       /\ \A a \in Writers(ledger, c) :
            (Behind(a) => UpTo(a, e)) /\ (UpTo(a, e) => a[1] <= reach)

SInv == CInv /\ Settling

(* The statement in hand finds what it needs.                              *)
LEMMA HandReady ==
    ASSUME SInv, InHand, NEW s, s = Statements(work.pos)[work.next], Performable(db, s),
           NEW w, w = <<work.pos, work.next>>
    PROVE  /\ s.kind \in Kinds \cup {"events"} /\ ledger \in Ledgers
           /\ w \in Spoken(ledger) => s = Told(ledger, w)
           /\ w \notin Spoken(ledger) => s.kind = "events"
           /\ Ready(db, s) /\ (s.kind \in HolderKinds => s.wallet \in Wallets(ledger))
<1> USE DEF SInv, CInv
<1>1. /\ s.kind \in Kinds \cup {"events"} /\ ledger \in Ledgers
      /\ w \in Spoken(ledger) => s = Told(ledger, w)
      /\ w \notin Spoken(ledger) => s.kind = "events"
  BY HandPlace, StatementPlace
<1>2. CASE w \notin Spoken(ledger)
  BY <1>1, <1>2 DEF Ready, HolderKinds
<1>3. CASE w \in Spoken(ledger)
  <2>1. Current(ledger, db, w)
    <3>1. \A a \in Place : a # w /\ UpTo(a, w) => Behind(a)
      BY HandInTurn
    <3>2. \A c : Writers(ledger, c) \subseteq Place
      BY DEF Writers, Spoken
    <3> QED
      BY <3>1, <3>2 DEF Settling, Current
  <2>2. s.kind = "delegation_set" => db.issuer # Nothing
    BY DEF Performable
  <2> QED
    BY <1>1, <1>3, <2>1, <2>2, ReadyFound, WalletsTold
<1> QED
  BY <1>1, <1>2, <1>3

(* The statement in hand leaves each cell that it writes as of itself, and *)
(* the others as they were.                                                *)
LEMMA PerformedSettles ==
    ASSUME SInv, InHand, Performable(db, Statements(work.pos)[work.next]),
           Performed(work.pos, Statements(work.pos)[work.next])
    PROVE  /\ IsMirror(ledger, db')
           /\ \A r \in db'.delegations : r.at \in 0..reach'
           /\ \A c \in Cells(ledger) : \E e \in Place :
                /\ AsOf(ledger, c, Field(db', c), e)
                /\ \A a \in Writers(ledger, c) :
                     /\ Behind(a) \/ a = <<work.pos, work.next>> => UpTo(a, e)
                     /\ UpTo(a, e) => a[1] <= reach'
<1> PICK p, n : p = work.pos /\ n = work.next
  OBVIOUS
<1> PICK s : s = Statements(p)[n]
  OBVIOUS
<1> PICK w : w = <<p, n>>
  OBVIOUS
<1> USE DEF SInv, CInv
<1>1. /\ s.kind \in Kinds \cup {"events"} /\ ledger \in Ledgers
      /\ w \in Spoken(ledger) => s = Told(ledger, w)
      /\ w \notin Spoken(ledger) => s.kind = "events"
      /\ Ready(db, s) /\ (s.kind \in HolderKinds => s.wallet \in Wallets(ledger))
  BY HandReady
<1>2. /\ w \in Place /\ w[1] = p
      /\ \A a \in Place : Behind(a) => UpTo(a, w)
  BY HandInTurn
<1>3. db' = Perform(db, p, s) /\ reach' = IF p > reach THEN p ELSE reach
  BY DEF Performed
<1>4. p \in Nat /\ reach \in Nat /\ reach <= reach' /\ p <= reach'
  BY <1>3, HandPlace DEF IInv, Shape
<1>5. /\ IsMirror(ledger, db')
      /\ \A r \in db'.delegations : r \in db.delegations \/ r.at = p
      /\ \A c \in Cells(ledger) :
           Field(db', c) = IF Writes(c, s) THEN ValueOf(c, s) ELSE Field(db, c)
  BY <1>1, <1>3, PerformCells DEF Settling
<1>6. ASSUME NEW r \in db'.delegations
      PROVE  r.at \in 0..reach'
  <2>1. r \in db.delegations \/ r.at = p
    BY <1>5
  <2>2. r \in db.delegations => r.at \in 0..reach
    BY DEF Settling
  <2> QED
    BY <1>3, <1>4, <2>1, <2>2
<1>7. ASSUME NEW c \in Cells(ledger)
      PROVE  \E e \in Place :
                /\ AsOf(ledger, c, Field(db', c), e)
                /\ \A a \in Writers(ledger, c) :
                     /\ Behind(a) \/ a = w => UpTo(a, e)
                     /\ UpTo(a, e) => a[1] <= reach'
  <2>1. \A a \in Writers(ledger, c) : a \in Place /\ a[1] \in Nat
    BY DEF Writers, Spoken, Place
  <2>2. PICK e \in Place :
          /\ AsOf(ledger, c, Field(db, c), e)
          /\ \A a \in Writers(ledger, c) :
               (Behind(a) => UpTo(a, e)) /\ (UpTo(a, e) => a[1] <= reach)
    BY DEF Settling
  <2>3. CASE w \in Writers(ledger, c)
    <3>1. AsOf(ledger, c, Field(db', c), w)
      <4>1. Writes(c, s) /\ s = Told(ledger, w)
        BY <1>1, <2>3 DEF Writers
      <4> QED
        BY <1>5, <2>3, <4>1, CellWritten
    <3>2. ASSUME NEW a \in Writers(ledger, c)
          PROVE  /\ Behind(a) \/ a = w => UpTo(a, w)
                 /\ UpTo(a, w) => a[1] <= reach'
      <4>1. UpTo(w, w)
        BY <1>2, PlacesOrdered
      <4>2. UpTo(a, w) => a[1] <= p
        BY <1>2, <1>4, <2>1 DEF UpTo
      <4>3. UpTo(a, w) => a[1] <= reach'
        BY <1>3, <1>4, <2>1, <4>2
      <4> QED
        BY <1>2, <2>1, <4>1, <4>3
    <3> QED
      BY <1>2, <3>1, <3>2
  <2>4. CASE w \notin Writers(ledger, c)
    <3>1. Field(db', c) = Field(db, c)
      <4>1. ~Writes(c, s)
        <5>1. w \notin Spoken(ledger) => ~Writes(c, s)
          BY <1>1 DEF Writes, Cells, ChangeKinds, HolderKinds
        <5> QED
          BY <1>1, <2>4, <5>1 DEF Writers
      <4> QED
        BY <1>5, <4>1
    <3>2. \A a \in Writers(ledger, c) : UpTo(a, e) => a[1] <= reach'
      BY <1>3, <1>4, <2>1, <2>2
    <3> QED
      BY <2>2, <2>4, <3>1, <3>2
  <2> QED
    BY <2>3, <2>4
<1> QED
  BY <1>5, <1>6, <1>7

(* No step unsettles the mirror.                                           *)
LEMMA SettlingKeeps ==
    ASSUME SInv, Next \/ UNCHANGED <<ledger, db, saved, cursor, work, reach>>, IInv'
    PROVE  Settling'
<1> USE DEF SInv, CInv
<1>1. UNCHANGED ledger /\ reach' >= reach
  BY OneStatement
<1>2. reach \in Nat /\ reach' \in Nat
  BY DEF IInv, Shape
<1>3. \A c : \A a \in Writers(ledger, c) : a \in Spoken(ledger) /\ a[1] \in Nat
  BY DEF Writers, Spoken, Place
<1>4. CASE UNCHANGED db /\ \A a \in Spoken(ledger) : Behind(a)' => Behind(a)
  <2>1. 0..reach \subseteq 0..reach'
    BY <1>1, <1>2
  <2>2. ASSUME NEW c \in Cells(ledger)
        PROVE  \E e \in Place :
                 /\ AsOf(ledger, c, Field(db, c), e)
                 /\ \A a \in Writers(ledger, c) :
                      (Behind(a)' => UpTo(a, e)) /\ (UpTo(a, e) => a[1] <= reach')
    <3>1. PICK e \in Place :
            /\ AsOf(ledger, c, Field(db, c), e)
            /\ \A a \in Writers(ledger, c) :
                 (Behind(a) => UpTo(a, e)) /\ (UpTo(a, e) => a[1] <= reach)
      BY DEF Settling
    <3>2. \A a \in Writers(ledger, c) :
            (Behind(a)' => UpTo(a, e)) /\ (UpTo(a, e) => a[1] <= reach')
      BY <1>1, <1>2, <1>3, <1>4, <3>1
    <3> QED
      BY <3>1, <3>2
  <2> QED
    BY <1>1, <1>4, <2>1, <2>2 DEF Settling
<1>5. CASE /\ InHand /\ Performable(db, Statements(work.pos)[work.next])
           /\ Performed(work.pos, Statements(work.pos)[work.next])
           /\ \A a \in Spoken(ledger) :
                Behind(a)' => Behind(a) \/ a = <<work.pos, work.next>>
  <2>1. /\ IsMirror(ledger, db')
        /\ \A r \in db'.delegations : r.at \in 0..reach'
        /\ \A c \in Cells(ledger) : \E e \in Place :
             /\ AsOf(ledger, c, Field(db', c), e)
             /\ \A a \in Writers(ledger, c) :
                  /\ Behind(a) \/ a = <<work.pos, work.next>> => UpTo(a, e)
                  /\ UpTo(a, e) => a[1] <= reach'
    BY <1>5, PerformedSettles
  <2> QED
    BY <1>1, <1>3, <1>5, <2>1 DEF Settling
<1> QED
  BY <1>4, <1>5, OneStatement

-----------------------------------------------------------------------------
(* What a replay comes to.                                                 *)

(* What holds at 0, and at each number up to N once at the one before it,  *)
(* holds at all of them.                                                   *)
LEMMA Counting ==
    ASSUME NEW N \in Nat, NEW T, 0 \in T, \A i \in 1..N : i - 1 \in T => i \in T
    PROVE  \A i \in 0..N : i \in T
<1> PICK S : S = {i \in 0..N : i \notin T}
  OBVIOUS
<1>1. CASE S = {}
  BY <1>1
<1>2. CASE S # {}
  <2>1. S \in SUBSET Nat
    OBVIOUS
  <2>2. PICK i \in S : \A j \in S : i <= j
    BY <1>2, <2>1, LeastPosition
  <2>3. i \in 1..N /\ i - 1 \in 0..N /\ ~(i <= i - 1)
    BY <2>2
  <2> QED
    BY <2>2, <2>3
<1> QED
  BY <1>1, <1>2

(* A database that p's first i statements have been replayed to, after all *)
(* of the transactions before p.                                           *)
EventsBelow(n) == UNION {EventsOf(q) : q \in 1..n - 1}

Replayed(d, p, i) ==
  LET e == <<p, i>>
  IN  /\ IsMirror(ledger, d)
      /\ \A c \in Cells(ledger) : AsOf(ledger, c, Field(d, c), e)
      /\ RowsAsOf(ledger, d.issuer, d.delegations, e, e)
      /\ EventsBelow(p) \subseteq d.rows /\ d.rows \subseteq EventsBelow(p) \cup EventsOf(p)
      /\ i = 0 => d.rows = EventsBelow(p)
      /\ i # 0 /\ i = Len(Statements(p)) => EventsOf(p) \subseteq d.rows

(* Each delegation change of the first n transactions follows some change. *)
Founded(n) ==
  \A a \in Delegations(ledger) : a[1] <= n =>
    \E b \in Changes(ledger) : b # a /\ UpTo(b, a)

(* The issuer's row and the history as of a place are as of any place that *)
(* the same changes are up to.                                             *)
LEMMA RowsCarried ==
    ASSUME NEW l, NEW issuer, NEW rows, NEW e, RowsAsOf(l, issuer, rows, e, e),
           NEW f \in Place, \A a \in Changes(l) : UpTo(a, e) <=> UpTo(a, f)
    PROVE  RowsAsOf(l, issuer, rows, f, f)
<1>1. Delegations(l) \subseteq Changes(l) /\ UpTo(f, f)
  BY PlacesOrdered DEF Delegations
<1>2. IssuerAsOf(l, issuer, f)
  BY DEF RowsAsOf, IssuerAsOf, IsLast
<1>3. HistoryAsOf(l, rows, f)
  BY <1>1 DEF RowsAsOf, HistoryAsOf
<1> QED
  BY <1>1, <1>2, <1>3 DEF RowsAsOf

(* No statement lies between one of a transaction and the next, nor        *)
(* between the last of a transaction and the next transaction.             *)
LEMMA NextPlace ==
    ASSUME ledger \in Ledgers, NEW p \in DOMAIN ledger
    PROVE  /\ p \in Nat /\ Len(Statements(p)) \in Nat
           /\ \A i \in 1..Len(Statements(p)) :
                /\ <<p, i>> \in Place /\ <<p, i - 1>> \in Place /\ ~UpTo(<<p, i>>, <<p, i - 1>>)
                /\ \A a \in Spoken(ledger) :
                     a # <<p, i>> => (UpTo(a, <<p, i - 1>>) <=> UpTo(a, <<p, i>>))
           /\ <<p + 1, 0>> \in Place
           /\ \A a \in Spoken(ledger) :
                UpTo(a, <<p, Len(Statements(p))>>) <=> UpTo(a, <<p + 1, 0>>)
<1> PICK n : n = Len(Statements(p))
  OBVIOUS
<1>1. p \in Nat /\ n \in Nat
  BY LedgersAssumption, StatementsKinds DEF IsSeq
<1>2. \A a \in Spoken(ledger) :
        /\ a \in Place /\ a[1] \in Nat /\ a[2] \in Nat /\ a[2] >= 1
        /\ a[1] = p => a[2] <= n
        /\ \A i : a[1] = p /\ a[2] = i => a = <<p, i>>
  BY SpokenPlaces DEF Place
<1>3. ASSUME NEW i \in 1..n
      PROVE  /\ <<p, i>> \in Place /\ <<p, i - 1>> \in Place /\ ~UpTo(<<p, i>>, <<p, i - 1>>)
             /\ \A a \in Spoken(ledger) :
                  a # <<p, i>> => (UpTo(a, <<p, i - 1>>) <=> UpTo(a, <<p, i>>))
  <2>1. <<p, i>> \in Place /\ <<p, i - 1>> \in Place /\ ~UpTo(<<p, i>>, <<p, i - 1>>)
    BY <1>1 DEF Place, UpTo
  <2>2. ASSUME NEW a \in Spoken(ledger), a # <<p, i>>
        PROVE  UpTo(a, <<p, i - 1>>) <=> UpTo(a, <<p, i>>)
    BY <1>1, <1>2, <2>2 DEF UpTo
  <2> QED
    BY <2>1, <2>2
<1>4. <<p + 1, 0>> \in Place
  BY <1>1 DEF Place
<1>5. ASSUME NEW a \in Spoken(ledger)
      PROVE  UpTo(a, <<p, n>>) <=> UpTo(a, <<p + 1, 0>>)
  BY <1>1, <1>2 DEF UpTo
<1> QED
  BY <1>1, <1>3, <1>4, <1>5

(* A statement of a replay finds the issuer it needs, and leaves the       *)
(* issuer's row and the history as of itself.                              *)
LEMMA ReplayChanges ==
    ASSUME ledger \in Ledgers, NEW p \in DOMAIN ledger, NEW i \in 1..Len(Statements(p)),
           Founded(p), NEW d, Columns(d),
           RowsAsOf(ledger, d.issuer, d.delegations, <<p, i - 1>>, <<p, i - 1>>),
           NEW s, s = Statements(p)[i], NEW e, e = Perform(d, p, s)
    PROVE  /\ s.kind = "delegation_set" => d.issuer # Nothing
           /\ RowsAsOf(ledger, e.issuer, e.delegations, <<p, i>>, <<p, i>>)
<1> PICK w, v : w = <<p, i>> /\ v = <<p, i - 1>>
  OBVIOUS
<1>1. /\ w \in Place /\ v \in Place /\ ~UpTo(w, v) /\ w[1] = p /\ p \in Nat
      /\ \A a \in Spoken(ledger) : a # w => (UpTo(a, v) <=> UpTo(a, w))
  BY NextPlace
<1>2. /\ s.kind \in Kinds \cup {"events"}
      /\ w \in Changes(ledger) <=> s.kind \in ChangeKinds
      /\ w \in Changes(ledger) => s = Told(ledger, w)
  BY <1>1, StatementPlace DEF Changes
<1>3. {"issuer", "delegations"} \subseteq DOMAIN d
  BY DEF Columns
<1>4. RowsAsOf(ledger, d.issuer, d.delegations, v, v) /\ Changes(ledger) \subseteq Spoken(ledger)
  BY DEF Changes
<1>5. CASE w \notin Changes(ledger)
  <2>1. s.kind # "delegation_set"
    BY <1>2, <1>5 DEF ChangeKinds
  <2>2. e.issuer = d.issuer /\ e.delegations = d.delegations
    BY <1>2, <1>3, <1>5, PerformBeside
  <2>3. RowsAsOf(ledger, d.issuer, d.delegations, w, w)
    BY <1>1, <1>4, <1>5, RowsCarried
  <2> QED
    BY <2>1, <2>2, <2>3
<1>6. CASE w \in Changes(ledger)
  <2>1. s.kind = "delegation_set" => d.issuer # Nothing
    <3> SUFFICES ASSUME s.kind = "delegation_set" PROVE d.issuer # Nothing
      OBVIOUS
    <3>1. w \in Delegations(ledger)
      BY <1>2, <1>6 DEF Delegations
    <3>2. PICK b \in Changes(ledger) : b # w /\ UpTo(b, w)
      BY <1>1, <3>1 DEF Founded
    <3>3. UpTo(b, v)
      BY <1>1, <1>4, <3>2
    <3>4. PICK a \in Changes(ledger) : d.issuer = Just(Made(ledger, a))
      BY <1>4, <3>3 DEF RowsAsOf, IssuerAsOf
    <3> QED
      BY <3>4 DEF Just, Nothing
  <2>2. s = Told(ledger, w) /\ Performable(d, s)
    BY <1>2, <1>6, <2>1 DEF Performable
  <2>3. /\ e.issuer = Just(Made(ledger, w))
        /\ WrittenAs(ledger, d.issuer, d.delegations, w, e.delegations)
    BY <1>1, <1>3, <1>6, <2>2, PerformWrites
  <2>4. \A a \in Changes(ledger) : a # w /\ UpTo(a, w) => UpTo(a, v)
    BY <1>1, <1>4
  <2>5. PICK h \in Place : /\ RowsAsOf(ledger, Just(Made(ledger, w)), e.delegations, w, h)
                           /\ ~UpTo(w, v) => h = w
    BY <1>1, <1>4, <1>6, <2>3, <2>4, ChangePasses
  <2> QED
    BY <1>1, <2>1, <2>3, <2>5
<1> QED
  BY <1>5, <1>6

(* One statement of a replay.                                              *)
LEMMA ReplayStep ==
    ASSUME ledger \in Ledgers, NEW p \in DOMAIN ledger, NEW i \in 1..Len(Statements(p)),
           Founded(p), NEW d, Replayed(d, p, i - 1),
           NEW s, s = Statements(p)[i], NEW e, e = Perform(d, p, s)
    PROVE  Replayed(e, p, i)
<1> PICK w, v : w = <<p, i>> /\ v = <<p, i - 1>>
  OBVIOUS
<1>0. /\ IsMirror(ledger, d)
      /\ \A c \in Cells(ledger) : AsOf(ledger, c, Field(d, c), v)
      /\ RowsAsOf(ledger, d.issuer, d.delegations, v, v)
      /\ EventsBelow(p) \subseteq d.rows /\ d.rows \subseteq EventsBelow(p) \cup EventsOf(p)
  BY DEF Replayed
<1>1. /\ w \in Place /\ v \in Place /\ ~UpTo(w, v) /\ w[1] = p /\ p \in Nat
      /\ \A a \in Spoken(ledger) : a # w => (UpTo(a, v) <=> UpTo(a, w))
  BY NextPlace
<1>2. /\ s.kind \in Kinds \cup {"events"}
      /\ w \in Spoken(ledger) => s = Told(ledger, w)
      /\ w \notin Spoken(ledger) => s.kind = "events"
  BY <1>1, StatementPlace
<1>3. Columns(d) /\ "rows" \in DOMAIN d
  BY <1>0 DEF IsMirror, Columns
<1>4. /\ s.kind = "delegation_set" => d.issuer # Nothing
      /\ RowsAsOf(ledger, e.issuer, e.delegations, w, w)
  BY <1>0, <1>3, ReplayChanges
<1>5. Ready(d, s) /\ (s.kind \in HolderKinds => s.wallet \in Wallets(ledger))
  <2>1. CASE w \notin Spoken(ledger)
    BY <1>2, <2>1 DEF Ready, HolderKinds
  <2>2. CASE w \in Spoken(ledger)
    <3>1. Current(ledger, d, w)
      <4>1. \A c : Writers(ledger, c) \subseteq Spoken(ledger)
        BY DEF Writers
      <4> QED
        BY <1>0, <1>1, <4>1 DEF Current
    <3> QED
      BY <1>2, <1>4, <2>2, <3>1, ReadyFound, WalletsTold
  <2> QED
    BY <2>1, <2>2
<1>6. /\ IsMirror(ledger, e)
      /\ \A c \in Cells(ledger) :
           Field(e, c) = IF Writes(c, s) THEN ValueOf(c, s) ELSE Field(d, c)
  BY <1>0, <1>2, <1>5, PerformCells
<1>7. ASSUME NEW c \in Cells(ledger)
      PROVE  AsOf(ledger, c, Field(e, c), w)
  <2>1. CASE w \in Writers(ledger, c)
    <3>1. Writes(c, s) /\ s = Told(ledger, w)
      BY <1>2, <2>1 DEF Writers
    <3> QED
      BY <1>6, <2>1, <3>1, CellWritten
  <2>2. CASE w \notin Writers(ledger, c)
    <3>1. w \notin Spoken(ledger) => ~Writes(c, s)
      BY <1>2 DEF Writes, Cells, ChangeKinds, HolderKinds
    <3>2. ~Writes(c, s)
      BY <1>2, <2>2, <3>1 DEF Writers
    <3>3. \A a \in Writers(ledger, c) : UpTo(a, v) <=> UpTo(a, w)
      BY <1>1, <2>2 DEF Writers
    <3>4. AsOf(ledger, c, Field(d, c), w)
      BY <1>0, <3>3, CellCarried
    <3> QED
      BY <1>6, <3>2, <3>4
  <2> QED
    BY <2>1, <2>2
<1>8. /\ EventsBelow(p) \subseteq e.rows /\ e.rows \subseteq EventsBelow(p) \cup EventsOf(p)
      /\ i = Len(Statements(p)) => EventsOf(p) \subseteq e.rows
  <2>1. /\ s.kind \in Kinds => e.rows = d.rows
        /\ s.kind = "events" => e.rows = d.rows \cup EventsOf(p)
    BY <1>2, <1>3, PerformRows
  <2>2. i = Len(Statements(p)) => EventsOf(p) = {} \/ s.kind = "events"
    BY StatementsKinds
  <2> QED
    BY <1>0, <1>2, <2>1, <2>2
<1>9. i # 0
  OBVIOUS
<1> QED
  BY <1>4, <1>6, <1>7, <1>8, <1>9 DEF Replayed

(* There is a sequence of databases that each statement makes of the one   *)
(* before, so Through is the last of it.                                   *)
LEMMA ThroughSteps ==
    ASSUME ledger \in Ledgers, NEW p \in DOMAIN ledger, NEW d, NEW n, n = Len(Statements(p))
    PROVE  \E f : /\ f[0] = d
                  /\ \A i \in 1..n : f[i] = Perform(f[i - 1], p, Statements(p)[i])
                  /\ Through(p, d) = f[n]
<1> PICK told : told = Statements(p)
  OBVIOUS
<1>1. n \in Nat
  BY NextPlace
<1> DEFINE Stepwise(f, m) ==
      f = [i \in 0..m |-> IF i = 0 THEN d ELSE Perform(f[i - 1], p, told[i])]
<1> PICK T : T = {m \in 0..n : \E f : Stepwise(f, m)}
  OBVIOUS
<1>2. 0 \in T
  <2>1. PICK f : f = [i \in 0..0 |-> d]
    OBVIOUS
  <2>2. f = [i \in 0..0 |-> IF i = 0 THEN d ELSE Perform(f[i - 1], p, told[i])]
    BY <2>1
  <2> QED
    BY <1>1, <2>2
<1>3. ASSUME NEW m \in 1..n, m - 1 \in T
      PROVE  m \in T
  <2>1. PICK f : f = [i \in 0..m - 1 |->
                        IF i = 0 THEN d ELSE Perform(f[i - 1], p, told[i])]
    BY <1>3
  <2>2. PICK x : x = Perform(f[m - 1], p, told[m])
    OBVIOUS
  <2>3. PICK g : g = [i \in 0..m |-> IF i = m THEN x ELSE f[i]]
    OBVIOUS
  <2>4. ASSUME NEW i \in 0..m
        PROVE  g[i] = IF i = 0 THEN d ELSE Perform(g[i - 1], p, told[i])
    <3>1. CASE i = 0
      BY <1>1, <2>1, <2>3, <3>1
    <3>2. CASE i # 0
      <4>1. i - 1 \in 0..m - 1 /\ i - 1 # m
        BY <1>1, <3>2
      <4>2. g[i - 1] = f[i - 1]
        BY <1>1, <2>3, <4>1
      <4>3. g[i] = Perform(f[i - 1], p, told[i])
        <5>1. CASE i = m
          BY <2>2, <2>3, <5>1
        <5>2. CASE i # m
          <6>1. i \in 0..m - 1 /\ g[i] = f[i]
            BY <1>1, <2>3, <5>2
          <6> QED
            BY <2>1, <3>2, <6>1
        <5> QED
          BY <5>1, <5>2
      <4> QED
        BY <3>2, <4>2, <4>3
    <3> QED
      BY <3>1, <3>2
  <2>5. g = [i \in 0..m |-> IF i = 0 THEN d ELSE Perform(g[i - 1], p, told[i])]
    <3>1. g = [i \in 0..m |-> g[i]]
      BY <2>3
    <3> QED
      BY <2>4, <3>1
  <2> QED
    BY <2>5
<1>4. n \in T
  <2>1. \A m \in 0..n : m \in T
    BY <1>1, <1>2, <1>3, Counting
  <2> QED
    BY <1>1, <2>1
<1>5. \E f : f = [i \in 0..n |-> IF i = 0 THEN d ELSE Perform(f[i - 1], p, told[i])]
  BY <1>4
<1>6. PICK f : /\ f = [i \in 0..n |-> IF i = 0 THEN d ELSE Perform(f[i - 1], p, told[i])]
               /\ Through(p, d) = f[n]
  BY <1>5 DEF Through
<1>7. f[0] = d /\ \A i \in 1..n : f[i] = Perform(f[i - 1], p, Statements(p)[i])
  BY <1>1, <1>6
<1> QED
  BY <1>6, <1>7

(* The same of Replay.                                                     *)
LEMMA ReplaySteps ==
    ASSUME NEW n \in Nat
    PROVE  \E f : /\ f[0] = EmptyMirror
                  /\ \A p \in 1..n : f[p] = Through(p, f[p - 1])
                  /\ Replay(n) = f[n]
<1> DEFINE Stepwise(f, m) ==
      f = [p \in 0..m |-> IF p = 0 THEN EmptyMirror ELSE Through(p, f[p - 1])]
<1> PICK T : T = {m \in 0..n : \E f : Stepwise(f, m)}
  OBVIOUS
<1>2. 0 \in T
  <2>1. PICK f : f = [p \in 0..0 |-> EmptyMirror]
    OBVIOUS
  <2>2. f = [p \in 0..0 |-> IF p = 0 THEN EmptyMirror ELSE Through(p, f[p - 1])]
    BY <2>1
  <2> QED
    BY <2>2
<1>3. ASSUME NEW m \in 1..n, m - 1 \in T
      PROVE  m \in T
  <2>1. PICK f : f = [p \in 0..m - 1 |->
                        IF p = 0 THEN EmptyMirror ELSE Through(p, f[p - 1])]
    BY <1>3
  <2>2. PICK x : x = Through(m, f[m - 1])
    OBVIOUS
  <2>3. PICK g : g = [p \in 0..m |-> IF p = m THEN x ELSE f[p]]
    OBVIOUS
  <2>4. ASSUME NEW p \in 0..m
        PROVE  g[p] = IF p = 0 THEN EmptyMirror ELSE Through(p, g[p - 1])
    <3>1. CASE p = 0
      BY <2>1, <2>3, <3>1
    <3>2. CASE p # 0
      <4>1. p - 1 \in 0..m - 1 /\ p - 1 # m
        BY <3>2
      <4>2. g[p - 1] = f[p - 1]
        BY <2>3, <4>1
      <4>3. g[p] = Through(p, f[p - 1])
        <5>1. CASE p = m
          BY <2>2, <2>3, <5>1
        <5>2. CASE p # m
          <6>1. p \in 0..m - 1 /\ g[p] = f[p]
            BY <2>3, <5>2
          <6> QED
            BY <2>1, <3>2, <6>1
        <5> QED
          BY <5>1, <5>2
      <4> QED
        BY <3>2, <4>2, <4>3
    <3> QED
      BY <3>1, <3>2
  <2>5. g = [p \in 0..m |-> IF p = 0 THEN EmptyMirror ELSE Through(p, g[p - 1])]
    <3>1. g = [p \in 0..m |-> g[p]]
      BY <2>3
    <3> QED
      BY <2>4, <3>1
  <2> QED
    BY <2>5
<1>4. n \in T
  <2>1. \A m \in 0..n : m \in T
    BY <1>2, <1>3, Counting
  <2> QED
    BY <2>1
<1>5. \E f : f = [p \in 0..n |-> IF p = 0 THEN EmptyMirror ELSE Through(p, f[p - 1])]
  BY <1>4
<1>6. PICK f : /\ f = [p \in 0..n |-> IF p = 0 THEN EmptyMirror ELSE Through(p, f[p - 1])]
               /\ Replay(n) = f[n]
  BY <1>5 DEF Replay
<1>7. f[0] = EmptyMirror /\ \A p \in 1..n : f[p] = Through(p, f[p - 1])
  BY <1>6
<1> QED
  BY <1>6, <1>7

(* A transaction of a replay.                                              *)
LEMMA ReplayThrough ==
    ASSUME ledger \in Ledgers, NEW p \in DOMAIN ledger, Founded(p),
           NEW d, Replayed(d, p, 0)
    PROVE  Replayed(Through(p, d), p + 1, 0)
<1> PICK n : n = Len(Statements(p))
  OBVIOUS
<1>1. p \in Nat /\ n \in Nat
  BY NextPlace
<1>2. PICK f : /\ f[0] = d
               /\ \A i \in 1..n : f[i] = Perform(f[i - 1], p, Statements(p)[i])
               /\ Through(p, d) = f[n]
  BY ThroughSteps
<1>4. \A i \in 0..n : Replayed(f[i], p, i)
  <2> PICK T : T = {i \in 0..n : Replayed(f[i], p, i)}
    OBVIOUS
  <2>1. 0 \in T
    BY <1>1, <1>2
  <2>2. ASSUME NEW i \in 1..n, i - 1 \in T
        PROVE  i \in T
    <3>1. Replayed(f[i - 1], p, i - 1)
      BY <2>2
    <3>2. Replayed(f[i], p, i)
      BY <1>2, <3>1, ReplayStep
    <3> QED
      BY <3>2
  <2>3. \A i \in 0..n : i \in T
    BY <1>1, <2>1, <2>2, Counting
  <2> QED
    BY <2>3
<1>5. PICK e : e = f[n] /\ Replayed(e, p, n)
  BY <1>1, <1>4
<1> PICK w, v : w = <<p + 1, 0>> /\ v = <<p, n>>
  OBVIOUS
<1>6. /\ IsMirror(ledger, e)
      /\ \A c \in Cells(ledger) : AsOf(ledger, c, Field(e, c), v)
      /\ RowsAsOf(ledger, e.issuer, e.delegations, v, v)
      /\ EventsBelow(p) \subseteq e.rows /\ e.rows \subseteq EventsBelow(p) \cup EventsOf(p)
      /\ n = 0 => e.rows = EventsBelow(p)
      /\ n # 0 => EventsOf(p) \subseteq e.rows
  BY <1>5 DEF Replayed
<1>7. w \in Place /\ \A a \in Spoken(ledger) : UpTo(a, v) <=> UpTo(a, w)
  BY NextPlace
<1>8. \A c \in Cells(ledger) : AsOf(ledger, c, Field(e, c), w)
  <2>1. \A c : Writers(ledger, c) \subseteq Spoken(ledger)
    BY DEF Writers
  <2> QED
    BY <1>6, <1>7, <2>1, CellCarried
<1>9. RowsAsOf(ledger, e.issuer, e.delegations, w, w)
  <2>1. Changes(ledger) \subseteq Spoken(ledger)
    BY DEF Changes
  <2> QED
    BY <1>6, <1>7, <2>1, RowsCarried
<1>10. e.rows = EventsBelow(p + 1)
  <2>1. n = 0 => EventsOf(p) = {}
    BY StatementsKinds
  <2>2. e.rows = EventsBelow(p) \cup EventsOf(p)
    BY <1>6, <2>1
  <2>3. 1..(p + 1) - 1 = (1..p - 1) \cup {p}
    <3>1. p \in 1..Len(ledger)
      BY LedgersAssumption DEF IsSeq
    <3> QED
      BY <1>1, <3>1
  <2> QED
    BY <2>2, <2>3 DEF EventsBelow
<1>11. Replayed(e, p + 1, 0)
  BY <1>6, <1>8, <1>9, <1>10 DEF Replayed
<1> QED
  BY <1>2, <1>5, <1>11

(* The empty mirror is a replay of nothing.                                *)
LEMMA ReplayBegins ==
    ASSUME ledger \in Ledgers
    PROVE  Replayed(EmptyMirror, 1, 0)
<1> PICK w : w = <<1, 0>>
  OBVIOUS
<1>1. w \in Place /\ UpTo(w, w) /\ \A a \in Spoken(ledger) : ~UpTo(a, w)
  <2>1. w \in Place /\ w[1] = 1 /\ w[2] = 0
    BY DEF Place
  <2>2. \A a \in Spoken(ledger) : a[1] \in Nat /\ a[1] >= 1 /\ a[2] \in Nat /\ a[2] >= 1
    <3>1. Len(ledger) \in Nat
      BY LedgersAssumption DEF IsSeq
    <3> QED
      BY <3>1, SpokenPlaces
  <2> QED
    BY <2>1, <2>2 DEF UpTo
<1>2. IsMirror(ledger, EmptyMirror)
  BY DEF IsMirror, EmptyMirror, Columns, TokenRow, HolderRows, DelegationRows
<1>3. \A c \in Cells(ledger) : AsOf(ledger, c, Field(EmptyMirror, c), w)
  <2>1. ASSUME NEW c \in Cells(ledger) PROVE Field(EmptyMirror, c) = Blank(c)
    <3>1. \A x : Held(EmptyMirror, x) = {}
      BY DEF Held, EmptyMirror
    <3>2. EmptyMirror.issuer = Nothing /\ EmptyMirror.roles = Nothing
          /\ EmptyMirror.token = Nothing
      BY DEF EmptyMirror
    <3> QED
      BY <3>1, <3>2 DEF Field, Blank, Cells, PolicyIn, NameIn, StatusOf
  <2>2. \A c : Writers(ledger, c) \subseteq Spoken(ledger)
    BY DEF Writers
  <2> QED
    BY <1>1, <2>1, <2>2 DEF AsOf
<1>4. RowsAsOf(ledger, EmptyMirror.issuer, EmptyMirror.delegations, w, w)
  <2>1. EmptyMirror.issuer = Nothing /\ EmptyMirror.delegations = {}
    BY DEF EmptyMirror
  <2>2. Changes(ledger) \subseteq Spoken(ledger) /\ Delegations(ledger) \subseteq Changes(ledger)
    BY DEF Changes, Delegations
  <2> QED
    BY <1>1, <2>1, <2>2 DEF RowsAsOf, IssuerAsOf, HistoryAsOf
<1>5. EmptyMirror.rows = {} /\ EventsBelow(1) = {}
  BY DEF EmptyMirror, EventsBelow
<1> QED
  BY <1>2, <1>3, <1>4, <1>5 DEF Replayed

(* The replay of the first n transactions has all of their statements and  *)
(* no later one's.                                                         *)
LEMMA ReplayIs ==
    ASSUME ledger \in Ledgers, NEW n \in 0..Len(ledger), Founded(n)
    PROVE  Replayed(Replay(n), n + 1, 0)
<1>1. n \in Nat /\ DOMAIN ledger = 1..Len(ledger) /\ Len(ledger) \in Nat
  BY LedgersAssumption DEF IsSeq
<1>2. PICK f : /\ f[0] = EmptyMirror
               /\ \A p \in 1..n : f[p] = Through(p, f[p - 1])
               /\ Replay(n) = f[n]
  BY <1>1, ReplaySteps
<1> PICK T : T = {p \in 0..n : Replayed(f[p], p + 1, 0)}
  OBVIOUS
<1>4. 0 \in T
  BY <1>1, <1>2, ReplayBegins
<1>5. ASSUME NEW p \in 1..n, p - 1 \in T
      PROVE  p \in T
  <2>1. Replayed(f[p - 1], p - 1 + 1, 0) /\ p - 1 + 1 = p
    BY <1>5
  <2>2. p \in DOMAIN ledger
    BY <1>1
  <2>3. Founded(p)
    <3>1. \A a \in Delegations(ledger) : a[1] \in Nat
      BY ChangesKnown DEF Place
    <3> QED
      BY <1>1, <3>1 DEF Founded
  <2>4. Replayed(f[p], p + 1, 0)
    BY <1>2, <2>1, <2>2, <2>3, ReplayThrough
  <2> QED
    BY <2>4
<1>6. n \in T
  <2>1. \A p \in 0..n : p \in T
    BY <1>1, <1>4, <1>5, Counting
  <2> QED
    BY <1>1, <2>1
<1> QED
  BY <1>2, <1>6

-----------------------------------------------------------------------------
(* A change has one row.                                                   *)
LEMMA OneHistoryRow ==
    ASSUME NEW l \in Ledgers, NEW a, NEW q, NEW r, RowOf(l, q, a), RowOf(l, r, a),
           DelegationRows({q, r})
    PROVE  q = r
<1>1. PICK b \in Changes(l) : JustBefore(l, b, a) /\ q.previous = Made(l, b)
  BY DEF RowOf
<1>2. PICK c \in Changes(l) : JustBefore(l, c, a) /\ r.previous = Made(l, c)
  BY DEF RowOf
<1>3. b = c
  <2>1. UpTo(b, c) /\ UpTo(c, b)
    BY <1>1, <1>2 DEF JustBefore
  <2>2. b \in Place /\ c \in Place
    BY ChangesKnown
  <2> QED
    BY <2>1, <2>2, PlacesOrdered
<1>4. q.at = r.at /\ q.index = r.index /\ q.next = r.next /\ q.previous = r.previous
  BY <1>1, <1>2, <1>3 DEF RowOf
<1>5. /\ q = [at |-> q.at, index |-> q.index, previous |-> q.previous, next |-> q.next]
      /\ r = [at |-> r.at, index |-> r.index, previous |-> r.previous, next |-> r.next]
  BY DEF DelegationRows
<1> QED
  BY <1>4, <1>5

(* Histories of the same changes are the same.                             *)
LEMMA HistoriesAgree ==
    ASSUME NEW l \in Ledgers, NEW rows, NEW others, DelegationRows(rows),
           DelegationRows(others), NEW f, NEW g, HistoryAsOf(l, rows, f),
           HistoryAsOf(l, others, g), \A a \in Delegations(l) : UpTo(a, f) <=> UpTo(a, g)
    PROVE  rows = others
<1>1. ASSUME NEW r \in rows
      PROVE  r \in others
  <2>1. PICK a \in Delegations(l) : UpTo(a, f) /\ RowOf(l, r, a)
    BY DEF HistoryAsOf
  <2>2. PICK q \in others : RowOf(l, q, a)
    BY <2>1 DEF HistoryAsOf
  <2>3. DelegationRows({q, r})
    BY DEF DelegationRows
  <2> QED
    BY <2>1, <2>2, <2>3, OneHistoryRow
<1>2. ASSUME NEW r \in others
      PROVE  r \in rows
  <2>1. PICK a \in Delegations(l) : UpTo(a, g) /\ RowOf(l, r, a)
    BY DEF HistoryAsOf
  <2>2. PICK q \in rows : RowOf(l, q, a)
    BY <2>1 DEF HistoryAsOf
  <2>3. DelegationRows({q, r})
    BY DEF DelegationRows
  <2> QED
    BY <2>1, <2>2, <2>3, OneHistoryRow
<1> QED
  BY <1>1, <1>2

(* Mirrors with the same cells have the same holders.                      *)
LEMMA HoldersShared ==
    ASSUME NEW l, NEW d, NEW e, IsMirror(l, d), IsMirror(l, e),
           \A c \in Cells(l) : Field(d, c) = Field(e, c)
    PROVE  d.holders \subseteq e.holders
<1> SUFFICES ASSUME NEW h \in d.holders PROVE h \in e.holders
  OBVIOUS
<1>1. HolderRows(l, d.holders) /\ HolderRows(l, e.holders)
  BY DEF IsMirror
<1> PICK w : w = h.wallet
  OBVIOUS
<1>2. /\ h = [wallet |-> w, state |-> "thawed", status |-> h.status]
      /\ w \in Wallets(l)
  BY <1>1 DEF HolderRows
<1>3. Held(d, w) = {h} /\ StatusOf(d, w) = h.status
  BY <1>1, OneRow
<1>4. Held(e, w) # {}
  <2> PICK c : c = <<"thawed", w>>
    OBVIOUS
  <2>1. c \in Cells(l) /\ c[1] = "thawed" /\ c[2] = w
    BY <1>2 DEF Cells
  <2>2. Field(d, c) = "thawed"
    BY <1>3, <2>1 DEF Field
  <2>3. Field(e, c) = IF Held(e, w) = {} THEN "absent" ELSE "thawed"
    BY <2>1 DEF Field
  <2> QED
    BY <2>1, <2>2, <2>3
<1>5. StatusOf(e, w) = h.status
  <2> PICK c : c = <<"status", w>>
    OBVIOUS
  <2>1. c \in Cells(l) /\ c[1] = "status" /\ c[2] = w
    BY <1>2 DEF Cells
  <2>2. Field(d, c) = StatusOf(d, w) /\ Field(e, c) = StatusOf(e, w)
    BY <2>1 DEF Field
  <2> QED
    BY <1>3, <2>1, <2>2
<1>6. PICK g \in e.holders : g.wallet = w
  BY <1>4 DEF Held
<1>7. StatusOf(e, w) = g.status
  BY <1>1, <1>6, OneRow
<1>8. g = [wallet |-> w, state |-> "thawed", status |-> g.status]
  BY <1>1, <1>6 DEF HolderRows
<1> QED
  BY <1>2, <1>5, <1>7, <1>8

(* A token's row is its policy and its name.                               *)
LEMMA TokensAgree ==
    ASSUME NEW x, NEW y, TokenRow(x), TokenRow(y), PolicyIn(x) = PolicyIn(y),
           NameIn(x) = NameIn(y)
    PROVE  x = y
<1>1. /\ \A z : Just(z) # Nothing
      /\ \A z, v : Just(z) = Just(v) => z = v
  BY DEF Just, Nothing
<1>2. x = Nothing <=> y = Nothing
  BY <1>1 DEF PolicyIn
<1>3. CASE x # Nothing
  <2>1. PICK p, n : x = Just([policy |-> p, name |-> n])
    BY <1>3 DEF TokenRow
  <2>2. PICK q, m : y = Just([policy |-> q, name |-> m])
    BY <1>2, <1>3 DEF TokenRow
  <2>3. PolicyIn(x) = Just(p) /\ NameIn(x) = n /\ PolicyIn(y) = Just(q) /\ NameIn(y) = m
    BY <2>1, <2>2, TokenRowIs
  <2>4. p = q /\ n = m
    BY <1>1, <2>3
  <2> QED
    BY <2>1, <2>2, <2>4
<1> QED
  BY <1>2, <1>3

(* Mirrors with the same cells, history and rows are the same.             *)
LEMMA MirrorsAgree ==
    ASSUME NEW l, NEW d, NEW e, IsMirror(l, d), IsMirror(l, e),
           \A c \in Cells(l) : Field(d, c) = Field(e, c),
           d.delegations = e.delegations, d.rows = e.rows
    PROVE  d = e
<1>1. d.holders = e.holders
  <2>1. d.holders \subseteq e.holders
    BY HoldersShared
  <2>2. e.holders \subseteq d.holders
    <3>1. \A c \in Cells(l) : Field(e, c) = Field(d, c)
      OBVIOUS
    <3> QED
      BY <3>1, HoldersShared
  <2> QED
    BY <2>1, <2>2
<1>2. ASSUME NEW name \in {"issuer", "roles", "policy", "name"}
      PROVE  \E c : c[1] = name /\ Field(d, c) = Field(e, c)
  <2> PICK c : c = <<name, Nothing>>
    OBVIOUS
  <2>1. c \in Cells(l) /\ c[1] = name
    BY DEF Cells
  <2> QED
    BY <2>1
<1>3. d.issuer = e.issuer
  BY <1>2 DEF Field
<1>4. d.roles = e.roles
  BY <1>2 DEF Field
<1>5. PolicyIn(d.token) = PolicyIn(e.token) /\ NameIn(d.token) = NameIn(e.token)
  BY <1>2 DEF Field
<1>6. d.token = e.token
  BY <1>5, TokensAgree DEF IsMirror
<1>7. Columns(d) /\ Columns(e)
  BY DEF IsMirror
<1> QED
  BY <1>1, <1>3, <1>4, <1>6, <1>7 DEF Columns

-----------------------------------------------------------------------------
(* Nothing has been applied at first.                                      *)
LEMMA SettlingBegins == ASSUME Init, IInv PROVE Settling
<1> PICK e : e = <<1, 0>>
  OBVIOUS
<1>1. ledger \in Ledgers /\ db = EmptyMirror /\ reach = 0 /\ cursor = 0 /\ saved = 0
      /\ work.pos = 0
  BY DEF Init, IDLE
<1>2. /\ IsMirror(ledger, db)
      /\ \A c \in Cells(ledger) : AsOf(ledger, c, Field(db, c), e)
  BY <1>1, ReplayBegins DEF Replayed
<1>3. db.delegations = {}
  BY <1>1 DEF EmptyMirror
<1>4. \A a \in Spoken(ledger) : a[1] \in Nat /\ a[1] >= 1 /\ a[2] \in Nat /\ a[2] >= 1
  BY <1>1, SpokenPlaces, Slots
<1>5. e \in Place /\ e[1] = 1 /\ e[2] = 0
  BY DEF Place
<1>6. \A a \in Spoken(ledger) : ~Behind(a) /\ ~UpTo(a, e)
  BY <1>1, <1>4, <1>5 DEF Behind, UpTo
<1>7. \A c : Writers(ledger, c) \subseteq Spoken(ledger)
  BY DEF Writers
<1> QED
  BY <1>2, <1>3, <1>5, <1>6, <1>7 DEF Settling

(* The mirror settles in every behaviour of the indexer and the readers.   *)
LEMMA SettlingInvariance == JSpec => []SInv
<1>1. JInit /\ CInv => SInv
  BY SettlingBegins DEF JInit, SInv, CInv
<1>2. SInv /\ CInv' /\ [JNext]_jvars => SInv'
  <2> SUFFICES ASSUME SInv, CInv', [JNext]_jvars
               PROVE  SInv'
    OBVIOUS
  <2>1. Next \/ UNCHANGED <<ledger, db, saved, cursor, work, reach>>
    BY ReadersRead DEF jvars, vars
  <2>2. Settling'
    BY <2>1, SettlingKeeps DEF CInv
  <2> QED
    BY <2>2 DEF SInv
<1> QED
  BY <1>1, <1>2, HistoryInvariance, PTL DEF JSpec

(* With the cursor at the furthest transaction begun, each cell says what  *)
(* its last writer wrote, the history has every change so far and the rows *)
(* every event: the replay's cells, history and rows.                      *)
LEMMA Settled ==
    ASSUME MInv, SInv, work = IDLE, cursor = reach
    PROVE  db = Replay(cursor)
<1> PICK n : n = cursor
  OBVIOUS
<1> PICK w : w = <<n + 1, 0>>
  OBVIOUS
<1> USE DEF SInv, CInv
<1>1. /\ ledger \in Ledgers /\ n \in Nat /\ n \in 0..Len(ledger) /\ saved \in Nat
      /\ saved <= n /\ work.pos = 0 /\ Len(ledger) \in Nat
  BY Slots DEF IInv, Shape, IDLE
<1>2. /\ w \in Place /\ w[1] = n + 1 /\ w[2] = 0
  BY <1>1 DEF Place
<1>3. \A a \in Spoken(ledger) : a[1] \in Nat /\ a[1] >= 1 /\ a[2] \in Nat /\ a[2] >= 1
  BY <1>1, SpokenPlaces
<1>4. \A a \in Spoken(ledger) : /\ Behind(a) <=> a[1] <= n
                                /\ UpTo(a, w) <=> a[1] <= n
  BY <1>1, <1>2, <1>3 DEF Behind, UpTo
<1>5. PICK f \in Place, g \in Place :
        /\ RowsAsOf(ledger, db.issuer, db.delegations, f, g)
        /\ \A a \in Changes(ledger) : Behind(a) => UpTo(a, f)
  BY DEF Chained
<1>6. /\ Delegations(ledger) \subseteq Changes(ledger) /\ Changes(ledger) \subseteq Place
      /\ Changes(ledger) \subseteq Spoken(ledger)
  BY <1>1, ChangesKnown DEF Changes
<1>7. HistoryAsOf(ledger, db.delegations, g) /\ UpTo(f, g)
  BY <1>5 DEF RowsAsOf
<1>8. \A a \in Delegations(ledger) : UpTo(a, g) <=> a[1] <= n
  <2> TAKE a \in Delegations(ledger)
  <2>1. a[1] <= n => UpTo(a, g)
    BY <1>4, <1>5, <1>6, <1>7, PlacesOrdered
  <2>2. ASSUME UpTo(a, g)
        PROVE  a[1] <= n
    <3>1. PICK r \in db.delegations : RowOf(ledger, r, a)
      BY <1>7, <2>2 DEF HistoryAsOf
    <3>2. r.at = a[1] /\ r.at \in 0..reach
      BY <3>1 DEF RowOf, Settling
    <3> QED
      BY <1>1, <3>2
  <2> QED
    BY <2>1, <2>2
<1>9. Founded(n)
  <2> SUFFICES ASSUME NEW a \in Delegations(ledger), a[1] <= n
               PROVE  \E b \in Changes(ledger) : b # a /\ UpTo(b, a)
    BY DEF Founded
  <2>1. PICK r \in db.delegations : RowOf(ledger, r, a)
    BY <1>7, <1>8 DEF HistoryAsOf
  <2> QED
    BY <2>1 DEF RowOf, JustBefore
<1>10. PICK e : e = Replay(n) /\ Replayed(e, n + 1, 0)
  BY <1>1, <1>9, ReplayIs
<1>11. /\ IsMirror(ledger, e)
       /\ \A c \in Cells(ledger) : AsOf(ledger, c, Field(e, c), w)
       /\ RowsAsOf(ledger, e.issuer, e.delegations, w, w)
       /\ e.rows = EventsBelow(n + 1)
  BY <1>10 DEF Replayed
<1>12. IsMirror(ledger, db)
  BY DEF Settling
<1>13. ASSUME NEW c \in Cells(ledger)
       PROVE  Field(db, c) = Field(e, c)
  <2>1. PICK x \in Place :
          /\ AsOf(ledger, c, Field(db, c), x)
          /\ \A a \in Writers(ledger, c) :
               (Behind(a) => UpTo(a, x)) /\ (UpTo(a, x) => a[1] <= reach)
    BY DEF Settling
  <2>2. AsOf(ledger, c, Field(e, c), w)
    BY <1>11
  <2>3. \A a \in Writers(ledger, c) : a \in Spoken(ledger)
    BY DEF Writers
  <2>4. \A a \in Writers(ledger, c) : UpTo(a, x) <=> UpTo(a, w)
    BY <1>4, <2>1, <2>3
  <2> QED
    BY <2>1, <2>2, <2>4, CellsAgree
<1>14. db.delegations = e.delegations
  <2>1. HistoryAsOf(ledger, e.delegations, w)
    BY <1>11 DEF RowsAsOf
  <2>2. \A a \in Delegations(ledger) : UpTo(a, g) <=> UpTo(a, w)
    BY <1>4, <1>6, <1>8
  <2>3. DelegationRows(db.delegations) /\ DelegationRows(e.delegations)
    BY <1>11, <1>12 DEF IsMirror
  <2> QED
    BY <1>1, <1>7, <2>1, <2>2, <2>3, HistoriesAgree
<1>15. db.rows = EventsBelow(n + 1)
  <2>1. 1..(n + 1) - 1 = 1..n
    BY <1>1
  <2>2. \A row \in db.rows : row \in EventsOf(row[1]) /\ row[1] \in 1..n
    BY DEF MInv, RealRows, IInv, Written
  <2>3. \A p \in 1..n : EventsOf(p) \subseteq db.rows
    BY <2>1 DEF IInv, Written, AppliedBelow, Applied
  <2> QED
    BY <2>1, <2>2, <2>3 DEF EventsBelow
<1> QED
  BY <1>10, <1>11, <1>12, <1>13, <1>14, <1>15, MirrorsAgree

(* Whatever was applied again after a restart, with older values written   *)
(* over newer ones on the way, the mirror is what the transactions up to   *)
(* the cursor make of an empty database, once the cursor is back at the    *)
(* furthest transaction begun: for every chain, however often the indexer  *)
(* crashes, fails or applies again (apply.ts).                             *)
THEOREM MirrorSettles == JSpec => []MirrorRowsSettle
<1>1. MInv /\ SInv => MirrorRowsSettle
  BY Settled DEF MirrorRowsSettle
<1> QED
  BY <1>1, MirrorInvariance, SettlingInvariance, PTL

-----------------------------------------------------------------------------
(* What is read of the journal: the order of its rows.                     *)

KeyIn(l, row) == << l[row[1]].slot, l[row[1]].sig, row[2] >>
Precedes(l, a, b) == Before(KeyIn(l, a), KeyIn(l, b))

(* The events of the token on a whole chain, and those of a window.        *)
Happened(l) ==
  {row \in UNION {{p} \X DOMAIN l[p].body.events : p \in 1..Len(l)} :
     l[row[1]].body.events[row[2]].mint = MintRead}
HappenedIn(l, window) ==
  {row \in Happened(l) : /\ l[row[1]].slot >= window.from
                         /\ l[row[1]].slot <= window.to}

InOrder(l, s) == \A i, j \in DOMAIN s : i < j => Precedes(l, s[i], s[j])

(* A list of what comes first in a set of rows, and one that passes over   *)
(* none between its first and its last.                                    *)
Begins(l, s, W) ==
  /\ s \in Seq(W) /\ InOrder(l, s)
  /\ \A x \in W : \A i \in DOMAIN s :
       Precedes(l, x, s[i]) => \E j \in DOMAIN s : x = s[j]
Skipless(l, s, W) ==
  /\ s \in Seq(W) /\ InOrder(l, s)
  /\ \A x \in W : \A i, j \in DOMAIN s :
       Precedes(l, s[i], x) /\ Precedes(l, x, s[j]) => \E k \in DOMAIN s : x = s[k]

(* A row is a transaction of the chain and a number of an event of it.     *)
LEMMA HappenedRows ==
    ASSUME NEW l \in Ledgers
    PROVE  /\ Len(l) \in Nat /\ DOMAIN l = 1..Len(l)
           /\ \A p \in 1..Len(l) : l[p].slot \in Nat /\ l[p].sig \in Nat
           /\ \A p \in 1..Len(l) :
                /\ Len(l[p].body.events) \in Nat
                /\ DOMAIN l[p].body.events = 1..Len(l[p].body.events)
           /\ \A row \in Happened(l) :
                /\ row[1] \in 1..Len(l) /\ row[2] \in Nat /\ row = <<row[1], row[2]>>
                /\ row[2] \in DOMAIN l[row[1]].body.events
                /\ l[row[1]].body.events[row[2]].mint = MintRead
           /\ \A p \in 1..Len(l) : \A n \in DOMAIN l[p].body.events :
                l[p].body.events[n].mint = MintRead => <<p, n>> \in Happened(l)
<1>1. IsSeq(l) /\ \A p \in DOMAIN l : /\ IsSeq(l[p].body.events)
                                      /\ l[p].slot \in Nat /\ l[p].sig \in Nat
  BY LedgersAssumption
<1>2. Len(l) \in Nat /\ DOMAIN l = 1..Len(l)
  BY <1>1 DEF IsSeq
<1>3. ASSUME NEW p \in 1..Len(l)
      PROVE  /\ Len(l[p].body.events) \in Nat
             /\ DOMAIN l[p].body.events = 1..Len(l[p].body.events)
  <2> PICK events : events = l[p].body.events
    OBVIOUS
  <2>1. events \in Seq({events[i] : i \in DOMAIN events})
    BY <1>1, <1>2 DEF IsSeq
  <2> QED
    BY <2>1
<1>4. ASSUME NEW row \in Happened(l)
      PROVE  /\ row[1] \in 1..Len(l) /\ row[2] \in Nat /\ row = <<row[1], row[2]>>
             /\ row[2] \in DOMAIN l[row[1]].body.events
             /\ l[row[1]].body.events[row[2]].mint = MintRead
  <2>1. PICK p \in 1..Len(l) : row \in {p} \X DOMAIN l[p].body.events
    BY DEF Happened
  <2>2. row = <<row[1], row[2]>> /\ row[1] = p /\ row[2] \in DOMAIN l[p].body.events
    BY <2>1
  <2>3. row[2] \in Nat
    BY <1>3, <2>2
  <2> QED
    BY <2>2, <2>3 DEF Happened
<1>5. ASSUME NEW p \in 1..Len(l), NEW n \in DOMAIN l[p].body.events,
             l[p].body.events[n].mint = MintRead
      PROVE  <<p, n>> \in Happened(l)
  <2>1. <<p, n>>[1] = p /\ <<p, n>>[2] = n /\ <<p, n>> \in {p} \X DOMAIN l[p].body.events
    OBVIOUS
  <2> QED
    BY <1>5, <2>1 DEF Happened
<1> QED
  BY <1>1, <1>2, <1>3, <1>4, <1>5

LEMMA HappenedFinite ==
    ASSUME NEW l \in Ledgers
    PROVE  IsFiniteSet(Happened(l))
<1> DEFINE events == [p \in 1..Len(l) |-> {p} \X DOMAIN l[p].body.events]
           S == {{p} \X DOMAIN l[p].body.events : p \in 1..Len(l)}
<1>1. Len(l) \in Nat /\ \A p \in 1..Len(l) :
        /\ Len(l[p].body.events) \in Nat
        /\ DOMAIN l[p].body.events = 1..Len(l[p].body.events)
  BY HappenedRows
<1>2. ASSUME NEW p \in 1..Len(l)
      PROVE  IsFiniteSet({p} \X DOMAIN l[p].body.events)
  <2>1. IsFiniteSet(DOMAIN l[p].body.events)
    <3> PICK m, D : m = Len(l[p].body.events) /\ D = DOMAIN l[p].body.events
      OBVIOUS
    <3>1. 1 \in Int /\ m \in Int /\ D = 1..m
      BY <1>1
    <3>2. IsFiniteSet(1..m)
      BY <3>1, FS_Interval
    <3> QED
      BY <3>1, <3>2
  <2>2. IsFiniteSet({p})
    BY FS_Singleton
  <2> QED
    BY <2>1, <2>2, FS_Product
<1>3. IsFiniteSet(1..Len(l))
  BY <1>1, FS_Interval
<1>4. events \in Surjection(1..Len(l), S)
  BY DEF Surjection
<1>5. IsFiniteSet(S)
  <2> HIDE DEF events, S
  <2> PICK D, f : D = 1..Len(l) /\ f = events
    OBVIOUS
  <2>1. f \in Surjection(D, S) /\ IsFiniteSet(D)
    BY <1>3, <1>4
  <2> QED
    BY <2>1, FS_Surjection
<1>6. \A T \in S : IsFiniteSet(T)
  BY <1>2
<1> HIDE DEF S
<1>7. IsFiniteSet(UNION S)
  BY <1>5, <1>6, FS_UNION
<1>8. Happened(l) \in SUBSET UNION S
  BY DEF Happened, S
<1> QED
  BY <1>7, <1>8, FS_Subset

LEMMA RowsOrdered ==
    ASSUME NEW l \in Ledgers
    PROVE  /\ \A a \in Happened(l) : ~Precedes(l, a, a)
           /\ \A a, b \in Happened(l) : a # b => Precedes(l, a, b) \/ Precedes(l, b, a)
           /\ \A a, b, c \in Happened(l) :
                Precedes(l, a, b) /\ Precedes(l, b, c) => Precedes(l, a, c)
<1>1. \A a \in Happened(l) :
        /\ KeyIn(l, a) = <<KeyIn(l, a)[1], KeyIn(l, a)[2], KeyIn(l, a)[3]>>
        /\ KeyIn(l, a)[1] \in Nat /\ KeyIn(l, a)[2] \in Nat /\ KeyIn(l, a)[3] \in Nat
  BY HappenedRows DEF KeyIn
<1>2. ASSUME NEW a \in Happened(l), NEW b \in Happened(l), KeyIn(l, a) = KeyIn(l, b)
      PROVE  a = b
  <2>1. l[a[1]].sig = l[b[1]].sig /\ a[2] = b[2]
    BY <1>2 DEF KeyIn
  <2>2. a[1] = b[1]
    BY <2>1, HappenedRows, SignaturesAssumption
  <2> QED
    BY <2>1, <2>2, HappenedRows
<1>3. \A a \in Happened(l) : ~Precedes(l, a, a)
  BY <1>1 DEF Precedes, Before
<1>4. \A a, b \in Happened(l) :
        KeyIn(l, a) # KeyIn(l, b) => Precedes(l, a, b) \/ Precedes(l, b, a)
  BY <1>1 DEF Precedes, Before
<1>5. \A a, b, c \in Happened(l) :
        Precedes(l, a, b) /\ Precedes(l, b, c) => Precedes(l, a, c)
  BY <1>1 DEF Precedes, Before
<1> QED
  BY <1>2, <1>3, <1>4, <1>5

Numbered(W, n, f) == f \in [W -> 0..n - 1] /\ \A a, b \in W : a # b => f[a] # f[b]
Listed(W, n, f) == [i \in 1..n |-> CHOOSE row \in W : f[row] = i - 1]

Enumerated(W, n, f, s) ==
  /\ s \in Seq(W) /\ Len(s) = n /\ DOMAIN s = 1..n
  /\ \A i \in 1..n : s[i] \in W /\ f[s[i]] = i - 1
  /\ \A x \in W : \E i \in 1..n : x = s[i]

(* A finite set whose members are numbered differently below their number  *)
(* is listed by the numbers.                                               *)
LEMMA Enumerates ==
    ASSUME NEW W, IsFiniteSet(W), NEW n, n = Cardinality(W),
           NEW f, Numbered(W, n, f), NEW s, s = Listed(W, n, f)
    PROVE  n \in Nat /\ Enumerated(W, n, f, s)
<1>1. n \in Nat
  BY FS_CardinalityType
<1>2. IsFiniteSet(0..n - 1) /\ Cardinality(0..n - 1) = n
  <2> PICK m : m = n - 1
    OBVIOUS
  <2>1. 0 \in Int /\ m \in Int
    BY <1>1
  <2>2. IsFiniteSet(0..m) /\ Cardinality(0..m) = IF 0 > m THEN 0 ELSE m - 0 + 1
    BY <2>1, FS_Interval
  <2> QED
    BY <1>1, <2>2
<1>3. f \in Surjection(W, 0..n - 1)
  <2> PICK T : T = 0..n - 1
    OBVIOUS
  <2>1. f \in Injection(W, T)
    BY DEF Numbered, Injection, IsInjective
  <2>2. IsFiniteSet(T) /\ Cardinality(W) = Cardinality(T)
    BY <1>2
  <2> QED
    BY <2>1, <2>2, FS_Injection
<1>4. \A i \in 1..n : \E row \in W : f[row] = i - 1
  <2> TAKE i \in 1..n
  <2>1. i - 1 \in 0..n - 1
    BY <1>1
  <2> QED
    BY <1>3, <2>1 DEF Surjection
<1>5. ASSUME NEW i \in 1..n
      PROVE  s[i] \in W /\ f[s[i]] = i - 1
  <2>1. s[i] = CHOOSE row \in W : f[row] = i - 1
    BY DEF Listed
  <2> QED
    BY <1>4, <2>1
<1>6. s \in Seq(W) /\ Len(s) = n /\ DOMAIN s = 1..n
  BY <1>1, <1>5 DEF Listed
<1>7. ASSUME NEW x \in W
      PROVE  \E i \in 1..n : x = s[i]
  <2> PICK i : i = f[x] + 1
    OBVIOUS
  <2>1. i \in 1..n /\ i - 1 = f[x]
    BY <1>1 DEF Numbered
  <2> QED
    BY <1>5, <2>1 DEF Numbered
<1> QED
  BY <1>1, <1>5, <1>6, <1>7 DEF Enumerated

(* The sorted list of a set of rows has each of them once, in order.       *)
LEMMA OrderedIs ==
    ASSUME ledger \in Ledgers, NEW W \in SUBSET Happened(ledger)
    PROVE  /\ IsFiniteSet(W) /\ Cardinality(W) \in Nat
           /\ Ordered(W) \in Seq(W) /\ Len(Ordered(W)) = Cardinality(W)
           /\ \A x \in W : \E i \in DOMAIN Ordered(W) : x = Ordered(W)[i]
           /\ InOrder(ledger, Ordered(W))
<1>a. PICK n : n = Cardinality(W)
  OBVIOUS
<1>b. PICK below : below = [row \in W |-> {r \in W : Precedes(ledger, r, row)}]
  OBVIOUS
<1>c. PICK f : f = [row \in W |-> Cardinality({r \in W : Precedes(ledger, r, row)})]
  OBVIOUS
<1>d. PICK s : s = Listed(W, n, f)
  OBVIOUS
<1>1. IsFiniteSet(W) /\ n \in Nat
  BY <1>a, HappenedFinite, FS_Subset, FS_CardinalityType
<1>2. Ordered(W) = s
  BY <1>a, <1>c, <1>d DEF Listed, Ordered, KeyOf, SlotOf, KeyIn, Precedes
<1>3. ASSUME NEW row \in W
      PROVE  /\ IsFiniteSet(below[row]) /\ f[row] = Cardinality(below[row])
             /\ f[row] \in 0..n - 1
  <2> PICK S, m : S = below[row] /\ m = Cardinality(S)
    OBVIOUS
  <2>1. S \in SUBSET W /\ row \notin S /\ f[row] = m
    BY <1>b, <1>c, RowsOrdered
  <2>2. /\ IsFiniteSet(S) /\ m \in Nat /\ m <= Cardinality(W)
        /\ Cardinality(W) = m => W = S
    BY <1>1, <2>1, FS_Subset, FS_CardinalityType
  <2>3. m <= n /\ m # n
    BY <1>a, <2>1, <2>2
  <2>4. m \in 0..n - 1
    BY <1>1, <2>2, <2>3
  <2> QED
    BY <2>1, <2>2, <2>4
<1>4. ASSUME NEW a \in W, NEW b \in W, Precedes(ledger, a, b)
      PROVE  f[a] < f[b]
  <2> PICK S, T : S = below[a] /\ T = below[b]
    OBVIOUS
  <2>1. S \in SUBSET T /\ a \in T /\ a \notin S
    BY <1>b, <1>4, RowsOrdered
  <2>2. /\ Cardinality(S) <= Cardinality(T)
        /\ Cardinality(T) = Cardinality(S) => T = S
    BY <1>3, <2>1, FS_Subset
  <2>3. /\ f[a] = Cardinality(S) /\ f[b] = Cardinality(T) /\ T # S
        /\ f[a] \in 0..n - 1 /\ f[b] \in 0..n - 1
    BY <1>3, <2>1
  <2> QED
    BY <1>1, <2>2, <2>3
<1>5. \A a, b \in W : a # b => f[a] # f[b]
  <2> TAKE a \in W, b \in W
  <2> HAVE a # b
  <2>1. Precedes(ledger, a, b) \/ Precedes(ledger, b, a)
    BY RowsOrdered
  <2>2. f[a] \in 0..n - 1 /\ f[b] \in 0..n - 1
    BY <1>3
  <2> QED
    BY <1>1, <1>4, <2>1, <2>2
<1>6. Numbered(W, n, f)
  BY <1>c, <1>3, <1>5 DEF Numbered
<1>7. /\ s \in Seq(W) /\ Len(s) = n /\ DOMAIN s = 1..n
      /\ \A i \in 1..n : s[i] \in W /\ f[s[i]] = i - 1
      /\ \A x \in W : \E i \in 1..n : x = s[i]
  <2>1. Enumerated(W, n, f, s)
    BY <1>a, <1>d, <1>1, <1>6, Enumerates
  <2> QED
    BY <2>1 DEF Enumerated
<1>8. \A i, j \in 1..n : i < j => Precedes(ledger, s[i], s[j])
  <2> TAKE i \in 1..n, j \in 1..n
  <2> HAVE i < j
  <2> PICK a, b : a = s[i] /\ b = s[j]
    OBVIOUS
  <2>1. a \in W /\ b \in W /\ f[a] = i - 1 /\ f[b] = j - 1
    BY <1>7
  <2>2. a # b /\ ~(f[b] < f[a])
    BY <1>1, <2>1
  <2>3. Precedes(ledger, a, b)
    BY <1>4, <2>1, <2>2, RowsOrdered
  <2> QED
    BY <2>3
<1> QED
  BY <1>a, <1>1, <1>2, <1>7, <1>8 DEF InOrder

(* A list with all of a set, and one that has it in order.                 *)
Lists(s, W) == \A x \in W : \E i \in DOMAIN s : x = s[i]
Sorted(l, s, W) == s \in Seq(W) /\ InOrder(l, s) /\ Lists(s, W)

(* What lies after the last of a list, or after a row where there is one.  *)
Beyond(l, W, c) == {r \in W : c # Nothing => Precedes(l, c[1], r)}

LEMMA PrefixBegins ==
    ASSUME NEW l \in Ledgers, NEW W \in SUBSET Happened(l), NEW s, Sorted(l, s, W),
           NEW k \in 0..Len(s), NEW t, t = SubSeq(s, 1, k)
    PROVE  /\ Len(t) = k /\ Begins(l, t, W)
           /\ k = Len(s) => Lists(t, W)
<1>1. s \in Seq(W) /\ Len(s) \in Nat /\ DOMAIN s = 1..Len(s)
  BY DEF Sorted, Lists
<1>2. /\ Len(t) = k /\ DOMAIN t = 1..k /\ t \in Seq(W)
      /\ \A i \in 1..k : t[i] = s[i] /\ i \in DOMAIN s
  BY <1>1
<1>3. InOrder(l, t)
  BY <1>2 DEF InOrder, Sorted
<1>4. ASSUME NEW x \in W, NEW i \in DOMAIN t, Precedes(l, x, t[i])
      PROVE  \E j \in DOMAIN t : x = t[j]
  <2>1. PICK j \in DOMAIN s : x = s[j]
    BY DEF Sorted, Lists
  <2>2. /\ i \in DOMAIN s /\ t[i] = s[i] /\ s[i] \in Happened(l) /\ x \in Happened(l)
        /\ i < j => Precedes(l, s[i], x)
    BY <1>1, <1>2, <2>1 DEF Sorted, InOrder
  <2>3. ~(i < j) /\ i # j
    BY <1>4, <2>1, <2>2, RowsOrdered
  <2>4. j \in 1..k
    BY <1>1, <1>2, <2>1, <2>2, <2>3
  <2> QED
    BY <1>2, <2>1, <2>4
<1>5. ASSUME k = Len(s), NEW x \in W
      PROVE  \E i \in DOMAIN t : x = t[i]
  BY <1>1, <1>2, <1>5 DEF Sorted, Lists
<1> QED
  BY <1>2, <1>3, <1>4, <1>5 DEF Begins, Lists

LEMMA BeginsShorter ==
    ASSUME NEW l \in Ledgers, NEW W \in SUBSET Happened(l), NEW s, Begins(l, s, W),
           NEW k \in 0..Len(s), NEW t, t = SubSeq(s, 1, k)
    PROVE  Begins(l, t, W)
<1>1. s \in Seq(W) /\ Len(s) \in Nat /\ DOMAIN s = 1..Len(s)
  BY DEF Begins
<1>2. /\ Len(t) = k /\ DOMAIN t = 1..k /\ t \in Seq(W)
      /\ \A i \in 1..k : t[i] = s[i] /\ i \in DOMAIN s
  BY <1>1
<1>3. InOrder(l, t)
  BY <1>2 DEF InOrder, Begins
<1>4. ASSUME NEW x \in W, NEW i \in DOMAIN t, Precedes(l, x, t[i])
      PROVE  \E j \in DOMAIN t : x = t[j]
  <2>1. i \in DOMAIN s /\ t[i] = s[i]
    BY <1>2
  <2>2. PICK j \in DOMAIN s : x = s[j]
    BY <1>4, <2>1 DEF Begins
  <2>3. /\ s[i] \in Happened(l) /\ x \in Happened(l)
        /\ i < j => Precedes(l, s[i], x)
    BY <1>1, <2>1, <2>2 DEF Begins, InOrder
  <2>4. ~(i < j) /\ i # j
    BY <1>4, <2>1, <2>2, <2>3, RowsOrdered
  <2>5. j \in 1..k
    BY <1>1, <1>2, <2>1, <2>2, <2>4
  <2> QED
    BY <1>2, <2>2, <2>5
<1> QED
  BY <1>2, <1>3, <1>4 DEF Begins

(* Two lists, the second of what lies beyond the first.                    *)
LEMMA Joined ==
    ASSUME NEW W, NEW s \in Seq(W), NEW t \in Seq(W), NEW u, u = s \o t
    PROVE  /\ u \in Seq(W) /\ DOMAIN s = 1..Len(s) /\ DOMAIN t = 1..Len(t)
           /\ Len(s) \in Nat /\ Len(t) \in Nat
           /\ DOMAIN u = 1..Len(s) + Len(t)
           /\ \A i \in DOMAIN s : i \in DOMAIN u /\ u[i] = s[i]
           /\ \A i \in DOMAIN t : Len(s) + i \in DOMAIN u /\ u[Len(s) + i] = t[i]
           /\ \A i \in DOMAIN u :
                \/ i \in DOMAIN s /\ u[i] = s[i]
                \/ i > Len(s) /\ i - Len(s) \in DOMAIN t /\ u[i] = t[i - Len(s)]
OBVIOUS

LEMMA JoinedInOrder ==
    ASSUME NEW l \in Ledgers, NEW W \in SUBSET Happened(l),
           NEW s \in Seq(W), NEW t \in Seq(W), InOrder(l, s), InOrder(l, t),
           NEW c, s # << >> => c = LastOf(s), \A i \in DOMAIN t : t[i] \in Beyond(l, W, c)
    PROVE  /\ InOrder(l, s \o t)
           /\ \A i \in DOMAIN s : \A j \in DOMAIN t : Precedes(l, s[i], t[j])
<1> PICK u : u = s \o t
  OBVIOUS
<1>1. ASSUME NEW i \in DOMAIN s, NEW j \in DOMAIN t
      PROVE  Precedes(l, s[i], t[j])
  <2>1. s # << >> /\ Len(s) \in DOMAIN s /\ i <= Len(s) /\ Len(s) \in Nat
    BY <1>1
  <2>2. c = << s[Len(s)] >>
    BY <2>1 DEF LastOf, Just
  <2>3. c # Nothing /\ c[1] = s[Len(s)]
    BY <2>2 DEF Nothing
  <2>4. Precedes(l, s[Len(s)], t[j])
    BY <1>1, <2>3 DEF Beyond
  <2>5. i = Len(s) \/ Precedes(l, s[i], s[Len(s)])
    BY <1>1, <2>1 DEF InOrder
  <2>6. s[i] \in Happened(l) /\ s[Len(s)] \in Happened(l) /\ t[j] \in Happened(l)
    BY <2>1
  <2> QED
    BY <2>4, <2>5, <2>6, RowsOrdered
<1>2. ASSUME NEW i \in DOMAIN u, NEW j \in DOMAIN u, i < j
      PROVE  Precedes(l, u[i], u[j])
  <2>1. CASE i \in DOMAIN s /\ j \in DOMAIN s
    BY <1>2, <2>1, Joined DEF InOrder
  <2>2. CASE i \in DOMAIN s /\ j \notin DOMAIN s
    BY <1>1, <2>2, Joined
  <2>3. CASE i \notin DOMAIN s
    <3>1. /\ i - Len(s) \in DOMAIN t /\ u[i] = t[i - Len(s)]
          /\ j - Len(s) \in DOMAIN t /\ u[j] = t[j - Len(s)]
          /\ i - Len(s) < j - Len(s)
      BY <1>2, <2>3, Joined
    <3> QED
      BY <3>1 DEF InOrder
  <2> QED
    BY <2>1, <2>2, <2>3
<1> QED
  BY <1>1, <1>2 DEF InOrder

LEMMA BeginsOn ==
    ASSUME NEW l \in Ledgers, NEW W \in SUBSET Happened(l), NEW s, Begins(l, s, W),
           NEW t, Begins(l, t, Beyond(l, W, LastOf(s))), NEW u, u = s \o t
    PROVE  /\ Begins(l, u, W)
           /\ Lists(t, Beyond(l, W, LastOf(s))) => Lists(u, W)
<1> PICK R : R = Beyond(l, W, LastOf(s))
  OBVIOUS
<1>1. s \in Seq(W) /\ t \in Seq(R) /\ t \in Seq(W) /\ InOrder(l, s) /\ InOrder(l, t)
  BY DEF Begins, Beyond
<1>a. /\ u \in Seq(W) /\ \A i \in DOMAIN s : i \in DOMAIN u /\ u[i] = s[i]
      /\ \A i \in DOMAIN t : Len(s) + i \in DOMAIN u /\ u[Len(s) + i] = t[i]
      /\ \A i \in DOMAIN u :
           \/ i \in DOMAIN s /\ u[i] = s[i]
           \/ i > Len(s) /\ i - Len(s) \in DOMAIN t /\ u[i] = t[i - Len(s)]
  BY <1>1, Joined
<1>2. /\ InOrder(l, u)
      /\ \A i \in DOMAIN s : \A j \in DOMAIN t : Precedes(l, s[i], t[j])
  <2>1. \A i \in DOMAIN t : t[i] \in R
    BY <1>1
  <2> QED
    BY <1>1, <2>1, JoinedInOrder
<1>3. ASSUME NEW x \in W
      PROVE  x \in R \/ \E i \in DOMAIN s : x = s[i]
  <2>1. CASE s = << >>
    BY <2>1 DEF Beyond, LastOf
  <2>2. CASE s # << >>
    <3>1. Len(s) \in DOMAIN s /\ s[Len(s)] \in W
      BY <1>1, <2>2
    <3>2. LastOf(s)[1] = s[Len(s)]
      BY <2>2 DEF LastOf, Just
    <3>3. \/ x = s[Len(s)] \/ Precedes(l, x, s[Len(s)]) \/ Precedes(l, s[Len(s)], x)
      BY <3>1, RowsOrdered
    <3>4. CASE Precedes(l, s[Len(s)], x)
      BY <3>2, <3>4 DEF Beyond
    <3>5. CASE x = s[Len(s)] \/ Precedes(l, x, s[Len(s)])
      BY <3>1, <3>5 DEF Begins
    <3> QED
      BY <3>3, <3>4, <3>5
  <2> QED
    BY <2>1, <2>2
<1>4. ASSUME NEW x \in W, NEW i \in DOMAIN u, Precedes(l, x, u[i])
      PROVE  \E j \in DOMAIN u : x = u[j]
  <2>1. CASE \E j \in DOMAIN s : x = s[j]
    BY <1>a, <2>1
  <2>2. CASE x \in R /\ i \in DOMAIN s
    <3>1. u[i] = s[i]
      BY <1>a, <2>2
    <3>2. \E j \in DOMAIN s : x = s[j]
      BY <1>4, <2>2, <3>1 DEF Begins
    <3> QED
      BY <2>1, <3>2
  <2>3. CASE x \in R /\ i \notin DOMAIN s
    <3>1. i - Len(s) \in DOMAIN t /\ u[i] = t[i - Len(s)]
      BY <1>a, <1>4, <2>3
    <3>2. PICK j \in DOMAIN t : x = t[j]
      BY <1>4, <2>3, <3>1 DEF Begins
    <3> QED
      BY <1>a, <3>2
  <2> QED
    BY <1>3, <2>1, <2>2, <2>3
<1>5. ASSUME \A x \in R : \E i \in DOMAIN t : x = t[i], NEW x \in W
      PROVE  \E i \in DOMAIN u : x = u[i]
  <2>1. CASE \E i \in DOMAIN s : x = s[i]
    BY <1>a, <2>1
  <2>2. CASE x \in R
    <3>1. PICK i \in DOMAIN t : x = t[i]
      BY <1>5, <2>2
    <3> QED
      BY <1>a, <3>1
  <2> QED
    BY <1>3, <2>1, <2>2
<1> QED
  BY <1>a, <1>2, <1>4, <1>5 DEF Begins, Lists

LEMMA SlotsPrecede ==
    ASSUME NEW l \in Ledgers, NEW x \in Happened(l), NEW y \in Happened(l),
           Precedes(l, x, y)
    PROVE  /\ l[x[1]].slot \in Nat /\ l[y[1]].slot \in Nat
           /\ l[x[1]].slot <= l[y[1]].slot
<1>1. l[x[1]].slot \in Nat /\ l[y[1]].slot \in Nat
  BY HappenedRows
<1> QED
  BY <1>1 DEF Precedes, Before, KeyIn

(* The end of a sorted list passes over nothing.                           *)
LEMMA SuffixSkipless ==
    ASSUME NEW l \in Ledgers, NEW W \in SUBSET Happened(l), NEW s, Sorted(l, s, W),
           NEW m \in 1..Len(s) + 1, NEW t, t = SubSeq(s, m, Len(s))
    PROVE  Skipless(l, t, W)
<1>1. s \in Seq(W) /\ Len(s) \in Nat /\ DOMAIN s = 1..Len(s)
  BY DEF Sorted, Lists
<1> PICK n : n = Len(s) - m + 1
  OBVIOUS
<1>2. n \in Nat
  BY <1>1
<1>3. /\ t \in Seq(W) /\ Len(t) = n /\ DOMAIN t = 1..n
      /\ \A i \in 1..n : t[i] = s[m + i - 1] /\ m + i - 1 \in DOMAIN s
  BY <1>1, <1>2
<1>4. InOrder(l, t)
  <2> SUFFICES ASSUME NEW i \in DOMAIN t, NEW j \in DOMAIN t, i < j
               PROVE  Precedes(l, t[i], t[j])
    BY DEF InOrder
  <2> PICK a, b : a = m + i - 1 /\ b = m + j - 1
    OBVIOUS
  <2>1. a \in DOMAIN s /\ b \in DOMAIN s /\ a < b /\ t[i] = s[a] /\ t[j] = s[b]
    BY <1>2, <1>3
  <2> QED
    BY <2>1 DEF Sorted, InOrder
<1>5. ASSUME NEW x \in W, NEW i \in DOMAIN t, Precedes(l, t[i], x)
      PROVE  \E k \in DOMAIN t : x = t[k]
  <2>1. PICK q \in DOMAIN s : x = s[q]
    BY DEF Sorted, Lists
  <2> PICK a : a = m + i - 1
    OBVIOUS
  <2>2. a \in DOMAIN s /\ t[i] = s[a] /\ s[a] \in Happened(l) /\ x \in Happened(l)
    BY <1>1, <1>3
  <2>3. q < a => Precedes(l, x, s[a])
    BY <2>1, <2>2 DEF Sorted, InOrder
  <2>4. ~(q < a) /\ q # a
    BY <1>5, <2>1, <2>2, <2>3, RowsOrdered
  <2> PICK k : k = q - m + 1
    OBVIOUS
  <2>5. i \in Nat /\ i >= 1 /\ q \in Nat /\ q <= Len(s) /\ Len(s) \in Nat /\ m \in Nat
    BY <1>1, <1>2, <1>3, <2>1
  <2>6. q > a
    BY <2>4, <2>5
  <2>7. k \in 1..n /\ m + k - 1 = q
    BY <1>2, <2>5, <2>6
  <2> QED
    BY <1>3, <2>1, <2>7
<1> QED
  BY <1>3, <1>4, <1>5 DEF Skipless

(* A list that passes over nothing is a stretch of the sorted list.        *)
Stretch(s, all) ==
  \E i \in 0..Len(all) - Len(s) : s = SubSeq(all, i + 1, i + Len(s))

LEMMA SkiplessIsStretch ==
    ASSUME NEW l \in Ledgers, NEW W \in SUBSET Happened(l), NEW all, Sorted(l, all, W),
           NEW s, Skipless(l, s, W), s # << >>
    PROVE  Stretch(s, all)
<1> PICK n : n = Len(s)
  OBVIOUS
<1>1. /\ s \in Seq(W) /\ n \in Nat /\ n >= 1 /\ DOMAIN s = 1..n
      /\ all \in Seq(W) /\ Len(all) \in Nat /\ DOMAIN all = 1..Len(all)
  BY DEF Skipless, Sorted
<1>2. \A j \in 1..n : s[j] \in W
  BY <1>1
<1>3. PICK m \in 1..Len(all) : s[1] = all[m]
  BY <1>1, <1>2 DEF Sorted, Lists
<1>4. \A j \in 1..n : m + j - 1 \in DOMAIN all /\ s[j] = all[m + j - 1]
  <2> DEFINE Astray == {j \in 1..n : ~(m + j - 1 \in DOMAIN all /\ s[j] = all[m + j - 1])}
  <2> SUFFICES ASSUME Astray # {} PROVE FALSE
    OBVIOUS
  <2>1. PICK j \in Astray : \A k \in Astray : j <= k
    <3>1. Astray \in SUBSET Nat
      BY <1>1
    <3> HIDE DEF Astray
    <3> QED
      BY <3>1, LeastPosition
  <2>2. j \in 1..n /\ ~(m + j - 1 \in DOMAIN all /\ s[j] = all[m + j - 1])
    BY <2>1
  <2>3. j # 1
    BY <1>1, <1>3, <2>2
  <2>4. j - 1 \in 1..n /\ j - 1 \notin Astray
    <3>1. j \in Nat /\ j - 1 \in 1..n /\ ~(j <= j - 1)
      BY <1>1, <2>2, <2>3
    <3> HIDE DEF Astray
    <3> QED
      BY <2>1, <3>1
  <2> PICK a : a = m + j - 2
    OBVIOUS
  <2>5. a \in DOMAIN all /\ s[j - 1] = all[a] /\ a + 1 = m + j - 1 /\ a \in Nat
    BY <1>1, <2>2, <2>4
  <2> HIDE DEF Astray
  <2>6. PICK q \in DOMAIN all : s[j] = all[q]
    BY <1>2, <2>2 DEF Sorted, Lists
  <2>7. Precedes(l, s[j - 1], s[j])
    <3>1. j - 1 \in DOMAIN s /\ j \in DOMAIN s /\ j - 1 < j
      BY <1>1, <2>2, <2>4
    <3> QED
      BY <3>1 DEF Skipless, InOrder
  <2>8. /\ all[a] \in Happened(l) /\ all[q] \in Happened(l)
        /\ q < a => Precedes(l, all[q], all[a])
    BY <1>1, <2>5, <2>6 DEF Sorted, InOrder
  <2>9. ~(q < a) /\ q # a
    BY <2>5, <2>6, <2>7, <2>8, RowsOrdered
  <2>10. q # a + 1
    BY <2>2, <2>5, <2>6
  <2>11. /\ a + 1 \in DOMAIN all /\ a < a + 1 /\ a + 1 < q
    BY <1>1, <2>5, <2>6, <2>9, <2>10
  <2>12. /\ all[a + 1] \in W
         /\ Precedes(l, all[a], all[a + 1]) /\ Precedes(l, all[a + 1], all[q])
    BY <1>1, <2>5, <2>11 DEF Sorted, InOrder
  <2>13. PICK k \in DOMAIN s : all[a + 1] = s[k]
    <3>1. j - 1 \in DOMAIN s /\ j \in DOMAIN s
      BY <1>1, <2>2, <2>4
    <3> QED
      BY <2>5, <2>6, <2>12, <3>1 DEF Skipless
  <2>14. j - 1 \in DOMAIN s /\ j \in DOMAIN s /\ k \in Nat /\ j \in Nat
    BY <1>1, <2>2, <2>4
  <2>15. /\ k < j - 1 => Precedes(l, s[k], s[j - 1])
         /\ j < k => Precedes(l, s[j], s[k])
    BY <2>13, <2>14 DEF Skipless, InOrder
  <2>16. /\ s[k] \in Happened(l) /\ s[j - 1] \in Happened(l) /\ s[j] \in Happened(l)
         /\ Precedes(l, s[j - 1], s[k]) /\ Precedes(l, s[k], s[j])
    BY <1>1, <2>5, <2>6, <2>12, <2>13, <2>14
  <2>17. ~(k < j - 1) /\ ~(j < k) /\ k # j - 1 /\ k # j
    BY <2>15, <2>16, RowsOrdered
  <2> QED
    BY <2>14, <2>17
<1> PICK i : i = m - 1
  OBVIOUS
<1>5. i \in 0..Len(all) - n
  <2>1. m + n - 1 \in DOMAIN all
    BY <1>1, <1>4
  <2> QED
    BY <1>1, <1>3, <2>1
<1>6. /\ SubSeq(all, i + 1, i + n) \in Seq(W) /\ Len(SubSeq(all, i + 1, i + n)) = n
      /\ \A j \in 1..n : SubSeq(all, i + 1, i + n)[j] = all[i + j]
  BY <1>1, <1>5
<1>7. \A j \in 1..n : SubSeq(all, i + 1, i + n)[j] = s[j]
  <2> TAKE j \in 1..n
  <2>1. i + j = m + j - 1
    BY <1>1, <1>3
  <2> QED
    BY <1>4, <1>6, <2>1
<1>8. s = SubSeq(all, i + 1, i + n)
  <2> PICK t : t = SubSeq(all, i + 1, i + n)
    OBVIOUS
  <2>1. /\ t \in Seq(W) /\ Len(t) = n /\ \A j \in 1..n : t[j] = s[j]
    BY <1>6, <1>7
  <2> QED
    BY <1>1, <2>1, SeqEqual
<1> QED
  BY <1>5, <1>8 DEF Stretch

LEMMA SkiplessWider ==
    ASSUME NEW l \in Ledgers, NEW window, window.from = 0, window.to \in Nat,
           NEW s, Skipless(l, s, HappenedIn(l, window))
    PROVE  Skipless(l, s, Happened(l))
<1> PICK W : W = HappenedIn(l, window)
  OBVIOUS
<1>1. s \in Seq(W) /\ W \subseteq Happened(l) /\ s \in Seq(Happened(l))
  BY DEF Skipless, HappenedIn
<1>2. ASSUME NEW x \in Happened(l), NEW j \in DOMAIN s, Precedes(l, x, s[j])
      PROVE  x \in W
  BY <1>1, <1>2, SlotsPrecede DEF HappenedIn
<1> QED
  BY <1>1, <1>2 DEF Skipless

-----------------------------------------------------------------------------
(* What is finished.                                                       *)

(* Every event of the slots up to this one has happened and is among these *)
(* rows; among the journal's.                                              *)
WholeIn(l, n, rows, to) ==
  \A p \in 1..Len(l) :
    l[p].slot <= to =>
      p <= n /\ {<<p, i>> : i \in DOMAIN l[p].body.events} \subseteq rows
Whole(to) == WholeIn(ledger, tip, db.rows, to)

LEMMA HorizonWhole ==
    ASSUME MInv, saved # 0
    PROVE  /\ Frontier.horizon \in Nat /\ Frontier.indexedThrough \in Nat
           /\ Frontier.indexedThrough = Frontier.horizon + 1
           /\ Whole(Frontier.horizon)
<1>1. /\ saved \in 1..tip /\ tip \in Nat /\ tip <= Len(ledger) /\ Len(ledger) \in Nat
      /\ ledger[saved].slot \in Nat /\ ledger[saved].slot > 0
  BY Slots DEF MInv
<1>2. /\ Frontier.horizon = ledger[saved].slot - 1
      /\ Frontier.indexedThrough = ledger[saved].slot
  BY <1>1 DEF Frontier, Larger
<1>3. ASSUME NEW p \in 1..Len(ledger), ledger[p].slot <= ledger[saved].slot - 1
      PROVE  p <= tip /\ EventsOf(p) \subseteq db.rows
  <2>1. ~(saved <= p)
    BY <1>1, <1>3, Slots DEF MInv
  <2>2. p \in 1..saved
    BY <1>1, <2>1
  <2> QED
    BY <1>1, <2>2 DEF MInv, IInv, Written, AppliedBelow, Applied
<1> QED
  BY <1>1, <1>2, <1>3 DEF Whole, WholeIn, EventsOf

(* The chain and the journal grow, and what is finished stays so.          *)
LEMMA JournalGrows ==
    ASSUME MInv, [JNext]_jvars
    PROVE  /\ UNCHANGED ledger /\ db.rows \subseteq db'.rows
           /\ tip \in Nat /\ tip' \in Nat /\ tip <= tip'
<1>1. \/ Next
      \/ UNCHANGED <<ledger, tip, db>>
  BY ReadersRead DEF jvars, vars
<1>2. tip \in Nat
  BY Slots DEF MInv
<1>3. CASE UNCHANGED <<ledger, tip, db>>
  BY <1>2, <1>3
<1>4. CASE Next
  <2>1. UNCHANGED ledger
    BY <1>4, LedgerStays
  <2>2. db.rows \subseteq db'.rows
    BY <1>4, WhatIsWritten DEF MInv
  <2>3. tip' = tip \/ Produce
    BY <1>4 DEF Next, Step, Start, Crash, Stop, Exit, Wake, TimerFires, Interval,
       List, ListUpTo, ListFails, PassOver, Skip, Fetch, FetchFails, Halts, Write,
       WriteFails, Advance, Save, SaveFails, chain
  <2>4. tip' \in Nat /\ tip <= tip'
    BY <2>3, Slots DEF MInv, Produce
  <2> QED
    BY <1>2, <2>1, <2>2, <2>4
<1> QED
  BY <1>1, <1>3, <1>4

LEMMA WholeStays ==
    ASSUME NEW l \in Ledgers, NEW n \in Nat, NEW m \in Nat, n <= m,
           NEW rows, NEW more, rows \subseteq more, NEW to, WholeIn(l, n, rows, to)
    PROVE  WholeIn(l, m, more, to)
<1>1. Len(l) \in Nat
  BY HappenedRows
<1> QED
  BY <1>1 DEF WholeIn

LEMMA RowsHappened ==
    ASSUME MInv
    PROVE  Rows \subseteq Happened(ledger) /\ OnChain \subseteq Happened(ledger)
<1>1. /\ ledger \in Ledgers /\ tip \in Nat /\ tip <= Len(ledger) /\ Len(ledger) \in Nat
  BY Slots DEF MInv, IInv, Shape
<1>2. ASSUME NEW row \in Rows
      PROVE  row \in Happened(ledger)
  <2>1. row \in EventsOf(row[1]) /\ row[1] \in 1..Len(ledger)
    <3>1. row \in db.rows
      BY DEF Rows
    <3>2. row \in EventsOf(row[1]) /\ row[1] \in 1..reach /\ reach \in 0..tip
      BY <3>1 DEF MInv, RealRows, IInv, Shape, Written
    <3>3. 1..reach \subseteq 1..Len(ledger)
      BY <1>1, <3>2
    <3> QED
      BY <3>2, <3>3
  <2>2. PICK p, n : /\ p \in 1..Len(ledger) /\ n \in DOMAIN ledger[p].body.events
                    /\ row = <<p, n>>
    BY <2>1 DEF EventsOf
  <2>3. ledger[p].body.events[n].mint = MintRead
    BY <2>2 DEF Rows, OfMint
  <2> QED
    BY <1>1, <2>2, <2>3, HappenedRows
<1>3. ASSUME NEW row \in OnChain
      PROVE  row \in Happened(ledger)
  BY <1>1 DEF OnChain, OfMint, Happened
<1> QED
  BY <1>2, <1>3

(* In a window that is finished, the journal has what the chain has.       *)
LEMMA Stored ==
    ASSUME MInv, NEW window, window.to \in Nat, Whole(window.to)
    PROVE  /\ Within(Rows, window) = HappenedIn(ledger, window)
           /\ Within(OnChain, window) = HappenedIn(ledger, window)
<1>1. /\ ledger \in Ledgers /\ tip \in Nat /\ tip <= Len(ledger) /\ Len(ledger) \in Nat
  BY Slots DEF MInv, IInv, Shape
<1>2. ASSUME NEW row \in Happened(ledger), ledger[row[1]].slot <= window.to
      PROVE  row \in Rows /\ row \in OnChain
  <2>1. /\ row[1] \in 1..Len(ledger) /\ row = <<row[1], row[2]>>
        /\ row[2] \in DOMAIN ledger[row[1]].body.events
        /\ ledger[row[1]].body.events[row[2]].mint = MintRead
    BY <1>1, HappenedRows
  <2>2. row[1] \in 1..tip /\ EventsOf(row[1]) \subseteq db.rows
    BY <1>1, <1>2, <2>1 DEF Whole, WholeIn, EventsOf
  <2>3. row \in EventsOf(row[1])
    BY <2>1 DEF EventsOf
  <2>4. row \in {row[1]} \X DOMAIN ledger[row[1]].body.events
    BY <2>1
  <2> QED
    BY <2>1, <2>2, <2>3, <2>4 DEF Rows, OnChain, OfMint
<1> QED
  BY <1>2, RowsHappened DEF Within, HappenedIn, SlotOf

(* A page of such a window begins what lies beyond the row it comes after; *)
(* a short one is all of it.                                               *)
LEMMA PageBegins ==
    ASSUME MInv, NEW window, window.to \in Nat, Whole(window.to),
           NEW c, NEW limit \in Nat, NEW page, page = Page(window, c, limit)
    PROVE  /\ Begins(ledger, page, Beyond(ledger, HappenedIn(ledger, window), c))
           /\ Len(page) \in Nat
           /\ Len(page) < limit =>
                Lists(page, Beyond(ledger, HappenedIn(ledger, window), c))
<1>1. ledger \in Ledgers
  BY DEF MInv, IInv, Shape
<1>2. PICK R : R = Beyond(ledger, HappenedIn(ledger, window), c)
  OBVIOUS
<1>3. R \in SUBSET Happened(ledger)
  BY <1>2 DEF Beyond, HappenedIn
<1>4. After(Within(Rows, window), c) = R
  BY <1>2, Stored DEF After, Beyond, KeyOf, KeyIn, Precedes, SlotOf
<1>5. PICK all : all = Ordered(R)
  OBVIOUS
<1>6. Sorted(ledger, all, R) /\ Len(all) \in Nat
  BY <1>1, <1>3, <1>5, OrderedIs DEF Sorted, Lists
<1>7. PICK k : k = Smaller(limit, Len(all))
  OBVIOUS
<1>8. k \in 0..Len(all) /\ (k < limit => k = Len(all))
  BY <1>6, <1>7 DEF Smaller
<1>9. page = SubSeq(all, 1, k)
  BY <1>4, <1>5, <1>7 DEF Page
<1>10. /\ Len(page) = k /\ Begins(ledger, page, R)
       /\ k = Len(all) => Lists(page, R)
  BY <1>1, <1>3, <1>6, <1>8, <1>9, PrefixBegins
<1> QED
  BY <1>2, <1>8, <1>10

(* A list in order has each row once.                                      *)
LEMMA ListCount ==
    ASSUME NEW l \in Ledgers, NEW W \in SUBSET Happened(l), NEW s \in Seq(W), InOrder(l, s)
    PROVE  Lists(s, W) <=> Cardinality(W) = Len(s)
<1> PICK n : n = Len(s)
  OBVIOUS
<1> PICK T : T = {s[i] : i \in 1..n}
  OBVIOUS
<1>1. n \in Nat /\ DOMAIN s = 1..n /\ T \in SUBSET W
  OBVIOUS
<1>2. \A i, j \in 1..n : s[i] = s[j] => i = j
  <2> TAKE i \in 1..n, j \in 1..n
  <2> HAVE s[i] = s[j]
  <2>1. i < j => Precedes(l, s[i], s[j])
    BY <1>1 DEF InOrder
  <2>2. j < i => Precedes(l, s[j], s[i])
    BY <1>1 DEF InOrder
  <2>3. s[i] \in Happened(l) /\ ~Precedes(l, s[i], s[i])
    BY <1>1, RowsOrdered
  <2> QED
    BY <1>1, <2>1, <2>2, <2>3
<1>3. IsFiniteSet(1..n) /\ Cardinality(1..n) = n
  <2>1. 1 \in Int /\ n \in Int
    BY <1>1
  <2>2. IsFiniteSet(1..n) /\ Cardinality(1..n) = IF 1 > n THEN 0 ELSE n - 1 + 1
    BY <2>1, FS_Interval
  <2> QED
    BY <1>1, <2>2
<1>4. s \in Bijection(1..n, T)
  <2>1. s \in [1..n -> T]
    BY <1>1
  <2>2. \A x \in T : \E i \in 1..n : s[i] = x
    OBVIOUS
  <2> QED
    BY <1>2, <2>1, <2>2 DEF Bijection, Injection, Surjection, IsInjective
<1>5. Cardinality(T) = n
  <2>1. ExistsBijection(1..n, T)
    BY <1>4 DEF ExistsBijection
  <2> QED
    BY <1>3, <2>1, FS_Bijection
<1>6. IsFiniteSet(W) /\ (Cardinality(W) = Cardinality(T) => W = T)
  BY <1>1, HappenedFinite, FS_Subset
<1>7. Lists(s, W) <=> W = T
  BY <1>1 DEF Lists
<1> QED
  BY <1>5, <1>6, <1>7

-----------------------------------------------------------------------------
(* The window of an export.                                                *)

(* The least and the greatest of the slots of some rows.                   *)
LEMMA SlotsBounded ==
    ASSUME NEW S \in SUBSET Nat, S # {}, NEW n \in Nat, \A x \in S : x <= n
    PROVE  /\ Min(S) \in S /\ \A x \in S : Min(S) <= x
           /\ Max(S) \in S /\ \A x \in S : x <= Max(S)
<1>1. \E x \in S : \A y \in S : x <= y
  BY LeastPosition
<1>2. \E x \in S : \A y \in S : y <= x
  <2>1. PICK T : T = {k \in Nat : \A x \in S : x <= k}
    OBVIOUS
  <2>2. PICK k \in T : \A j \in T : k <= j
    BY <2>1, LeastPosition
  <2>3. CASE k \in S
    BY <2>1, <2>2, <2>3
  <2>4. CASE k \notin S
    <3>1. \A x \in S : x <= k /\ x # k /\ x \in Nat
      BY <2>1, <2>2, <2>4
    <3>2. k # 0 /\ k \in Nat
      <4>1. k \in Nat
        BY <2>1
      <4>2. PICK x : x \in S
        OBVIOUS
      <4>3. x <= k /\ x # k /\ x \in Nat
        BY <3>1, <4>2
      <4> QED
        BY <4>1, <4>3
    <3>3. k - 1 \in Nat /\ \A x \in S : x <= k - 1
      BY <3>1, <3>2
    <3>4. k - 1 \in T
      BY <2>1, <3>3
    <3> QED
      BY <2>2, <3>2, <3>4
  <2> QED
    BY <2>3, <2>4
<1>3. Min(S) \in S /\ \A x \in S : Min(S) <= x
  BY <1>1 DEF Min
<1>4. Max(S) \in S /\ \A x \in S : x <= Max(S)
  BY <1>2 DEF Max
<1> QED
  BY <1>3, <1>4

LEMMA DatedSlots ==
    ASSUME MInv
    PROVE  \E n \in Nat : \A row \in Dated : SlotOf(row) \in Nat /\ SlotOf(row) <= n
<1>1. /\ ledger \in Ledgers /\ Len(ledger) \in Nat
      /\ \A p \in 1..Len(ledger) : ledger[p].slot \in Nat
      /\ \A p, q \in 1..Len(ledger) : p <= q => ledger[p].slot <= ledger[q].slot
  BY Slots DEF MInv, IInv, Shape
<1>2. ASSUME NEW row \in Dated
      PROVE  /\ row[1] \in 1..Len(ledger) /\ SlotOf(row) \in Nat
             /\ SlotOf(row) <= ledger[Len(ledger)].slot /\ Len(ledger) \in 1..Len(ledger)
  <2> PICK q : q = row[1]
    OBVIOUS
  <2>1. row \in Happened(ledger)
    BY RowsHappened DEF Dated
  <2>2. q \in 1..Len(ledger) /\ Len(ledger) \in 1..Len(ledger)
    BY <1>1, <2>1, HappenedRows
  <2> QED
    BY <1>1, <2>2 DEF SlotOf
<1>3. CASE Dated = {}
  BY <1>3
<1>4. CASE Dated # {}
  <2>1. Len(ledger) \in 1..Len(ledger)
    BY <1>2, <1>4
  <2>2. ledger[Len(ledger)].slot \in Nat
    BY <1>1, <2>1
  <2> QED
    BY <1>2, <2>2
<1> QED
  BY <1>3, <1>4

(* An edge of a window is a slot no dated row of the period lies beyond.   *)
LowerEdge(from, fallback) ==
  EdgeSlot(from, IF Since(from) = {} THEN Nothing ELSE Just(Min(Since(from))), fallback)
UpperEdge(to, fallback) ==
  EdgeSlot(to, IF Until(to) = {} THEN Nothing ELSE Just(Max(Until(to))), fallback)

Fits(l, period, row) ==
  /\ l[row[1]].time # Nothing
  /\ period[1].kind = "time" => l[row[1]].time[1] >= period[1].at
  /\ period[2].kind = "time" => l[row[1]].time[1] <= period[2].at

LEMMA EdgesFit ==
    ASSUME MInv, NEW period \in Bound \X Bound, NEW h \in Nat
    PROVE  /\ LowerEdge(period[1], 0) # Nothing =>
                \E a \in Nat : LowerEdge(period[1], 0) = Just(a)
           /\ UpperEdge(period[2], h) # Nothing =>
                \E b \in Nat : UpperEdge(period[2], h) = Just(b)
           /\ period[1].kind # "slot" /\ period[2].kind # "slot" =>
                \A row \in Rows :
                  Fits(ledger, period, row) /\ SlotOf(row) <= h =>
                    /\ LowerEdge(period[1], 0) # Nothing
                    /\ LowerEdge(period[1], 0)[1] <= SlotOf(row)
                    /\ UpperEdge(period[2], h) # Nothing
                    /\ SlotOf(row) <= UpperEdge(period[2], h)[1]
<1>1. PICK from, to : from = period[1] /\ to = period[2]
  OBVIOUS
<1>2. /\ from.kind \in {"none", "slot", "time"} /\ (from.kind = "slot" => from.at \in Nat)
      /\ to.kind \in {"none", "slot", "time"} /\ (to.kind = "slot" => to.at \in Nat)
  BY <1>1 DEF Bound, NoBound
<1>3. PICK n \in Nat : \A row \in Dated : SlotOf(row) \in Nat /\ SlotOf(row) <= n
  BY DatedSlots
<1>4. PICK S, T : S = Since(from) /\ T = Until(to)
  OBVIOUS
<1>5. /\ S \in SUBSET Nat /\ T \in SUBSET Nat
      /\ \A x \in S : x <= n
      /\ \A x \in T : x <= n
  BY <1>3, <1>4 DEF Since, Until
<1>6. /\ S # {} => Min(S) \in S /\ Min(S) \in Nat /\ \A x \in S : Min(S) <= x
      /\ T # {} => Max(T) \in T /\ Max(T) \in Nat /\ \A x \in T : x <= Max(T)
  BY <1>5, SlotsBounded
<1>7. PICK lower, upper : lower = LowerEdge(from, 0) /\ upper = UpperEdge(to, h)
  OBVIOUS
<1>8. /\ from.kind = "none" => lower = Just(0)
      /\ from.kind = "slot" => lower = Just(from.at)
      /\ from.kind = "time" => lower = IF S = {} THEN Nothing ELSE Just(Min(S))
  BY <1>4, <1>7 DEF LowerEdge, EdgeSlot
<1>9. /\ to.kind = "none" => upper = Just(h)
      /\ to.kind = "slot" => upper = Just(to.at)
      /\ to.kind = "time" => upper = IF T = {} THEN Nothing ELSE Just(Max(T))
  BY <1>4, <1>7 DEF UpperEdge, EdgeSlot
<1>10. lower # Nothing => \E a \in Nat : lower = Just(a)
  BY <1>2, <1>6, <1>8
<1>11. upper # Nothing => \E b \in Nat : upper = Just(b)
  BY <1>2, <1>6, <1>9
<1>12. ASSUME from.kind # "slot", to.kind # "slot", NEW row \in Rows,
              Fits(ledger, period, row), SlotOf(row) <= h
       PROVE  /\ lower # Nothing /\ lower[1] <= SlotOf(row)
              /\ upper # Nothing /\ SlotOf(row) <= upper[1]
  <2>1. row \in Dated /\ SlotOf(row) \in Nat
    BY <1>3, <1>12 DEF Dated, Fits
  <2>2. SlotOf(row) \in S /\ SlotOf(row) \in T
    BY <1>1, <1>4, <1>12, <2>1 DEF Since, Until, Fits, DateOf
  <2>3. PICK x : x = SlotOf(row)
    OBVIOUS
  <2>4. x \in Nat /\ x <= h /\ x \in S /\ x \in T
    BY <1>12, <2>1, <2>2, <2>3
  <2>5. lower # Nothing /\ lower[1] <= x
    <3>1. CASE from.kind = "none"
      <4>1. lower = << 0 >>
        BY <1>8, <3>1 DEF Just
      <4>2. lower # << >> /\ lower[1] = 0
        BY <4>1
      <4> QED
        BY <2>4, <4>2 DEF Nothing
    <3>2. CASE from.kind = "time"
      BY <1>6, <1>8, <2>4, <3>2 DEF Just, Nothing
    <3> QED
      BY <1>2, <1>12, <3>1, <3>2
  <2>6. upper # Nothing /\ x <= upper[1]
    <3>1. CASE to.kind = "none"
      BY <1>9, <2>4, <3>1 DEF Just, Nothing
    <3>2. CASE to.kind = "time"
      BY <1>6, <1>9, <2>4, <3>2 DEF Just, Nothing
    <3> QED
      BY <1>2, <1>12, <3>1, <3>2
  <2> QED
    BY <2>3, <2>5, <2>6
<1> QED
  BY <1>1, <1>7, <1>10, <1>11, <1>12

(* The window of a period ends within what is finished and, unless a bound *)
(* is a slot, has every dated event of the period that is.                 *)
LEMMA WindowIs ==
    ASSUME MInv, NEW period \in Bound \X Bound, NEW h \in Nat, Whole(h),
           NEW window, window = ResolveWindow(period[1], period[2],
                                              Bracket(period[1], period[2]), h)
    PROVE  /\ window.from \in Nat /\ window.to \in Nat /\ window.to <= h
           /\ period[1].kind # "slot" /\ period[2].kind # "slot" =>
                \A row \in Happened(ledger) :
                  Fits(ledger, period, row) /\ ledger[row[1]].slot <= h =>
                    row \in HappenedIn(ledger, window)
<1> PICK lower : lower = LowerEdge(period[1], 0)
  OBVIOUS
<1> PICK upper : upper = UpperEdge(period[2], h)
  OBVIOUS
<1>1. window = IF lower = Nothing \/ upper = Nothing
               THEN [from |-> h + 1, to |-> h]
               ELSE [from |-> lower[1], to |-> Smaller(upper[1], h)]
  BY DEF ResolveWindow, Bracket, LowerEdge, UpperEdge
<1>2. /\ lower # Nothing => lower[1] \in Nat
      /\ upper # Nothing => upper[1] \in Nat
  BY EdgesFit DEF Just
<1>3. window.from \in Nat /\ window.to \in Nat /\ window.to <= h
  BY <1>1, <1>2 DEF Smaller
<1>4. ASSUME period[1].kind # "slot", period[2].kind # "slot",
             NEW row \in Happened(ledger), Fits(ledger, period, row),
             ledger[row[1]].slot <= h
      PROVE  row \in HappenedIn(ledger, window)
  <2> PICK all : all = [from |-> 0, to |-> h]
    OBVIOUS
  <2>1. ledger[row[1]].slot \in Nat
    BY <1>4, HappenedRows DEF MInv, IInv, Shape
  <2>2. row \in HappenedIn(ledger, all)
    BY <1>4, <2>1 DEF HappenedIn
  <2>3. row \in Rows
    <3>1. all.to = h
      OBVIOUS
    <3>2. Within(Rows, all) = HappenedIn(ledger, all)
      BY <3>1, Stored
    <3> QED
      BY <2>2, <3>2 DEF Within
  <2>4. /\ lower # Nothing /\ lower[1] <= SlotOf(row)
        /\ upper # Nothing /\ SlotOf(row) <= upper[1]
    BY <1>4, <2>3, EdgesFit DEF SlotOf
  <2>5. window.from <= ledger[row[1]].slot /\ ledger[row[1]].slot <= window.to
    BY <1>1, <1>2, <1>4, <2>1, <2>4 DEF Smaller, SlotOf
  <2> QED
    BY <1>4, <2>5, <2>1, <1>3 DEF HappenedIn
<1> QED
  BY <1>3, <1>4

-----------------------------------------------------------------------------
(* The export: what is known of it at each stage.                          *)

Bounded(l, n, rows, e) ==
  /\ e.period \in Bound \X Bound
  /\ e.frontier.horizon \in Nat
  /\ e.frontier.indexedThrough = e.frontier.horizon + 1
  /\ WholeIn(l, n, rows, e.frontier.horizon)

Resolved(l, n, rows, e) ==
  /\ e.window.from \in Nat /\ e.window.to \in Nat /\ e.indexedThrough \in Nat
  /\ e.window.to < e.indexedThrough
  /\ WholeIn(l, n, rows, e.window.to)
  /\ e.period[1].kind # "slot" /\ e.period[2].kind # "slot" =>
       \A row \in Happened(l) :
         Fits(l, e.period, row) /\ l[row[1]].slot < e.indexedThrough =>
           row \in HappenedIn(l, e.window)

(* The entries are the first of the window, of the number that was told.   *)
Streamed(l, e) ==
  /\ e = [stage |-> e.stage, window |-> e.window, period |-> e.period,
          indexedThrough |-> e.indexedThrough, count |-> e.count,
          entries |-> e.entries]
  /\ e.count = Cardinality(HappenedIn(l, e.window))
  /\ Begins(l, e.entries, HappenedIn(l, e.window))

KnownOf(l, n, rows, e) ==
  /\ e.stage = "bounded" => Bounded(l, n, rows, e)
  /\ e.stage \in {"resolved", "streaming", "cut", "complete"} => Resolved(l, n, rows, e)
  /\ e.stage \in {"streaming", "cut", "complete"} => Streamed(l, e)
  /\ e.stage = "complete" => Lists(e.entries, HappenedIn(l, e.window))

ExportInv == KnownOf(ledger, tip, db.rows, export)

(* It stays known as the chain and the journal grow.                       *)
LEMMA KnownStays ==
    ASSUME ExportInv, ledger \in Ledgers, UNCHANGED <<ledger, export>>,
           tip \in Nat, tip' \in Nat, tip <= tip', db.rows \subseteq db'.rows
    PROVE  ExportInv'
<1>1. \A to : WholeIn(ledger, tip, db.rows, to) => WholeIn(ledger, tip', db'.rows, to)
  BY WholeStays
<1>2. export.stage = "bounded" => Bounded(ledger, tip', db'.rows, export)
  BY <1>1 DEF ExportInv, KnownOf, Bounded
<1>3. export.stage \in {"resolved", "streaming", "cut", "complete"} =>
        Resolved(ledger, tip', db'.rows, export)
  BY <1>1 DEF ExportInv, KnownOf, Resolved
<1>4. KnownOf(ledger, tip', db'.rows, export)
  BY <1>2, <1>3 DEF ExportInv, KnownOf
<1> QED
  BY <1>4 DEF ExportInv

LEMMA ExportKeeps ==
    ASSUME AfterFirstSave, MInv, ExportInv, [JNext]_jvars
    PROVE  ExportInv'
<1>0. /\ ledger \in Ledgers /\ UNCHANGED ledger /\ db.rows \subseteq db'.rows
      /\ tip \in Nat /\ tip' \in Nat /\ tip <= tip'
  BY JournalGrows DEF MInv, IInv, Shape
<1>1. CASE UNCHANGED export
  BY <1>0, <1>1, KnownStays
<1>2. ASSUME NEW period \in Periods, ReadFrontier(period)
      PROVE  ExportInv'
  <2>1. /\ export' = [stage |-> "bounded", period |-> period, frontier |-> Frontier]
        /\ saved # 0 /\ UNCHANGED vars
    BY <1>2 DEF ReadFrontier, Readable
  <2>2. period \in Bound \X Bound
    BY PeriodsAssumption
  <2>3. Bounded(ledger, tip, db.rows, export')
    BY <2>1, <2>2, HorizonWhole DEF Bounded, Whole
  <2> QED
    BY <2>1, <2>3 DEF ExportInv, KnownOf, vars
<1>3. CASE ReadWindow
  <2> PICK h : h = export.frontier.horizon
    OBVIOUS
  <2> PICK period : period = export.period
    OBVIOUS
  <2> PICK window : window = ResolveWindow(period[1], period[2],
                                           Bracket(period[1], period[2]), h)
    OBVIOUS
  <2>1. /\ export.stage = "bounded" /\ UNCHANGED vars
        /\ export' = [stage |-> "resolved", period |-> period,
                      indexedThrough |-> export.frontier.indexedThrough,
                      window |-> window]
    BY <1>3 DEF ReadWindow
  <2>2. /\ period \in Bound \X Bound /\ h \in Nat /\ Whole(h)
        /\ export.frontier.indexedThrough = h + 1
    BY <2>1 DEF ExportInv, KnownOf, Bounded, Whole
  <2>3. /\ window.from \in Nat /\ window.to \in Nat /\ window.to <= h
        /\ period[1].kind # "slot" /\ period[2].kind # "slot" =>
             \A row \in Happened(ledger) :
               Fits(ledger, period, row) /\ ledger[row[1]].slot <= h =>
                 row \in HappenedIn(ledger, window)
    BY <2>2, WindowIs
  <2>4. WholeIn(ledger, tip, db.rows, window.to)
    BY <2>2, <2>3, Slots DEF Whole, WholeIn, MInv
  <2>5. \A row \in Happened(ledger) : ledger[row[1]].slot \in Nat
    BY <1>0, HappenedRows
  <2>6. /\ export'.window = window /\ export'.period = period
        /\ export'.indexedThrough = h + 1 /\ export'.stage = "resolved"
    BY <2>1, <2>2
  <2>7. Resolved(ledger, tip, db.rows, export')
    BY <2>2, <2>3, <2>4, <2>5, <2>6 DEF Resolved
  <2> QED
    BY <2>1, <2>6, <2>7 DEF ExportInv, KnownOf, vars
<1>4. CASE Manifest
  <2>1. /\ export.stage = "resolved" /\ UNCHANGED vars
        /\ export' = [stage |-> "streaming", window |-> export.window,
                      period |-> export.period,
                      indexedThrough |-> export.indexedThrough,
                      count |-> Cardinality(Within(Rows, export.window)),
                      entries |-> << >>]
    BY <1>4 DEF Manifest
  <2>2. Resolved(ledger, tip, db.rows, export)
    BY <2>1 DEF ExportInv, KnownOf
  <2>3. Within(Rows, export.window) = HappenedIn(ledger, export.window)
    BY <2>2, Stored DEF Resolved, Whole
  <2>4. Resolved(ledger, tip, db.rows, export')
    BY <2>1, <2>2 DEF Resolved
  <2>5. Begins(ledger, << >>, HappenedIn(ledger, export.window))
    BY DEF Begins, InOrder
  <2>6. Streamed(ledger, export')
    BY <2>1, <2>3, <2>5 DEF Streamed
  <2> QED
    BY <2>1, <2>4, <2>6 DEF ExportInv, KnownOf, vars
<1>5. CASE ExportPage
  <2> PICK e : e = export
    OBVIOUS
  <2> PICK page : page = Page(e.window, LastOf(e.entries), JOURNAL_PAGE)
    OBVIOUS
  <2> PICK stage : stage = IF Len(page) < JOURNAL_PAGE THEN "complete" ELSE "streaming"
    OBVIOUS
  <2> PICK W : W = HappenedIn(ledger, e.window)
    OBVIOUS
  <2>1. e.stage = "streaming" /\ UNCHANGED vars
    BY <1>5 DEF ExportPage
  <2>2. Resolved(ledger, tip, db.rows, e) /\ Streamed(ledger, e)
    BY <2>1 DEF ExportInv, KnownOf
  <2>3. export' = [stage |-> stage, window |-> e.window, period |-> e.period,
                   indexedThrough |-> e.indexedThrough, count |-> e.count,
                   entries |-> e.entries \o page]
    <3>1. export' = [e EXCEPT !.entries = @ \o page, !.stage = stage]
      BY <1>5, <2>1 DEF ExportPage
    <3>2. e = [stage |-> e.stage, window |-> e.window, period |-> e.period,
               indexedThrough |-> e.indexedThrough, count |-> e.count,
               entries |-> e.entries]
      BY <2>2 DEF Streamed
    <3> QED
      BY <3>1, <3>2
  <2>4. /\ Begins(ledger, page, Beyond(ledger, W, LastOf(e.entries)))
        /\ Len(page) < JOURNAL_PAGE => Lists(page, Beyond(ledger, W, LastOf(e.entries)))
    BY <2>2, PageBegins, PagesAssumption DEF Resolved, Whole
  <2>5. /\ Begins(ledger, e.entries \o page, W)
        /\ Len(page) < JOURNAL_PAGE => Lists(e.entries \o page, W)
    <3>1. W \in SUBSET Happened(ledger)
      BY DEF HappenedIn
    <3>2. Begins(ledger, e.entries, W)
      BY <2>2 DEF Streamed
    <3> QED
      BY <1>0, <2>4, <3>1, <3>2, BeginsOn
  <2>6. Resolved(ledger, tip, db.rows, export')
    BY <2>2, <2>3 DEF Resolved
  <2>7. Streamed(ledger, export')
    BY <2>2, <2>3, <2>5 DEF Streamed
  <2>8. export'.stage = "complete" => Lists(export'.entries, HappenedIn(ledger, export'.window))
    BY <2>3, <2>5
  <2>9. export'.stage # "bounded"
    BY <2>3
  <2> QED
    BY <2>1, <2>6, <2>7, <2>8, <2>9 DEF ExportInv, KnownOf, vars
<1>6. CASE ExportFails
  <2> PICK e : e = export
    OBVIOUS
  <2>1. e.stage = "streaming" /\ UNCHANGED <<ledger, tip, db>>
    BY <1>6 DEF ExportFails
  <2>2. Resolved(ledger, tip, db.rows, e) /\ Streamed(ledger, e)
    BY <2>1 DEF ExportInv, KnownOf
  <2>3. export' = [stage |-> "cut", window |-> e.window, period |-> e.period,
                   indexedThrough |-> e.indexedThrough, count |-> e.count,
                   entries |-> e.entries]
    <3>1. export' = [e EXCEPT !.stage = "cut"]
      BY <1>6 DEF ExportFails
    <3>2. e = [stage |-> e.stage, window |-> e.window, period |-> e.period,
               indexedThrough |-> e.indexedThrough, count |-> e.count,
               entries |-> e.entries]
      BY <2>2 DEF Streamed
    <3> QED
      BY <3>1, <3>2
  <2>4. Resolved(ledger, tip, db.rows, export')
    BY <2>2, <2>3 DEF Resolved
  <2>5. Streamed(ledger, export')
    BY <2>2, <2>3 DEF Streamed
  <2> QED
    BY <2>1, <2>3, <2>4, <2>5 DEF ExportInv, KnownOf
<1>7. \/ UNCHANGED export
      \/ \E period \in Periods : ReadFrontier(period)
      \/ ReadWindow \/ Manifest \/ ExportPage \/ ExportFails
  BY DEF JNext, Reading, jvars, Connect, Poll, Deliver, Break
<1> QED
  BY <1>1, <1>2, <1>3, <1>4, <1>5, <1>6, <1>7

LEMMA ExportInvariance == ASSUME AfterFirstSave PROVE JSpec => [](MInv /\ ExportInv)
<1>1. JInit => ExportInv
  BY DEF JInit, NoExport, ExportInv, KnownOf
<1>2. MInv /\ ExportInv /\ [JNext]_jvars => ExportInv'
  BY ExportKeeps
<1> QED
  BY <1>1, <1>2, MirrorInvariance, PTL DEF JSpec

(* The entries of an export that began pass the file's checks if and only  *)
(* if they are as many as was told, and then they are the whole window.    *)
LEMMA FileChecked ==
    ASSUME MInv, Resolved(ledger, tip, db.rows, export), Streamed(ledger, export)
    PROVE  /\ Lists(export.entries, HappenedIn(ledger, export.window)) =>
                ~FileProblem(export)
           /\ ~FileProblem(export) =>
                Lists(export.entries, HappenedIn(ledger, export.window))
<1> PICK e : e = export
  OBVIOUS
<1> PICK W : W = HappenedIn(ledger, e.window)
  OBVIOUS
<1>1. ledger \in Ledgers
  BY DEF MInv, IInv, Shape
<1>2. W \in SUBSET Happened(ledger)
  BY DEF HappenedIn
<1>3. /\ e.entries \in Seq(W) /\ InOrder(ledger, e.entries)
      /\ e.count = Cardinality(W) /\ Len(e.entries) \in Nat
      /\ DOMAIN e.entries = 1..Len(e.entries)
  BY DEF Streamed, Begins
<1>4. Lists(e.entries, W) <=> e.count = Len(e.entries)
  BY <1>1, <1>2, <1>3, ListCount
<1>5. e.window.to \in Nat /\ e.indexedThrough \in Nat /\ e.window.to < e.indexedThrough
      /\ e.window.from \in Nat
  BY DEF Resolved
<1>6. ASSUME NEW i \in DOMAIN e.entries
      PROVE  /\ OfMint(e.entries[i])
             /\ ~(SlotOf(e.entries[i]) < e.window.from)
             /\ ~(SlotOf(e.entries[i]) > e.window.to)
             /\ i > 1 => Before(KeyOf(e.entries[i - 1]), KeyOf(e.entries[i]))
  <2>1. e.entries[i] \in W /\ i \in 1..Len(e.entries)
    BY <1>3
  <2>2. OfMint(e.entries[i])
    BY <1>1, <1>2, <2>1, HappenedRows DEF OfMint
  <2>3. /\ ledger[e.entries[i][1]].slot \in Nat
        /\ SlotOf(e.entries[i]) >= e.window.from /\ SlotOf(e.entries[i]) <= e.window.to
    BY <1>1, <1>2, <2>1, HappenedRows DEF HappenedIn, SlotOf
  <2>4. ASSUME i > 1 PROVE Before(KeyOf(e.entries[i - 1]), KeyOf(e.entries[i]))
    <3>1. i - 1 \in DOMAIN e.entries /\ i - 1 < i
      BY <1>3, <2>1, <2>4
    <3>2. Precedes(ledger, e.entries[i - 1], e.entries[i])
      BY <1>3, <3>1 DEF InOrder
    <3> QED
      BY <3>2 DEF Precedes, KeyIn, KeyOf, SlotOf
  <2> QED
    BY <1>5, <2>2, <2>3, <2>4 DEF SlotOf
<1>7. FileProblem(e) <=> e.count # Len(e.entries)
  BY <1>5, <1>6 DEF FileProblem, LineProblem
<1> QED
  BY <1>4, <1>7

(* Every complete export is confirmed by the verifier and has every dated  *)
(* event it was asked for, and one cut short is found out, for every       *)
(* chain, period and size of page, when readers come once there is a       *)
(* cursor row (journal.ts, routes/journal.ts, verify.ts).                  *)
THEOREM ExportsVerify == ASSUME AfterFirstSave PROVE JSpec => []ExportVerifies
<1>1. MInv /\ ExportInv => ExportVerifies
  <2> SUFFICES ASSUME MInv, ExportInv, export.stage \in {"cut", "complete"}
               PROVE  ExportVerifies
    BY DEF ExportVerifies
  <2> PICK e : e = export
    OBVIOUS
  <2> PICK W : W = HappenedIn(ledger, e.window)
    OBVIOUS
  <2>1. Resolved(ledger, tip, db.rows, e) /\ Streamed(ledger, e)
    BY DEF ExportInv, KnownOf
  <2>2. Within(OnChain, e.window) = W
    BY <2>1, Stored DEF Resolved, Whole
  <2>3. e.entries \in Seq(W)
    BY <2>1 DEF Streamed, Begins
  <2>4. W \subseteq OnChain
    BY <2>2 DEF Within
  <2>5. ASSUME Lists(e.entries, W)
        PROVE  W = {e.entries[i] : i \in DOMAIN e.entries}
    BY <2>3, <2>5 DEF Lists
  <2>6. e.stage = "complete" => Lists(e.entries, W)
    BY DEF ExportInv, KnownOf
  <2>7. /\ Lists(e.entries, W) => ~FileProblem(e)
        /\ ~FileProblem(e) => Lists(e.entries, W)
    BY <2>1, FileChecked
  <2>8. e.stage = "complete" => VerifyJournal(e)
    BY <2>2, <2>3, <2>4, <2>5, <2>6, <2>7 DEF VerifyJournal
  <2>9. ASSUME e.stage = "complete", \A i \in 1..2 : e.period[i].kind # "slot",
               NEW row \in Asked(e)
        PROVE  row \in {e.entries[i] : i \in DOMAIN e.entries}
    <3>1. e.period[1].kind # "slot" /\ e.period[2].kind # "slot"
      BY <2>9
    <3>2. row \in Happened(ledger)
      BY RowsHappened DEF Asked
    <3>3. Fits(ledger, e.period, row) /\ ledger[row[1]].slot < e.indexedThrough
      BY DEF Asked, Fits, DateOf, SlotOf
    <3>4. row \in W
      BY <2>1, <3>1, <3>2, <3>3 DEF Resolved
    <3> QED
      BY <2>5, <2>6, <2>9, <3>4
  <2>10. e.stage = "cut" /\ ~FileProblem(e) =>
           Within(OnChain, e.window) = {e.entries[i] : i \in DOMAIN e.entries}
    BY <2>2, <2>5, <2>7
  <2> QED
    BY <2>8, <2>9, <2>10 DEF ExportVerifies
<1> QED
  BY <1>1, ExportInvariance, PTL

-----------------------------------------------------------------------------
(* The feed.                                                               *)

(* Once there is a cursor row there is one.                                *)
LEMMA SavedStays ==
    ASSUME MInv, [JNext]_jvars, saved # 0
    PROVE  saved' # 0
<1>1. \/ Next
      \/ UNCHANGED saved
  BY ReadersRead DEF jvars, vars
<1>2. CASE Save \/ SaveFails
  <2>1. work.pos # 0 /\ saved' \in {saved, cursor}
    BY <1>2 DEF Save, SaveFails, Saving
  <2>2. up
    BY <2>1 DEF MInv, IInv, Busy
  <2>3. cursor # 0
    BY <2>2 DEF MInv, Ahead
  <2> QED
    BY <2>1, <2>3
<1>3. CASE UNCHANGED saved
  BY <1>3
<1> QED
  BY <1>1, <1>2, <1>3 DEF Next, Step, Produce, Start, Crash, Stop, Exit, Wake, TimerFires,
     Interval, List, ListUpTo, ListFails, PassOver, Skip, Fetch, FetchFails, Halts, Write,
     WriteFails, Advance

(* A list that passes over nothing, and then what comes first of the rows  *)
(* beyond its last, or beyond some row when it is empty, in a window that  *)
(* has no lower edge.                                                      *)
LEMMA FeedGoesOn ==
    ASSUME NEW l \in Ledgers, NEW window, window.from = 0, window.to \in Nat,
           NEW s, Skipless(l, s, Happened(l)),
           NEW c, s # << >> => c = LastOf(s),
           c = Nothing \/ \E row \in Happened(l) : c = Just(row),
           NEW page, Begins(l, page, Beyond(l, HappenedIn(l, window), c))
    PROVE  Skipless(l, s \o page, Happened(l))
<1> PICK V : V = Happened(l)
  OBVIOUS
<1> PICK W : W = HappenedIn(l, window)
  OBVIOUS
<1>a. PICK u : u = s \o page
  OBVIOUS
<1>1. W \subseteq V
  BY DEF HappenedIn
<1>2. s \in Seq(V) /\ InOrder(l, s)
  BY DEF Skipless
<1>3. /\ page \in Seq(V) /\ InOrder(l, page)
      /\ \A i \in DOMAIN page : page[i] \in Beyond(l, W, c)
  <2>1. page \in Seq(Beyond(l, W, c)) /\ InOrder(l, page)
    BY DEF Begins
  <2>2. Beyond(l, W, c) \subseteq V
    BY <1>1 DEF Beyond
  <2>3. page \in Seq(V)
    BY <2>1, <2>2, SeqGrows
  <2> QED
    BY <2>1, <2>3
<1>4. /\ InOrder(l, u)
      /\ \A i \in DOMAIN s : \A j \in DOMAIN page : Precedes(l, s[i], page[j])
  <2>1. \A i \in DOMAIN page : page[i] \in Beyond(l, V, c)
    BY <1>1, <1>3 DEF Beyond
  <2> QED
    BY <1>a, <1>2, <1>3, <2>1, JoinedInOrder
<1>5. /\ u \in Seq(V) /\ DOMAIN s = 1..Len(s) /\ DOMAIN page = 1..Len(page)
      /\ Len(s) \in Nat /\ Len(page) \in Nat
      /\ \A i \in DOMAIN s : i \in DOMAIN u /\ u[i] = s[i]
      /\ \A i \in DOMAIN page : Len(s) + i \in DOMAIN u /\ u[Len(s) + i] = page[i]
      /\ \A i \in DOMAIN u :
           \/ i \in DOMAIN s /\ u[i] = s[i]
           \/ i > Len(s) /\ i - Len(s) \in DOMAIN page /\ u[i] = page[i - Len(s)]
  BY <1>a, <1>2, <1>3, Joined
<1>6. \A i \in DOMAIN s : s[i] \in V
  BY <1>2
<1>7. \A i \in DOMAIN page : page[i] \in V /\ page[i] \in W /\ page[i] \in Beyond(l, W, c)
  BY <1>3, <1>1 DEF Beyond
<1>8. \A x \in V : \A i, j \in DOMAIN s :
        Precedes(l, s[i], x) /\ Precedes(l, x, s[j]) => \E k \in DOMAIN s : x = s[k]
  BY DEF Skipless
<1>9. ASSUME NEW x \in V, NEW j \in DOMAIN page, Precedes(l, x, page[j])
      PROVE  /\ x \in W
             /\ x \in Beyond(l, W, c) => \E k \in DOMAIN page : x = page[k]
  <2>1. x \in W
    <3>1. /\ l[x[1]].slot \in Nat /\ l[page[j][1]].slot \in Nat
          /\ l[x[1]].slot <= l[page[j][1]].slot
      BY <1>7, <1>9, SlotsPrecede
    <3>2. l[page[j][1]].slot <= window.to
      BY <1>7 DEF HappenedIn
    <3> QED
      BY <3>1, <3>2 DEF HappenedIn
  <2>2. x \in Beyond(l, W, c) => \E k \in DOMAIN page : x = page[k]
    BY <1>9 DEF Begins
  <2> QED
    BY <2>1, <2>2
<1>10. ASSUME NEW x \in V, NEW i \in DOMAIN u, NEW j \in DOMAIN u,
              Precedes(l, u[i], x), Precedes(l, x, u[j])
       PROVE  \E k \in DOMAIN u : x = u[k]
  <2>1. ASSUME \E k \in DOMAIN s : x = s[k]
        PROVE  \E k \in DOMAIN u : x = u[k]
    BY <1>5, <2>1
  <2>2. ASSUME \E k \in DOMAIN page : x = page[k]
        PROVE  \E k \in DOMAIN u : x = u[k]
    BY <1>5, <2>2
  <2>3. CASE i \in DOMAIN s /\ j \in DOMAIN s
    <3>1. \E k \in DOMAIN s : x = s[k]
      <4>1. u[i] = s[i] /\ u[j] = s[j]
        BY <1>5, <2>3
      <4> QED
        BY <1>8, <1>10, <2>3, <4>1
    <3> QED
      BY <2>1, <3>1
  <2>4. CASE i \notin DOMAIN s /\ j \in DOMAIN s
    <3>1. PICK m \in DOMAIN page : u[i] = page[m]
      BY <1>5, <2>4
    <3>2. u[j] = s[j]
      BY <1>5, <2>4
    <3>3. Precedes(l, s[j], page[m])
      BY <1>4, <2>4
    <3>4. page[m] \in V /\ s[j] \in V
      BY <1>6, <1>7, <2>4
    <3> QED
      BY <1>10, <3>1, <3>2, <3>3, <3>4, RowsOrdered
  <2>5. CASE i \notin DOMAIN s /\ j \notin DOMAIN s
    <3>1. PICK m \in DOMAIN page : u[i] = page[m]
      BY <1>5, <2>5
    <3>2. PICK q \in DOMAIN page : u[j] = page[q]
      BY <1>5, <2>5
    <3>3. x \in W
      BY <1>9, <1>10, <3>2
    <3>4. ASSUME c # Nothing PROVE Precedes(l, c[1], x)
      <4>1. c[1] \in V
        BY <3>4 DEF Just
      <4>2. Precedes(l, c[1], page[m])
        BY <1>7, <3>4 DEF Beyond
      <4>3. page[m] \in V
        BY <1>7
      <4> QED
        BY <1>10, <3>1, <4>1, <4>2, <4>3, RowsOrdered
    <3>5. x \in Beyond(l, W, c)
      BY <3>3, <3>4 DEF Beyond
    <3> QED
      BY <1>9, <1>10, <2>2, <3>2, <3>5
  <2>6. CASE i \in DOMAIN s /\ j \notin DOMAIN s
    <3>1. u[i] = s[i]
      BY <1>5, <2>6
    <3>2. PICK q \in DOMAIN page : u[j] = page[q]
      BY <1>5, <2>6
    <3>3. x \in W
      BY <1>9, <1>10, <3>2
    <3>4. c # Nothing /\ c[1] = s[Len(s)] /\ Len(s) \in DOMAIN s
      <4>1. s # << >> /\ Len(s) \in DOMAIN s
        BY <1>5, <2>6
      <4>2. c = <<s[Len(s)]>>
        BY <4>1 DEF LastOf, Just
      <4> QED
        BY <4>1, <4>2 DEF Nothing
    <3>5. CASE Precedes(l, x, s[Len(s)])
      <4>1. \E k \in DOMAIN s : x = s[k]
        BY <1>8, <1>10, <2>6, <3>1, <3>4, <3>5
      <4> QED
        BY <2>1, <4>1
    <3>6. CASE x = s[Len(s)]
      BY <2>1, <3>4, <3>6
    <3>7. CASE Precedes(l, s[Len(s)], x)
      <4>1. x \in Beyond(l, W, c)
        BY <3>3, <3>4, <3>7 DEF Beyond
      <4> QED
        BY <1>9, <1>10, <2>2, <3>2, <4>1
    <3> QED
      BY <1>6, <3>4, <3>5, <3>6, <3>7, RowsOrdered
  <2> QED
    BY <2>3, <2>4, <2>5, <2>6
<1> QED
  BY <1>a, <1>4, <1>5, <1>10 DEF Skipless

(* Rows of the transactions up to this one.                                *)
Begun(s, n) == \A i \in DOMAIN s : s[i][1] \in 1..n

(* What is known of the feed: the client's list passes over nothing, a     *)
(* connection goes on after its last, and a poll's window is finished.     *)
Followed(l, n, rows, f) ==
  /\ f = [stage |-> f.stage, cursor |-> f.cursor, window |-> f.window,
          received |-> f.received]
  /\ Skipless(l, f.received, Happened(l))
  /\ Begun(f.received, n)
  /\ f.cursor = Nothing \/ \E row \in Happened(l) : f.cursor = Just(row)
  /\ f.stage # "closed" /\ f.received # << >> => f.cursor = LastOf(f.received)
  /\ f.stage = "polling" =>
       /\ f.window.from = 0 /\ f.window.to \in Nat
       /\ WholeIn(l, n, rows, f.window.to)

FeedInv ==
  /\ feed.stage # "closed" => saved # 0
  /\ Followed(ledger, tip, db.rows, feed)

LEMMA FollowedStays ==
    ASSUME FeedInv, ledger \in Ledgers, UNCHANGED <<ledger, feed>>,
           saved # 0 => saved' # 0,
           tip \in Nat, tip' \in Nat, tip <= tip', db.rows \subseteq db'.rows
    PROVE  FeedInv'
<1>1. \A to : WholeIn(ledger, tip, db.rows, to) => WholeIn(ledger, tip', db'.rows, to)
  BY WholeStays
<1>2. Followed(ledger, tip', db'.rows, feed)
  BY <1>1 DEF FeedInv, Followed, Begun
<1> QED
  BY <1>2 DEF FeedInv

(* The window the feed walks, and the end of it a client may start from.   *)
LEMMA WholeWindowIs ==
    ASSUME MInv, saved # 0
    PROVE  /\ WholeWindow.from = 0 /\ WholeWindow.to \in Nat
           /\ Whole(WholeWindow.to)
<1>1. Frontier.horizon \in Nat /\ Whole(Frontier.horizon)
  BY HorizonWhole
<1>2. WholeWindow = [from |-> 0, to |-> Frontier.horizon]
  BY <1>1 DEF WholeWindow, ResolveWindow, EdgeSlot, NoBound, Just, Nothing, Smaller
<1> QED
  BY <1>1, <1>2

LEMMA RowsBegun ==
    ASSUME MInv, NEW window, window.to \in Nat, Whole(window.to),
           NEW row \in HappenedIn(ledger, window)
    PROVE  row \in Happened(ledger) /\ row[1] \in 1..tip
<1>1. ledger \in Ledgers /\ tip \in Nat /\ Len(ledger) \in Nat
  BY Slots DEF MInv, IInv, Shape
<1>2. row \in Happened(ledger) /\ ledger[row[1]].slot <= window.to
  BY DEF HappenedIn
<1>3. row[1] \in 1..Len(ledger)
  BY <1>1, <1>2, HappenedRows
<1>4. row[1] <= tip
  BY <1>2, <1>3 DEF Whole, WholeIn
<1> QED
  BY <1>1, <1>2, <1>3, <1>4

LEMMA TailIs ==
    ASSUME MInv, NEW window, window.from = 0, window.to \in Nat, Whole(window.to),
           NEW limit \in Nat, NEW tail, tail = Tail_(window, limit)
    PROVE  /\ Skipless(ledger, tail, Happened(ledger))
           /\ \A i \in DOMAIN tail : tail[i] \in HappenedIn(ledger, window)
<1> PICK W : W = HappenedIn(ledger, window)
  OBVIOUS
<1> PICK all : all = Ordered(W)
  OBVIOUS
<1> PICK m : m = Larger(1, Len(all) - limit + 1)
  OBVIOUS
<1>1. ledger \in Ledgers
  BY DEF MInv, IInv, Shape
<1>2. W \in SUBSET Happened(ledger)
  BY DEF HappenedIn
<1>3. Within(Rows, window) = W
  BY Stored
<1>4. Sorted(ledger, all, W) /\ Len(all) \in Nat
  BY <1>1, <1>2, OrderedIs DEF Sorted, Lists
<1>5. m \in 1..Len(all) + 1
  BY <1>4 DEF Larger
<1>6. tail = SubSeq(all, m, Len(all))
  BY <1>3 DEF Tail_
<1>7. Skipless(ledger, tail, W)
  BY <1>1, <1>2, <1>4, <1>5, <1>6, SuffixSkipless
<1>8. Skipless(ledger, tail, Happened(ledger))
  BY <1>1, <1>7, SkiplessWider
<1> QED
  BY <1>7, <1>8 DEF Skipless

LEMMA FirstKnown ==
    ASSUME MInv, saved # 0, NEW backlog \in Nat, NEW tail,
           tail = Tail_(WholeWindow, Larger(backlog, 1))
    PROVE  /\ Skipless(ledger, tail, Happened(ledger))
           /\ \A i \in DOMAIN tail : tail[i] \in Happened(ledger) /\ tail[i][1] \in 1..tip
           /\ LastOf(tail) = Nothing \/ \E row \in Happened(ledger) : LastOf(tail) = Just(row)
<1> PICK window : window = WholeWindow
  OBVIOUS
<1>1. window.from = 0 /\ window.to \in Nat /\ Whole(window.to)
  BY WholeWindowIs
<1>2. Larger(backlog, 1) \in Nat
  BY DEF Larger
<1>3. /\ Skipless(ledger, tail, Happened(ledger))
      /\ \A i \in DOMAIN tail : tail[i] \in HappenedIn(ledger, window)
  BY <1>1, <1>2, TailIs
<1>4. \A i \in DOMAIN tail : tail[i] \in Happened(ledger) /\ tail[i][1] \in 1..tip
  BY <1>1, <1>3, RowsBegun
<1>5. ASSUME tail # << >>
      PROVE  \E row \in Happened(ledger) : LastOf(tail) = Just(row)
  <2>1. tail \in Seq(Happened(ledger))
    BY <1>3 DEF Skipless
  <2>2. tail[Len(tail)] \in Happened(ledger)
    BY <1>5, <2>1
  <2> QED
    BY <1>5, <2>2 DEF LastOf
<1> QED
  BY <1>3, <1>4, <1>5 DEF LastOf

LEMMA JoinedBegun ==
    ASSUME NEW W, NEW s \in Seq(W), NEW t \in Seq(W), NEW n, Begun(s, n), Begun(t, n)
    PROVE  Begun(s \o t, n)
<1>a. PICK u : u = s \o t
  OBVIOUS
<1>1. \A i \in DOMAIN u :
        \/ i \in DOMAIN s /\ u[i] = s[i]
        \/ i > Len(s) /\ i - Len(s) \in DOMAIN t /\ u[i] = t[i - Len(s)]
  BY <1>a, Joined
<1>2. Begun(u, n)
  BY <1>1 DEF Begun
<1> QED
  BY <1>a, <1>2

(* What a poll delivers, or some of it, goes on from what was received.    *)
LEMMA PollGoesOn ==
    ASSUME MInv, FeedInv, feed.stage = "polling",
           NEW page, page = Page(feed.window, feed.cursor, FEED_PAGE),
           NEW k \in 0..Len(page), NEW got, got = SubSeq(page, 1, k),
           NEW all, all = feed.received \o got
    PROVE  /\ Skipless(ledger, all, Happened(ledger))
           /\ Begun(all, tip)
           /\ got \in Seq(Happened(ledger)) /\ feed.received \in Seq(Happened(ledger))
           /\ Len(page) \in Nat /\ page \in Seq(Happened(ledger))
<1> PICK c : c = feed.cursor
  OBVIOUS
<1> PICK s : s = feed.received
  OBVIOUS
<1> PICK window : window = feed.window
  OBVIOUS
<1> PICK R : R = Beyond(ledger, HappenedIn(ledger, window), c)
  OBVIOUS
<1>1. ledger \in Ledgers
  BY DEF MInv, IInv, Shape
<1>2. /\ window.from = 0 /\ window.to \in Nat /\ Whole(window.to)
      /\ Skipless(ledger, s, Happened(ledger))
      /\ Begun(s, tip)
      /\ s # << >> => c = LastOf(s)
      /\ c = Nothing \/ \E row \in Happened(ledger) : c = Just(row)
  BY DEF FeedInv, Followed, Whole
<1>3. R \in SUBSET Happened(ledger)
  BY DEF Beyond, HappenedIn
<1>4. Begins(ledger, page, R) /\ Len(page) \in Nat
  BY <1>2, PageBegins, PagesAssumption
<1>5. Begins(ledger, got, R)
  BY <1>1, <1>3, <1>4, BeginsShorter
<1>6. Skipless(ledger, all, Happened(ledger))
  BY <1>1, <1>2, <1>5, FeedGoesOn
<1>7. /\ got \in Seq(R) /\ page \in Seq(R)
  BY <1>4, <1>5 DEF Begins
<1>8. /\ got \in Seq(Happened(ledger)) /\ page \in Seq(Happened(ledger))
      /\ s \in Seq(Happened(ledger))
  BY <1>2, <1>3, <1>7, SeqGrows DEF Skipless
<1>9. Begun(got, tip)
  <2>1. \A i \in DOMAIN got : got[i] \in HappenedIn(ledger, window)
    BY <1>7 DEF Beyond
  <2> QED
    BY <1>2, <2>1, RowsBegun DEF Begun
<1>10. Begun(s \o got, tip)
  BY <1>2, <1>8, <1>9, JoinedBegun
<1> QED
  BY <1>4, <1>6, <1>8, <1>10

(* What a client goes on from is the last it received.                     *)
LEMMA LastJoined ==
    ASSUME NEW V, NEW s \in Seq(V), NEW t \in Seq(V)
    PROVE  /\ t = << >> => s \o t = s
           /\ t # << >> => s \o t # << >> /\ LastOf(s \o t) = LastOf(t)
                           /\ \E x \in V : LastOf(t) = Just(x)
<1>1. ASSUME t = << >> PROVE s \o t = s
  BY <1>1
<1>2. ASSUME t # << >>
      PROVE  /\ s \o t # << >> /\ LastOf(s \o t) = LastOf(t)
             /\ \E x \in V : LastOf(t) = Just(x)
  <2>1. Len(t) \in 1..Len(t) /\ Len(s) \in Nat /\ Len(t) \in Nat
    BY <1>2
  <2>2. Len(s \o t) = Len(s) + Len(t) /\ s \o t # << >>
    BY <1>2, <2>1
  <2>3. (s \o t)[Len(s) + Len(t)] = t[Len(t)]
    BY <2>1
  <2>4. t[Len(t)] \in V
    BY <2>1
  <2> QED
    BY <1>2, <2>2, <2>3, <2>4 DEF LastOf
<1> QED
  BY <1>1, <1>2

LEMMA FeedKeeps ==
    ASSUME AfterFirstSave, MInv, FeedInv, [JNext]_jvars
    PROVE  FeedInv'
<1>0. /\ ledger \in Ledgers /\ UNCHANGED ledger /\ db.rows \subseteq db'.rows
      /\ tip \in Nat /\ tip' \in Nat /\ tip <= tip'
      /\ saved # 0 => saved' # 0
  BY JournalGrows, SavedStays DEF MInv, IInv, Shape
<1>1. CASE UNCHANGED feed
  BY <1>0, <1>1, FollowedStays
<1>2. Followed(ledger, tip, db.rows, feed) /\ (feed.stage # "closed" => saved # 0)
  BY DEF FeedInv
<1>3. feed = [stage |-> feed.stage, cursor |-> feed.cursor, window |-> feed.window,
              received |-> feed.received]
  BY <1>2 DEF Followed
<1>4. ASSUME NEW backlog \in Backlogs, Connect(backlog)
      PROVE  FeedInv'
  <2> PICK tail : tail = Tail_(WholeWindow, Larger(backlog, 1))
    OBVIOUS
  <2>1. feed.stage = "closed" /\ saved # 0 /\ UNCHANGED vars
    BY <1>4 DEF Connect, Readable
  <2>2. CASE feed.received # << >>
    <3>1. feed' = [stage |-> "waiting", cursor |-> LastOf(feed.received),
                   window |-> feed.window, received |-> feed.received]
      BY <1>3, <1>4, <2>2 DEF Connect
    <3>2. \E row \in Happened(ledger) : LastOf(feed.received) = Just(row)
      <4>1. feed.received \in Seq(Happened(ledger))
        BY <1>2 DEF Followed, Skipless
      <4> QED
        BY <2>2, <4>1, LastJoined
    <3>3. Followed(ledger, tip, db.rows, feed')
      BY <1>2, <3>1, <3>2 DEF Followed
    <3> QED
      BY <2>1, <3>3 DEF FeedInv, vars
  <2>3. CASE feed.received = << >>
    <3> PICK got : got = IF backlog = 0 THEN << >> ELSE tail
      OBVIOUS
    <3>1. feed' = [stage |-> "waiting", cursor |-> LastOf(tail),
                   window |-> feed.window, received |-> got]
      BY <1>3, <1>4, <2>3 DEF Connect
    <3>2. /\ Skipless(ledger, tail, Happened(ledger))
          /\ \A i \in DOMAIN tail : tail[i] \in Happened(ledger) /\ tail[i][1] \in 1..tip
          /\ LastOf(tail) = Nothing \/ \E row \in Happened(ledger) : LastOf(tail) = Just(row)
      BY <2>1, BacklogsAssumption, FirstKnown
    <3>3. Skipless(ledger, << >>, Happened(ledger)) /\ Begun(<< >>, tip)
      BY DEF Skipless, InOrder, Begun
    <3>4. Skipless(ledger, got, Happened(ledger)) /\ Begun(got, tip)
      BY <3>2, <3>3 DEF Begun
    <3>5. got # << >> => LastOf(tail) = LastOf(got)
      OBVIOUS
    <3>6. Followed(ledger, tip, db.rows, feed')
      BY <3>1, <3>2, <3>4, <3>5 DEF Followed
    <3> QED
      BY <2>1, <3>6 DEF FeedInv, vars
  <2> QED
    BY <2>2, <2>3
<1>5. CASE Poll
  <2>1. feed.stage = "waiting" /\ UNCHANGED vars
    BY <1>5 DEF Poll
  <2>2. feed' = [stage |-> "polling", cursor |-> feed.cursor, window |-> WholeWindow,
                 received |-> feed.received]
    BY <1>3, <1>5 DEF Poll
  <2>3. /\ WholeWindow.from = 0 /\ WholeWindow.to \in Nat
        /\ WholeIn(ledger, tip, db.rows, WholeWindow.to)
    BY <1>2, <2>1, WholeWindowIs DEF Whole
  <2>4. Followed(ledger, tip, db.rows, feed')
    BY <1>2, <2>1, <2>2, <2>3 DEF Followed
  <2> QED
    BY <1>2, <2>1, <2>4 DEF FeedInv, vars
<1>6. CASE Deliver
  <2>a. PICK page : page = Page(feed.window, feed.cursor, FEED_PAGE)
    OBVIOUS
  <2>b. PICK cur : cur = IF page = << >> THEN feed.cursor ELSE LastOf(page)
    OBVIOUS
  <2>1. feed.stage = "polling" /\ UNCHANGED vars
    BY <1>6 DEF Deliver
  <2>2. feed' = [stage |-> "waiting", cursor |-> cur, window |-> feed.window,
                 received |-> feed.received \o page]
    BY <1>3, <1>6, <2>a, <2>b DEF Deliver
  <2>3. /\ Skipless(ledger, feed.received \o page, Happened(ledger))
        /\ Begun(feed.received \o page, tip)
        /\ feed.received \in Seq(Happened(ledger)) /\ page \in Seq(Happened(ledger))
    <3>1. Len(page) \in Nat /\ page \in Seq(Happened(ledger))
      <4>1. 0 \in 0..Len(page)
        <5>1. /\ feed.window.to \in Nat /\ Whole(feed.window.to)
          BY <1>2, <2>1 DEF Followed, Whole
        <5>2. Len(page) \in Nat
          BY <2>a, <5>1, PageBegins, PagesAssumption
        <5> QED
          BY <5>2
      <4> QED
        BY <2>a, <2>1, <4>1, PollGoesOn
    <3>2. Len(page) \in 0..Len(page) /\ page = SubSeq(page, 1, Len(page))
      BY <3>1
    <3> QED
      BY <2>a, <2>1, <3>1, <3>2, PollGoesOn
  <2>4. /\ feed.received \o page # << >> => cur = LastOf(feed.received \o page)
        /\ cur = Nothing \/ \E row \in Happened(ledger) : cur = Just(row)
    <3>1. CASE page = << >>
      <4>1. cur = feed.cursor /\ feed.received \o page = feed.received
        BY <2>b, <2>3, <3>1, LastJoined
      <4> QED
        BY <1>2, <2>1, <4>1 DEF Followed
    <3>2. CASE page # << >>
      BY <2>b, <2>3, <3>2, LastJoined
    <3> QED
      BY <3>1, <3>2
  <2>5. Followed(ledger, tip, db.rows, feed')
    BY <2>2, <2>3, <2>4 DEF Followed
  <2> QED
    BY <1>2, <2>1, <2>2, <2>5 DEF FeedInv, vars
<1>7. CASE Break
  <2>a. PICK page : page = Page(feed.window, feed.cursor, FEED_PAGE)
    OBVIOUS
  <2>1. feed.stage = "polling" /\ UNCHANGED <<ledger, tip, db, saved>>
    BY <1>7 DEF Break
  <2>2. PICK n \in 0..Len(page) :
          feed' = [feed EXCEPT !.stage = "closed", !.received = @ \o SubSeq(page, 1, n)]
    BY <1>7, <2>a DEF Break
  <2>b. PICK got : got = SubSeq(page, 1, n)
    OBVIOUS
  <2>3. feed' = [stage |-> "closed", cursor |-> feed.cursor, window |-> feed.window,
                 received |-> feed.received \o got]
    BY <1>3, <2>2, <2>b
  <2>4. /\ Skipless(ledger, feed.received \o got, Happened(ledger))
        /\ Begun(feed.received \o got, tip)
    BY <2>a, <2>b, <2>1, PollGoesOn
  <2>5. Followed(ledger, tip, db.rows, feed')
    BY <1>2, <2>3, <2>4 DEF Followed
  <2> QED
    BY <2>1, <2>3, <2>5 DEF FeedInv
<1>8. \/ UNCHANGED feed
      \/ \E backlog \in Backlogs : Connect(backlog)
      \/ Poll \/ Deliver \/ Break
  BY DEF JNext, Reading, jvars, ReadFrontier, ReadWindow, Manifest, ExportPage, ExportFails
<1> QED
  BY <1>1, <1>4, <1>5, <1>6, <1>7, <1>8

LEMMA FeedInvariance == ASSUME AfterFirstSave PROVE JSpec => [](MInv /\ FeedInv)
<1>1. JInit => FeedInv
  BY DEF JInit, NoFeed, FeedInv, Followed, Skipless, InOrder, Begun, Nothing
<1>2. MInv /\ FeedInv /\ [JNext]_jvars => FeedInv'
  BY FeedKeeps
<1> QED
  BY <1>1, <1>2, MirrorInvariance, PTL DEF JSpec

(* What the client of the feed has received is a stretch of the chain's    *)
(* events in the journal's order, over any number of broken connections,   *)
(* for every chain, backlog and size of page, when readers come once there *)
(* is a cursor row (routes/journal.ts, the feed).                          *)
THEOREM FeedIsAStretch == ASSUME AfterFirstSave PROVE JSpec => []FeedLosesNothing
<1>1. MInv /\ FeedInv => FeedLosesNothing
  <2> SUFFICES ASSUME MInv, FeedInv PROVE FeedLosesNothing
    OBVIOUS
  <2> PICK s : s = feed.received
    OBVIOUS
  <2>1. Skipless(ledger, s, Happened(ledger)) /\ Begun(s, tip)
    BY DEF FeedInv, Followed
  <2>2. ledger \in Ledgers /\ OnChain \in SUBSET Happened(ledger)
    BY RowsHappened DEF MInv, IInv, Shape
  <2>3. ASSUME NEW i \in DOMAIN s
        PROVE  s[i] \in OnChain
    <3> PICK row : row = s[i]
      OBVIOUS
    <3>1. row \in Happened(ledger) /\ row[1] \in 1..tip
      BY <2>1 DEF Skipless, Begun
    <3>2. /\ row = <<row[1], row[2]>> /\ row[2] \in DOMAIN ledger[row[1]].body.events
          /\ ledger[row[1]].body.events[row[2]].mint = MintRead
      BY <2>2, <3>1, HappenedRows
    <3>3. row \in {row[1]} \X DOMAIN ledger[row[1]].body.events
      BY <3>2
    <3> QED
      BY <3>1, <3>2, <3>3 DEF OnChain, OfMint
  <2>4. s \in Seq(OnChain)
    <3>1. s \in Seq(Happened(ledger))
      BY <2>1 DEF Skipless
    <3> QED
      BY <2>3, <3>1
  <2>5. Skipless(ledger, s, OnChain)
    BY <2>1, <2>2, <2>4 DEF Skipless
  <2>6. Sorted(ledger, Ordered(OnChain), OnChain)
    BY <2>2, OrderedIs DEF Sorted, Lists
  <2>7. Len(s) \in Nat /\ (s = << >> => Len(s) = 0)
    BY <2>4
  <2>8. CASE s = << >>
    BY <2>7, <2>8 DEF FeedLosesNothing
  <2>9. CASE s # << >>
    <3> PICK all : all = Ordered(OnChain)
      OBVIOUS
    <3>1. Stretch(s, all)
      BY <2>2, <2>5, <2>6, <2>9, SkiplessIsStretch
    <3> QED
      BY <3>1 DEF FeedLosesNothing, Stretch
  <2> QED
    BY <2>8, <2>9
<1> QED
  BY <1>1, FeedInvariance, PTL
=============================================================================
