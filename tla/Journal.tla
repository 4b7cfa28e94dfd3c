------------------------------- MODULE Journal -------------------------------
(***************************************************************************)
(* The journal's readers beside the indexer: an export of a slot window,   *)
(* made of a frontier, a count and pages; and the feed, which walks the    *)
(* same window and waits for it to grow, over connections that break.  The *)
(* verifier takes an export to the chain.                                  *)
(***************************************************************************)
EXTENDS Indexer

CONSTANTS Readers,          \* which readers there are: "export", "feed"
          JOURNAL_PAGE,     \* rows of a page of the export
          FEED_PAGE,        \* rows of a page of the feed
          Periods,          \* the periods asked for, pairs of bounds
          Backlogs,         \* how many recent events a feed may ask for
          MintRead,         \* the token read
          MaxFaultsRead,    \* faults in a behaviour with a reader
          AfterFirstSave    \* readers come once there is a cursor row

ASSUME PagesAssumption == JOURNAL_PAGE \in Nat \ {0} /\ FEED_PAGE \in Nat \ {0}
ASSUME BacklogsAssumption == Backlogs \subseteq Nat

(* The node dates a slot, not a transaction, and may have no date for it. *)
ASSUME DatesAssumption ==
  \A l \in Ledgers : \A i, j \in DOMAIN l :
    /\ i <= j /\ l[i].time # Nothing /\ l[j].time # Nothing
         => l[i].time[1] <= l[j].time[1]
    /\ l[i].slot = l[j].slot => l[i].time = l[j].time

(* A transaction is known by its signature. *)
ASSUME SignaturesAssumption ==
  \A l \in Ledgers : \A i, j \in DOMAIN l : l[i].sig = l[j].sig => i = j

VARIABLES reader,   \* which reader this behaviour has
          export,   \* the export under way
          feed      \* the feed and what its client has received

jvars == <<vars, reader, export, feed>>

(***************************************************************************)
(* The store.  A row is a position and an event of it, both from one.      *)
(***************************************************************************)
SlotOf(row) == ledger[row[1]].slot
KeyOf(row) == << SlotOf(row), ledger[row[1]].sig, row[2] >>
OfMint(row) == ledger[row[1]].body.events[row[2]].mint = MintRead

Before(a, b) ==
  \/ a[1] < b[1]
  \/ a[1] = b[1] /\ a[2] < b[2]
  \/ a[1] = b[1] /\ a[2] = b[2] /\ a[3] < b[3]

Rows == {row \in db.rows : OfMint(row)}

(* The rows by their keys: each is preceded by as many as come before it.  *)
Ordered(rows) ==
  LET preceding == [row \in rows |->
                      Cardinality({r \in rows : Before(KeyOf(r), KeyOf(row))})]
  IN  [i \in 1..Cardinality(rows) |-> CHOOSE row \in rows : preceding[row] = i - 1]

Within(rows, window) ==
  {row \in rows : SlotOf(row) >= window.from /\ SlotOf(row) <= window.to}

Smaller(a, b) == IF a < b THEN a ELSE b

(* A slip of Frontier: the slot being read is taken for finished. *)
FrontierOfCursor ==
  LET slot == IF saved = 0 THEN 0 ELSE ledger[saved].slot
  IN  [indexedThrough |-> slot, horizon |-> slot]

(* How far the mirror has been read, and how far it is finished.  Without  *)
(* a cursor row the newest row of the token stands for both.               *)
Frontier ==
  LET top == IF Rows = {} THEN 0 ELSE Max({SlotOf(row) : row \in Rows})
  IN  IF saved # 0
      THEN [indexedThrough |-> ledger[saved].slot,
            horizon |-> Larger(0, ledger[saved].slot - 1)]
      ELSE [indexedThrough |-> top, horizon |-> top]

(***************************************************************************)
(* A bound is absent, a slot or a date.  A date is looked up among the     *)
(* rows that have one, before the export, which goes by slots alone.       *)
(***************************************************************************)
NoBound == [kind |-> "none"]
AtSlot(slot) == [kind |-> "slot", at |-> slot]
AtTime(unix) == [kind |-> "time", at |-> unix]

Bound == {NoBound} \cup [kind : {"slot", "time"}, at : Nat]
ASSUME PeriodsAssumption == Periods \subseteq Bound \X Bound

Dated == {row \in Rows : ledger[row[1]].time # Nothing}
DateOf(row) == ledger[row[1]].time[1]

(* A slip of Since: the first instant of the period is left out. *)
SinceAfter(bound) ==
  {SlotOf(row) : row \in {r \in Dated : bound.kind = "time" => DateOf(r) > bound.at}}

Since(bound) ==
  {SlotOf(row) : row \in {r \in Dated : bound.kind = "time" => DateOf(r) >= bound.at}}

Until(bound) ==
  {SlotOf(row) : row \in {r \in Dated : bound.kind = "time" => DateOf(r) <= bound.at}}

Bracket(from, to) ==
  [from |-> IF Since(from) = {} THEN Nothing ELSE Just(Min(Since(from))),
   to |-> IF Until(to) = {} THEN Nothing ELSE Just(Max(Until(to)))]

EdgeSlot(bound, bracketed, fallback) ==
  CASE bound.kind = "none" -> Just(fallback)
    [] bound.kind = "slot" -> Just(bound.at)
    [] bound.kind = "time" -> bracketed

(* An absent bound is the beginning, or the horizon. *)
ResolveWindow(from, to, bracket, horizon) ==
  LET lower == EdgeSlot(from, bracket.from, 0)
      upper == EdgeSlot(to, bracket.to, horizon)
  IN  IF lower = Nothing \/ upper = Nothing
      THEN [from |-> horizon + 1, to |-> horizon]
      ELSE [from |-> lower[1], to |-> Smaller(upper[1], horizon)]

(* The whole of what is finished, which the feed walks. *)
WholeWindow ==
  ResolveWindow(NoBound, NoBound, [from |-> Nothing, to |-> Nothing],
                Frontier.horizon)

(* A slip of After: the rest of the row's slot is skipped. *)
AfterSlot(rows, row) ==
  IF row = Nothing THEN rows
  ELSE {r \in rows : SlotOf(row[1]) < SlotOf(r)}

After(rows, row) ==
  IF row = Nothing THEN rows
  ELSE {r \in rows : Before(KeyOf(row[1]), KeyOf(r))}

Page(window, after, limit) ==
  LET rest == Ordered(After(Within(Rows, window), after))
  IN  SubSeq(rest, 1, Smaller(limit, Len(rest)))

Tail_(window, limit) ==
  LET all == Ordered(Within(Rows, window))
  IN  SubSeq(all, Larger(1, Len(all) - limit + 1), Len(all))

LastOf(rows) == IF rows = << >> THEN Nothing ELSE Just(rows[Len(rows)])

Readable == AfterFirstSave => saved # 0

(***************************************************************************)
(* The export.  The frontier is read before the dates are looked up.       *)
(***************************************************************************)
NoExport == [stage |-> "asked"]

ReadFrontier(period) ==
  /\ reader = "export" /\ export = NoExport /\ Readable
  /\ export' = [stage |-> "bounded", period |-> period, frontier |-> Frontier]
  /\ UNCHANGED <<vars, reader, feed>>

ReadWindow ==
  /\ export.stage = "bounded"
  /\ LET from == export.period[1]
         to == export.period[2]
     IN  export' = [stage |-> "resolved", period |-> export.period,
                    indexedThrough |-> export.frontier.indexedThrough,
                    window |-> ResolveWindow(from, to, Bracket(from, to),
                                             export.frontier.horizon)]
  /\ UNCHANGED <<vars, reader, feed>>

Manifest ==
  /\ export.stage = "resolved"
  /\ export' = [stage |-> "streaming", window |-> export.window,
                period |-> export.period,
                indexedThrough |-> export.indexedThrough,
                count |-> Cardinality(Within(Rows, export.window)),
                entries |-> << >>]
  /\ UNCHANGED <<vars, reader, feed>>

(* A short page is the last. *)
ExportPage ==
  /\ export.stage = "streaming"
  /\ LET page == Page(export.window, LastOf(export.entries), JOURNAL_PAGE)
     IN  export' = [export EXCEPT !.entries = @ \o page,
                                  !.stage = IF Len(page) < JOURNAL_PAGE
                                            THEN "complete" ELSE @]
  /\ UNCHANGED <<vars, reader, feed>>

(* The status is on the wire: the file ends short. *)
ExportFails ==
  /\ export.stage = "streaming" /\ Fault
  /\ export' = [export EXCEPT !.stage = "cut"]
  /\ UNCHANGED <<ledger, tip, up, follower, cursor, recent, halted, work, db,
                 saved, reach, owed, reader, feed>>

(***************************************************************************)
(* The verifier, over an export: the checks of the file, then the chain.   *)
(***************************************************************************)
LineProblem(e) ==
  \E i \in DOMAIN e.entries :
    \/ ~OfMint(e.entries[i])
    \/ SlotOf(e.entries[i]) < e.window.from
    \/ SlotOf(e.entries[i]) > e.window.to
    \/ i > 1 /\ ~Before(KeyOf(e.entries[i - 1]), KeyOf(e.entries[i]))

(* A slip of FileProblem: the lines are not counted. *)
FileUncounted(e) == e.window.to > e.indexedThrough \/ LineProblem(e)

FileProblem(e) ==
  \/ e.count # Len(e.entries)
  \/ e.window.to > e.indexedThrough
  \/ LineProblem(e)

OnChain ==
  {row \in UNION {{p} \X DOMAIN ledger[p].body.events : p \in 1..tip} :
     OfMint(row)}

VerifyJournal(e) ==
  /\ ~FileProblem(e)
  /\ \A i \in DOMAIN e.entries : e.entries[i] \in OnChain
  /\ Within(OnChain, e.window) \subseteq {e.entries[i] : i \in DOMAIN e.entries}

(***************************************************************************)
(* The feed.  A poll reads the window, then a page; the client receives    *)
(* some of it and may find the connection broken, and then resumes after   *)
(* the last event it received.                                             *)
(***************************************************************************)
NoFeed == [stage |-> "closed", cursor |-> Nothing, window |-> [from |-> 0, to |-> 0],
           received |-> << >>]

Connect(backlog) ==
  /\ reader = "feed" /\ feed.stage = "closed" /\ Readable
  /\ LET window == WholeWindow
         recent_ == Tail_(window, Larger(backlog, 1))
     IN  feed' = IF feed.received # << >>
                 THEN [feed EXCEPT !.stage = "waiting",
                                   !.cursor = LastOf(feed.received)]
                 ELSE [feed EXCEPT !.stage = "waiting",
                                   !.cursor = LastOf(recent_),
                                   !.received = IF backlog = 0 THEN << >>
                                                ELSE recent_]
  /\ UNCHANGED <<vars, reader, export>>

Poll ==
  /\ feed.stage = "waiting"
  /\ feed' = [feed EXCEPT !.stage = "polling",
                          !.window = WholeWindow]
  /\ UNCHANGED <<vars, reader, export>>

Deliver ==
  /\ feed.stage = "polling"
  /\ LET page == Page(feed.window, feed.cursor, FEED_PAGE)
     IN  feed' = [feed EXCEPT !.stage = "waiting",
                              !.cursor = IF page = << >> THEN @ ELSE LastOf(page),
                              !.received = @ \o page]
  /\ UNCHANGED <<vars, reader, export>>

(* What was sent and not received is not lost: the client resumes before it. *)
Break ==
  /\ feed.stage = "polling" /\ Fault
  /\ LET page == Page(feed.window, feed.cursor, FEED_PAGE)
     IN  \E n \in 0..Len(page) :
           feed' = [feed EXCEPT !.stage = "closed",
                                !.received = @ \o SubSeq(page, 1, n)]
  /\ UNCHANGED <<ledger, tip, up, follower, cursor, recent, halted, work, db,
                 saved, reach, owed, reader, export>>

(***************************************************************************)
(* The composition.                                                        *)
(***************************************************************************)
JInit == Init /\ reader \in Readers /\ export = NoExport /\ feed = NoFeed

Reading ==
  \/ \E period \in Periods : ReadFrontier(period)
  \/ ReadWindow \/ Manifest \/ ExportPage \/ ExportFails
  \/ \E n \in Backlogs : Connect(n)
  \/ Poll \/ Deliver \/ Break

JNext == /\ (Next /\ UNCHANGED <<reader, export, feed>>) \/ Reading
         /\ reader = "none" \/ faults' <= MaxFaultsRead

JSpec == JInit /\ [][JNext]_jvars

FairJSpec == JSpec /\ Fairness

(***************************************************************************)
(* Properties.                                                             *)
(***************************************************************************)
(* The dated events of the chain that a period between dates asks for, in   *)
(* the slots the export was told are finished.                              *)
Asked(e) ==
  {row \in OnChain :
     /\ SlotOf(row) < e.indexedThrough
     /\ ledger[row[1]].time # Nothing
     /\ e.period[1].kind = "time" => DateOf(row) >= e.period[1].at
     /\ e.period[2].kind = "time" => DateOf(row) <= e.period[2].at}

(* A complete export, read page by page while the indexer writes, is        *)
(* confirmed by the verifier line for line and to the last one, whether or  *)
(* not the period asked for reaches past what was indexed; asked for        *)
(* between dates, it has every dated event between them, though the dates   *)
(* are looked up after the frontier is read; and an export cut short of its *)
(* rows is found out by the checks of the file (journal.ts,                 *)
(* routes/journal.ts, tools/verify-journal verify.ts).                      *)
ExportVerifies ==
  /\ export.stage = "complete" => VerifyJournal(export)
  /\ /\ export.stage = "complete"
     /\ \A i \in 1..2 : export.period[i].kind # "slot"
     => Asked(export) \subseteq {export.entries[i] : i \in DOMAIN export.entries}
  /\ export.stage = "cut" /\ ~FileProblem(export)
       => Within(OnChain, export.window)
            = {export.entries[i] : i \in DOMAIN export.entries}

(* What the client of the feed has received is a stretch of the chain's     *)
(* events in the journal's order, none missing and none twice, over any     *)
(* number of broken connections (routes/journal.ts, the feed).              *)
FeedLosesNothing ==
  LET all == Ordered(OnChain)
      n == Len(feed.received)
  IN  n = 0 \/ \E i \in 0..Len(all) - n : feed.received = SubSeq(all, i + 1, i + n)

(* What a reader can be shown, the rows up to the horizon, implements the   *)
(* abstract mirror: whole slots of the chain, and what was shown stays      *)
(* (journal.ts, the frontier, over the indexer).                            *)
Shown ==
  IF saved = 0 THEN {}
  ELSE {row \in db.rows : SlotOf(row) <= Frontier.horizon}

Mirror == INSTANCE LedgerMirror WITH shown <- Shown

ImplementsMirror == Mirror!Spec

(* Every event comes within the horizon and can be shown.                   *)
EventuallyShown ==
  <>[](up /\ ~stopping) => <>(Shown = UNION {EventsOf(p) : p \in DOMAIN ledger})
=============================================================================
