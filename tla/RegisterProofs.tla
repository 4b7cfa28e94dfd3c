--------------------------- MODULE RegisterProofs ---------------------------
(***************************************************************************)
(* The register of holders, for any wallets, statuses and batches and any  *)
(* number of requests: no row admits a holder the chain has not onboarded, *)
(* and once the worker has caught up each row says what the chain says.    *)
(*                                                                         *)
(* What a request has in hand is the heart of it.  A request that marks a  *)
(* row holds a transaction that has landed, so what it writes is what the  *)
(* worker writes, whichever of them comes first.                           *)
(***************************************************************************)
EXTENDS Register, HoldersProofs

-----------------------------------------------------------------------------
\* The transactions about holders, and what a request may be doing.
Change ==
    [kind : {"thaw"}, wallet : Holder, status : Carried, authority : Wallet]
      \cup [kind : {"status"}, wallet : Holder, status : Carried \ {<<>>}, authority : Wallet]

Wallets == Seq(Holder) \ {<<>>}
Thawing == [stage : {"thaw", "written", "unwritten"}, authority : Wallet, todo : Wallets]
Setting == [stage : {"status"}, todo : {<<w>> : w \in Holder}, status : Statuses]
Sending == [stage : {"sent", "confirmed"}, tx : Change, todo : Wallets, authority : Wallet]
Work == {Idle} \cup Thawing \cup Setting \cup Sending

RegisterTypeOK ==
    /\ rows \in [Holder -> Row \cup {NoAccount}]
    /\ request \in [Requests -> Work]
    /\ outstanding \subseteq Change
    /\ feed \in Seq(Change)
    /\ read \in 0 .. Len(feed)

\* What a request is about to write has landed.
ConfirmedLanded ==
    \A r \in Requests :
      request[r].stage = "confirmed" => \E i \in DOMAIN feed : feed[i] = request[r].tx

\* Whoever a landed transaction is about has been onboarded.
LandedOnboarded == \A i \in DOMAIN feed : statuses[feed[i].wallet] # NoAccount

\* A holder whose status was never set but by a thaw.
ThawsOnly(w) == \A i \in DOMAIN feed : feed[i].wallet = w => feed[i].kind = "thaw"

\* The one thaw that carried a status carried the one on the chain; it is there, and
\* there is no other.
StatusFromThaw ==
    \A w \in Holder :
      statuses[w] # NoAccount /\ ThawsOnly(w) =>
        \E i \in DOMAIN feed : feed[i].wallet = w /\ feed[i].status = <<statuses[w]>>
ThawsSayOneStatus ==
    \A i \in DOMAIN feed :
      ThawsOnly(feed[i].wallet) /\ feed[i].status # <<>> =>
        feed[i].status = <<statuses[feed[i].wallet]>>

\* A thaw that carried a status and was applied shows in the row.
Shows(w) == rows[w] # NoAccount /\ rows[w].state = "thawed" /\ rows[w].status = <<statuses[w]>>
AppliedShows ==
    \A i \in 1 .. read :
      ThawsOnly(feed[i].wallet) /\ feed[i].status # <<>> => Shows(feed[i].wallet)

FeedInv == LandedOnboarded /\ StatusFromThaw /\ ThawsSayOneStatus
RInv ==
    HInv /\ RegisterTypeOK /\ ConfirmedLanded /\ AdmittedOnChain /\ FeedInv /\ AppliedShows

-----------------------------------------------------------------------------
(* What is in hand. *)

LEMMA HolderIsWallet == Holder \subseteq Wallet
BY OwnerAssumption DEF Holder

\* What is left of a batch is work again, and nothing confirmed.
LEMMA RestIsWork ==
    ASSUME NEW r \in Requests, request[r] \in Thawing \cup Sending
    PROVE  Rest(r) \in Work /\ Rest(r).stage # "confirmed"
<1>1. request[r].authority \in Wallet /\ request[r].todo \in Seq(Holder)
  BY DEF Thawing, Sending, Wallets
<1>2. CASE Len(request[r].todo) > 1
  <2> DEFINE todo == request[r].todo
  <2>1. todo \in Seq(Holder) /\ todo # <<>> /\ Len(todo) > 1
    BY <1>1, <1>2
  <2> HIDE DEF todo
  <2>2. Tail(todo) \in Seq(Holder) /\ Len(Tail(todo)) = Len(todo) - 1
    BY <2>1, HeadTailProperties
  <2>3. Len(Tail(todo)) # 0
    BY <2>1, <2>2
  <2>4. Tail(todo) \in Wallets
    <3>1. Len(<<>>) = 0
      OBVIOUS
    <3>2. Tail(todo) # <<>>
      BY <2>3, <3>1, Zenon
    <3> QED
      BY <2>2, <3>2 DEF Wallets
  <2> QED
    BY <1>1, <1>2, <2>4 DEF Rest, Work, Thawing, todo
<1>3. CASE ~(Len(request[r].todo) > 1)
  BY <1>3 DEF Rest, Work, Idle
<1> QED
  BY <1>2, <1>3

\* A request that turns to other work, none of it confirmed unless it has landed.
LEMMA TurnsKeeps ==
    ASSUME request \in [Requests -> Work], ConfirmedLanded,
           NEW r \in Requests, NEW next \in Work, Turns(r, next),
           \A i \in DOMAIN feed : i \in DOMAIN feed' /\ feed'[i] = feed[i],
           next.stage = "confirmed" => \E i \in DOMAIN feed' : feed'[i] = next.tx
    PROVE  request' \in [Requests -> Work] /\ ConfirmedLanded'
<1>1. request' = [request EXCEPT ![r] = next]
  BY DEF Turns
<1>2. ASSUME NEW x \in Requests, request'[x].stage = "confirmed"
      PROVE  \E i \in DOMAIN feed' : feed'[i] = request'[x].tx
  <2>1. CASE x = r
    BY <1>1, <1>2, <2>1
  <2>2. CASE x # r
    <3>1. request'[x] = request[x]
      BY <1>1, <2>2
    <3>2. PICK i \in DOMAIN feed : feed[i] = request[x].tx
      BY <1>2, <3>1 DEF ConfirmedLanded
    <3> QED
      BY <3>1, <3>2
  <2> QED
    BY <2>1, <2>2
<1> QED
  BY <1>1, <1>2 DEF ConfirmedLanded

\* A thaw is planned with the status the row has, or with none.
LEMMA ThawIsChange ==
    ASSUME RegisterTypeOK, NEW w \in Holder, NEW authority \in Wallet, NEW written \in BOOLEAN
    PROVE  Thaw(w, written, authority) \subseteq Change
<1>1. ASSUME NEW row \in {x \in {rows[w]} \ {NoAccount} : x.status # <<>>}
      PROVE  row.status \in Carried
  BY DEF RegisterTypeOK, Row
<1>2. <<>> \in Carried
  BY DEF Carried
<1> QED
  BY <1>1, <1>2 DEF Thaw, Change

\* A transaction is signed and sent, or handed over to be.
LEMMA SendsKeeps ==
    ASSUME RegisterTypeOK, ConfirmedLanded, NEW r \in Requests, NEW tx \in Change,
           request[r].todo \in Wallets, Rest(r) \in Work, Rest(r).stage # "confirmed",
           Sends(r, tx), UNCHANGED feed
    PROVE  request' \in [Requests -> Work] /\ ConfirmedLanded' /\ outstanding' \subseteq Change
<1>1. tx.authority \in Wallet
  BY DEF Change
<1> DEFINE sent == [stage |-> "sent", tx |-> tx, todo |-> request[r].todo,
                    authority |-> tx.authority]
<1>2. sent \in Work /\ sent.stage # "confirmed"
  BY <1>1 DEF Work, Sending
<1>3. outstanding' \subseteq Change /\ (Turns(r, sent) \/ Turns(r, Rest(r)))
  BY DEF Sends, RegisterTypeOK
<1> HIDE DEF sent
<1> QED
  BY <1>2, <1>3, TurnsKeeps DEF RegisterTypeOK

-----------------------------------------------------------------------------
(* What is on the chain. *)

\* What a transaction about a holder does there: a thaw that carries a status is of a
\* wallet that had none, every other change of one that had.
LEMMA ExecutesKeeps ==
    ASSUME HInv, NEW tx \in Change, Executes(tx)
    PROVE  /\ HInv'
           /\ \/ /\ tx.kind = "thaw" /\ tx.status = <<>>
                 /\ statuses[tx.wallet] # NoAccount /\ statuses' = statuses
              \/ /\ tx.status = <<tx.status[1]>> /\ tx.status[1] \in Statuses
                 /\ tx.kind = "thaw" => statuses[tx.wallet] = NoAccount
                 /\ statuses' = [statuses EXCEPT ![tx.wallet] = tx.status[1]]
<1>1. /\ tx.wallet \in Holder /\ tx.wallet \in Wallet /\ tx.authority \in Wallet
      /\ tx.status = <<>> \/ (tx.status[1] \in Statuses /\ tx.status = <<tx.status[1]>>)
      /\ tx.kind = "thaw" \/ (tx.kind = "status" /\ tx.status # <<>>)
  BY HolderIsWallet DEF Change, Carried
<1>2. AtaOf[tx.wallet] \in Account /\ OwnerOf[AtaOf[tx.wallet]] = tx.wallet
  BY <1>1, RegisterAssumption
<1>3. HoldersTypeOK /\ IInv /\ ThawedAreOnboarded
  BY DEF HInv
<1>4. ASSUME UNCHANGED vars, HeldTypeOK', FreezesKept, ThawedAreOnboarded'
      PROVE  HInv'
  <2>1. IInv'
    BY <1>3, <1>4, NextInv
  <2>2. FreezesHold'
    BY <1>4 DEF HInv, FreezesKept, FreezesHold
  <2> QED
    BY <1>4, <2>1, <2>2 DEF HInv, IInv, HoldersTypeOK, HeldTypeOK
<1>5. CASE tx.kind = "status"
  <2>1. SetHolderStatus(tx.wallet, tx.authority, tx.status[1])
    BY <1>5 DEF Executes
  <2>2. tx.status # <<>>
    BY <1>1, <1>5
  <2>3. HeldTypeOK' /\ FreezesKept /\ ThawedAreOnboarded'
    BY <1>1, <1>3, <2>1, <2>2, StatusKeeps
  <2>4. UNCHANGED vars /\ statuses' = [statuses EXCEPT ![tx.wallet] = tx.status[1]]
    BY <2>1 DEF SetHolderStatus
  <2> QED
    BY <1>1, <1>4, <1>5, <2>2, <2>3, <2>4
<1>6. CASE tx.kind = "thaw" /\ tx.status # <<>>
  <2>1. ThawNewHolder(AtaOf[tx.wallet], tx.authority, tx.status[1])
    BY <1>6 DEF Executes
  <2>2. HeldTypeOK' /\ FreezesKept /\ ThawedAreOnboarded'
    BY <1>1, <1>2, <1>3, <1>6, <2>1, ThawKeeps
  <2>3. /\ UNCHANGED vars /\ statuses[tx.wallet] = NoAccount
        /\ statuses' = [statuses EXCEPT ![tx.wallet] = tx.status[1]]
    BY <1>2, <2>1 DEF ThawNewHolder, Thawed
  <2> QED
    BY <1>1, <1>4, <1>6, <2>2, <2>3
<1>7. CASE tx.kind = "thaw" /\ tx.status = <<>>
  <2>1. ThawKnownHolder(AtaOf[tx.wallet], tx.authority)
    BY <1>7 DEF Executes
  <2>2. HeldTypeOK' /\ FreezesKept /\ ThawedAreOnboarded'
    BY <1>1, <1>2, <1>3, <2>1, ThawKeeps
  <2>3. UNCHANGED vars /\ statuses[tx.wallet] # NoAccount /\ statuses' = statuses
    BY <1>2, <2>1 DEF ThawKnownHolder, Thawed
  <2> QED
    BY <1>4, <1>7, <2>2, <2>3
<1> QED
  BY <1>1, <1>5, <1>6, <1>7

\* What the register relies on of every step of the chain: statuses stay, and a
\* status no transaction sets stays what it was.
StatusesStay ==
    /\ \A i \in DOMAIN feed : i \in DOMAIN feed' /\ feed'[i] = feed[i]
    /\ \A w \in Holder : statuses[w] # NoAccount => statuses'[w] # NoAccount
    /\ \A w \in Holder : ThawsOnly(w)' =>
         /\ ThawsOnly(w)
         /\ statuses[w] # NoAccount => statuses'[w] = statuses[w]

\* A transaction that lands leaves the feed true to the statuses.
LEMMA LandsKeeps ==
    ASSUME HInv, FeedInv, feed \in Seq(Change), NEW tx \in Change, Lands(tx)
    PROVE  /\ HInv' /\ FeedInv' /\ StatusesStay
           /\ feed' \in Seq(Change) /\ Len(feed') = Len(feed) + 1 /\ feed'[Len(feed) + 1] = tx
<1> DEFINE w == tx.wallet
           n == Len(feed) + 1
<1>1. w \in Holder /\ w \in Wallet
  BY HolderIsWallet DEF Change
<1>2. /\ feed' = Append(feed, tx) /\ feed' \in Seq(Change)
      /\ DOMAIN feed' = 1 .. n /\ DOMAIN feed = 1 .. Len(feed) /\ Len(feed) \in Nat
      /\ Len(feed') = n /\ feed'[n] = tx
      /\ \A i \in 1 .. Len(feed) : feed'[i] = feed[i]
  BY DEF Lands
<1>3. HInv' /\ statuses \in [Wallet -> StatusRecord \cup {NoAccount}]
  BY ExecutesKeeps DEF Lands, HInv, HoldersTypeOK
<1>4. \/ /\ tx.kind = "thaw" /\ tx.status = <<>>
         /\ statuses[w] # NoAccount /\ statuses' = statuses
      \/ /\ tx.status = <<tx.status[1]>> /\ tx.status[1] \in Statuses
         /\ tx.kind = "thaw" => statuses[w] = NoAccount
         /\ statuses' = [statuses EXCEPT ![w] = tx.status[1]]
  BY ExecutesKeeps DEF Lands
<1>5. tx.status[1] \in Statuses => tx.status[1] # NoAccount
  BY StatusesAssumption, NoAccountAssumption
<1> HIDE DEF w
<1>6. /\ \A x \in Holder : statuses[x] # NoAccount => statuses'[x] # NoAccount
      /\ \A x \in Holder : x # w => statuses'[x] = statuses[x]
      /\ statuses'[w] # NoAccount
  BY <1>1, <1>3, <1>4, <1>5, HolderIsWallet
<1>7. /\ \A x \in Holder : ThawsOnly(x)' => ThawsOnly(x)
      /\ ThawsOnly(w)' => tx.kind = "thaw"
  BY <1>2 DEF ThawsOnly, w
<1>8. StatusesStay
  <2>1. ASSUME NEW x \in Holder, ThawsOnly(x)', statuses[x] # NoAccount
        PROVE  statuses'[x] = statuses[x]
    BY <1>1, <1>4, <1>6, <1>7, <2>1
  <2> QED
    BY <1>2, <1>6, <1>7, <2>1 DEF StatusesStay
<1>9. \A i \in 1 .. Len(feed) : feed[i].wallet \in Holder
  BY <1>2 DEF Change
<1>10. LandedOnboarded'
  <2>1. ASSUME NEW i \in 1 .. n
        PROVE  statuses'[feed'[i].wallet] # NoAccount
    <3>1. CASE i = n
      BY <1>2, <1>6, <3>1 DEF w
    <3>2. CASE i # n
      <4>1. i \in 1 .. Len(feed) /\ feed'[i] = feed[i]
        BY <1>2, <3>2
      <4> QED
        BY <1>2, <1>6, <1>9, <4>1 DEF FeedInv, LandedOnboarded
    <3> QED
      BY <3>1, <3>2
  <2> QED
    BY <1>2, <2>1 DEF LandedOnboarded
<1>11. StatusFromThaw'
  <2> SUFFICES ASSUME NEW x \in Holder, statuses'[x] # NoAccount, ThawsOnly(x)'
               PROVE  \E i \in DOMAIN feed' : feed'[i].wallet = x /\ feed'[i].status = <<statuses'[x]>>
    BY DEF StatusFromThaw
  <2>1. CASE statuses[x] # NoAccount
    <3>1. statuses'[x] = statuses[x] /\ ThawsOnly(x)
      BY <1>8, <2>1 DEF StatusesStay
    <3>2. PICK i \in DOMAIN feed : feed[i].wallet = x /\ feed[i].status = <<statuses[x]>>
      BY <2>1, <3>1 DEF FeedInv, StatusFromThaw
    <3> QED
      BY <1>2, <3>1, <3>2
  <2>2. CASE statuses[x] = NoAccount
    <3>1. x = w
      BY <1>6, <2>2
    <3>2. tx.status = <<statuses'[w]>>
      BY <1>1, <1>3, <1>4, <2>2, <3>1
    <3>3. n \in DOMAIN feed' /\ feed'[n].wallet = x /\ feed'[n].status = <<statuses'[x]>>
      BY <1>2, <3>1, <3>2 DEF w
    <3> QED
      BY <3>3
  <2> QED
    BY <2>1, <2>2
<1>12. ThawsSayOneStatus'
  <2>1. ASSUME NEW i \in 1 .. n, NEW x, x = feed'[i].wallet, ThawsOnly(x)', feed'[i].status # <<>>
        PROVE  feed'[i].status = <<statuses'[x]>>
    <3>1. CASE i = n
      BY <1>1, <1>2, <1>3, <1>4, <2>1, <3>1 DEF w
    <3>2. CASE i # n
      <4>1. i \in 1 .. Len(feed) /\ feed'[i] = feed[i] /\ x = feed[i].wallet /\ x \in Holder
        BY <1>2, <1>9, <2>1, <3>2
      <4>2. ThawsOnly(x) /\ statuses[x] # NoAccount
        BY <1>2, <1>7, <2>1, <4>1 DEF FeedInv, LandedOnboarded
      <4>3. statuses'[x] = statuses[x]
        BY <1>8, <2>1, <4>1, <4>2 DEF StatusesStay
      <4> QED
        BY <1>2, <2>1, <4>1, <4>2, <4>3 DEF FeedInv, ThawsSayOneStatus
    <3> QED
      BY <3>1, <3>2
  <2> QED
    BY <1>2, <2>1 DEF ThawsSayOneStatus, ThawsOnly
<1> QED
  BY <1>2, <1>3, <1>8, <1>10, <1>11, <1>12 DEF FeedInv

-----------------------------------------------------------------------------
(* The steps. *)

\* A step that leaves the chain, the rows and the feed as they are.
LEMMA UntouchedKeeps ==
    ASSUME RInv, UNCHANGED <<hvars, rows, feed, read>>,
           request' \in [Requests -> Work], outstanding' \subseteq Change, ConfirmedLanded'
    PROVE  RInv'
<1>1. HInv'
  BY HoldersNextInv DEF RInv
<1>2. RegisterTypeOK'
  BY DEF RInv, RegisterTypeOK
<1>3. UNCHANGED statuses
  BY DEF hvars, held
<1>4. FeedInv'
  BY <1>3 DEF RInv, FeedInv, LandedOnboarded, StatusFromThaw, ThawsSayOneStatus, ThawsOnly
<1>5. AdmittedOnChain' /\ AppliedShows'
  BY <1>3 DEF RInv, AdmittedOnChain, AppliedShows, ThawsOnly, Shows
<1> QED
  BY <1>1, <1>2, <1>4, <1>5 DEF RInv

\* A request turns to other work of its own, and nothing is confirmed.
LEMMA OwnWorkKeeps ==
    ASSUME RInv, NEW r \in Requests, NEW next \in Work, next.stage # "confirmed", Turns(r, next),
           UNCHANGED <<hvars, rows, feed, read>>, outstanding' \subseteq Change
    PROVE  RInv'
<1>1. request' \in [Requests -> Work] /\ ConfirmedLanded'
  BY TurnsKeeps DEF RInv, RegisterTypeOK
<1> QED
  BY <1>1, UntouchedKeeps

\* What a request in one of the stages of a thaw has in hand.
LEMMA StageOfWork ==
    ASSUME RegisterTypeOK, NEW r \in Requests
    PROVE  /\ request[r].stage \in {"thaw", "written", "unwritten"} => request[r] \in Thawing
           /\ request[r].stage = "status" => request[r] \in Setting
           /\ request[r].stage \in {"sent", "confirmed"} => request[r] \in Sending
BY DEF RegisterTypeOK, Work, Idle, Thawing, Setting, Sending

LEMMA OpenThawKeeps ==
    ASSUME RInv, NEW r \in Requests, NEW wallets \in Batches, NEW authority \in Wallet,
           OpenThaw(r, wallets, authority)
    PROVE  RInv'
<1> DEFINE next == [stage |-> "thaw", authority |-> authority, todo |-> wallets]
<1>1. next \in Work /\ next.stage # "confirmed"
  BY RegisterAssumption DEF Work, Thawing, Wallets
<1>2. Turns(r, next) /\ UNCHANGED <<hvars, rows, outstanding, feed, read>>
  BY DEF OpenThaw
<1> HIDE DEF next
<1> QED
  BY <1>1, <1>2, OwnWorkKeeps DEF RInv, RegisterTypeOK

LEMMA AskChainKeeps ==
    ASSUME RInv, NEW r \in Requests, AskChain(r)
    PROVE  RInv'
<1> DEFINE answer == IF statuses[Head(request[r].todo)] = NoAccount THEN "unwritten" ELSE "written"
           next == [request[r] EXCEPT !.stage = answer]
<1>1. request[r] \in Thawing
  BY StageOfWork DEF AskChain, RInv
<1>2. answer \in {"written", "unwritten"}
  OBVIOUS
<1>3. Turns(r, next) /\ UNCHANGED <<hvars, rows, outstanding, feed, read>>
  BY DEF AskChain
<1> HIDE DEF answer
<1>4. next \in Work /\ next.stage # "confirmed"
  BY <1>1, <1>2 DEF Work, Thawing
<1> HIDE DEF next
<1> QED
  BY <1>3, <1>4, OwnWorkKeeps DEF RInv, RegisterTypeOK

LEMMA AskRowKeeps ==
    ASSUME RInv, NEW r \in Requests, AskRow(r)
    PROVE  RInv'
<1> DEFINE written == request[r].stage = "written"
           plan == Thaw(Head(request[r].todo), written, request[r].authority)
<1>1. request[r] \in Thawing
  BY StageOfWork DEF AskRow, RInv
<1>2. Rest(r) \in Work /\ Rest(r).stage # "confirmed" /\ request[r].todo \in Wallets
  BY <1>1, RestIsWork DEF Thawing
<1>3. Head(request[r].todo) \in Holder /\ request[r].authority \in Wallet
  BY <1>1, HeadTailProperties DEF Thawing, Wallets
<1>4. plan \subseteq Change
  BY <1>3, ThawIsChange DEF RInv
<1>5. /\ (Turns(r, Rest(r)) /\ UNCHANGED outstanding) \/ \E tx \in plan : Sends(r, tx)
      /\ UNCHANGED <<hvars, rows, feed, read>>
  BY DEF AskRow
<1> HIDE DEF plan
<1>6. CASE Turns(r, Rest(r)) /\ UNCHANGED outstanding
  BY <1>2, <1>5, <1>6, OwnWorkKeeps DEF RInv, RegisterTypeOK
<1>7. CASE \E tx \in plan : Sends(r, tx)
  <2>1. PICK tx \in Change : Sends(r, tx)
    BY <1>4, <1>7
  <2>2. request' \in [Requests -> Work] /\ ConfirmedLanded' /\ outstanding' \subseteq Change
    BY <1>2, <1>5, <2>1, SendsKeeps DEF RInv
  <2> QED
    BY <1>5, <2>2, UntouchedKeeps
<1> QED
  BY <1>5, <1>6, <1>7

LEMMA OpenStatusKeeps ==
    ASSUME RInv, NEW r \in Requests, NEW w \in Holder, NEW status \in Statuses,
           OpenStatus(r, w, status)
    PROVE  RInv'
<1> DEFINE next == [stage |-> "status", todo |-> <<w>>, status |-> status]
<1>1. next \in Work /\ next.stage # "confirmed"
  BY DEF Work, Setting
<1>2. Turns(r, next) /\ UNCHANGED <<hvars, rows, outstanding, feed, read>>
  BY DEF OpenStatus
<1> HIDE DEF next
<1> QED
  BY <1>1, <1>2, OwnWorkKeeps DEF RInv, RegisterTypeOK

\* The one wallet of a status request is all of its list, so nothing follows it.
LEMMA SendStatusKeeps ==
    ASSUME RInv, NEW r \in Requests, NEW authority \in Wallet, SendStatus(r, authority)
    PROVE  RInv'
<1>1. request[r] \in Setting
  BY StageOfWork DEF SendStatus, RInv
<1>2. PICK w \in Holder : request[r].todo = <<w>>
  BY <1>1 DEF Setting
<1>3. request[r].todo \in Wallets /\ request[r].status \in Statuses
  BY <1>1, <1>2 DEF Setting, Wallets
<1>4. Rest(r) = Idle
  BY <1>2 DEF Rest
<1> DEFINE tx == [kind |-> "status", wallet |-> request[r].todo[1],
                  status |-> <<request[r].status>>, authority |-> authority]
<1>5. tx \in Change
  BY <1>2, <1>3 DEF Change, Carried
<1>6. Sends(r, tx) /\ UNCHANGED <<hvars, rows, feed, read>>
  BY DEF SendStatus
<1> HIDE DEF tx
<1>7. Rest(r) \in Work /\ Rest(r).stage # "confirmed"
  BY <1>4 DEF Work, Idle
<1>8. request' \in [Requests -> Work] /\ ConfirmedLanded' /\ outstanding' \subseteq Change
  BY <1>3, <1>5, <1>6, <1>7, SendsKeeps DEF RInv
<1> QED
  BY <1>6, <1>8, UntouchedKeeps

\* What was sent may be lost sight of, refused, or lost with the whole request.
LEMMA SentKeeps ==
    ASSUME RInv, NEW r \in Requests, LoseSight(r) \/ Fail(r) \/ Break(r)
    PROVE  RInv'
<1>1. Idle \in Work /\ Idle.stage # "confirmed"
  BY DEF Work, Idle
<1>2. request[r].stage = "sent" => /\ Rest(r) \in Work /\ Rest(r).stage # "confirmed"
                                   /\ request[r].tx \in Change
  BY StageOfWork, RestIsWork DEF RInv, Sending
<1>3. /\ UNCHANGED <<hvars, rows, feed, read>>
      /\ UNCHANGED outstanding
           \/ (request[r].stage = "sent" /\ outstanding' = outstanding \cup {request[r].tx})
      /\ Turns(r, Idle) \/ (request[r].stage = "sent" /\ Turns(r, Rest(r)))
  BY DEF LoseSight, Fail, Break
<1>4. outstanding' \subseteq Change
  BY <1>2, <1>3 DEF RInv, RegisterTypeOK
<1>5. PICK next \in {Idle, Rest(r)} : Turns(r, next) /\ next \in Work /\ next.stage # "confirmed"
  BY <1>1, <1>2, <1>3
<1> QED
  BY <1>3, <1>4, <1>5, OwnWorkKeeps

-----------------------------------------------------------------------------
\* A transaction lands while the rows stay as they are.
LEMMA LandedKeeps ==
    ASSUME RInv, NEW tx \in Change, Lands(tx), UNCHANGED <<rows, read>>,
           request' \in [Requests -> Work], outstanding' \subseteq Change, ConfirmedLanded'
    PROVE  RInv'
<1>1. feed \in Seq(Change) /\ read \in 0 .. Len(feed) /\ rows \in [Holder -> Row \cup {NoAccount}]
  BY DEF RInv, RegisterTypeOK
<1>2. /\ HInv' /\ FeedInv' /\ StatusesStay
      /\ feed' \in Seq(Change) /\ Len(feed') = Len(feed) + 1
  BY <1>1, LandsKeeps DEF RInv
<1>3. RegisterTypeOK'
  BY <1>1, <1>2 DEF RegisterTypeOK
<1>4. AdmittedOnChain'
  BY <1>2 DEF RInv, AdmittedOnChain, StatusesStay
<1>5. AppliedShows'
  <2> SUFFICES ASSUME NEW i \in 1 .. read, NEW w, w = feed'[i].wallet, ThawsOnly(w)',
                      feed'[i].status # <<>>
               PROVE  Shows(w)'
    BY DEF AppliedShows, ThawsOnly, Shows
  <2>1. i \in DOMAIN feed /\ feed'[i] = feed[i] /\ feed[i] \in Change
    BY <1>1, <1>2 DEF StatusesStay
  <2>2. w \in Holder /\ ThawsOnly(w)
    BY <1>2, <2>1 DEF StatusesStay, Change
  <2>3. Shows(w) /\ statuses[w] # NoAccount
    BY <2>1, <2>2 DEF RInv, AppliedShows, FeedInv, LandedOnboarded
  <2>4. statuses'[w] = statuses[w]
    BY <1>2, <2>2, <2>3 DEF StatusesStay
  <2> QED
    BY <2>3, <2>4 DEF Shows
<1> QED
  BY <1>2, <1>3, <1>4, <1>5 DEF RInv

LEMMA ConfirmKeeps ==
    ASSUME RInv, NEW r \in Requests, Confirm(r)
    PROVE  RInv'
<1> DEFINE tx == request[r].tx
           next == [request[r] EXCEPT !.stage = "confirmed"]
<1>1. request[r] \in Sending
  BY StageOfWork DEF Confirm, RInv
<1>2. tx \in Change /\ next \in Work /\ next.tx = tx
  BY <1>1 DEF Sending, Work
<1>3. Lands(tx) /\ Turns(r, next) /\ UNCHANGED <<rows, outstanding, read>>
  BY DEF Confirm
<1> HIDE DEF tx, next
<1>4. /\ feed' \in Seq(Change) /\ Len(feed') = Len(feed) + 1 /\ feed'[Len(feed) + 1] = tx
      /\ StatusesStay
  BY <1>2, <1>3, LandsKeeps DEF RInv, RegisterTypeOK
<1>5. \E i \in DOMAIN feed' : feed'[i] = next.tx
  <2>1. Len(feed) + 1 \in DOMAIN feed'
    BY <1>4 DEF RInv, RegisterTypeOK
  <2> QED
    BY <1>2, <1>4, <2>1
<1>6. request' \in [Requests -> Work] /\ ConfirmedLanded'
  BY <1>2, <1>3, <1>4, <1>5, TurnsKeeps DEF RInv, RegisterTypeOK, StatusesStay
<1> QED
  BY <1>2, <1>3, <1>6, LandedKeeps DEF RInv, RegisterTypeOK

LEMMA LandLateKeeps ==
    ASSUME RInv, NEW tx \in outstanding, LandLate(tx)
    PROVE  RInv'
<1>1. tx \in Change /\ outstanding' \subseteq Change
  BY DEF LandLate, RInv, RegisterTypeOK
<1>2. Lands(tx) /\ UNCHANGED <<rows, request, read>>
  BY DEF LandLate
<1>3. StatusesStay
  BY <1>1, <1>2, LandsKeeps DEF RInv, RegisterTypeOK
<1>4. request' \in [Requests -> Work] /\ ConfirmedLanded'
  BY <1>2, <1>3 DEF RInv, RegisterTypeOK, ConfirmedLanded, StatusesStay
<1> QED
  BY <1>1, <1>2, <1>4, LandedKeeps

-----------------------------------------------------------------------------
(* Writing a row. *)

\* A row marked with a transaction: out of the queue after a thaw, with the status
\* the transaction carried if it did.
LEMMA MarkedIs ==
    ASSUME NEW row \in Row, NEW tx \in Change
    PROVE  /\ Marked(row, tx) \in Row
           /\ Marked(row, tx).status = IF tx.status = <<>> THEN row.status ELSE tx.status
           /\ Marked(row, tx).state = IF tx.kind = "thaw" THEN "thawed" ELSE row.state
<1>1. tx.status \in Carried
  BY DEF Change
<1> QED
  BY <1>1 DEF Marked, Row

\* A row marked with a transaction that has landed still tells what it told, and
\* after a thaw of its holder, none but thaws having landed, tells the chain's status.
LEMMA MarkedShows ==
    ASSUME RInv, NEW i \in DOMAIN feed, NEW w \in Holder, feed[i].wallet = w, rows[w] \in Row,
           NEW row, row = Marked(rows[w], feed[i])
    PROVE  /\ statuses[w] # NoAccount
           /\ row \in Row
           /\ ThawsOnly(w) /\ (Shows(w) \/ feed[i].status # <<>>) =>
                row.state = "thawed" /\ row.status = <<statuses[w]>>
<1>1. feed[i] \in Change
  BY DEF RInv, RegisterTypeOK
<1>2. statuses[w] # NoAccount
  BY DEF RInv, FeedInv, LandedOnboarded
<1>3. ThawsOnly(w) => feed[i].kind = "thaw"
  BY DEF ThawsOnly
<1>4. ThawsOnly(w) /\ feed[i].status # <<>> => feed[i].status = <<statuses[w]>>
  BY DEF RInv, FeedInv, ThawsSayOneStatus
<1> QED
  BY <1>1, <1>2, <1>3, <1>4, MarkedIs DEF Shows

\* A row is written: nobody is admitted who was not onboarded, what was applied stays
\* to be seen, and what is applied now is.
LEMMA WritesKeep ==
    ASSUME RInv, NEW w \in Holder, NEW row \in Row \cup {NoAccount},
           rows' = [rows EXCEPT ![w] = row], UNCHANGED <<hvars, feed, outstanding>>,
           request' \in [Requests -> Work], ConfirmedLanded', read' \in 0 .. Len(feed),
           row # NoAccount /\ row.state = "thawed" => statuses[w] # NoAccount,
           ThawsOnly(w) /\ Shows(w) =>
             row # NoAccount /\ row.state = "thawed" /\ row.status = <<statuses[w]>>,
           \A i \in 1 .. read' :
             i \in 1 .. read \/
             (/\ i \in DOMAIN feed /\ feed[i].wallet = w
              /\ ThawsOnly(w) /\ feed[i].status # <<>> =>
                   row # NoAccount /\ row.state = "thawed" /\ row.status = <<statuses[w]>>)
    PROVE  RInv'
<1>1. HInv'
  BY HoldersNextInv DEF RInv
<1>2. UNCHANGED statuses
  BY DEF hvars, held
<1>3. rows \in [Holder -> Row \cup {NoAccount}] /\ rows' \in [Holder -> Row \cup {NoAccount}]
  BY DEF RInv, RegisterTypeOK
<1>4. RegisterTypeOK'
  BY <1>3 DEF RInv, RegisterTypeOK
<1>5. FeedInv'
  BY <1>2 DEF RInv, FeedInv, LandedOnboarded, StatusFromThaw, ThawsSayOneStatus, ThawsOnly
<1>6. AdmittedOnChain'
  BY <1>2, <1>3 DEF RInv, AdmittedOnChain
<1>7. AppliedShows'
  <2> SUFFICES ASSUME NEW i \in 1 .. read', NEW x, x = feed[i].wallet, ThawsOnly(x),
                      feed[i].status # <<>>
               PROVE  Shows(x)'
    BY DEF AppliedShows, ThawsOnly, Shows
  <2>1. CASE x = w
    <3>1. row # NoAccount /\ row.state = "thawed" /\ row.status = <<statuses[w]>>
      BY <2>1 DEF RInv, AppliedShows
    <3> QED
      BY <1>2, <1>3, <2>1, <3>1 DEF Shows
  <2>2. CASE x # w
    <3>1. i \in 1 .. read
      BY <2>2
    <3>2. i \in DOMAIN feed /\ feed \in Seq(Change)
      BY <3>1 DEF RInv, RegisterTypeOK
    <3>3. x \in Holder
      BY <3>2 DEF Change
    <3>4. Shows(x)
      BY <3>1 DEF RInv, AppliedShows
    <3> QED
      BY <1>2, <1>3, <2>2, <3>3, <3>4 DEF Shows
  <2> QED
    BY <2>1, <2>2
<1> QED
  BY <1>1, <1>4, <1>5, <1>6, <1>7 DEF RInv

\* An application: a row beyond the queue is not touched.
LEMMA EnqueueKeeps ==
    ASSUME RInv, NEW w \in Holder, NEW status \in Statuses, Enqueue(w, status)
    PROVE  RInv'
<1> DEFINE row == Enqueued(w, status)
<1>1. rows[w] \in Row \cup {NoAccount}
  BY DEF RInv, RegisterTypeOK
<1>2. /\ row \in Row \cup {NoAccount}
      /\ row.state = "thawed" => row = rows[w]
      /\ rows[w] # NoAccount /\ rows[w].state = "thawed" => row = rows[w]
  BY <1>1 DEF Enqueued, Row, Carried
<1>3. rows' = [rows EXCEPT ![w] = row]
      /\ UNCHANGED <<hvars, request, outstanding, feed, read>>
  BY DEF Enqueue
<1> HIDE DEF row
<1>4. ConfirmedLanded' /\ request' \in [Requests -> Work] /\ read' \in 0 .. Len(feed)
  BY <1>3 DEF RInv, RegisterTypeOK, ConfirmedLanded
<1>5. row # NoAccount /\ row.state = "thawed" => statuses[w] # NoAccount
  BY <1>2 DEF RInv, AdmittedOnChain
<1>6. Shows(w) => row # NoAccount /\ row.state = "thawed" /\ row.status = <<statuses[w]>>
  BY <1>2 DEF Shows
<1>7. read' = read
  BY <1>3
<1> QED
  BY <1>2, <1>3, <1>4, <1>5, <1>6, <1>7, WritesKeep

\* A request writes what it has seen confirmed.
LEMMA MarkKeeps ==
    ASSUME RInv, NEW r \in Requests, Mark(r)
    PROVE  RInv'
<1> DEFINE tx == request[r].tx
           w == tx.wallet
           row == IF rows[w] = NoAccount THEN NoAccount ELSE Marked(rows[w], tx)
<1>1. request[r].stage = "confirmed" /\ request[r] \in Sending
  BY StageOfWork DEF Mark, Markable, RInv
<1>2. tx \in Change /\ w \in Holder
  BY <1>1 DEF Sending, Change
<1>3. PICK i \in DOMAIN feed : feed[i] = tx
  BY <1>1 DEF RInv, ConfirmedLanded
<1>4. rows[w] \in Row \cup {NoAccount}
  BY <1>2 DEF RInv, RegisterTypeOK
<1>5. /\ rows' = [rows EXCEPT ![w] = row] /\ Turns(r, Rest(r))
      /\ UNCHANGED <<hvars, outstanding, feed, read>>
  BY DEF Mark
<1>6. row \in Row \cup {NoAccount} /\ statuses[w] # NoAccount
  <2>1. CASE rows[w] = NoAccount
    BY <1>3, <2>1 DEF RInv, FeedInv, LandedOnboarded
  <2>2. CASE rows[w] # NoAccount
    <3>1. rows[w] \in Row /\ row = Marked(rows[w], feed[i])
      BY <1>3, <1>4, <2>2
    <3> HIDE DEF row
    <3> QED
      BY <1>2, <1>3, <3>1, MarkedShows
  <2> QED
    BY <2>1, <2>2
<1>7. ThawsOnly(w) /\ Shows(w) =>
        row # NoAccount /\ row.state = "thawed" /\ row.status = <<statuses[w]>>
  <2> SUFFICES ASSUME ThawsOnly(w), Shows(w)
               PROVE  row # NoAccount /\ row.state = "thawed" /\ row.status = <<statuses[w]>>
    OBVIOUS
  <2>1. rows[w] \in Row /\ row = Marked(rows[w], feed[i])
    BY <1>3, <1>4 DEF Shows
  <2> HIDE DEF row
  <2>2. row \in Row /\ row.state = "thawed" /\ row.status = <<statuses[w]>>
    BY <1>2, <1>3, <2>1, MarkedShows
  <2> QED
    BY <2>2, RegisterAssumption
<1>8. Rest(r) \in Work /\ Rest(r).stage # "confirmed"
  BY <1>1, RestIsWork
<1>9. request' \in [Requests -> Work] /\ ConfirmedLanded'
  BY <1>5, <1>8, TurnsKeeps DEF RInv, RegisterTypeOK
<1>10. read' = read /\ read' \in 0 .. Len(feed)
  BY <1>5 DEF RInv, RegisterTypeOK
<1> HIDE DEF tx, w, row
<1> QED
  BY <1>2, <1>5, <1>6, <1>7, <1>9, <1>10, WritesKeep

\* The worker writes what it has read.
LEMMA ApplyKeeps ==
    ASSUME RInv, Apply
    PROVE  RInv'
<1> DEFINE c == feed[read + 1]
           w == c.wallet
           marked == IF rows[w] = NoAccount THEN [state |-> "thawed", status |-> c.status]
                     ELSE Marked(rows[w], c)
           row == IF c.kind = "status" /\ rows[w] = NoAccount THEN rows[w] ELSE marked
<1>1. /\ rows' = [rows EXCEPT ![w] = row] /\ read' = read + 1 /\ read < Len(feed)
      /\ UNCHANGED <<hvars, request, outstanding, feed>>
  BY DEF Apply
<1>2. read \in Nat /\ read + 1 \in DOMAIN feed /\ read' \in 0 .. Len(feed)
  BY <1>1 DEF RInv, RegisterTypeOK
<1>3. c \in Change /\ w \in Holder
  BY <1>2 DEF RInv, RegisterTypeOK, Change
<1>4. rows[w] \in Row \cup {NoAccount}
  BY <1>3 DEF RInv, RegisterTypeOK
<1>5. statuses[w] # NoAccount
  BY <1>2 DEF RInv, FeedInv, LandedOnboarded
<1>6. ThawsOnly(w) /\ c.status # <<>> => c.kind = "thaw" /\ c.status = <<statuses[w]>>
  BY <1>2 DEF RInv, FeedInv, ThawsSayOneStatus, ThawsOnly
<1>7. /\ row \in Row \cup {NoAccount}
      /\ ThawsOnly(w) /\ (Shows(w) \/ c.status # <<>>) =>
           row # NoAccount /\ row.state = "thawed" /\ row.status = <<statuses[w]>>
  <2>1. CASE rows[w] = NoAccount
    <3>1. [state |-> "thawed", status |-> c.status] \in Row
      BY <1>3 DEF Row, Change
    <3> QED
      BY <1>6, <2>1, <3>1, RegisterAssumption DEF Shows
  <2>2. CASE rows[w] # NoAccount
    <3>1. rows[w] \in Row /\ row = Marked(rows[w], feed[read + 1])
      BY <1>4, <2>2
    <3> HIDE DEF row
    <3>2. /\ row \in Row
          /\ ThawsOnly(w) /\ (Shows(w) \/ feed[read + 1].status # <<>>) =>
               row.state = "thawed" /\ row.status = <<statuses[w]>>
      BY <1>2, <1>3, <3>1, MarkedShows
    <3> QED
      BY <3>2, RegisterAssumption
  <2> QED
    BY <2>1, <2>2
<1>8. ConfirmedLanded' /\ request' \in [Requests -> Work]
  BY <1>1 DEF RInv, RegisterTypeOK, ConfirmedLanded
<1>9. \A i \in 1 .. read' : i \in 1 .. read \/ (i \in DOMAIN feed /\ feed[i] = c)
  BY <1>1, <1>2
<1> HIDE DEF c, row
<1> QED
  BY <1>1, <1>2, <1>3, <1>5, <1>7, <1>8, <1>9, WritesKeep

\* The members govern, and an officer freezes or lifts a freeze.
LEMMA ElsewhereKeeps ==
    ASSUME RInv, Govern \/ NextFreeze, UNCHANGED registerVars
    PROVE  RInv'
<1>1. HInv'
  BY HoldersNextInv DEF RInv, HoldersNext
<1>2. UNCHANGED statuses
  BY DEF Govern, held, NextFreeze, FreezeHolder, UnfreezeHolder
<1>3. RegisterTypeOK' /\ ConfirmedLanded'
  BY DEF RInv, RegisterTypeOK, ConfirmedLanded, registerVars
<1>4. FeedInv'
  BY <1>2 DEF RInv, FeedInv, LandedOnboarded, StatusFromThaw, ThawsSayOneStatus, ThawsOnly,
              registerVars
<1>5. AdmittedOnChain' /\ AppliedShows'
  BY <1>2 DEF RInv, AdmittedOnChain, AppliedShows, ThawsOnly, Shows, registerVars
<1> QED
  BY <1>1, <1>3, <1>4, <1>5 DEF RInv

-----------------------------------------------------------------------------
LEMMA RegisterInitInv ==
    ASSUME RegisterInit
    PROVE  RInv
<1>1. HInv
  BY HoldersInitInv DEF RegisterInit
<1>2. RegisterTypeOK
  BY DEF RegisterInit, RegisterTypeOK, Work
<1>3. ConfirmedLanded
  BY DEF RegisterInit, ConfirmedLanded, Idle
<1>4. AdmittedOnChain /\ AppliedShows
  BY DEF RegisterInit, AdmittedOnChain, AppliedShows
<1>5. FeedInv
  BY HolderIsWallet
     DEF RegisterInit, HoldersInit, FeedInv, LandedOnboarded, StatusFromThaw, ThawsSayOneStatus
<1> QED
  BY <1>1, <1>2, <1>3, <1>4, <1>5 DEF RInv

LEMMA RegisterNextInv ==
    ASSUME RInv, [RegisterNext]_rvars
    PROVE  RInv'
<1>1. CASE \E w \in Holder, status \in {s \in Statuses : ~s.denied} : Enqueue(w, status)
  BY <1>1, EnqueueKeeps
<1>2. ASSUME NEW r \in Requests, Act(r)
      PROVE  RInv'
  BY <1>2, OpenThawKeeps, AskChainKeeps, AskRowKeeps, OpenStatusKeeps, SendStatusKeeps,
     ConfirmKeeps, SentKeeps, MarkKeeps DEF Act
<1>3. CASE \E tx \in outstanding : LandLate(tx)
  BY <1>3, LandLateKeeps
<1>4. CASE Apply
  BY <1>4, ApplyKeeps
<1>5. CASE (Govern \/ NextFreeze) /\ UNCHANGED registerVars
  BY <1>5, ElsewhereKeeps
<1>6. CASE UNCHANGED rvars
  <2>1. UNCHANGED <<hvars, rows, feed, read, request, outstanding>>
    BY <1>6 DEF rvars, registerVars
  <2>2. request' \in [Requests -> Work] /\ outstanding' \subseteq Change /\ ConfirmedLanded'
    BY <2>1 DEF RInv, RegisterTypeOK, ConfirmedLanded
  <2> QED
    BY <2>1, <2>2, UntouchedKeeps
<1> QED
  BY <1>1, <1>2, <1>3, <1>4, <1>5, <1>6 DEF RegisterNext

THEOREM RegisterInvariance == RegisterSpec => []RInv
<1>1. RegisterInit => RInv
  BY RegisterInitInv
<1>2. RInv /\ [RegisterNext]_rvars => RInv'
  BY RegisterNextInv
<1> QED
  BY <1>1, <1>2, PTL DEF RegisterSpec

\* Nobody is admitted on paper: a row out of the queue is of a holder the chain has
\* onboarded, however requests, retries, members and the worker cross (FR-008b2).
THEOREM RowsAdmitOnChain == RegisterSpec => []AdmittedOnChain
<1>1. RInv => AdmittedOnChain
  BY DEF RInv
<1> QED
  BY <1>1, RegisterInvariance, PTL

\* The queue settles: when the worker has read all there is, a holder whose status
\* came with a thaw and was not set since is out of the queue with that status.
THEOREM QueueSettles == RegisterSpec => []ThawsSettle
<1>1. RInv => ThawsSettle
  <2> SUFFICES ASSUME RInv, read = Len(feed), NEW w \in Holder,
                      statuses[w] # NoAccount, ThawsOnly(w)
               PROVE  Shows(w)
    BY DEF ThawsSettle, ThawsOnly, Shows
  <2>1. PICK i \in DOMAIN feed : feed[i].wallet = w /\ feed[i].status = <<statuses[w]>>
    BY DEF RInv, FeedInv, StatusFromThaw
  <2>2. i \in 1 .. read /\ feed[i].status # <<>>
    BY <2>1 DEF RInv, RegisterTypeOK
  <2> QED
    BY <2>1, <2>2 DEF RInv, AppliedShows
<1> QED
  BY <1>1, RegisterInvariance, PTL
=============================================================================
