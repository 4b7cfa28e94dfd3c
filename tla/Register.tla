------------------------------ MODULE Register ------------------------------
(***************************************************************************)
(* The register of holders a company works with: the API's queue and its   *)
(* routes (apps/api holders.ts, routes/holders.ts), which send thaws and   *)
(* statuses to the program of Holders and write the holder's row once they *)
(* are confirmed, and the worker, which writes the same rows from the      *)
(* transactions it reads (indexer/apply.ts).                               *)
(*                                                                         *)
(* A request reads the chain, reads the row, sends, waits and writes, with *)
(* other requests and the worker in between.  Where the platform's key may *)
(* not sign, the transaction is handed to a member, who may sign it later. *)
(***************************************************************************)
EXTENDS Holders

CONSTANTS
    Requests,    \* the requests at work at one time
    Platform,    \* the API's operational key
    AtaOf,       \* the token account a wallet's thaw is of
    Batches,     \* bound: the lists of wallets thawed by one request
    MaxRequests, \* bound: how many requests are ever made
    MaxFeed      \* bound: how many transactions about holders ever land

\* A row may carry no status, and so may a transaction.
Carried == {<<>>} \cup {<<status>> : status \in Statuses}
Row == [state : {"pending", "thawed"}, status : Carried]

ASSUME RegisterAssumption ==
    /\ Platform \in Wallet
    /\ \A w \in Holder : AtaOf[w] \in Account /\ OwnerOf[AtaOf[w]] = w
    /\ Batches \subseteq Seq(Holder) \ {<<>>}
    /\ NoAccount \notin Row

VARIABLES
    rows,    \* the holders table, by wallet
    request, \* what each request is about
    outstanding, \* transactions in members' hands or lost sight of, which may yet land
    feed,    \* what landed, in order, as the worker will read it
    read,    \* how much of it the worker has applied
    made     \* how many requests there have been

registerVars == <<rows, request, outstanding, feed, read, made>>
rvars == <<hvars, registerVars>>

Idle == [stage |-> "idle"]

-----------------------------------------------------------------------------
\* Which key the API may sign with, and who may be asked to sign instead.
SigningPath(power) ==
    {k \in {Platform} : delegation.key = k /\ power \in delegation.mask}
      \cup Authorising(members)

\* A slip of Enqueued: an account beyond the queue is put back into it.
EnqueuedAnyway(w, status) == [state |-> "pending", status |-> <<status>>]

\* The row an application leaves: an account beyond the queue is not touched.
Enqueued(w, status) ==
    IF rows[w] = NoAccount THEN [state |-> "pending", status |-> <<status>>]
    ELSE IF rows[w].state = "pending" THEN [rows[w] EXCEPT !.status = <<status>>]
    ELSE rows[w]

\* Whether a thaw carries the status is the chain's to say, which status the row's.
\* Nothing where it is refused.
Thaw(w, written, authority) ==
    IF written THEN {[kind |-> "thaw", wallet |-> w, status |-> <<>>, authority |-> authority]}
    ELSE {[kind |-> "thaw", wallet |-> w, status |-> row.status, authority |-> authority] :
            row \in {x \in {rows[w]} \ {NoAccount} : x.status # <<>>}}

-----------------------------------------------------------------------------
RegisterInit ==
    /\ HoldersInit
    /\ rows = [w \in Holder |-> NoAccount]
    /\ request = [r \in Requests |-> Idle]
    /\ outstanding = {} /\ feed = <<>> /\ read = 0 /\ made = 0

Turns(r, next) == request' = [request EXCEPT ![r] = next]

\* The rest of a batch, each wallet from the beginning; or the response.
Rest(r) ==
    IF Len(request[r].todo) > 1
    THEN [stage |-> "thaw", authority |-> request[r].authority, todo |-> Tail(request[r].todo)]
    ELSE Idle

Opens(r) ==
    /\ request[r] = Idle
    /\ made < MaxRequests /\ made' = made + 1

\* POST holders: an application is accepted.
Enqueue(w, status) ==
    /\ rows' = [rows EXCEPT ![w] = Enqueued(w, status)]
    /\ UNCHANGED <<hvars, request, outstanding, feed, read, made>>

\* POST thaw, of one wallet or a batch: who signs is decided once.
OpenThaw(r, wallets, authority) ==
    /\ Opens(r)
    /\ authority \in SigningPath("thaw_holder")
    /\ Turns(r, [stage |-> "thaw", authority |-> authority, todo |-> wallets])
    /\ UNCHANGED <<hvars, rows, outstanding, feed, read>>

\* holderStatusWritten, then the row, and with them the plan.
AskChain(r) ==
    /\ request[r].stage = "thaw"
    /\ Turns(r, [request[r] EXCEPT !.stage = IF statuses[Head(request[r].todo)] = NoAccount
                                             THEN "unwritten" ELSE "written"])
    /\ UNCHANGED <<hvars, rows, outstanding, feed, read, made>>

Sends(r, tx) ==
    IF tx.authority = Platform
    THEN /\ Turns(r, [stage |-> "sent", tx |-> tx, todo |-> request[r].todo,
                      authority |-> tx.authority])
         /\ UNCHANGED outstanding
    ELSE /\ Turns(r, Rest(r))
         /\ outstanding' = outstanding \cup {tx}

AskRow(r) ==
    /\ request[r].stage \in {"written", "unwritten"}
    /\ LET plan == Thaw(Head(request[r].todo), request[r].stage = "written",
                        request[r].authority)
       IN  IF plan = {} THEN Turns(r, Rest(r)) /\ UNCHANGED outstanding
           ELSE \E tx \in plan : Sends(r, tx)
    /\ UNCHANGED <<hvars, rows, feed, read, made>>

\* POST status: not before the chain has one, and then who signs.
OpenStatus(r, w, status) ==
    /\ Opens(r)
    /\ statuses[w] # NoAccount
    /\ Turns(r, [stage |-> "status", todo |-> <<w>>, status |-> status])
    /\ UNCHANGED <<hvars, rows, outstanding, feed, read>>

SendStatus(r, authority) ==
    /\ request[r].stage = "status"
    /\ authority \in SigningPath("set_holder_status")
    /\ Sends(r, [kind |-> "status", wallet |-> request[r].todo[1],
                 status |-> <<request[r].status>>, authority |-> authority])
    /\ UNCHANGED <<hvars, rows, feed, read, made>>

-----------------------------------------------------------------------------
\* The program's part.
Executes(tx) ==
    CASE tx.kind = "status" -> SetHolderStatus(tx.wallet, tx.authority, tx.status[1])
      [] tx.kind = "thaw" /\ tx.status # <<>> ->
           ThawNewHolder(AtaOf[tx.wallet], tx.authority, tx.status[1])
      [] tx.kind = "thaw" /\ tx.status = <<>> ->
           ThawKnownHolder(AtaOf[tx.wallet], tx.authority)

Lands(tx) ==
    /\ Executes(tx)
    /\ Len(feed) < MaxFeed
    /\ feed' = Append(feed, tx)

\* submit: signed by the platform's key, sent and confirmed,
Confirm(r) ==
    /\ request[r].stage = "sent"
    /\ Lands(request[r].tx)
    /\ Turns(r, [request[r] EXCEPT !.stage = "confirmed"])
    /\ UNCHANGED <<rows, outstanding, read, made>>

\* or lost sight of, with what is left of the batch if the confirmation is lost and not
\* the sending,
LoseSight(r) ==
    /\ request[r].stage = "sent"
    /\ outstanding' = outstanding \cup {request[r].tx}
    /\ \E next \in {Rest(r), Idle} : Turns(r, next)
    /\ UNCHANGED <<hvars, rows, feed, read, made>>

\* or refused: the batch goes on.
Fail(r) ==
    /\ request[r].stage = "sent"
    /\ Turns(r, Rest(r))
    /\ UNCHANGED <<hvars, rows, outstanding, feed, read, made>>

\* The process stops, or the database does: the rest of the request is lost, what it
\* sent stays sent.
Break(r) ==
    /\ request[r] # Idle
    /\ Turns(r, Idle)
    /\ UNCHANGED <<hvars, rows, outstanding, feed, read, made>>

\* A slip of Markable: the row is written while the transaction is under way.
MarkableEarly(r) == request[r].stage \in {"sent", "confirmed"}

\* The row is written once the transaction is confirmed.
Markable(r) == request[r].stage = "confirmed"

\* markThawed and saveStatus: updates, of a row that is there.
Marked(row, tx) ==
    LET carried == IF tx.status = <<>> THEN row ELSE [row EXCEPT !.status = tx.status]
    IN  IF tx.kind = "thaw" THEN [carried EXCEPT !.state = "thawed"] ELSE carried

Mark(r) ==
    /\ Markable(r)
    /\ LET w == request[r].tx.wallet
       IN  rows' = [rows EXCEPT ![w] = IF @ = NoAccount THEN @ ELSE Marked(@, request[r].tx)]
    /\ Turns(r, Rest(r))
    /\ UNCHANGED <<hvars, outstanding, feed, read, made>>

\* A member signs what they were handed, or what was lost sight of lands; or never.
LandLate(tx) ==
    /\ tx \in outstanding
    /\ outstanding' = outstanding \ {tx}
    /\ Lands(tx)
    /\ UNCHANGED <<rows, request, read, made>>

\* The worker applies the next transaction.
Apply ==
    /\ read < Len(feed)
    /\ LET c == feed[read + 1]
           row == IF rows[c.wallet] = NoAccount
                  THEN [state |-> "thawed", status |-> c.status]
                  ELSE Marked(rows[c.wallet], c)
       IN  rows' = [rows EXCEPT ![c.wallet] =
             IF c.kind = "status" /\ @ = NoAccount THEN @ ELSE row]
    /\ read' = read + 1
    /\ UNCHANGED <<hvars, request, outstanding, feed, made>>

-----------------------------------------------------------------------------
Act(r) ==
    \/ \E wallets \in Batches, authority \in Wallet : OpenThaw(r, wallets, authority)
    \/ AskChain(r) \/ AskRow(r)
    \/ \E w \in Holder, status \in Statuses : OpenStatus(r, w, status)
    \/ \E authority \in Wallet : SendStatus(r, authority)
    \/ Confirm(r) \/ LoseSight(r) \/ Fail(r) \/ Break(r)
    \/ Mark(r)

RegisterNext ==
    \/ \E w \in Holder, status \in {s \in Statuses : ~s.denied} : Enqueue(w, status)
    \/ \E r \in Requests : Act(r)
    \/ \E tx \in outstanding : LandLate(tx)
    \/ Apply
    \/ (Govern \/ NextFreeze) /\ UNCHANGED registerVars

RegisterSpec == RegisterInit /\ [][RegisterNext]_rvars

-----------------------------------------------------------------------------
(* Properties *)

\* A row says "thawed" only of a holder the chain has onboarded: neither a request
\* that fails, nor one that is overtaken, nor the worker admits anybody on paper
\* (FR-008b2).
AdmittedOnChain ==
    \A w \in Holder :
      rows[w] # NoAccount /\ rows[w].state = "thawed" => statuses[w] # NoAccount

\* Once the worker has read everything, a holder whose status came with a thaw, and
\* was not set since, is out of the queue with just that status: whoever applied,
\* retried, signed late or was lost sight of, and however requests crossed.
ThawsSettle ==
    read = Len(feed) =>
      \A w \in Holder :
        /\ statuses[w] # NoAccount
        /\ \A i \in DOMAIN feed : feed[i].wallet = w => feed[i].kind = "thaw"
        => /\ rows[w] # NoAccount
           /\ rows[w].state = "thawed" /\ rows[w].status = <<statuses[w]>>
=============================================================================
