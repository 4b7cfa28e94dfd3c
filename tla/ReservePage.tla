----------------------------- MODULE ReservePage -----------------------------
(***************************************************************************)
(* The public page of a token (reserve.ts, routes/public.ts): its supply   *)
(* against the reserve, for readers who do not log in, from two reads of   *)
(* the chain.  No state of its own: every definition reads the state of    *)
(* Ledger.  The answer's cache, names and the currency are left out.       *)
(***************************************************************************)
EXTENDS Ledger

\* createReserveReader: the terms, and the record the token counted last.
ReadTerms ==
    [attestor |-> terms.attestor, maxAge |-> terms.maxAge,
     count |-> Len(reserves),
     latest |-> {[index |-> i, amount |-> reserves[i].amount,
                  attestor |-> reserves[i].attestor,
                  attestedAt |-> reserves[i].attestedAt] : i \in {Len(reserves)} \ {0}}]

\* A slip of Expired: the last instant of the period is taken for past it.
ExpiredAtTerm(read, time) ==
    \A record \in read.latest : time - record.attestedAt >= read.maxAge

\* As ReserveCheck decides it; a token without an attestation counts as expired.
Expired(read, time) ==
    \A record \in read.latest : time - record.attestedAt > read.maxAge

\* reserveStanding: what the page makes of both reads.
ReserveStanding(read, circulation, time) ==
    LET reserve == IF read.latest = {} THEN 0
                   ELSE (CHOOSE record \in read.latest : TRUE).amount
    IN  [circulation |-> circulation, reserve |-> reserve,
         difference |-> reserve - circulation,
         attestation |->
           {[index |-> record.index, attestor |-> record.attestor,
             attestedAt |-> record.attestedAt,
             expiresAt |-> record.attestedAt + read.maxAge,
             ageSeconds |-> IF record.attestedAt < time THEN time - record.attestedAt ELSE 0] :
              record \in read.latest},
         expired |-> Expired(read, time),
         attestorReplaced |-> \E record \in read.latest : record.attestor # read.attestor]

\* The answer: both reads and the time they were asked at.
PublicToken ==
    LET standing == ReserveStanding(ReadTerms, supply, now)
    IN  [circulation |-> standing.circulation, reserve |-> standing.reserve,
         difference |-> standing.difference, attestationMaxAge |-> terms.maxAge,
         attestation |-> standing.attestation, expired |-> standing.expired,
         attestorReplaced |-> standing.attestorReplaced,
         feeBps |-> FeeBps, paused |-> paused, asOf |-> now]

publicTokenSchema ==
    [circulation : 0 .. MaxU64, reserve : 0 .. MaxU64, difference : Int,
     attestationMaxAge : Nat \ {0},
     attestation : SUBSET [index : 0 .. MaxU64, attestor : Wallet, attestedAt : Nat,
                           expiresAt : Nat, ageSeconds : Nat],
     expired : BOOLEAN, attestorReplaced : BOOLEAN, feeBps : 0 .. 10000,
     paused : BOOLEAN, asOf : Nat]

-----------------------------------------------------------------------------
(* Properties *)

\* The page and the program's gate, written apart, agree at every instant: of the
\* attestations only the latest can open the gate, and it does for an amount exactly
\* when the page shows neither that it has expired nor that its attestor was
\* replaced, and at least that much room; each of the two is shown exactly when the
\* gate would refuse for it, and the page's own date of expiry says the same
\* (FR-021, FR-023a: "never disagree by a second").
PageMirrorsGate ==
    LET page == PublicToken
        last == Len(reserves)
        opens(index, amount) ==
          RequireLatest(index) /\ WithinReserve(reserves[index], supply, amount)
    IN  /\ page \in publicTokenSchema
        /\ \A amount \in 0 .. MaxU64 - supply :
             (\E index \in DOMAIN reserves : opens(index, amount))
               <=> /\ ~page.expired /\ ~page.attestorReplaced
                   /\ amount <= page.difference
        /\ page.attestorReplaced <=> ~\E index \in DOMAIN reserves : RequireLatest(index)
        /\ page.expired <=> ~WithinReserve([reserves[last] EXCEPT !.amount = MaxU64], 0, 0)
        /\ \A shown \in page.attestation : page.expired <=> page.asOf > shown.expiresAt
=============================================================================
