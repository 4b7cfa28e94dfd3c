# IssuerForge: formal models

TLA+ models of the IssuerForge program and of the services and screens around it, checked
with TLC on small instances and, for the program, the indexer, the console, the register and
the reserve page, proved with TLAPS for every instance. Paths below are relative to the repository; `P` is
`programs/issuer-forge/src`, `API` is `apps/api/src`, `WEB` is `apps/web/src`.

## The system

IssuerForge lets an organisation (the *issuer*) run a regulated token on Solana.

| Part | Where | State | Operations | Talks to |
|---|---|---|---|---|
| Membership and authority | `P/state/issuer.rs`, `P/quorum.rs`, `P/authority.rs`, `P/state/delegation.rs` | members and their roles, `quorum_n`, operational key and its powers | `initialize_issuer`; checks used by every instruction | every handler |
| Deferred signing | `P/state/proposal.rs`, `P/instructions/proposal.rs` | `ActionProposal` accounts | propose, approve, close | every executing instruction reads and marks the account |
| Governance | `P/instructions/set_{delegation,attestor,policy}.rs` | delegation, reserve terms, policy versions | each signed at once or executed from a proposal | rules (policy), issuance (terms), routine actions (delegation) |
| Issuance and circulation | `P/instructions/{create_token,attest_reserve,mint,seize,pause}.rs`, `P/reserve.rs`, `P/fee.rs` | attestations, supply, vault, pause | issue, attest, mint, seize, pause, resume | the token program (calls), proposals |
| Holders | `P/instructions/{thaw_holder,freeze}.rs`, `P/state/{holder,freeze}.rs` | status records, velocity counters, freeze records, account states | onboard, change status, freeze, unfreeze | the token program, the hook |
| Transfer hook and rules | `P/hook/*`, `P/rules/*` | velocity counters | execute (called by the token program on every transfer) | policy, records, attestations of verification providers |
| Transaction builders | `packages/chain` | none | one builder per instruction | the program's interface (IDL) |
| Policy package | `packages/policy` | none | schema, encoding, the evaluator's copy, scenarios | the wizard, the API |
| Indexer | `apps/worker/src` | cursor, in-memory queue, database mirror | notifications, catch-up pass, decode, apply, restart | chain RPC, database |
| API | `API` | tables of holders, tokens, reservations; sessions | prepare transactions, thaw and set statuses, list, export, feed | chain RPC, database, the platform's key |
| Console | `WEB` | what a page has loaded, a form, a run in progress | decide proposals, change the delegation, freeze and seize, issue a token | the API, the wallet |
| Journal verifier | `tools/verify-journal` | none | compares an export with the chain | a file, chain RPC |
| Landing page, demo scripts | `apps/landing`, `tools/demo` | none | presentation; scripted scenarios | |

What makes it hard:

* *Concurrency without locks.* Transactions of different wallets interleave in any order;
  each is atomic on its accounts, so the hazards lie between transactions: a proposal is
  raised, signed over days, overtaken by an immediate action, expires, is closed and its
  address taken again.
* *Two paths to every quorum action*, signed at once or executed from a proposal, sharing
  one threshold check.
* *State read at one time and used at another*: what a proposal started from, which
  attestation is the latest, what an account's state was when it was frozen; and in the
  services, what a handler read before it answered, a page before its button was pressed.
* *One decision written twice.* The wizard repeats the hook's checks, the API and the
  console the program's refusals, the public page the reserve gate, the verifier the
  indexer's decoding, the clients the layout of accounts. Each pair has to agree.
* *The services see late, repeated, reordered or lost answers*, fail between two writes and
  restart; the indexer must still mirror the ledger in order, a request must not admit a
  holder on paper, and a wizard must not say "issued" of somebody else's token.

What makes each part correct, in one line each: membership - nobody who gains by an action
authorises it; deferred signing - an executed proposal was signed by a quorum of different
wallets, for this very body, in time, and once; governance - every change starts from what
was in force, versions have no gaps; issuance - supply never exceeds the reserve attested
at the time; circulation - pausing, freezing and seizing leave each other's state as they
found it; rules - a refusal is decided by records in force and limits not exceeded in any
window; builders and decoders - a transaction says what was asked, and both readers read it
so; indexer - the mirror is a prefix of the ledger, eventually all of it; API and console -
what is shown and offered is what the program has and would take.

## Modules

Model modules, in the order they build on each other:

| Module | Extends | Models |
|---|---|---|
| `Issuer` | | operators on a membership: roles, quorum, narrowing, routine and officer's authority. No state. |
| `Proposals` | `Issuer` | `members`, `quorumN`, the clock and the proposal accounts; propose, approve, close; the deferred path shared by executing instructions. |
| `Governance` | `Proposals` | delegation, reserve terms and policies, three instructions on two paths each. |
| `Desk` | `Governance` | the console's pages of a proposal and of the delegation, the API's handlers behind them, and members whose transactions land late or never. |
| `TransferRules` | | the hook's decision: the checks of `rules/evaluate.rs` in their order, what a source answers, the counter after an allow. No state. |
| `PolicyEvaluator` | | the wizard's copy of that decision, `packages/policy/src/evaluate.ts`. No state. |
| `Verdicts` | `TransferRules` | one transfer attempted at two successive instants, under any policy. |
| `RuleLayout` | `TransferRules` | a policy as slots: what `rules/layout.rs` accepts, what the hook reads of it, the client's encoder, decoder and schema. No state. |
| `PolicyAccount` | `Verdicts`, `RuleLayout` | from the slots a wallet submits, through `validate`, to the policy the hook judges by and the console decodes. |
| `Holders` | `Governance`, `TransferRules` | token accounts, statuses, counters, freezes, provider's answers; onboarding, freezing, transfers through the hook. |
| `Register` | `Holders` | the API's table of holders, its thaw and status requests with the platform's key or a member, and the worker writing the same rows. |
| `Ledger` | `Holders` | supply, balances, the mint's pause, attestations; attest, mint, seize, pause, resume, and the token program's transfers and burns. |
| `Compliance` | `Ledger` | the officer's screen: the API's totals and handlers, the console's form and rows. No state. |
| `ReservePage` | `Ledger` | the public page of a token's reserve. No state. |
| `IssuanceDraft` | `RuleLayout` | the wizard's form, the body it turns into, its sentences and scenarios, and what `create_token` refuses. No state. |
| `TokenIssuance` | `IssuanceDraft` | tabs that fill the form and issue, another client that posts bodies of its own, the API's reservation of a number, three transactions one after another, the program, the mirror of tokens. |
| `Interface` | | the vendored IDL: accounts by role, their seeds, arguments. No state. |
| `Builders` | `Interface` | the client's builder of every instruction. No state. |
| `AccountLayouts` | `Builders` | the accounts' fields by place, and the readers that find a field by its place: the hook's account list and the API's filters. No state. |
| `Chain` | `AccountLayouts` | transactions and accounts as a node serves them. No state. |
| `WorkerDecode`, `VerifierDecode` | `Chain` | the indexer's and the verifier's readings of a transaction. No state. |
| `Transactions` | both readings | a transaction composed, landed or failed, and what its requests mean. |
| `LedgerMirror` | | the abstract promise of the journal: whole slots of the chain, and what was shown stays. |
| `Indexer` | | the worker: follower, queue, applier, cursor row, crashes and failures. |
| `Journal` | `Indexer` | an export by slots or dates, page by page, the feed over breaking connections, and the verifier on an export. |

`MC*` modules give values for TLC to the module named (`MCLedger`: `Compliance` and
`ReservePage`; `MCTransactions`: `Transactions`; `MCJournal`: `Journal`, with the bodies of
its transactions built by `Builders` and read by `WorkerDecode`; `MCRules`:
`PolicyAccount`, beside `PolicyEvaluator`). `*Proofs` modules hold the theorems of the
module named.

`Ledger` is the whole program but for the layout of a policy and the metadata of a token:
it contains the state of `Holders`, of `Governance` and of `Proposals`, and its next-state
relation contains their actions. The smaller modules are specifications of their own so
that each run can spend its bounds on what it asks.

### How the state corresponds

**The program.** `members` is `IssuerConfig.members` as a function from wallets to sets of
roles (`{}` for a wallet in no row; `initialize_issuer` refuses duplicates, and no
instruction changes it after that). `proposals[<<scope, nonce>>]` is the account at
`["proposal", scope, nonce]` or `NoProposal`. Digests are modelled by the rules themselves:
a body carries what its hash identifies. `delegation`, `terms` and `policyVersion` are
fields of `IssuerConfig` and `TokenConfig`; `policies[v]` is the `PolicyConfig` at version
`v`.

`statuses[w]`, `counters[w]` and `freezes[a]` are the `HolderStatus`, `VelocityCounter` and
`FreezeRecord` accounts, or `NoAccount`. `accountState[a]` is the state the token program
keeps. `attestations[w]` is what the hook makes of the provider's account for a wallet:
`Unavailable` when it cannot be read or judged, `Absent` when there is none, or a record.
A Rust `Option` is a set of at most one element. The program asks whether a holder's status
account has been written (`is_written`); the model asks whether it exists, which is the same
since both are done in one instruction.

`supply`, `balance` and `paused` are the mint's and the token accounts' own; `pausedAt` is
`TokenConfig.paused_at`. `reserves` is the sequence of `ReserveAttestation` accounts, whose
length is `attestation_count`. `LedgerInit` is the state `create_token` leaves, with the
first attestation, the founder onboarded and the initial issuance.

The token program is external and modelled as far as the program relies on it: it mints to,
burns from and transfers between thawed accounts while the mint is not paused; it refuses an
overflow of the supply; an owner may burn; a transfer from an account to itself changes
nothing and is left out. Anybody may create a token account and it is created frozen, so an
account that does not exist is modelled as one that is frozen and empty.

`ballots`, `journal` and `transfers` are history: the propose, approve and executing
transactions and the transfers, which stay on the ledger when accounts are closed. A ballot
also notes how many entries the journal had when the proposal was raised. No guard reads any
of them, except for the bounds on their length. The tail of an executing transaction's
account list is the argument `listed`: the signers on the immediate path, the named
approvers on the deferred one.

**Transactions.** A request is what a caller of a builder asks for; an address is the tuple
of what it is derived from, so that two are equal exactly when their derivations are. The
worker takes accounts by position and the verifier by role, as their sources do. Bytes
appear where a field's place matters: `AccountLayouts` counts them.

**Indexer and journal.** A transaction is its position in the chain; `work` is the statement
in hand, so that a crash or a failed statement falls between any two. `db` is the mirror and
the journal's rows, `saved` the cursor row, `cursor`, `recent` and `halted` the queue's
memory; a crash keeps `db` and `saved` alone. `timer`, `again`, `running` and `pending` are
the follower's. A node may lag: a listing ends anywhere up to `tip`. A slot has a date or
none, as the node answers. `export` and `feed` are the two readers, whose queries interleave
with the indexer.

**API and console.** In `Desk`, `desk[w]` is what a member's browser holds: a page read at
some instant, an execution half assembled, or a transaction under way; the server's clock
differs from the chain's by a skew. In `Register`, `rows` is the holders table, `request`
the handlers under way at their next await, `outstanding` what members hold or a timeout
lost sight of, `feed` what the worker has still to read. In `TokenIssuance`, `pc`, `order`,
`progress` and `tx` are a tab's run through `useIssue.ts`; `rows` is the tokens table with
its reservations, each held since the instant of its insert. The tabs in `Callers` are
another client of the API (`tools/demo` is one): what they have for a draft is the body they
post, and with what comes back they go on as a tab does, more freely than the demo, which
gives up at the first failure. `Compliance` and `ReservePage` have no state: a read answers from the
state of `Ledger`, and what may fall between two reads is said of steps
(`ReadsHoldTogether`).

### What is left out

Rent, bumps, program and account ownership checks (the modelled addresses hold what their
seeds say), wording of errors and of screens, names and logging. The reference of a status
and the reason of a freeze, which no check reads. The currency of an attestation: one token,
one currency. `Orders` are the bodies of mint, seize, pause and resume proposals; `Holders`
and `Governance` on their own execute none.

Of the services: memberships never change, so the roster of the directory and the chain
agree; one issuer and one token at the officer's screen, and one associated account per
wallet (`AssociatedAssumption`); the limit of fifty rows of the delegation's history is not
reached; the public page's cache of five seconds only delays what it shows. Of the wizard: a
submission left behind by navigation is another tab's; tokens issued past the API and
deleted rows; the size of a transaction in bytes; `?step=` typed in the address bar; two
identical orders in one tick are one transaction; a node takes no transaction twice.

## Runs

| Run | Module | Asks |
|---|---|---|
| `delegation` | `MCGovernance` | One address, raised up to twice, with proposals to widen, narrow or rotate the operational key between two keys and two grades of power, while members do the same at once. `EffectsSigned`: quorum, and the very signers of the very body; `TransitionsChain`; `RoomForTheRest`; `LiveProposalsStand`; `GrantsTakeQuorum`. |
| `console` | `MCDesk` | Two members decide policy versions, the delegation and reserve terms at the console, with a server whose clock is late. `ConsentsAsShown`: an approval counts for the body it was shown with and no other, though it carries an address only; `ChecksMirrorProgram`: every check of the handlers and the pages against the program's own verdict; `EffectsWithinTerm`; `PolicyHistory`. |
| `holders` | `MCHolders` | Three accounts of two holders, thawed by members and by a key whose powers change, frozen and unfrozen by two officers, while statuses and attestations come, change and end under policies that ask one source or the other. |
| `windows` | `MCHolders` | Up to three transfers over four instants under three policy versions with different limits or none: what the counter may never miss (`CountersMissNothing`), and how much can pass in a period at the worst (`TwoLimitsAPeriod`). |
| `issuance` | `MCLedger` | Two issuances circulate together while an attestation is published and the attestor replaced: the supply stays covered, each proposal is spent once, and the public page opens exactly when and as far as the gate does (`PageMirrorsGate`). |
| `circulation` | `MCLedger` | Pauses, resumptions, seizures (from a founder, a holder and the vault) and issuances with a fee, from one proposal after another, with freezes, thaws, a transfer and burns between them: what is frozen or paused moves by a seizure alone, a seizure leaves no other trace; the officer's totals (`TotalsTell`), also when read across a step; the officer's form and rows (`ScreenMirrorsProgram`). |
| `rules` | `MCRules` | Every answer of both sources about both parties under every status and jurisdiction rule, every limit with every counter, at two instants, under policies spelled by the encoder, and every array of slots with at most one badly formed: the two evaluators agree (`TwinsAgree`), a policy has one spelling (`OneSpelling`), and what a verdict rests on. |
| `readings` | `MCTransactions` | Up to two requests of every kind in one transaction, landed or failed at any of its instructions and calls: the worker and the verifier read the same events (`ReadingsAgree`) and what was asked (`SaysWhatWasAsked`), and every address is where its readers look for it (`BuiltAsDeclared`). |
| `mirror` | `MCJournal` | The indexer follows two chains with notifications lost and repeated, lagging nodes, failing statements and crashes, while an export or a feed is read: rows are a prefix, repeated statements settle, exports verify and miss no dated event of their period, the feed loses and repeats nothing, the abstract mirror is implemented, and the worker catches up. |
| `register` | `MCRegister` | Two requests at a time thaw two holders, singly and in batches, and set statuses, through the platform's key or a member's hands; sending fails, confirmations are lost, the key's powers change, wallets apply again, the worker writes the same rows: no row admits a holder the chain has not (`AdmittedOnChain`), and rows settle (`ThawsSettle`). |
| `wizard` | `MCIssuance` | Two founders issue at once, tokens alike or different, while reservations go stale, confirmations are lost and transactions land late; a third fills in the form; another client posts bodies with a policy, a time of attestation and an end of the founder's status of its own. `IssuedAsNamed`; `RouteMirrorsProgram`: what the API lets through, `create_token` takes, two open fields excepted by name; `RulebookTells`. |
| `freshness` | `MCJournal` | a disagreement, see below. |

### Bounds

* The memberships include, besides a valid one, two that founding must refuse: an attestor
  who also observes, and a single member.
* `MaxTime` is the last instant. With `Term` one term in range (1) and one below it (0),
  `MaxTime` 2 or 3 gives a proposal raised, in its last instant, and expired, twice over
  where its address is used again; in `windows`, 4 gives a window of two or three instants
  opened, closed and opened again; in `issuance`, 2 gives an attestation (`FirstDates` 0 or
  1, `MaxAges` 1) current, in its last instant, and expired.
* `MaxRaised` 2 is what one address reused, or two competing proposals, need. `circulation`
  has one address and `issuance` two: proposing one of these orders looks at no state of the
  token, so two that circulate together matter only where both may be executed, or one after
  the other, which one address allows.
* `MaxJournal` bounds executed actions: 2 or 3 let a value be changed and changed back, a
  pause be followed by a seizure and a resumption, and an issuance be executed twice.
* `Kinds` names the actions a run takes besides proposals, so that each spends its states on
  its own question; between them the runs take every action. `Orders` are the bodies
  proposed, `Routes` the pairs of accounts transferred between, `MaxTransfers` and
  `MaxAttestations` how many there ever are, `Amounts` and `ReserveAmounts` what is moved
  and attested. With reserves of 2 and 4 and issuances of 2, each of two fits alone and
  both together only under the larger; the fee of 1 % of 1 or 2 rounds up to 1, which takes
  all of the smallest issuance.
* `SignerLists` include repeated wallets, an outsider, both orders and one wallet alone in
  the governance runs, and one good list elsewhere, where the operators are the same.
* `Epoch` is -2: the counter of a new holder starts at the clock's zero, long before any
  window; `EpochAssumption` says so. `MaxU64` is 20 where width is not the question (no sum in
  those runs reaches it) and 99 in `wizard`, where no total reaches it. In `rules` it is 9,
  with limits of 1 to 3 and of 9 and counters of 0 to 3 and of 8, so that sums end below a
  limit, at it, past it and past the width. In `windows` it is 3, under four rule sets of
  which one has the limit that cannot be exceeded.
* `Families` pairs policies with the contexts they are tried on: limits are tried on parties
  nothing is wrong with and statuses without limits, since the checks on parties read no
  amount and the checks on amounts no party. `MaxSlots` and `Fields` 4 hold every rule the
  schema can spell with a slot to spare; `Capitals` are two codes of two letters, and a
  third code has something else in it. `Start` is the instant of the first attempt.
* `console`: two seats, `Agendas` give each behaviour the actions it decides, `Skews` the
  server's clock right or one instant late; `MaxApprovals` is the number of members.
* `circulation`: `Decimals` 1, so that a typed amount may have no place, one or too many;
  `Sessions` an admin alone and a person who has proven both the admin's and the officer's
  wallet.
* `readings`: `MaxOuter` 2 gives every ordered pair of requests, two of the same mint or
  issuer among them; `Failures` one code per kind of refusal the decoders name.
* `mirror`: four transactions in three slots, two of a slot with signatures against the
  order of the chain; a slot without a date; `MaxFaults` 2, of which one beside a reader;
  pages of one row; `RECENT_SIGNATURES` 2, less than the chain; periods without bounds, of
  one date, and from a date on. Readers come once there is a cursor row (`AfterFirstSave`):
  what may go wrong before it is told below.
* `register`: two requests, `MaxRequests` 2 of them, a thaw of one holder or a batch of
  two; `MaxFeed` 4 landed instructions.
* `wizard`: `TTL` and `Life` 0 let a reservation be stale and a blockhash be past as soon as
  the clock moves, which it does once (`MaxTime` 1); `MaxRequests` 2 lets a founder start
  over. `Walkers` is the tab that fills in the form at length; the other two start from a
  filled draft, since the steps of the form look at nothing of each other. `Callers` is the
  tab of another client; what it posts is attested before now, now or later, ends the
  founder's status before now, now, later or never, has too many decimals or not, and lists
  its sources and countries out of order or none of them.

Symmetry permutes compliance officers, nonces, attestors, keys or requests, which no
definition tells apart, and only where a run checks no liveness. `CHECK_DEADLOCK FALSE`
everywhere: the system may rest, and the bounds stop it.

### Fairness

Only the indexer has any. Nothing obliges a member to sign, a holder to apply or a client
to retry, so elsewhere every property says what may never happen. `Fairness` of `Indexer`
assumes that the chain goes on (weak, on `Produce`); that the process does what it can
(weak, on `Step`, the disjunction of its own steps: its timers, its queue and the awaits they
lead to - the event loop's promise, not that any one of them comes before another); and that
of the listings made again and again one comes from a node that has the whole chain (strong,
on the full listing: a node lags but is not behind for ever). Starting, crashing, failing
and notifications are under no fairness. `CatchesUp` then says that a process which stays up
comes to have applied everything, though every notification is lost: the interval of
`run.ts` brings another pass, and a pass lifts a halt.

`ImplementsMirror` is the refinement: `LedgerMirror` with `shown` the rows of finished slots
is implemented by the indexer and journal, crashes included.

### Where the sources and the code disagree

`freshness` is a run. `EventuallyShown` asks that every event come within the journal's
horizon. The horizon is one slot short of the cursor (`API/journal.ts`, `Frontier`: "That
costs one slot of freshness (~0.4 s)"), but the cursor moves by transactions of the program,
not by slots: the last slot that has one stays hidden until another transaction of the
program follows, however long that takes.

The others have no run of their own; each was met as the counterexample of a property, and
the property that is checked says what does hold.

*The program.*

* `state/proposal.rs:179` says that with the starting point stored *any* change in between
  makes the execution refuse, and `set_delegation.rs:18` that a proposal raised before a
  revocation refuses after it (`WEB/settings/delegation.tsx:155` tells its reader the same).
  The code compares the stored starting point with the present value. When the value has
  moved and come back, the proposal executes: a grant raised before a revocation executes
  after it. The reserve terms (`set_attestor.rs:93`) behave alike. `TransitionsChain` says
  what remains true. In the other direction, a revocation carries the mask that should
  remain, computed when it was assembled: one that lands after a grant takes away the newly
  granted powers too.
* `seize.rs:16` says that the vault's balance is the seized amount exactly and that nothing
  else lands there, since its owner has no status. `thaw_holder` takes the vault like any
  other account and gives its owner one. `VaultAccountedFor` says what remains true. A
  seizure also thaws the vault though an officer froze it, so the properties of freezes
  except the vault.
* `rules/evaluate.rs:385` says that a sum which does not fit in 64 bits unconditionally
  exceeds any limit. The sum saturates and is compared by `>`, so it does not exceed a limit
  of the largest 64-bit number. The wizard, whose amounts have no width, refuses there; hence
  `TwinsAgree` is asked short of that number. `reserve.rs:98` makes the same claim of a sum
  against the attested amount; there the token program's own checked addition refuses.
* `packages/policy/src/layout.ts:14` says that decoding rejects everything that could not
  have come out of encoding; it does not look at the unused tails of slots, nor at order or
  gaps in jurisdictions. `OneSpelling` shows that the program never stores such bytes.

*The API.*

* `routes/compliance.ts` says of the free amount "Never below zero, though it cannot be". An
  officer may freeze the vault, whose balance then counts as frozen and as seized; and the
  three reads run side by side, so a seizure of frozen funds between them counts twice.
  Either can make it negative, and the answer an error. `TotalsTell` says exactly when.
* `reserve.ts` says the difference is "negative after a smaller attestation". The terms and
  the supply are two reads side by side: an attestation and an issuance between them show
  the old reserve under the new supply. `PageMirrorsGate` is of a page read at one instant.
* The journal is filtered by slots so that an event without a date is not dropped
  (`journal.ts`, `TimeBracket`: "a hole in exactly the file whose promise is that there are
  none"). At the edge of the period it still is: dates are looked up among dated rows, so an
  undated event before the first dated one of the period lies outside the window.
* Without a cursor row the frontier takes the newest row for finished, since "the indexer has
  never run against this database" (`journal.ts:256`). Between the first rows written and the
  first cursor saved it is running: an export made then ends with the newest row's slot and
  may lack the rest of that slot. `ExportVerifies` fails there when `AfterFirstSave` is
  `FALSE` (`FeedLosesNothing` does not), hence the bound.
* `apply.ts:7` says that `synced_at` is set by the worker alone. `markThawed` and
  `saveStatus` of `API/holders.ts` set it too, and a delayed `saveStatus` can write an older
  status over a newer one; `ThawsSettle` therefore speaks of holders whose status was not
  set since.
* A confirmation that times out in `operational.submit` throws as it is, so the report of a
  whole batch is lost, though "a partial refusal is visible by name" (`routes/holders.ts`).

*The console.*

* The officer's screen posts freezes, liftings and proposals without naming a signer. A
  person who has proven two wallets able to sign is always asked to name one and cannot do
  so there; `OfferedIsAnswered` says when a request is answered. Lifting a freeze reads the
  record again, so it may lift another freeze with the reason typed for the first. The
  prefilled seizure of the vault's own row is one the program refuses.
* `ProposalScreen.tsx:4` says that the body comes from the API and "the screen draws it and
  nothing else"; it draws `proposal.action` only.
* `warningsFor` (`WEB/wizard/draft.ts:357`) says that otherwise "the whole issuance would sit
  in an account that cannot send". Tier and country are asked of the recipient only: a
  founder can send exactly when the issuer's register is a source (`FounderSends`), and gets
  no warning when it is not.
* The rulebook's clauses are links to any step, past the rail that "does not let you jump
  ahead", and so past the three acknowledgements, which only the first step's button checks.
* A transfer limit typed with too many places vanishes once a later step checks the schema
  only, though "silently dropping the tail would mean signing the wrong number"; hence
  `RulebookTells` asks its equality where the step of the limits is ready.
* `Review.tsx` says a number is held for five minutes. Taking over a stale reservation does
  not renew its date, and two takeovers may both decide on one stale row; a row keeps
  another reservation's name until the metadata lands. `IssuedAsNamed` holds all the same.
* `contracts/tokens.ts:13` says its bounds mirror `create_token.rs`, "so that a mistake in the
  wizard is a sentence in the form, not a devnet refusal half a minute later". It leaves the
  period of the attestation open above ("No ceiling", line 160), and so does the form, where
  the program has a ceiling of ninety days (`reserve.rs:29`): the wizard assembles its three
  transactions and the first is refused. And it takes any end of the founder's status (line
  173), which the route passes on (`routes/tokens.ts:204`) and the program refuses when it
  has passed (`state/holder.rs:135`); the wizard sends none, another client may.
  `RouteMirrorsProgram` says that these two are all.
* A submission restarts from its first transaction, so an issuance that landed in part
  cannot be finished from the wizard; and the form can be reset while it runs.

## Proofs

The theorems hold for every set of wallets, every membership that founding accepts, every
account, owner, policy, fee, order, attestation and chain, and every value of the bounds.
The assumptions are those named `...Assumption` in the modules: finitely many wallets and
accounts, bounds that are numbers, scopes that differ, the markers `NoProposal`, `NoPolicy`
and `NoAccount` not themselves accounts, the vault not the founder's account, the fee at most
the whole, amounts and supplies within 64 bits, windows longer than nothing, batches with a
holder in them, slots of a chain in order, a signature for each transaction, periods of
slots or dates, backlogs that are numbers, an issuer founded once and before its delegation
changes, a change's index growing within its transaction (`decode.ts:798`), a token's
account made before its name and its policy and a wallet's record before its status
(`AccountsAssumption`: the instructions take the accounts without making them), and as many
approvals in a request (`routes/actions.ts:85`) as a membership has seats
(`constants.rs:84`), drafts filled in a tab of their own with lists where the form has lists
and numbers, each one or left out, where it has numbers, a posted body with every field in
its shape and a rule of each kind at most once (`CallersAssumption`: any other the schema
refuses before the route sees it), at most nine decimals of a token
(`contracts/tokens.ts:32`), and byte limits that are numbers.

**Governance.** Every action is one of six shapes (`StepShapes`), so an invariant is shown
shape by shape, each by one lemma of `GovernanceProofs`. The safety properties of executed
proposals are not inductive by themselves: after an execution they say nothing about the
next one. `SharedInv` adds what links an account to its history (`Bookkeeping`): the ballot
of an account has its body, its signers and its term, and as long as the account is not
marked executed no journal entry rests on that ballot. Counting is a lemma
(`DistinctCardinality`): a list of different wallets has as many signers as entries, which
is what `quorum.rs` relies on. `IInv` adds that the membership is a founded one, that the
key and the attestor are outside it, and that past actions stand on a quorum.
`EffectsSigned`, `EffectsWithinTerm`, `RoomForTheRest` and `TransitionsChain` follow from
it, and the two action properties. `PolicyHistory` needs one clause more (`NoneAhead`): no
entry names a version that is still to come, or the writing of that version would be the
second.

**Console.** `RuledInv` is what the console finds of the program: `IInv`, `PolicyHistory`,
and that every ballot's body was once asked for with a starting point that was in force.
`DInv` adds what the browsers hold. A page's body and its address belong together
(`Things`): the body shown is that of the account raised at that nonce, however long ago the
page was read, since a nonce is drawn once (`NoncesApart`) and the transaction that bears it
lands once. An approval carries an address only, so that it counts for the body it was shown
with (`ConsentsAsShown`) rests on exactly this. `ChecksMirrorProgram` is then shown screen
by screen and refusal by refusal, each handler against the program's guard it repeats; for
the page of the delegation it is shown of every target the handler's schema admits.

**Verdicts.** `VerdictsProofs` shows that the first failing check is well defined
(`RefusalIsFirst`, through the least element of a set of numbers) and that a transfer is
allowed exactly when no check fails (`AllowedIffNoneFails`); `RecordChecks` then relates
the checks to the records, whose own reading (`RecordsAllow`) mentions no check.

**Spelling.** `AInv` says that a policy is what the hook reads of its slots, and that what
was written passed `Validate`. `OneSpelling` goes slot by slot: a slot that passes is the
encoding of the one rule it decodes to, and the order of kinds that `validate` asks for is
the encoder's, so the lists are equal; a list of jurisdictions is told by its entries up to
the first empty one. `TwinsAgree` follows for every policy the program can have written: the
two evaluators ask the same checks in the same order, and each check of one is shown equal
to its twin.

**Holders.** `HInv` is `IInv`, the types, and two clauses that hold each other up: a frozen
account under an officer's record stays frozen (`FreezesHold`), and an account that is
thawed, or will be when its record is lifted, has an onboarded owner
(`ThawedAreOnboarded`). The second needs the record's memory of the earlier state to be
true, not only the present state. Holder's steps leave governance alone, so `IInv` carries
over.

**Windows.** `CountersMissNothing` and `TwoLimitsAPeriod` speak of sums over the log of
transfers. A sum is a recursive function of the log's length; `EachUpTo` does its inductions,
as a least counterexample in a set of numbers. `WInv` says of one wallet under one version
and limit what a counter has seen (`WindowsKept`): the window's transfers are within the
counter and the counter within the limit, and so is what the stretch of one window's length
before it held. The second half is what makes two limits the bound: a period that ends in a
window reaches back into that stretch at most (`AllPeriodsKept`).

**Register.** What a request has in hand has landed (`ConfirmedLanded`): a request marks a
row only with a confirmed transaction, so it writes what the worker writes, whichever comes
first. With what is on the feed (`FeedInv`: whoever a landed transaction is about is
onboarded; the thaw that carried a status carried the chain's, while nothing but thaws
happened to a holder) `AdmittedOnChain` and `ThawsSettle` follow.

**Ledger.** `LInv` takes `IInv` over: an order is an executed shape that touches nothing of
governance, so its quorum, its signers and its being spent once need no new argument
(`OrdersTakeQuorum`). Of the accounts it claims less than `HInv`: a seizure thaws the vault
whatever an officer said, so `FreezesHoldOutsideVault` replaces `FreezesHold`; and vault and
treasury are thawed without anybody having onboarded their owners, so `ThawedAreOnboarded`
stays a promise of `Holders` alone. `FeeWithin` bounds the rounded fee by the amount, which
keeps balances natural numbers; `IssuedBalances` says which balances an issuance changes.
A seizure in the journal is shown to have been the step's own (`SeizureEntry`,
`EntriesFollowOrders`), from which `SeizuresLeaveNoTrace`, `FrozenFundsRemain` and
`PausesHold` follow; the last two are `HeldFundsRemain`.

**Reserve page.** `PageMirrorsGate` needs the supply to be a number no less than nothing,
although anybody may burn. `PInv` therefore says that the supply is what the accounts hold
(`SupplyIsHeld`), a sum over finitely many accounts that every movement is shown to keep,
and that it and the reserves are within 64 bits.

**Indexer.** `MirrorIsAPrefix` speaks of rows and cursors only, and a crash forgets
everything else; it is not inductive, since a pass that resumes must start at the row after
the cursor. `IInv` adds the shape of the bookkeeping (`Shape`), that only a pass that walks
has anything before it (`Busy`), that the rows of everything up to the furthest transaction
begun are there (`Written`), and that what a pass has before it follows its cursor without a
gap (`Walked`). `WakeInv` shows that a wake during a pass is owed to nobody: it is never
forgotten (`WakesAreServed`).

**History of the delegation.** A row's "from" is the issuer as the mirror has it at that
moment, although statements are performed again after a crash or a lagging node. `CInv`
says between which two places of the chain the mirror's issuer stands (`Chained`): all
changes up to the first are applied, none past the second, and the rows up to the second are
there already when it is ahead of the first; so that a change performed again finds its row
written and a change performed for the first time finds the issuer just before it. It rests
on a pass taking what it has in hand in turn (`InTurn`), which holds because a slot is
confirmed whole.

**Mirror.** `MirrorRowsSettle` says nothing while the cursor is behind the furthest
transaction begun, and then a mirror may mix old and new: a statement performed again puts a
row's column back to what it was. `SInv` looks at one cell at a time, a column that some
statements write whole (`Cells`, `Writes`), and says that each stands as of some place of
the chain: no earlier than what is behind the worker, no later than the furthest statement
performed (`Settling`). The places differ from cell to cell until the worker is back. A
statement that only updates finds its row, because what made the row is behind it
(`ReadyFound`); this is where `AccountsAssumption` is needed, and a worker that skipped a
failing transaction would break it. The chain replayed is a recursive function: it exists
(`ThroughSteps`, `ReplaySteps`) and stands as of its last place in every cell (`ReplayIs`),
both by `Counting`, a least counterexample. With nothing left before the worker the two
bounds meet, so the two agree in every cell and hence in every row.

**Journal.** `JournalImplementsMirror` is the refinement: the first state maps to the first
state of `LedgerMirror`, and every step of the indexer or a reader to one of its steps or
none. The prefix alone does not give it: a lagging node makes a walk start over, so the
cursor may go back, and what was shown might be taken back with it. `Ahead` says why it is
not: a walk goes back within the slot of the cursor at most (`isBehind`), the cursor row is
no later in slots than the cursor, and what is in hand no earlier. Hence a statement writes
nothing of a slot that is shown (`WritesAreAhead`), and saving the cursor shows more whole
slots or the same (`SavingShows`); that these are whole rests on where a slot begins
(`SlotBegins`), the least of its positions.

**Export and feed.** A page is sorted rows. `Ordered` lists a set by how many rows precede
each; `OrderedIs` shows that this is the sorted list for rows of a chain, whose keys differ
because signatures do. What a reader needs is that its window is finished: no slot up to its
end has an event that is not a row yet, and none will (`WholeIn`, `HorizonWhole`,
`WholeStays`), so that the rows of the window are those of the chain (`Stored`), though each
page is another query of a table that grows. `ExportInv` says what is known of an export at
each stage: the entries are the first of the window's rows (`Begins`), each page those that
follow (`BeginsOn`), and a short one the last. The file's count then tells a whole export
from one that is cut (`ListCount`, `FileChecked`). For the dates, `EdgesFit` shows that the
edges looked up among the dated rows leave out none of the period. `FeedInv` says the list
a client holds passes over nothing (`Skipless`), that a connection goes on after its last,
and hence that every page, received whole or in part, keeps it so (`FeedGoesOn`); a list that
passes over nothing is a stretch of the whole (`SkiplessIsStretch`). Both theorems assume
`AfterFirstSave`, as the run does: the finding above says why.

**Issuance.** Nothing ties a wizard to its number but a row, which it may have taken over
from another tab or lost to one since: a reservation ends by time, not by being given up.
`IInv` says what is left. A tab has one order in hand, and from the reservation on its
number has a row, whoever's (`InHand`). A transaction carries its order with it, and
`create_token` lands only on the program's next number; so once it has landed the token of
that number is that tab's, and no other of the same number can land (`Executed`). A later
wizard may therefore rename a row that is still pending but never a live one, and a row goes
live with the token's decimals and gets the name with its metadata, given once
(`Live`, `NamedOnce`). The lines of a screen are confirmed only by transactions of the order
in hand, whose three effects stay done (`Done`), which is `IssuedAsNamed`.

**Route and program.** `RouteMirrorsProgram` compares what the route asks of a
body with what `create_token` asks: of the wizard's bodies, and of any body another client
posts. Lists come in the order of clicking or of posting, the schema returns them
in the declared order; `SchemaStays` shows that the body it returns is one it would return
again. `AcceptedEncodes` then goes slot by slot: each rule the schema accepts is encoded in
a slot that `validate` accepts, kinds ascend because the encoder emits them in that order
(`FittingValid`), and the first is the status rule because the schema insists on it. The
byte limits, the fee, the supply against the reserve and the attestation's date are compared
one by one (`LetThrough`). Two refusals are left, and the property names both: the period of
the attestation, above which the schema sets no bound, and an end of the founder's status
that has passed, which nobody compares with the clock. The wizard asks for no end
(`DraftLetThrough`), so the second is another client's only. Who signs is not a part of the
body: the route picks founder and attestor from the membership.

**Rulebook.** `RulebookTells` compares three readings of a draft: the wizard's form, the body
that is signed, and the slots the hook reads. `ParsedSays` gives the body's policy field by
field, `SentencesSigned` the sentences. For the amounts the law of powers of ten is needed,
an induction; a token has at most nine decimals, so `PowersOfTen` states it value by value,
and `AmountAsTyped` follows. A policy the wizard makes is `Plain`, each rule there at most
once. `KnownFails` goes through the fifteen checks of the wizard's evaluator for two parties
known alike and leaves three that can fail, so the first that does is the one the scenario's
label promises (`Labelled`); `BindingIs` says that the limit that binds is the least.
`HookReads` shows that in the encoded slots the hook finds the sources, age, countries and
limits the wizard means, and `FounderAnswer` goes through its thirteen checks for a sender
who is in the register only: what can fail is that no accepted source knows the founder.

Only model-checked:

* liveness (`CatchesUp`), and what asks whether an action is enabled
  (`ScreenMirrorsProgram`), which this prover does not do;
* `TotalsTell`, which compares folds over sets of accounts;
* what compares programs over every kind of instruction, with folds over lists in the
  layouts and the decoders (`ReadingsAgree`, `SaysWhatWasAsked`, `BuiltAsDeclared`);
* the violation.

## Not modelled

* The parsing of an attestation account (`hook/attestation.rs`): abstracted to the three
  answers it gives. The strings of `set_token_metadata`.
* Sign-in and sessions (`API/privy.ts`, `session.ts`, `directory.ts`): an external
  provider's tokens, checked and mapped to wallets; the models take the wallets.
* The rate limit and the cache of the public page: they guard the node's meter and no state
  of the system.
* Migrations of the database; configuration; the landing page and the console's prototype
  pages, which are presentation; the demonstration scripts, which drive the system on a test
  network and hold no state of it.

## Plan

1. `EventuallyShown` under a second transaction of the program; the rate limit with the
   public page's cache.
