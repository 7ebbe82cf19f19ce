# Lottivexa in TLA+

TLA+ models of the lottery platform in this repository, the TLC configurations that check them on
small instances, and TLAPS proofs that hold for every value of the constants. Paths below are
relative to the repository, `api/` standing for `services/api/src/`.

## The system

A multi-tenant lottery back office: a NestJS API over PostgreSQL (Prisma), web consoles for the
platform, the tenant and the merchant, a Flutter point of sale that can work offline, and a print
worker. All durable state is in PostgreSQL; the handlers keep none, apart from two timers of the
maintenance job. Handlers run concurrently, in any number of API replicas, and what keeps them apart
is the database: SERIALIZABLE transactions, advisory locks, unique keys and conditional `updateMany`.
What a handler reads before its transaction is not protected, and most hazards of this code are there.

| Component | State | Operations | Hard part | Correct when |
|---|---|---|---|---|
| Draws (`api/lottery`, `api/jobs`) | status, schedule, result, publishedAt | open/close job, transition, publish, correct | clock against status, two transition tables | statuses only move forward, results only change while nobody was paid |
| Sale (`api/tickets/tickets.service.ts`, `multi-ticket.service.ts`) | Ticket, TicketLine, TicketDraw, ledger | create | draws checked before the transaction | one ticket per key, sold on open draws, booked once |
| Cancellation, deletion (`api/tickets`) | status, CANCELLED and DELETED events, ledger | cancel, deleteTicket | early clock reading, multi-draw tickets | every posted entry answered, never after a result |
| Results (`api/results`) | Draw.result, WinningTicket, RESULT_CHECKED events | publish, editPlatform, reconcile at start | interleaved publications, corrections, restarts | ticket status is a function of the published results |
| Payout (`api/payouts`) | Payout, ledger | pay | retries, presentation of lines | a winner is paid once, what it won |
| Commissions (`api/commissions`) | CommissionTransaction, ledger | with the sale, apply | after cancellation | posted at most once, reversed with the sale |
| Results feed (`api/results`, provider webhook and poll) | ProviderResultEvent | enqueue, process, reconcile, poll | deduplication, order of events, crash while PROCESSING | the newest result of the provider ends on every tenant's draw |
| Offline sync (`api/sync`, `apps/mobile/lib/core/offline`) | device outbox, SyncJob | queue, run, batch | lost answers, crash between job and ticket | each mutation is applied or rejected, and the device is told the truth |
| Print queues (`api/printing`, `services/printing`, mobile) | PrintJob, local printer_queue | queue, claim, complete, fail, drain | dead workers, print then crash | each job printed, and attempts bounded |
| Sessions (`api/auth`, `api/users`, `session-refresh.ts` of the console) | RefreshToken, PasswordResetToken, tokenVersion, the tokens of each tab | login, refresh, forgot, reset, logoutAll, disable | read before transaction, token reuse, tabs sharing a storage | no session survives a reset; one successor per token |
| Cash (`api/cash`) | CashSession, CashMovement | open, movement, close | totals taken over tickets of the period | expected cash matches the journals |
| Subscriptions (`api/subscriptions`, `api/jobs`) | Subscription.status, Tenant.status | change plan, grace, suspend | job list stale against reactivation | a paid tenant is not suspended |
| Maintenance job (`api/jobs`) | SchedulerLease, Notification | tick | 30 s lease, one task's failure ends the tick | one replica at a time, every task gets its turn |
| Accounts (`api/devices`, `branches`, `merchants`, `users`) | rows, counts | create, edit, move, assign, block, disable | count or look, then write | plan limits hold, devices follow their merchant, an owner remains |
| Bets (`ticket-policy.ts`, `result-payout-policy.ts`, `free-maryaj-policy.ts`, `ticket-line-flags.ts`) | odds and blocked numbers over time | price, check, evaluate, present | odds by date and rank, three definitions of a match | the prize promised at the sale is the one paid and shown |
| Reports (`api/reports`, dashboards of `api/merchants` and `api/master`) | none | sales, draws, pdf, dashboards | a dozen queries with a condition each, read at different moments | the figures of one report agree |
| Documents (`pdf-report.ts`, `receipt-export.ts`) | cursor, page | draw a table, draw a receipt | page breaks, heights computed twice | nothing over the edge, rows under their header |
| Tenant console (`apps/tenant-web/app/page.tsx`) | tab, data, lists, tokens | login, navigate, load, submit, filter | answers overtaken, lost, or late for a former user | shows what was asked for, to who may see it |

Components interact through rows: the job and the results handlers move draws, sales and payouts read
them; results write the tickets that payouts read; sync calls the sale; printing reads tickets; the
cash session sums tickets and payouts.

`PROJECT.json` lists every component with its status and every hazard with its line.

## Modules

### TicketLifecycle: the money path

Draws, tickets and their ledger entries, with the handlers of `tickets.service.ts`,
`multi-ticket.service.ts`, `results.service.ts`, `payouts.service.ts`,
`commission-processor.service.ts`, `lottery.service.ts` and the draw task of `jobs.service.ts`.

* One action is one transaction. What a handler reads earlier is an action of its own: `CheckDraw`
  remembers in `checkedOpen` that a sale has found a draw open, `BeginCancel` in `cancelling` that a
  cancellation read the clock before its deadline. Any other action can come between.
* `Payers` are payout requests handled at the same time. `PayRead` is the lookup of the key outside the transaction,
  `PaySnapshot` the second lookup and the reading of the ticket, both in one snapshot, `PayCommit` the commit, which
  fails if a row that was read has changed or the key is taken (`IndexAdmits`). `told[k]` collects the tickets whose
  payout a request with key `k` was answered with. The advisory lock is in no action: the statement that waits for it
  has already taken the snapshot, so it orders nothing the second lookup can see.
* `clock[d]` is where the server's clock stands in the schedule of draw `d`; `Tick` moves it. The job's
  statements (`DrawsJob`) are one action: they write disjoint sets of draws, and a `now` read earlier is
  the same as a `Tick` that comes later. The clocks of draws move independently, so every order of
  their deadlines is covered.
* `version[d]` stands for `publishedAt`: a new value at each publication and correction.
  `checked[t][d]` is the newest of them that a `RESULT_CHECKED` event of the ticket names, which is
  what `hasCurrentResultCheck` looks for.
* `Prize(t, outcome)` is a constant operator: what the lines of `t` win when its draws have these
  results. Odds, bet types, prices and limits are in it. The proofs hold for every such function.
* `posted`, `reversed`, `adjusted` are the ledger transactions that carry the ticket's id, by status and
  type. `Refund` is the common body of the merchant's and the owner's cancellation.
* `toScan`, `todo` are the loop variables of `reconcilePublishedTicketResults`; `StartScan` is a
  process start, or the retry a minute after a failure, and forgets both.
* `KeepsPotentialWin` is FALSE in the code as it stands, see the findings. With TRUE, `PaySnapshot` can find a ticket
  payable in more states and everything else is the same, so the safety properties checked and proved with either
  value cover the code as it is and as it was meant.

Not in the model: notifications (written in the same transactions, read by no guard here), the result
that `transition` stores without publishing (overwritten by the publication), schedule edits (only while
SCHEDULED), odds entered later with an earlier start date (listed as a hazard), and the scans of other
replicas (a scan step is a guarded transaction, so a second scan adds interleavings of the same steps).

### TicketPromise and TicketRefinement

`TicketPromise` is what a customer and an accountant may rely on, without draws, clocks or requests: a
ticket is sold for its stake, refunded while undecided or decided until it is paid, and its money moves
with those steps only. `TicketRefinement` reads a promise state off a lifecycle state (status to phase,
winning row to prize, ledger entries to cash) and `KeepsPromise` says the service implements it.

### OfflineSync: sales of a phone without connection

The outbox (`offline_store.dart`), the sync engine (`sync_engine.dart`, `mobile_runtime.dart`) and the batch
handler (`api/sync/sync.service.ts`), with as much of `tickets.create` as decides whether a ticket appears.

* A request `q` and the run that waits for it share an index. `step[q]` says where the handler stands, then
  where the run stands in its results; `waiting[q]` whether anybody still listens. A handler outlives its
  run, so a second batch can be handled while the first is.
* Each statement of the handler is an action (`LookUp`, `CreateJob`, `Sell`, `Commit`, `Record`): nothing in
  the code holds them together. `Sell` is the checks of `tickets.create`, `Commit` its transaction.
* `Queue` follows a direct sale that got no answer. `online` is that sale if it did reach the server:
  `CheckOnline` and `CommitOnline` are its checks and its transaction. A direct sale that was answered never
  meets the outbox and is part of `TicketLifecycle`.
* `payload` says whether the queued sale is on the draws that were asked for, `open` whether those accept
  bets. What other draws do is nondeterministic.
* `PutOff` puts off the rows that are ready when the error arrives, as the code does, not those that were
  sent. `due` is `next_attempt_at`; the backoff has no last attempt and ends after 256 s at most.

Not in the model: CONFLICT and unsupported operations (this app never sends them), rows that cannot be
decrypted (one makes every run fail, and nothing marks it), a committed statement whose acknowledgement is lost (`FailInTry` covers the same
outcomes for the sale), duplicate receipts (two runs may both queue one; the print queue is in the plan).

### SalePromise and SaleRefinement

`SalePromise` is what a merchant may rely on who sells without a connection, without batches, jobs or retries:
one ticket at most for a sale he has handed over, one decision, an accepted sale has its ticket, he is told that decision
and no other, and a receipt is for an accepted sale. `SaleRefinement` reads what he is told off the row of the
outbox and the decision off the sync job, and `KeepsSalePromise` says `OfflineSync` implements it. The promise
leaves it open whether a refused sale has a ticket, because the direct sale may still arrive (see Divergences).

### Sessions: tokens, passwords and the tabs of a browser

`auth.service.ts`, `jwt-auth.guard.ts`, what `users.service.ts` does to sessions, and the client half in
`session-refresh.ts` and `page.tsx`: tabs (`Tabs`) on devices that share a storage and, where the browser has it, a
lock. `pairs[i]` is the i-th refresh token with the access token issued beside it. Login and refresh are a read, a
claim and a commit, for that is what the code awaits between; `saw` is what a request has read. `user.revocations`
counts what must end all sessions; `late` marks a pair issued by a request that had begun before. A refused tab has
released the lock before it drops its tokens (`Refused`, `ReceiveRefusal`). Asking for a reset link is a look whether
one was mailed of late (`ForgotLook`) and the transaction that uses up the links there are and mails one more
(`ForgotMail`); two that look together both mail, and need not see each other's. `mailed[i]` remembers what the
transaction of link `i` saw. Hashes, the audit log and the rate limits are left out.

### Accounts: what staff set up, against the limits of the plan

Branches, merchants, devices and owners. A handler looks (`LookAt...`) and writes (`Create...`, `Update...`) in
two steps, `job[h]` being what it is about to write; `overlapped` records whether two handlers ever met, which is
what the limits depend on. Two removals of owners may both count two (`LookAtOwners`, `RemoveOwner`), which leaves none: see Divergences.

### Maintenance: the job and what it does to subscriptions and notifications

Replicas, the lease that lapses, the tasks of a tick in their order, each reading rows and then writing them one by
one by id; `todo[r]` holds the rows as they were read. Initial state, steps and types are `JobInit`, `JobNext` and
`JobTypeOK`. Staff activate, extend and change subscriptions meanwhile.

### ResultsFeed: results of the provider and of platform staff

Announcements (`said`) in parts (a game's evening draw, its midday draw), the inbox `events`, the claims and
tries of overlapping replicas, and `result[t]`, the result of the draw at each tenant, with its source and age.
`ReadDraw` looks at status, source and age; `WriteDraw` publishes or corrects. `PublishPlatform` and
`PublishNext` are a publication of staff, tenant by tenant in the order of their ids; each of `Staff` may have one
under way, and nothing keeps them apart. `parted` records that one began while another was under way and found other
draws to publish. Two parts must be known before either is applied.

### Bets: one bet from price to prize

One bet of every kind, with the positions, ranks and three-digit results that make them differ. `Price` is what
create reads, `Commit` the check of the blocked numbers and the sale, `Publish` the evaluation. Odds are dated
rows; `Multiplier` finds the rule in force. A change of the payouts is dated in one step (`DatePayouts`) and entered in
another (`UpdateBoletPayouts`), with sales and other changes in between. `quoted` remembers the multipliers of the sale. Balls are numbers
without leading zeros, which is how every comparison of the code sees them. `MatchedKeys` is what the presented ticket
points at, defined apart from `WinCount` as in the code.

### Reports: the figures of a report while they are made

A ticket is sold, cancelled, deleted and paid, merchants change office and days pass. `Ask` is a request and `scope`
what became of it; `Read(S)` answers a set of queries at one moment. A figure is the set of tickets or lines it adds
up, so that figures that agree agree for any stakes. The dashboards of the merchant and of the platform, each with
conditions of their own, are queries of the same request.

### Documents: the PDF report, the receipt and its image

Deterministic walks of a cursor over every instance given: wrapping as in the code, in integer units. A text is the
lengths of its words. Sums and wrapped lines are recursive functions, one turn of the code's loop each (`WrapWord`).
The specification is `DocSpec` with `DocInit`, `DocNext` and `DocTypeOK`, so that its proofs can stand beside those of
`Reports`. `Measured` and `Drawn` are two definitions because the code measures and draws by different functions, and
`ImageBlocks` a third.

### Console: the tenant's web page

Tabs, menus by role and features, browser history, requests under way (`asked`) with what they were made for, and the
states of the date list of the tickets page and of the range of the reports page. Users have any set of roles, managed or
of the tenant's own (`CustomRoles`, with any permissions). An answer carries the version of
the data it was served at. `LateAnswered` is an answer for a user who has logged out.

### MC modules

They hold the instances for TLC: `MCTicketLifecycle` has `t1` with a line on every draw, other tickets on `d1`
only; a line on `d1` wins 1 with `r1`, one on another draw wins 2 with another result, so the amount tells which
lines won. The others say in their head what they instantiate.

### TicketProofs, OfflineSyncProofs, SessionsProofs, TenantProofs, ResultsFeedProofs, BetsProofs, ReportsProofs, ConsoleProofs

The proofs, checked by `tlapm`, one module for each model, but `TenantProofs` for `Accounts` and
`Maintenance` and `ReportsProofs` for `Reports` and `Documents`; `TicketProofs` and `OfflineSyncProofs` hold the refinements too.

## Runs

| Run | Instance | What it shows |
|---|---|---|
| `TicketTwoDraws` | one ticket on two draws, two results, MaxVersion 2, one scan | `TypeOK`, `SettledTicketsAgree`, `PaidMatchesResults`, `BooksFollowStatus`, `PaidIsFinal`; `KeepsPromise`: the service implements `TicketPromise` |
| `TicketSharedDraw` | two tickets, one draw, MaxVersion 1, one payout key, two payout requests at a time, two process starts | `OnePayoutPerKey`; `ScanReachesStale`, live |
| `TicketNeverPaid` | one ticket, one draw | a statement of the repository the code does not keep, see Findings |
| `SyncOverlap` | one sale, two batches, one loss, one fault | `OutboxTellsTheTruth`, `OneHandlerPerMutation`, `OutcomesAreFinal`; `KeepsSalePromise`: the protocol implements `SalePromise`; `QueuedIsDecided`, live |
| `sessions` | two tabs of one browser, three pairs, two reset links, three of both together, one lapse | `OneSuccessor`, `RevocationReachesAll`, `ReuseIsExplained`, `ResetOnce` |
| `accounts` | two handlers at a time, two merchants, three branches, a single-branch plan and a larger one | `BranchLimit`, `DevicesFollowMerchants` |
| `maintenance` | two replicas, three days, two acts of staff, one tick that breaks off | `GraceIsGranted`; `LapsedIsSuspended`, `NotesAreSettled`, live |
| `results_feed` | one replica, two tenants, two of the staff, three announcements; a lottery on its own or a pair of them | `NewestWins`, `PlatformAgrees`, `PaidIsFinal`; `FeedGetsThrough`, live |
| `bets` | one bet of each kind, results of three and of four keys, four dated events, two changes of payouts under way, one of three blocks | `FreeNeverRefused`, `PaidMatchIsShown`, `PrizeAsSold` |
| `reports` | one ticket, two merchants in two offices, two days, five requests over three periods | `FiguresAgree`, `CommissionIsOfTheSales`, `MerchantSeesHisOwn` |
| `documents` | reports of three tables, receipts with and without every part | `RowsReadUnderTheirHeader`, `ShortTablesAreWhole`, `ReceiptFits` |
| `console` | an owner and a clerk whose custom role may not see the reports, menus of tabs, one failure | `OnlyPermittedTabs`, `ShownMatchesFilter`, `BusyMeansRunning`; `ShownCatchesUp`, live |

`TypeOK` of the other modules states the types of their variables for the reader, and holds in the same instances;
every one of them is proved.

Bounds of `TicketLifecycle` and `OfflineSync`. Two draws are what it takes for a ticket to be partly decided,
published in either order and corrected in between. Tickets interact only through payout keys and through the
corrections of a shared draw, which two tickets on one draw show. `MaxVersion` 2 allows a publication and one
correction of each draw; a further correction finds the same kind of state as the first. In `TicketSharedDraw` it is
1: corrections are in the other run, and its requests are about two tickets, one key and a payout that commits between
any two of their steps. `MaxStarts` is 1 where safety is asked, 2 where a crash must interrupt a scan. Two results
make a line win or lose. In `OfflineSync` two requests are what it takes for a batch to be handled twice at once;
mutations share only the device, the order of a batch and the fate of its rest, so the run has one and the proofs any
number; `MaxLosses` counts answers the phone misses and ends of its app, `MaxFaults` crashes and failed statements of
the server. The proofs need none of these bounds.

Bounds of the others. Every race of `Accounts` and `Maintenance` is between two handlers or two replicas, so there are
two; a third meets the same stale reads. The races of `ResultsFeed` are between a tick, the platform's publication and the
provider, so its run has one replica. Two of the staff may publish one after the other, after one that broke off, or side by side.
`Sessions` has two tabs because the lock and the
storage are shared by pairs, and counters (`Counts`, `Room`) for what may happen without end; two links are what it takes
for one to be newer, or asked for beside the other, and `MaxTokens` bounds pairs and links together. In `Maintenance` a
period, its grace and the day after are three days. In `Bets`, `MaxClock` leaves room for the sale, a change of
payouts before and after it, and two evaluations. In `Reports` one ticket is enough, because no condition looks at
two; every pair of queries is separated by some of the `Batches`, and a disagreement is always one between two.
`Documents` has every number of rows that makes the three branches of a table differ, with texts at the limits of
the column. In `Console`, a user step begins only with `MaxPending` requests or fewer under way, equal requests are one, and a
request is served when it is sent.

`CHECK_DEADLOCK FALSE`, where it is, stands for a system whose clocks, keys, versions or inputs have run out.

Fairness. In `TicketLifecycle` the scan is a loop that nothing but a crash stops, so its steps are weakly fair; starts
are not. `PayFairness`, which only the violation uses, is mostly an assumption on people: a merchant keeps presenting
a winning ticket that is still shown to him, a request ends, and not each of his attempts fails on the way. Draws,
sales and results get no fairness at all. In `OfflineSync` handlers and runs go on by themselves, and time makes rows
due; that some run starts again is an assumption on the phone, since no timer starts one: the connection comes back,
the app starts or the merchant asks. `QueuedIsDecided` also assumes that the device does not stay blocked, and sets
aside the job a crash has abandoned (`Abandoned`, see Divergences). In `Maintenance` and `ResultsFeed` the interval
timers of a replica fire again and again, a lease lapses, a task under way gets on and time makes retries due; crashes
and tasks that throw are bounded (a task that always throws starves the later ones for ever, see Divergences), and
`FeedGetsThrough` names what may hold the feed up (`Held`). In `Console` requests are answered or lost and the timer
that refreshes the tab fires (`page.tsx:463`); users are not fair.

## Theorems

`TicketProofs` proves `Spec => []TicketInv`, from it each safety property of the ticket runs, and
`Spec => KeepsPromise`. Assumptions: the named `ASSUME`s of
`TicketLifecycle` (a ticket's primary draw is one of its draws, prizes are naturals, the sentinels are
no results and no keys, the bounds are naturals).

The invariant is the conjunction of the properties and of one strengthening, `PublishedDraws`: a
published draw has a result, and a draw that is not published has version 0. Without it a publication
could not be told to be newer than every check of the draw, and `Prize` would be applied to draws without a
result. The step that carries the weight is a publication or correction of draw `d`: it recalculates the
tickets it selects, so the argument is that every settled ticket it does not select has no line on `d`
or is paid, and that no paid ticket has a line on `d` (a publication, because a paid ticket's draws are all
published; a correction, because of `RESULT_LOCKED_AFTER_PAYOUT`). `RecalculateAgrees` states this
once and `PublishStep`, `EditResultStep` and `ReconcileStep` instantiate it. For payouts in flight the invariant adds that one inside its
transaction has read a winner with a prize (`InsideIsWinner`). `PaidIsFinal` and the
refinement use the same invariant, one lemma per action.

`OfflineSyncProofs` proves `Spec => []SyncInv`, `TypeOK` and the two safety invariants of the sync run from it, `OutcomesAreFinal`, and
the refinement `Spec => KeepsSalePromise`. The assumptions are that mutations are numbered and bounds are naturals. The invariant adds to
the properties that an answer under way is the outcome on record, that a handler about to record has its
ticket, and that the row whose receipt is fetched is accepted: without the first, a run that applies results
late could contradict the server. The argument is ownership: a job is RECEIVED while the handler that created it
sells the mutation, so no other handler can be at it and nobody has answered it (`AnswerStep`, `CreateInv`);
the other steps decide nothing (`QuietStep`, `SellingStep`). The refinement needs one invariant more, `HandedOver`: nothing is under
way for a sale that is not in the outbox. Then one lemma per kind of step maps it to a step of the promise: queueing hands over,
a commit issues, a record or a rejection decides, an answer tells or is a repetition, and a step that leaves those four variables
alone is a stutter.

`TenantProofs` proves for `Accounts` `Spec => []AccountsInv` and from it the two safety invariants of the accounts run. The assumptions
are that plans are numbers, that branches and handlers are finitely many and that a tenant starts with an owner. The heart of the
invariant is `OneAtATime`: while no two handlers have met, at most one is under way, and what it saw is still so (`Fresh`). Without it
nothing ties a write to its look. `MerchantsExist` keeps a new merchant away from devices that are assigned already.
`BranchesCounted` counts the requests under way beside the branches, which is how `BranchLimit` comes through downgrades: a request
that has counted may still create its branch under the smaller plan. One lemma takes all looks (`LookKeeps`), one each write.

For `Maintenance` it proves `JobSpec => []JobInv`, `GraceIsGranted` and `JobTypeOK`. The assumptions are that bounds
are naturals, replicas finitely many and there is a first day. The types say how far the deliveries of a notification
go past the limit: `MostAttempts` is the limit and one more for each further replica, because a row in hand was read
below the limit (`TriesCounted` counts what those who hold it may add). `GraceIsGranted` is not inductive: what a tick
suspends rests on the grace in the table, which an earlier tick wrote from the row it had read. `GraceKept` says of
both that the grace ends `GraceDays` after the period the row still has, or later, and that a row about to get its
grace was over on the day the task took; `RowsInHand` says what kind of rows a replica has in hand. Staff may move a
period, but either meet no rows in hand or set `raced`.

`SessionsProofs` proves `Spec => []SessionsInv`, the three safety invariants of the sessions run, `ResetOnce`, which is a
property of its steps, and `TypeOK`. The assumptions are
that every tab is on a device, that tabs are finitely many and that bounds are naturals. None of them is inductive, and four
ideas make them so. A row a transaction has claimed is claimed for one request until it ends (`Requests`, `Lineage`), which gives
`OneSuccessor`. What one device stores or a tab remembers no other device knows, and the pair of an answer under way nobody knows
(`Apart`, `Unseen`): without it a pair could be presented by a stranger. And the lock of a device lets one tab at a time
turn the stored pair into an exchanged one (`Exclusive`, `StoredIsCurrent`), which is what `ReuseIsExplained` rests on. An open
link is the newest one asked for, and no link was used since it was mailed (`LinksFollow`, `OpenIsLast`): of two asked for together
the one mailed second need not use up the other, but neither was it asked for after the other was mailed.

`ResultsFeedProofs` proves `Spec => []FeedInv`, `NewestWins`, `PlatformAgrees`, `PaidIsFinal` and `TypeOK`. The
assumptions are that a binding is one lottery or a pair, and that bounds are naturals. While ticks do not overlap, at
most one job runs (`overlapped` is the only place the number of replicas matters); every stored result of the feed
covers all APPLIED events, that is, it is of each of their announcements or of later ones; the keys a job is about to
write cover what was applied so far; and a pair's keys are the newest of both lotteries when they are put together.
Each of these is needed for the write of the next: an older result would otherwise be marked APPLIED beside a newer
one. `PlatformAgrees` has an invariant of its own (`PlatformInv`): publications under way found the same draws and
have all of them before them that are still to be published, so the first that wrote to one has taken the lead
(`Ahead`), and the order of the tenants makes every other one fail where that one has been. `InOrder`, the order of
the inbox, is stated as a set of sequences instead of a library fold, so that it can be reasoned about. The proof has
one lemma per step of a job.

`BetsProofs` proves `Spec => []BetsInv` and the three invariants of the bets run. The assumptions are that a Maryaj is
two balls (`validateSelection` wants them), that stakes are positive (`priceLines` refuses others), that a block is
one number or two (`blockNumber` admits no more), that multipliers are positive (as `createOdds` and
`updateBoletPayouts` take them) and that keys are naturals; results may have any number of keys.

`PrizeAsSold` needs `Quoted` and `OneStart`: the multipliers of the sale can still be looked up, because rules entered
later start later, a rule that is ended is cut off at the time of the change (`Kept`), and two rules of a rank never
start together, so that the newest one is the same rule for ever (`OddsOfThePast`, by way of `NewestExists`). Payouts
that are dated and not yet entered count with the rules (`DatesFree`); of those dated before the sale `backdated`
takes note when they are entered. `FreeNeverRefused` is the agreement of two comparisons (`DrawableIsFree`),
`PaidMatchIsShown` that of two definitions of a match (`WinHasMatch`). A second invariant, `FitInv`, gives `TypeOK`
and `WinnersArePaid`: a line that has been evaluated is paid something exactly when it wins. The repository takes the
opposite for damage and repairs it (`results-reconciliation-policy.ts`, `needsWinnerRepair`); the theorem says that no
sequence of payouts, corrections and evaluations brings it about, rounding apart, since amounts are naturals here. It
rests on two facts: the multiplier looked up is positive at every time (`PositiveMultiplier`), and the library's sum
over the ranks won is a natural, positive when a rank is (`SumOfNumbers`).

`ReportsProofs` proves `Spec => []ReportsInv`, `TypeOK` and the three invariants of the reports run. The assumptions
are that every merchant has an office, that the lines of a ticket are on its draws or none and its primary draw among
its draws, and that days are naturals from 1. The invariant is `Exact`: of a ticket nobody has touched since the
request, each answer says what the condition of its query still says. Answers are given at different moments, so
nothing weaker lets two of them be compared; the comparison of conditions is then pure logic, query by query
(`SaleWhere`, `InScope`, `Within`).

For `Documents` it proves `DocSpec => []DocInvariant`, `DocTypeOK` and the three invariants of the documents run. The
assumption is that a report is a sequence of tables with a number of rows and a text, a receipt its parts and a
sequence of rows, and a text any sequence of lengths: nothing bounds how many there are. `ShortTablesAreWhole` is not
inductive, since it speaks of rows that are drawn. `Ready` is what makes it so: while a table of twelve rows or less
is drawn, there is room on the page for all the rows that are left, because a row is no higher than three wrapped
lines, however its words are cut (`WrapStep`, `CellLines`). The receipt's invariant is that what is drawn so far is at
most what was measured for these blocks (`ReceiptInvariant`), the image's that each part leaves room under it
(`ImageInvariant`). What wrapping and sums compute for every text is an induction over data. The library's induction
theorems take an operator, but its well-founded minimum does not (`WFMin` with `NatLessThanWellFounded`): `UpTo`
derives induction up to a bound from it, for sets, `FoldExists` the existence of a recursive function on an interval,
and `SumOfNumbers` in `BetsProofs` the same for a sum over a finite set.

`ConsoleProofs` proves `Spec => []ConsoleInv`, its types, and the three invariants of the console run for `FairSpec`.
The assumptions are that every menu has the dashboard, that roles are managed ones or the tenant's own, which may have
any permissions, and that the default filter is a filter. The invariant says that a request under way for the list or
the report is for what is chosen now, or nobody waits for it: that is how answers overtaken by a later choice are told
apart. `OnlyPermittedTabs` is inductive with the types alone, once `AvailableTabs` is known to hold the dashboard.

Only model-checked: liveness (`ScanReachesStale`, `QueuedIsDecided`, `LapsedIsSuspended`, `NotesAreSettled`,
`FeedGetsThrough`, `ShownCatchesUp`), which `tlapm` cannot do under fairness, and the violation below.

## Findings

* `TicketNeverPaid`: `pay` wants a line with a positive `potentialWin`, on lines that
  `presentTicketLines` has stripped of it. No payout can succeed.

## Divergences

What follows was met while modelling. It is in the models, as the code has it, and the properties are stated so that
they hold with it; no run is made of it.

Tickets and sync. A sale that found its draws open commits after they were published; the ticket is VALID on decided
draws until the next process start scans for it (`multi-ticket.service.ts:42`, against
`docs/architecture/ticket-payout-invariants.md:8`). A merchant cancels a multi-draw ticket after one of its draws has
closed, since only the primary draw is looked at (`tickets.service.ts:101`, `docs/architecture/merchant-pos.md:16`). A
payout that waits for the lock of its key has taken its snapshot before, so its second lookup does not see the payout
it waited for, and it fails instead of answering with it (`payouts.service.ts:2`,
`docs/architecture/ticket-payout-invariants.md`). The lookup compares the key alone: a key used again for another
ticket is answered with the payout of the first. Cancelling a draw leaves its tickets as they are, and a draw whose
window passed while the job was down is neither opened nor closed (`lottery.service.ts:67`, `jobs.service.ts:18`). A
crash after the sync job is stored and before its ticket is leaves the job RECEIVED, every retry is answered RECEIVED
and the phone retries for ever (`sync.service.ts:3`, `docs/architecture/background-jobs.md:11`). When the update of
the job fails after its ticket was created, the sale is recorded REJECTED although it was made. The sync of a sale is
rejected and the direct request for the same sale, still on its way, commits after that
(`docs/architecture/offline-sync.md:8`). A batch sets its device ONLINE by id, also when it was blocked since the
check (`docs/architecture/offline-sync.md:7`). A sale on several draws whose request gets no answer is queued with all
its lines on the one selected (`new_ticket_screen.dart:255`).

Sessions. The browser's logout sends nothing to the server. A tab that is refused clears a storage another tab has
just filled. `changePassword` verifies the old password before a reset overwrites it. A refresh that commits while
a reset does escapes it: `RevocationReachesAll` excepts exactly such pairs (`late`). A link stays good when staff or the user himself
set another password after it was mailed, since only `auth.service.ts` touches `usedAt`. Two links asked for at the same time may both be
good until one of them is used. These are at odds with
`session-refresh.ts:10`, `docs/architecture/tenant-console.md:23` and `docs/security/security.md:10`.

Accounts. A reactivation or a downgrade can leave more active merchants than the plan has. `approve` makes a blocked device
OFFLINE without looking for room. An edit of a merchant's name that was read before a move takes the merchant back, and not
its devices. The limits hold as long as requests do not overlap; `BranchLimit` says how far they may be off. A device assigned while
its merchant moves may stay behind in the old office (`overlapped`).

`LAST_TENANT_OWNER` is a count before the write: two removals at once leave no owner (`users.service.ts:5`, against
`README.md:26`).

Maintenance. Rows read before an extension put the subscription back to PAST_DUE or SUSPENDED (`raced`). A success adds one to
the attempts the row has by then (`jobs.service.ts:34`), which replicas that overlap take past the limit. A task that throws
ends the tick, and if it always throws, the tasks behind it never run (`jobs.service.ts:17`).

Results feed. The feed may replace the result of staff where its policy lets it; tenants that have no such draw yet
are counted missing and their event is APPLIED and never tried again; a crash leaves an event PROCESSING; the
provider's return to an earlier result is dropped as a duplicate; the WAITING mark is never taken back; a draw of one
tenant that is not closed holds up the event of all, which is given up after eight tries; with overlapping replicas an older result can
be applied over a newer. `Held` and the first conjunct of `NewestWins` name these. A publication of staff that found a draw another
under way had not found (it was still open then) can write its numbers there and the other's elsewhere (`parted`,
`results.service.ts:122`). After one that broke off, a retry with other numbers is refused, and only a correction helps.

Bets. `multi-ticket.service.ts:55` gives every Bolet the position 1, where `ticket-line-flags.ts` and its tests speak
of Bolets that win at any rank. A Bolet does not win on the last two digits of a three-digit first result if its ball
is below ten. A stake limit above 1 refuses every ticket that earns free Maryaj, as they are lines of stake 1. A Bolet
sold without a position is not caught by a block of one position and can win at several ranks, beyond the
`potentialWin` shown. A Maryaj does not use the last two digits. A result of more than three keys, which staff may
publish (`results-manager.tsx:78` admits twenty), pays a Bolet without a position at its fourth rank too, and the
ticket shows no match for it (`ticket-line-flags.ts:151` against the comment above it): `PaidMatchIsShown` excepts it.
`createOdds` with a start in the past changes the prize of tickets sold, and so does `updateBoletPayouts`, which reads
its `now` before its transaction (`lottery.service.ts:69`): a ticket sold in between is paid at the new multipliers,
not at those it was quoted (`backdated`).

Reports. The commissions of a merchant who changed office follow him, his sales do not. A cancellation between two queries
is counted in neither or in both. The scope of draws and pdf is read again for each. An office that is not the
merchant's is refused when asked, not when read. The tenant's staff may delete a paid ticket (`tickets.service.ts:128`),
whose sale and payout then leave the reports. The merchant's dashboard counts deleted tickets and the
sales of his former office, his report does not.

Documents. Cutting a long word can lose its last one or two letters without dots. A table of more than twelve rows
may leave its header alone at the foot of a page. The extra text of a line is wrapped on the receipt and not on its image.

Console. The button on the dashboard leads to the reports whether or not the user may see them (`page.tsx:659`): one
whose custom role has no `reports.view` stands on a tab that is not in his menu, and its requests are refused. The
merchants and branches tabs load `/settings` with the rest, which DIRECTOR and SUPERVISOR may not read, so the whole
tab fails for them (`page.tsx:408`, `docs/architecture/tenant-console.md:12`); the dashboard of FINANCE is refused
likewise, and since features come from `/settings`, some roles never see tabs they have paid for. Forms are shown
without the permission the server asks. The message of a form is cleared at once by the reload. `busy` is shared by
requests that overlap. Answers that come after a logout store a former session's data, and the ticket shown in a
dialog survives it.

## Not modelled

* The print queues. The server's (`printing.service.ts`, `services/printing/src/runner.ts`) is a state machine of its own:
  workers claim jobs up to five times, print, and report. A worker that dies leaves its jobs PROCESSING, and a report
  that is lost after the paper is out has the job printed again (one hazard). It shares nothing with the other
  modules but the DELETED event of a ticket. The phone's queue is one loop on one phone.
* Cash sessions: three SERIALIZABLE transactions on one row, and a sum over tickets. The hazard of a refund
  that falls into the next session is listed.
* Stake limits by scope, commission amounts, currencies and prices: decimal arithmetic without a protocol.
* In `TicketLifecycle`, notifications, schedule edits and the scans of other replicas (above). In `ResultsFeed`, the
  limit of three days of the reconciliation. In `Console`, the list of winners, the branding form that is saved
  outside `run()`, the dialogs, and the first 800 ms of a forced change of password; the period typed and not applied
  on the reports page. In `Bets`, two events in one millisecond. In `Reports`, the time zone of the bounds of a day.
* Audit, finance, health, tenants, domains, billing, the writing of roles: lists and rows written by one statement each.
* The printer SDK, the QR code, translations and the other screens: rendering, without state between two events.

## Plan

1. Done: `TicketLifecycle` and `OfflineSync` with their abstract specifications, `Sessions`, `Accounts`, `Maintenance`, `ResultsFeed`,
   `Bets`, `Reports`, `Documents`, `Console`.
   Every safety property of their runs, and every `TypeOK`, is proved.
2. `PrintQueue` and `CashSession`.

No module that is to be proved about declares a RECURSIVE operator.
