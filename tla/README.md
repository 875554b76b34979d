# oddinvest in TLA+

Models, checks and proofs for `oddinvestd`, the Go service that keeps a
household's investments in SQLite, computes a plan from them every time it is
asked, and publishes it over HTTP and, as a retained MQTT document, to Home
Assistant. The definitions are translated from the source; `PROJECT.json` maps
each to the lines it stands for, and lists the hazards of the code with the
properties that watch over them.

## The system

One process, one SQLite file, one connection to it (`SetMaxOpenConns(1)`), so a
statement or a transaction is atomic and everything between two of them is not.

| component | state | operations | talks to |
|---|---|---|---|
| web server (`api/server.go`, `handlers_*`) | `pubRunning`, `pubPending` | some 150 handlers: decode, check, call a store, `publishAsync` | store, `Runner.PublishState` |
| publisher (`mqtt/publisher.go`) | `gen`, `last`, `lastGen`, the MQTT connection | `NextGen`, `PublishState`, `OnConnect`, `Retire`, `Close` | broker |
| hub and fleet (`api/hub.go`, `jobs/fleet.go`) | `sats`, `others`, a runner and a publisher per portfolio | add, delete, dispatch, daily run | store, publishers |
| jobs (`jobs/*.go`) | marks in `app_state`, snapshots, dumps | refresh of bonds, rates, auctions, CPI, quotes; snapshot; backup | National Bank, exchange, store, disk |
| tunnel (`tunnel/*.go`) | secrets in the database, the connector process, the certificate in memory | `Connect`, `Disconnect`, `supervise`, `EnsureCert`, `renewLoop`, `Close` | Cloudflare, ACME |
| store (`store/*.go`) | the tables | one method per statement or transaction; migrations; export and restore | SQLite, files |
| deployment (`deploy/*.sh`, the systemd unit) | `$BIN`, `$BIN.prev`, copies `<db>.pre-<version>` | build, swap, restart, check, rollback | service, files |
| engine, domain, present (`engine`, `domain`, `state`, `present`, `payoff`) | none: pure functions of the tables and the date | building the state document, allocation, routes, projections | called by handlers and jobs |
| login, settings, imports, web interface | sessions, settings, the mark of the last statement | | store |

What is hard here, component by component (each with its line in "hazards"):

- **publication**: several goroutines describe the database at the same time, and
  the link to the broker comes and goes; the last change must reach the topic
  and an older document must not replace a younger one;
- **portfolios**: a portfolio is a row, an entry of the hub, a runner of the fleet
  and a publisher, made and undone in several steps next to requests, the
  daily run and publications;
- **auctions**: a mark says up to where data has been taken; a day that failed or
  was not published yet must not fall behind it;
- **tunnel**: two users, a supervisor, an issuance of minutes and a shutdown share
  secrets written key by key;
- **deployment**: there are no down-migrations, so undoing a release means
  finding the right copy of the database, also after restarts in the middle;
- **daily run**: retries, restarts and a run that crosses midnight, between a
  snapshot, its dump and the mark that says the dump is there;
- **books**: references between rows, checked in one statement and written in
  another, taken apart and put together again by a backup;
- **imports**: every statement brings the whole history, and rows have no names;
- **figures**: money that is divided, rounded, moved and counted in several places
  must stay the same money.

## The modules

| module | what it models |
|---|---|
| `RetainedTopic` | abstract: what a subscriber of the retained topic may rely on |
| `StatePublication` | `publishAsync`/`publishLoop`, `Runner.PublishState`, the publisher, the MQTT client; implements `RetainedTopic` |
| `PortfolioLifecycle` | hub, fleet and publishers of the satellites: add, attach, mutate, daily run, delete, restart |
| `AuctionWatermark` | the refresh and the backfill of auction results around their common mark |
| `TunnelManager` | tunnel, connector, certificate |
| `SchemaMigration` | the starting service, systemd and the deploy script |
| `DailyRun` | the schedule, its retries and the catch-up; snapshot, dump, mark and pruning of each portfolio |
| `Books` | rows and their references, statement by statement; export, restore, a new machine |
| `StatementImport` | the broker's statement imported again and again |
| `Ledger` | what handlers accept: validation, the look at other rows, the write, and another request in between |
| `Calendar`, `Money` | dates and months; rounding and dividing sums |
| `Holdings`, `FundMath`, `DepositMath`, `DebtMath` | bonds; funds and pension accounts; deposits and reserve loans; debts and cards |
| `DebtPlan` | paying debts off month by month |
| `Allocation`, `Route`, `PlanMath` | laying out a sum; the year's receipts; the plan's flows and months |
| `Capital`, `Tasks` | where each coin counts; what the person is asked to do |
| `Rebalance`, `Offers` | the targets and what the capital depends on; what there is to buy, in which order, and what was chosen |
| `Figures` | draws the bounded cases on which the algorithms are checked |
| `*Proofs` | theorems about a module |
| `MC*` | a module for TLC: bounds and symmetries |

Each module names in its header the files it is about. A definition marked
`[mutant]` is a plausible mistake in the code; each property is checked to fail
when the mutant takes the place of the original.

**StatePublication.** A document is two numbers: the versions of the database its
first and its last query saw (`from`, `upTo`). `Commit` is a handler's transaction,
`publishAsync` what it does afterwards, `publishLoop` the end of a round. The three
callers of `PublishState` (the loop, the start-up goroutine, the daily run) go
through `NextGen`, `BuildFirstQuery`, `BuildLastQuery` and the critical section
`PublishState`. `OnConnect` is a goroutine of its own, as in paho. The client's
queue, its unacknowledged messages and the broker's topic are external: over a new
connection the client sends again what was not acknowledged, oldest first and before
anything newer, as MQTT asks of QoS 1, or it starts afresh. `Restart` forgets all but
the database and the topic. `renewed` and `shown` are history: nothing has arrived over
this connection yet, and what the topic has held. With them `RetainedTopic` can say what
the program really promises: a document readers have not seen is younger than all
they have, and only the first to arrive over a new connection may take the topic back, to
one it has held before; those that follow come in their order.

**PortfolioLifecycle.** `spawned[n]` is the n-th satellite ever attached since the
start (its goroutines and publisher may outlive its removal), `sats` the hub's and
`others` the fleet's view. A request passes through the places of `handleAdd` or
`handleDelete`; a failure of the database may strike at each. A satellite attached
twice has two entries. Renaming is left out, since only the title changes.
`Limits` is a set of bounds, one of which a behaviour gets: the same module is
checked with one user and every accident, and with two users and none.

**AuctionWatermark.** Days are numbers, each is an auction day whose results come
out that day or never; `RefreshAuctions` runs day by day under `refreshMu`, the
backfill next to it without. The last day lasts for ever, so that runs go on
after it. `CatchupCap`, `BackfillDays` and `MinDays` are the constants of the code
made small. Day 0 stands for "no mark", hence a service starts on day 2 at the
earliest.

**TunnelManager.** Tunnels and DNS records are numbered by the cloud. Every request
walks through the calls of `Connect` or `Disconnect`; secrets are written one key
at a time. `stop` is two steps (take and cancel, wait), a supervisor is an entry of
`conns`. The issuance of a certificate runs on its own between reading the secrets
and `saveCert`. Creating a tunnel or a record and finding an existing one is
one step, and so are creating and deleting the challenge record.

**SchemaMigration.** Migrations are numbers in the order of their names, a schema is
how many are applied. A build knows a number of them, may fail in one of them, or
fail to come up after them. The contents are the set of users' changes, so that
what a restored copy lacks can be named. The script runs to its end; a copy that
is not whole may lie about at the beginning, as builds before `copyAtomic` could
leave one. `excuses` and `held` are history: they record why a deployment cannot be
undone, and what users had entered before it.

**DailyRun.** Time is a number of hours and goes by also during a run, up to the
hours a behaviour allows a run. `proc` is where the goroutine of `RunDaily` stands.
A snapshot is a day in a set, a generation of the backup a day with the version
of the books it was taken from, the copy under the stable name and the mark are a
version and a day. `persistDaily` is its steps, each of which may fail or be the
last before a crash. `Start` is `RunDaily`'s look for a snapshot of today.

**Books.** A row is its table, id, portfolio, the row it refers to, and a label that
stands for its content. A request is its statements; between them others run, a
restore included. `swapped` is history: a restore has given the number that a request
under way had looked up to a row of another portfolio. `Restored` is `ImportAll` loop by loop
(`RestorePapers` ... `RestorePlan`), each over the rows of one table of the file in the
order of their ids, with the ids it gives and the references it rewrites. The journal of
the plan is written in the transaction of the change. A behaviour looks at one set
of tables that refer to each other.

**StatementImport.** The broker's history is a sequence of events, a statement the
part up to a day; what was paid on top of a conversion comes in the same statement or in a
later one, and is then part of the bought leg's amount (`Bought`). The import
recognises rows by what they say, since they have no ids, and writes what is left one
statement at a time.

**Ledger.** Six topics (papers, cushion, debts, plan, savings, pension), each with
the tables of one part of the books. A request validates, looks at the rows it must
agree with and waits; its write is another step. Only requests that overlap may
leave what the looks forbid, and the module remembers who overlapped whom.

**The algorithms** have no state. Dates are numbers YYYYMMDD, sums minor units;
where the program computes in floating point and rounds, the module computes with
fractions and rounds at the same place. Three scales are smaller than the
program's: the least amount worth allocating (`allocMinCut`) is 10 units, steps are
20 and 60 instead of 1 000 and 5 000 UAH, a payoff ends after 40 months instead of 600. A debt's
yearly rate, found by bisection in floating point, is given, and so is a bond's yield to
its maturity. `Rebalance` counts shares in hundredths of a percent as the document does;
`Offers` compares them with the tolerance of the code (`lessSuggestion`).

## The runs

TLC, each within the bounds of its `.cfg`. `CHECK_DEADLOCK FALSE` everywhere:
the bounded environment runs out of moves, and a service at rest is not stuck;
that nothing hangs is the liveness properties' matter.

| run | what it asks | bounds and why they do |
|---|---|---|
| `publication` | `OrderInv`; does the topic keep the promise of `RetainedTopic`? does the last change arrive, and stay? | the loop and one caller besides it, at start and daily; three moves of the environment: up to two changes (the second falls into a running loop), at most one failed build, drop, restart and daily run each. An overtaking needs two callers, a document sent again one drop, an old lifetime one restart |
| `portfolio` | do hub, fleet and table agree, is a deleted portfolio's document erased, can a satellite answer for another portfolio? | one request at a time: add, delete, add again, with a failure, a drop, a daily run, a restart; or two clients with four requests on two names |
| `auction_watermark` | does every published auction arrive, and none fall behind the mark? | five days with a cap of two and a backfill of three, one failed request, one timeout or restart |
| `tunnel` | can a connector be left that nobody can stop, does it follow the secrets, is the tunnel up and certified in the end? | one user with two requests, a failure, a fall, an ageing, a restart; or two users and a shutdown |
| `schema_migration` | does a deployment keep the data and leave a service? | two deployments of any builds with two new migrations, two changes, one crash: an attempt and its repetition |
| `daily` | has every day its snapshot and its backup, does the mark tell the truth, are generations safe, is the National Bank left in peace? | three days of five hours, two portfolios; a failed step and a crash, or two restarts, or changes of the books and a run that crosses midnight |
| `books` | do references hold, can the backup be restored, does it bring back the same rows, does anything touch a neighbour? | two portfolios, two to five rows in each set of tables, one backup, one restore at any moment, also under a request, a crash or a new machine where they matter; thirteen sets |
| `statement_import` | does a row enter twice, does the mark hide one that is missing, is a torn conversion made whole? | six histories of up to four events, one with a payment on top that comes a day late, four imports with two failures and an entry by hand, or a mark moved by hand, or two imports at once |
| `ledger` | what can be made to disagree, and by what? | three or four rows of each topic, two requests at once, two currencies, quantities 0 to 2 |
| `figures` | do the algorithms' figures add up? | a case is a state: some hundred thousand of them, drawn subject by subject, with sums that do not divide, days at the ends of months and of a leap February, a nominal paid back early, a payout marked ahead |

`schema_stale_copy` ends in a counterexample on purpose: a comment says that the copy
made before a migration holds the database as it was (`migrate.go:267`), but
the second attempt to deploy a migration relies on the copy of the first, which
lacks what was entered in between, and which the rollback does not take for new,
so that it starts the previous build over a schema it refuses
(`lxc-deploy.sh:182`).

`statement_top_up` is the other one. The comment at `importStatement` says that without
recognising old rows "a second import would double the position"
(`handlers_import.go:236-237`). A leg of a conversion is recognised by its amount
(`pairKey`), and the parser adds what was paid on top up to a day later
(`inzhur.go:268-291`). A statement that ends between the two shows the purchase with one
amount, the next with another: two keys, and the purchase enters twice.

### Fairness

Goroutines that can run do run, requests under way and the script go on, the MQTT
client keeps connecting and sending (`SetAutoReconnect`, `SetConnectRetry`), systemd
starts a failed service again (`Restart=on-failure`), the daily run comes and the
backfill runs to its end: weak fairness of exactly those actions. Nothing is assumed
to make users act, results come out, calls fail, links drop or processes die.
Failures, drops, crashes and timeouts are bounded by constants: a system that fails
for ever need not settle.

### Where the code does other than it says

Besides `schema_stale_copy` and `statement_top_up`, these statements stand in the modules (each with the
comment or the code it is about) without a run of their own. TLC violates each
within seconds or minutes when it is added to the run named:

- `publication`: `TopicNeverStepsBack` ("the order in the topic is the order of
  generations", `publisher.go:105-107`): what the client delivered and the broker did not
  acknowledge comes again after a drop, older documents first, and until they are
  through readers see an older document than before. `PublishedInOrderOfReading`
  (`publisher.go:35-39`): a generation is taken before the queries, so that the order of
  generations is not the order of reading.
- `portfolio`: `AttachedAgainOnlyIfStored` (of two simultaneous deletions the second
  fails because the row is gone and attaches the portfolio again,
  `hub.go:248-256`), `NoSnapshotOfDeleted`, `NoGhostInTopic` (the daily run works on a
  copy of the list, and a publication may hold the publisher while it is retired).
- `auction_watermark`: `MarkHasNoGaps` (the backfill moves the mark past days it failed to
  get, `jobs.go:458`).
- `tunnel`: `CertificateForTunnelName` (connected under another name, the tunnel keeps the
  certificate of the old one until that is about to expire, `cert.go:163`),
  `ConfiguredMeansComplete`, `CertificateGoesWithTunnel`, `NothingLeftBehind`,
  `NoConnectorOutlives` (half-written secrets, an issuance that ends after the
  disconnect, the DNS record of an earlier name, a connector started after `Close`).
- `daily`: `BackupWithTheSnapshot` (a crash between them: the next start looks at the
  snapshots only).
- `books`: `JournalSurvivesTheMove` (in an empty database the journal's lines of a deleted
  source of income meet a new source with its number). `ParentsAreOwn` (`store.go:123-130`:
  the check of the owner before each write of a child is to keep it from another
  portfolio's parent): between the check and the write the parent may be deleted and its
  number given to a row of another portfolio by a restore; the write looks at the number
  only.
- `statement_import`: `RepetitionAddsNothing` (with two imports at once),
  `NoHalfConversion` (`handlers_import.go:176`; 368-371 says otherwise). The comment at
  `handlers_import.go:271-275` is older than the code: it says that a conversion torn
  between its legs stays unlinked and that a repetition cannot heal it, but `orphanLeg`
  (317-330, 476-488) finds the leg without a pair and links it, which is what
  `ConversionHeals` checks. Not healed are a link torn between its own two statements and a
  conversion that has entered with two purchases.
- `figures`: `CostIsTold` (`payoff.go:324-325`: that a debt grows when its payment does not
  cover the interest is "just what must be seen, not smoothed away"): a card that asks for
  nothing (no minimum and no floor, which `debtFromReq` accepts, `handlers_debts.go:83-120`)
  grows by interest every month, but a month without a payment has no step
  (`payoff.go:266-268`), so that this interest is neither in the cost of the walk nor in
  the schedule the page shows. `CancelsOnlyWhatIsCharged`, `ConversionKeepsCost` (a sum paid on top of a
  conversion is not in the cost that is inherited, `funds.go:208-215`), `NextPayoutIsNext`,
  `TopupsGrowInterest` (`deposit.go:565`), `OneTimeOnce` (`state_plan.go:99-125`,
  `plan_timeline.go:540`), `GoalNotAskedLessForAPart` (`derive.go:641-645`),
  `GoalNeverOverfilled` (`route.go:555-570`, 633), `ReserveNeverOverfilled`
  (`route.go:316-321`, 541), `MarksKeepThePast` (`payment_status.go:55`,
  `earmark_pool.go:94-98`), `SnapshotIsTheDocument` (`rivals.go:444`), `AmountsAreEnough`,
  `EveryMonthAsked` (`store/npf.go:88`, `domain/npf.go:370`), `MoreNeverCosts`,
  `AvalancheIsCheapest` (`payoff.go:61-63`), `MinimumIsTheScheduleAlways`
  (`payoff.go:184-186`, 335), `ShortIsNeverOut` (`state_debts.go:731-737`).

Met while modelling, and left as they are in the models:

- edits are checked less than creations (`store.go:307-310`, `handlers_reserve.go:279`,
  `handlers_debts.go:250-258`): an edit reaches states no creation would;
- debts: what a fully paid card owes counts what has no grace period
  (`payoff.go:225-231`, `state_debts.go:195-199`, `state_month.go:657-661`); fees that
  go on after the body is paid are not counted; when a card's payment is less than its
  interest the schedule's rest stays while the debt grows; a partial extra payment
  lowers the month's demand twice when the ceiling is the total
  (`state_debts.go:274-280`);
- deposits: a top-up edited under another deposit's path is read in that one's
  currency (`handlers_deposits.go:326-327`); days after today or after the end are
  taken;
- plan: two flows with a share can take 120 % (`handlers_plan.go:428-430`,
  `state_projection.go:474-489`, `state_plan.go:424`);
- pensions: a note is lost to an overlapping edit (`handlers_npf.go:185-196`);
- reserve: a small early repayment can make a loan dearer;
- offers: quotes are picked by their age alone (`quotes_pick.go:156`) and doubted
  afterwards (`unit_cost.go:130`), so that one cheap quote nobody believes takes the price
  away from a dearer one; a comparison with a tolerance is not transitive, and where gains
  differ by a hundredth of a percent the order may depend on how the rows were found;
  a decision is recorded by kind and name, so that the second deposit of a bank gets the
  first one's place (`decisions.go:85`);
- reserve: a card with its exit date ahead and nothing owed, or a plan that is paid but
  not closed, still caps the reserve's months;
- tasks: pension accounts do not make a portfolio (`state_tasks.go:727-743`), a card's
  task stays with nothing to pay (1173), the order of equal tasks follows a Go map
  (677), a receipt due on the last day of a month is asked for on that day only.

## The proofs

TLAPS checks them for every value of the constants that satisfies the modules'
assumptions. Each theorem about a state is the same argument: a strengthening of
the property that every step keeps, checked with TLC first, then one lemma per action.

`StatePublicationProofs`, for any set of callers and any bounds:

- `PublicationTypeOK`: the type invariant;
- `PublicationOrder`: `OrderInv`;
- `PublicationKeepsItsPromise`: the publisher implements `RetainedTopic`;
- `QuietTopicIsCurrent`: `QuiescentIsCurrent`.

All hold with the client's repeats after a drop; the assumptions are that the bounds are numbers
and that the loop is none of the other callers. What the client does is
assumed: it sends in the order of its Publish calls, and again in that order.

"A new document is younger than all that were shown" is not inductive: it depends on what is
queued, and that on what is remembered. `OrderInv` adds that generations in use are distinct
and none of them is the remembered one (`GenerationsTaken`), that the remembered
document is the youngest handed over (`Remembered`), and that what is unacknowledged, what
is queued and what is remembered form a chain in which an equal generation means the same
document (`Chain`); what is sent again has been shown. With it each step maps to a step of
`RetainedTopic` or a stutter. `QuietTopicIsCurrent` needs another invariant,
`SettleInv`: whoever knows of a change that nobody describes yet (a handler that has not
announced it, a loop that is asked for another round, a caller with a fresh
generation) is still at work, and what is remembered is either in the topic or on its
way there (in the queue, unacknowledged, or owed to the next connection).

`SchemaMigrationProofs`, for any number of migrations, deployments of any
builds, changes and crashes:

- `MigrationTypeOK`: the type invariant, with the meaning of a copy's name;
- `MigrationServesItsOwnSchema`: nobody serves over a schema other than its own;
- `MigrationRollbackKeepsOldChanges`: what a rollback restores is whole and holds
  everything users had entered before the new build took over;
- `MigrationPreviousCanServe`: but for the three excuses, the database left by a
  rollback is one the previous build can serve;
- `MigrationRollbackInv`: the invariant they come from.

The assumptions: the constants are numbers, `NoCopy` is not itself a copy, and
`KeepAssumption`: what is deployed brings no more migrations than copies are kept
(`migrateBackupKeep`). Without the last, a deployment that starts again and again
could prune its own first copy.

`RollbackInv` has four parts that need each other. `AtWork`: where the process
stands agrees with the schema. `InTurn`: the predecessor's schema is a lower bound of
the database's, and an old process still running has made no copy. `CopiesHold`: each
copy that was not there before the deployment is whole and holds what users had
entered; such a copy has a name above the first schema, hence is never pruned
(`NeverPruned`, by counting). `FirstOfThem`: without an excuse, the first of these
copies is named after the migration next to the predecessor's schema, so that
the smallest name (`MinIsInTheSet`) is the right one. Even the types need all this:
what `Restore` puts into the database has a type because the copy is there.

For `AuctionWatermark` (its theorems stand at the end of `DailyRunProofs`, which extends both
modules: a daily run refreshes the auctions), for any number of days, failed requests and runs
cut short, any cap and depth: `TypeCorrect` and `NothingIsLeftBehind`. The mark moves in
four places; the invariant (`Secured`) says of each process under way what the
mark may move to: all published days up to the newest one a refresh has taken are
stored or given up (`NewestKept`), up to the day its catching-up has come to
(`CatchUpKept`), up to the day the backfill has come to (`BackfillKept`). Two of
them run at once, and each may set the mark back or forward under the other.

`TunnelManagerProofs`, for any names, requests, clients (a finite number) and limits:
`EveryConnectorCanBeStopped` with two users and a shutdown interleaved, and
`ConnectorIsTheStoredOne` with one user. The invariant of the second (`AloneInv`) follows a
request through its keys: secrets are written in the order of `ConnectKeys` and
`DisconnectKeys`, the token third of them, and what `stop` waits for is the only
connector still at work besides the one the manager knows.

`PortfolioLifecycleProofs`, for any names, any finite number of clients and any limits:
`PortfoliosStayInPlace` and `GhostsNeedAnAccident`. That a satellite never
answers for a portfolio of another name needs only the types (`lastId` never comes
back); the other two hold with one request at a time, and the invariant (`OneInv`) says
for each place of `handleAdd` and `handleDelete` what of row, hub, fleet and
publisher is already made or still there, and for each publisher that is gone what
may yet come back to its topic.

`DailyRunProofs`, for any number of portfolios, hours of a day, hour of the run,
retries, generations kept, failures, crashes and changes, as long as a run takes no
more hours than lie between midnight and its hour (`Limits`; so that it crosses
midnight once at most) and every portfolio has a runner (`Order`): `NoDayIsMissing`,
`TheMarkIsTrue`, `RunsAreFew`, `GenerationsAreSafe`. The invariant: the service waits
for the next daily hour or for a retry within the day (`Wakes`); the runs so far and
those that may still come are few enough (`RunsLeft`); the portfolios a run has passed
have their snapshot and generation of the day it began or the next (`DaysKept`);
generations are younger the later their day (`InOrder`); the dump in hand is no older
than the books at the beginning of the day (`DumpInHand`). The days and hours of time
are arithmetic with a variable length of the day (`TimeParts`, `NextHour`, `DaysFollow`,
`NextRun`), pruning is counting (`EnoughStay`, `OneStays`).

`BooksProofs`, for any portfolios, requests, sets of tables and bounds, crashes, new
machines and restores included: `ReferencesAlwaysHold`, `FileCanAlwaysBeRestored`,
`RestoreIsAlwaysFaithful`, `NeighboursAlwaysUntouched`, `PairsStayMutual`,
`JournalAlwaysMatches`. `BooksInv` has three parts. The rows
are `RowsOK`: ids are below the sequence of their table, no two rows share one, every
reference with a key names a row of the same portfolio, and what is unique is. A request
under way is `RequestOK`: the row it has looked up, if it is still there, belongs to the
request's portfolio (`Known`): the code checks the owner in one statement and writes in
the next, and what saves it is that an id is never given out again. The file is
`FileOK`: the rows of one portfolio, references included. The restore is an argument
of its own, `Underway`: after each step of each loop the rows of the file already
brought back are the images (`Moved`) of the file's rows, other portfolios are as they were,
and a reference that names a row of the file already written is rewritten to its
image. A loop is a recursive function over ids, a property of which is an induction
over a set of rows (`WellFoundedInduction`); the order of the loops shows in `Stage`:
when a table comes, the tables it refers to have come, or its references wait for
the second pass. A restore may come between the two statements of a request. It is what brings an id back, maybe
in another portfolio, and the request would then refer to a neighbour's row: nothing in the
code prevents it. `swapped` records that it has happened, `SwappedUnderway` says of a restore
at hand that it happens, and the invariant speaks of behaviours up to that moment
(`swapped \/ BooksInv`), as the properties do; every other restore under a request is
covered.

`PairsStayMutual` and `JournalAlwaysMatches` need more, `KeptInv`. Of every transfer that
is being linked, it says which legs it has inserted and which of them it has pointed at the other (`Legs`);
no two transfers share a leg, since each has inserted its own. Of the journal it says
that its last lines per source of income are the table's rows (`Told`), in the database
and in the file. A change adds a line with a label above all others; a restore renumbers rows and
lines alike, and the point is that two sources never get one number (`NumbersApart`), not
even those only the journal still knows: a number given out anew is above every number a
line of the same machine can hold. On a new machine that is not so, and
`JournalMatchesFlows` speaks of one machine only. Most actions write other tables
(`Quiet`, `Sorts`); each of the rest has a lemma per part.

`LedgerProofs`, for any currencies, papers, months, days, requests and bounds:
`LedgerInvariant`, `OnlyRacesCanOversell` and `OnlyEditsAndRacesMakeMisfits`, if quantities are whole numbers
(`Quantities \subseteq Int`, as in the code). Each request looks at one row, and the
properties are about many; `LedgerInv` is what joins them. As long as no two requests have
overlapped, the books are in order (`BookFine`) and what waits to be written is ready
(`Waiting`). In order means four things. Rows have their columns, their ids were given
out, and no two of a table share one (`RowsFine`). What was sold of a lot is no more than
the lot, and a sale names an id given out, so that no new lot meets sales (`PapersFine`). Of
any set of debts one lies in none of them (`Grounded`); the property itself climbs from card to
card and is not inductive, since a step changes one rung of many climbs. And a
receipt names an id given out (`ReceiptsFine`), since a new source of income must not meet
receipts that wait for it. `Ready` lists what the handler's look has shown of the row, and is
why the look and the write, two steps of the model, count as one as long as nobody comes
between: one lemma per handler shows that its look makes the row ready (`SaleReady`,
`DebtReady`, ...), three that a statement on a ready row keeps the books in order
(`InsertKeeps`, `EditKeeps`, `OverwriteKeeps`), and four that a deletion does, which must take, keep
from going or cut loose whatever refers to the row. What was sold is a fold over a
set, so the proof begins with the sum of a finite set: that it exists, is the fold, and does
not depend on the order (`SumExists`, `TotalIs`, `TakesOne`).

`StatementImportProofs`, for any histories, days, imports, failures, manual entries and
moves of the mark: `ImportsAddNothingTwice`, `MarkHidesNothing` and `ConversionsHeal`. The assumption
(`HistoriesAssumption`): the halves of a conversion are a day apart at most, as the parser
pairs them (`inzhur.go:222-266`), and only a conversion is paid on top. `Parsed` says which rows a file holds and in which order;
that `ParseInzhur` is so is an induction over the events (`ParsedAll`). Recognition
counts equal rows, and so do the proofs: what the journal has of a key it had when the
import read it, or the rows behind account for it (`Accounted`), and a file never has
more equal rows than the history (`PlainGrows`); one line more, one row more. A
conversion's purchase may be shown with two amounts, one before and one after the payment on
top (`RowElsewhere`), so that the count is of the rows that some statement shows (`ShownAs`). The other
direction: every row behind is in the journal or has been told to the user (`Caught`). A
file holds every row of the days before its last (`RowInFile`, where the day between two
halves counts), so when it is done everything before the new mark is settled
(`FinishSettles`). All hold for one import at a time, the other two for a mark that is not
moved by hand, and for conversions that sell first and are told from other operations;
two imports at once would each find a row missing and write it.

`ConversionsHeal` is about conversions with nothing paid on top (`HealsUnlessPaidOnTop`); others may stand in
the same history, and that their legs leave these alone is part of the proof (`Strange`,
`Foreign`). TLC checks the wider `ConversionHeals`. The proof needs `Heals`: what the journal may have of each conversion, and what
the import under way remembers of it. Ahead of its rows a conversion is at rest: nothing of
it is there, or a half that `orphanLeg` will recognise, or both legs, linked as far as the
mark hides them (`AtRest`, `Kept`); between its rows the import remembers the first leg by
the id of its line, whether it found, healed or wrote it (`Between`); behind them both are
there and linked, unless a statement of the link is still to come (`Behind`, `Linking`).
A failure may strike at each of these places, and what it leaves is at rest again
(`FollowsKept`), but for a link with one of its two statements done: hence the exception in
the property. A row of something else must leave all this alone, and that it does rests on
what tells a leg from every other row of a statement (`LegKeys`, `OwnKeys`).

What stays with TLC: liveness (`Settles`, `EveryAuctionArrives`, `DoorsStayOpen`,
`CertificateArrives`, `ServiceComesBack`), since the prover does not do fairness;
`CushionAddsUp` of `Ledger`, which sums what a fold over loans and movements hands out, an
induction over two lists and the interest between them; the modules of the algorithms that
use recursive operators (`DebtMath`, `DebtPlan`, `Tasks`), and `Figures`, which draws on all of
them. Of the 40 properties the runs check, 25 are theorems; two
more hold as theorems in a narrower form (`ConversionHeals` for conversions with nothing paid on
top, `JournalMatchesFlows` up to `swapped`).

## What is not modelled

- **Interface, transport, parsing**: the web interface's scripts, decoding of requests
  and wording of answers, HTML and XML of the National Bank, the columns of a
  statement (what its rows say is modelled).
- **Floating point**: projections of capital and income, internal rates of return, risk, tax
  reports by year, the search for a debt's rate. TLC has no reals, and a bounded
  fraction would be another algorithm.
- **Presentation of the plan**: its timeline and the history of profiles; what a list of
  suggestions says besides its order.
- **Small stores**: settings, sessions and login, inflation, the sweep that brings quotes,
  brokers by name, a
  fund's currency (`refs.go:51`), hidden rows of the documents: each is one statement over
  one row.
- **Books**: the dry run of an import, and what a row says besides its table, owner and reference.

## What is left

- `Holdings`, `FundMath`, `Allocation`: lemmas on single operators (a split adds up to the sum,
  a share is never more than the whole).
