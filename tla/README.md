# paper-code in TLA+

`paper-code` is the program behind a measurement paper: a Spring Boot service
with a small billing workload (usage bills, orders, recharges, stock reloads)
that runs on MySQL, PostgreSQL or SQL Server, at one of four isolation levels,
under one of three ways of locking ("plans"). After a load test the SQL scripts
in `sql/` audit whether money and stock still balance, and the pages under `js/`
draw the throughput that was measured. This directory models the workload
statement by statement and checks, for every deployment, when the audits must
balance, what is left locked, and whether every request is answered. The parts
the requests share beside the database (the Redis lock, the id generator, the
Zipf sampler) have modules of their own, and so have the charts.

All source paths below are relative to the repository root, with
`P = src/main/java/com/wpj/paper`.

## 1. Inventory

| Component | State | Operations | Interacts with |
|---|---|---|---|
| **Business operations** `P/service/AbstractBizService.java` | none of its own; locals of a call | `doUsageBill`, `doPackageBill`, `doRecharge`, `doReload`, and two searches | lock plan (callback: the body is a supplier), repositories |
| **Account arithmetic** (same file) | pure | `consume`, `calculationRecharge`, price of an item | called by the operations |
| **Lock plans** `P/service/plan/*` | p1: row locks of the database; p2: keys in Redis; p3: a map of `ReentrantLock` | `lockUser(id)`, `lockUser(ids)`, `lockProduct(ids)`: lock, run the supplier, release in `finally` | database, Redis, JVM |
| **Redis lock** `P/util/RedisUtil.java` | keys with owner and time to live | `tryLock`, `lock`, `unlock` (Lua compare and delete) | p2 |
| **Service classes** `P/service/biz/**` | a transaction per call | twelve `@Transactional` classes, one per product and level; the proxy begins before and commits after the operation | database |
| **Repositories, database** `P/dao/repo/**` | rows of `user_info`, `account_cash`, `account_credit`, `product`; inserted histories | JPA loads and saves, native `UPDATE` and `FOR UPDATE` | three database products |
| **Request handling** `P/controller/RunController.java` | one servlet thread per request | `execute`, `doService`, `doTask` (repeat up to 2000 ms) | service classes |
| **Audits** `sql/*Check.sql` | pure | balance queries over the committed rows | database |
| **Reset** `P/config/RunnerConfig.java` | rows, histories | `run`, at start-up and from `/gen/reset` | the same rows as the requests |
| **Data generation** `P/controller/GeneratorController.java`, `P/service/impl/GeneratorServiceImpl.java` | rows | `/gen/user`, `/gen/product`, `/gen/updateZipf` | database, Zipf sampler |
| **Id generator** `P/util/Snowflake.java`, `P/config/BeanConfiguration.java` | last time stamp, sequence; worker and data center number | `nextId`, which throws when the clock is behind | every insert |
| **Zipf sampling** `P/util/ZipfGenerator.java` | a tree map of the distribution, a static list of points | `next`, `update` | orders, `/gen/updateZipf` |
| **Action mix** `P/util/ActionFactor.java` | percentages | draws an operation | request handling |
| **Charts** `js/**` | chart on the page, legend, pointer | open, switch a line, point | the measurements, copied by hand |
| Entities, results, wiring, scripts, images | data and configuration | | |

`PROJECT.json` lists each of them with its status.

### What makes it hard

* **The locks end before the transaction.** The plan is called *inside* the
  operation, the transaction belongs to the proxy *around* it. Redis keys and
  Java locks are free in the `finally` block; the commit, and for an order the
  write of the accounts itself, comes after.
* **Statements are what interleaves.** Each operation reads an account with one
  statement and writes it with a later one; in between other transactions
  read, write, commit and roll back, by rules that differ per product and level.
* **Errors at every step.** Stock that ran out, a debt found after stock was
  taken, a lock that timed out with half of a set locked, an update the database
  refuses, a commit it refuses, a deadlock victim. `doTask` repeats some of them.
* **Waits of three kinds** that can cross: row locks, shared locks of readers,
  and plan locks the database does not know of.
* **A network in the lock.** `tryLock` sends a command every 20 ms and may lose an
  answer, throw while the command is still under way, unlock half of its keys,
  or work on after a key's time was over.
* **Maintenance beside the load.** `/gen/reset` overwrites every balance and clears
  the histories, `/gen/updateZipf` empties the map every order samples from; nothing
  keeps either from running among requests.

### What makes each component correct

* Operations: committed money and stock balance with the histories; an order is
  paid exactly for what it delivered; stock stays in `0 .. product-stock-max`;
  accounts stay within their limits; under row locks each operation is atomic.
* Account arithmetic: conserves money, never overdraws, credit before cash.
* Plans: the bodies for one id exclude each other; no cycle of waits; nothing
  stays locked when a request ends, but keys in Redis that an exception has lost track of;
  a late release frees nobody else's key.
* Redis lock: bodies stay apart unless a key's time was over; only a call one of whose
  commands threw may leave a key behind.
* Request handling: every request is answered; a repetition starts clean.
* Reset: it takes place as a whole or not at all, and the audits hold after it.
* Id generator: primary keys are unique, through a clock that is set back, a full
  millisecond and a restart, among hosts that did not get the same numbers.
* Zipf sampling: an order draws a product that exists, or fails; it fails only
  while the distribution is being replaced, on what two simultaneous replacements have
  torn or stopped, or for a random number above a sum of doubles that ends below 1.
* Charts: colours, names, axes and numbers belong together.

## 2. Modules

    Accounts              arithmetic of AbstractBizService
      Tables              rows, configuration, carts, findInsufficient
        Database          transactions, row locks, isolation levels    (external)
          PlanService     p1, p2, p3
            BizService    the four operations, one action a statement
              RunnerConfig      /gen/reset, one action a row or DELETE
                DatabaseErrors  what the database refuses
                  RunController   requests, commit, rollback, doTask: Spec
                    Checks        properties, inductive invariant of the stock
                      MCChecks    instances for TLC
                      BooksProofs     the stock balances, limits of the accounts,
                                      orders paid in full
                        PlanProofs    locks and keys
                          BalanceProofs   under row locks, on the strict isolation
                                          levels, and under the Java locks alone, the
                                          accounts balance; the stock stays in range
                            SerialProofs  under row locks every commit is a step
                                          of SerialBiz
        SerialBiz         the operations run alone      (abstract, instanced by Checks)
    Leases                what the keys of p2 and p3 promise
                                     (abstract, instanced by Checks and RedisLock)
    RedisLock             RedisUtil.tryLock, command by command
      RedisLockProofs     its theorems
    Snowflake             nextId on several hosts
      MCSnowflake, SnowflakeProofs
    ZipfGenerator         the shared distribution
      MCZipfGenerator     with the frequencies of js/product
      ZipfProofs          its theorems
    ChartData             the charts' options
      Charts              what a reader does with them
    AccountsProofs        theorems about Accounts and about sums

| Module | Code | State and actions |
|---|---|---|
| `Accounts` | `consume`, `calculationRecharge`, `createOrderItems` (price) | operators on integers |
| `Tables` | entities, `ConfigData`, `RunnerConfig.run`, `findInsufficient`, the draws of `doRecharge`, `doPackageBill` | a row is `<<table, id>>`; `InitialRow`, `Carts`, `Insufficient`, `RechargeSets` |
| `Database` | the twelve service classes' isolation level, and the databases as the repositories use them | `committed`, `latest`, `holder` (row lock), `shared` (shared locks), `view` (snapshot), `missed` (rows that changed after the snapshot); statements `Read`, `Update`, `Insert`, `ForUpdateLock`, `CommitTransaction`, `RollbackTransaction` |
| `PlanService` | the three plan classes; `RedisUtil` as far as the operations see it | `planLock` (name -> owner), `keys` (what a thread has to release), `lost` (keys in Redis no call has on record any more); `PlanAcquire`, `AcquireThrows`, `ReleaseKey`, `ReleaseThrows`, `ExpireKey`, `MayTimeOut` |
| `BizService` | `AbstractBizService` | `pc` names the next statement of a thread, the others are the locals of the call. `saved` holds Hibernate's pending account writes, `pout`/`pin` the amounts of the history rows the transaction has inserted, `sourced` whether it has inserted a source row, `outflow`/`inflow` the committed sums. Beside the statements: `NextIdThrows`, `LockThrows`, `UnlockThrows` |
| `RunnerConfig` | `RunnerConfig.run` | `ResetRow` (three tables, any order of rows), `ClearSources` (three histories without sums), `ClearItems`, `ClearTrades`, `ClearLogs`, `CommitReset`, `RollbackReset` |
| `DatabaseErrors` | the exceptions doTask and the proxy see | `WaitsFor`, `Deadlocked`, `UpdateConflicts`; `StatementFails`, `ResetFails` |
| `RunController` | `RunController`, the `@Transactional` proxy, `/gen/reset` | `Execute`, `Commit`, `Retry`, `GiveUp`; `Init`, `Next`, `Spec`, `FairSpec` |
| `SerialBiz` | the same operations, and the reset, as one step each | `committed`, `outflow`, `inflow` only |
| `Leases` | what the plans' keys amount to | `owner`, `held`; `Acquire`, `Release`, `Lapse`, `Abandon` |
| `RedisLock` | `RedisUtil` | `store` (Redis), `sent` (commands under way), `reply`, and per call `pc`, `todo`, `lockIdentity`, `attempts`; the call's steps, and Redis's `SetIfAbsent`, `Expire` |
| `Snowflake` | `Snowflake.nextId`, `BeanConfiguration.snowflake`, the clearing of the tables at start-up | per host: `clock`, `generator` (worker and data center number, from `NewGenerators` at every start), `lastTimestamp`, `sequence`, `waiting` (a call is in `tilNextMillis`), `ids` (primary keys that may be in the tables), `issued`; `NewMillisecond`, `SameMillisecond`, `TilNextMillis`, `Restart`, and the clock's `Tick`, `SetBack` |
| `ZipfGenerator` | `ZipfGenerator`, `/gen/updateZipf` | `map`, `torn`, `sized`, `stuck`, and per update `pc`, `skew`, `rest`; `Draw`, `DrawAnything`, `Clear`, `ClearRoot`, `ClearPoints`, `AddThrows`, `PutAll`, `Build`, `BeginPut`, `EndPut`, `EndPutTorn` |
| `ChartData`, `Charts` | the twenty options under `js/` | `option`, `hidden`, `pointer`; `Open`, `Toggle`, `Point` |

`conf` is the deployment: product (`spring.profiles.active`), isolation and plan
(the `/{pType}/{isolation}` of the URL). A test drives one URL, so `conf` is
chosen once. `Workload` says which operations a run requests of which
deployment; a deployment without any does not take part.

A definition with a suffix (`LockName_PerForm`, `Clear_Keep`) is a seeded fault: the
form a plausible mistake would give the definition below it. No module uses one;
`PROJECT.json` names the property each of them must break.

### How an operation becomes actions

    doPackageBill   lockUser -> cart -> lockProduct* -> source -> deduct* -> cash -> credit
                    -> unlock* -> commit (flush*, commit)
    doUsageBill     lockUser -> source -> cash -> credit -> status (flush*, update)
                    -> unlock* -> commit
    doRecharge      lockUser* -> ( source -> cash -> credit -> status )* -> unlock* -> commit
    doReload        find -> lockProduct* -> ( reload -> restock )* -> unlock* -> commit
    run (reset)     resetCash* -> resetCredit* -> resetProduct* -> clearBills -> clearItems
                    -> clearOrders -> clearRecharges -> clearTrades -> clearLogs -> resetCommit

Every label is the `pc` before that statement. Three details of Hibernate decide
what can interleave and are kept:

1. `save` of an account changes nothing in the database at first. The changed
   rows are written before the next native statement (`updateStatusCode`), which
   for bills and recharges is *inside* the lock plan; `doPackageBill` has no such
   statement, so they are written in front of the commit, *outside* it (`Flush`).
2. Only rows whose value differs from what was loaded are written (`Save`).
3. A product that p1's lock statement loaded is not read again (`ReadStock`,
   `DeductStock`), which is why p1 on MySQL's repeatable read sees no stale stock.

A statement that has to wait is a disabled action. `StatementFails` is the
database's refusal: the victim of a cycle of waits, or PostgreSQL's "could not
serialize access". Which member of a cycle is the victim is left open.

Two errors come from beside the database. `Snowflake.nextId` throws while its host's clock
is behind the last id (`NextIdThrows`, allowed by the constant `ClockMayGoBack`): in front of
a source or an item, in `createTrade` after the accounts have been read, and in `doReload`
*after* the stock has been updated. Under p2 the calls of Redis throw: `LockThrows` while a
key is set, which Redis may have stored all the same, and `UnlockThrows`, after which the
rest of that call's keys is not released and a body that has succeeded is rolled back. Such
keys are in `lost`: they stay their thread's until their time is over, and keep everybody out.

### The reset

One transaction, no plan, nothing read: each `UPDATE` waits for the row like any
other writer. A `DELETE` takes out the committed history rows; MySQL and SQL
Server make it wait for rows an unfinished request has inserted, PostgreSQL
passes over them. Rows inserted behind the `DELETE` stay, also on MySQL, whose
gap locks would keep some of them out (more behaviours, not fewer). Deleted rows
are entries of the transaction with the sign reversed, so the books are
those of the rows that remain.

### The Redis lock

A `SET NX PX` is a command under way (`sent`) that Redis executes at any time; the
call waits for `reply`, or gives up waiting with an exception (`LockThrows`) and
leaves the command behind. `attempts` bounds what fits in the two seconds. The
`finally` block deletes the keys on record one by one (`Unlock`), each only if it
still is the call's; an unlock that throws, executed by Redis or not, skips the others
(`UnlockThrows`). Keys that stay go away by their time only (`Expire`). `threw` notes the
calls one of whose commands has thrown: no other call leaves anything behind
(`OnlyErrorsLeaveKeys`).

`PlanService` has the same keys as one step each, errors included; a command that Redis
executes after its caller has given up counts there as executed at the exception, and only
`RedisLock` has it later. `Leases` is what both promise:
`StrictIsolation` and `PlanProofs` show it of the plans, `RedisLock` and
`RedisLockProofs` of the commands.

### The Zipf sampler

`update` clears the shared `TreeMap` (the size first, then the root: `Clear`, `ClearRoot`),
computes the new distribution, and puts it in with `putAll`; draws go on meanwhile, and two
updates may overlap. `TreeMap.putAll` of a sorted map fills an *empty* map aside and sets the
root last (`Build`), any other map entry by entry, and the test is of the size, not of the root.

Nothing is synchronized. A `put` lasts (`BeginPut`, `EndPut`), and when another thread is inside a
`put`, or sets the root meanwhile, the tree is `torn`: keys may be missing, a cleared root may be
back, links may form a cycle. Of a torn tree the model says nothing: a draw may return any
rank or fail (`DrawAnything`), a `put` may return or throw (`EndPutTorn`), and either may never end,
for which reason no liveness is claimed. A later update makes the tree whole again if it sets
the root alone. What one thread wrote before another began to write is taken to be
visible to that other; torn reads of a reference do not exist in Java.

`computeMap` notes its first 100 points in a static `ArrayList`. Two updates that add at
its end at the same time: one throws (`AddThrows`). If the other's add was its last, the
list keeps a size above its array's length, so that `clear()` throws in every
later update, after the map was cleared (`stuck`): from then on every order fails
until the program is restarted. No comment or test of the repository speaks of
overlapping updates, so this is described here and in the property
`FailsOnlyDuringUpdate`, and is not a finding.

The last running sum is a sum of doubles and may end below 1 (`LastSum`); a draw above it
finds no entry, with or without an update. One that ends above 1 makes no difference, as random
numbers are below 1. Keys are counted in steps of 1/`Resolution`.

### The charts

`ChartData` holds every option's colours, legend, axes and data; `Charts` lets a
reader open charts, switch lines and move the pointer, and compares what is then
on the screen. The same deployment was measured in several experiments, which
makes hand-copied numbers checkable. Where they disagree at the common point:

| Chart | Line | Value | elsewhere |
|---|---|---|---|
| `dbv2/mysql` | Redis rr | 100.79736 | 100.85193 |
| `dbv2/mysql` | Redis ru | 104.84383 | 104.76576 |
| `searchT/mysql` | Java rc | 125.4 | 124.4 |
| `dbv2/mssql` | SERIALIZABLE | 73.6668 | 73.38786 |
| `batchN/mssql` | Redis rr | 99.0851 | 101.9011 |
| `batchN/mssql` | Redis rc | 100.33925 | 105.69548 |

In each case two of three charts agree (`CommonPointConfirmed`). The older pair
`db/*-100thread` and `db/*-1.5zipf` also disagrees in places (MySQL Redis ru at 100 threads,
53.9504 and 54.23187; SQL Server Java rr, 54.23556 and 52.25616), and `js/db` gives
PostgreSQL other colours than the other products; `SameColors` and
`CommonPointConfirmed` speak of the three newer experiments. In `searchT/pgsql`
Redis rc rises from 106.761557 to 106.8298 with read transactions, which is why
`FallsWithContention` leaves that experiment out.

### The databases

They are not part of the repository, so `Database` is marked external where
it states what a product does; how the code uses it (which level, which
statements, in which order) is from the source. The rules are:

| | plain read sees | plain read waits for | update waits for | refusal |
|---|---|---|---|---|
| MySQL ru | newest value | - | row lock | deadlock |
| MySQL rc | committed | - | row lock | deadlock |
| MySQL rr | view of the first plain read | - | row lock | deadlock |
| MySQL ssi | committed, shared lock kept | a writer | row and shared locks | deadlock |
| PostgreSQL ru, rc | committed | - | row lock | deadlock |
| PostgreSQL rr, ssi | view of the first statement | - | row lock | deadlock; row changed since the view; ssi: at the commit |
| SQL Server ru | newest value | - | row lock | deadlock |
| SQL Server rc | committed, shared lock for the statement | a writer | row lock | deadlock |
| SQL Server rr, ssi | committed, shared lock kept | a writer | row and shared locks | deadlock |

PostgreSQL's serializable commit may be refused at any time (`CommitRefused`):
more often than the real dependency check would, which adds behaviours only.
A transaction always sees its own writes.

## 3. Runs

The runs of `MCChecks` have two threads, two users, two products (one in
`StrictIsolation`), cash 1 (0 in `SerialRows`), credit 2, stock 2, items that cost 1, sets of two ids
(`BatchSize`; one in `StrictIsolation`) and one repetition.

| Run | Deployments and operations | Checks | Shows |
|---|---|---|---|
| `RowLocks` | p1, the 9 that differ; bills, orders, recharges, reloads (PostgreSQL ssi: no orders); 3 requests | `TypeOK`, `StockBalance`, `AccountsBalance`, `StockWithinMax` | with row locks, or levels that need none, both audits hold at every moment and no sale or reload leaves the stock's range |
| `StrictIsolation` | p3 on MySQL ssi, PostgreSQL rr/ssi, SQL Server rr: all, with resets; p2 on MySQL ssi: orders, reloads, on PostgreSQL rr and SQL Server rr: bills, recharges, reloads; p3 under READ UNCOMMITTED: bills, recharges and reloads; 3 requests; Redis keys may expire or get lost | `AccountsBalance`, `StockWithinMax`, `PlanIsLeases` | keys that are free too early, expire, get lost or do not exclude do no harm where the isolation level protects the read, and neither does a reset; the Java locks alone protect operations that write before they release; refinement: the plans' keys are leases |
| `AnyDeployment` | 25 of 36; orders, recharges, reloads, resets (p2: recharges and reloads, on MySQL rc all four); 2 requests | `StockInv`, `AccountsWithinLimits`, `OrdersPaidInFull`, `IdleHoldsNothing`, `BodiesExclusive`, `NoPlanCycle` | what needs no protection of reads at all, and the inductive invariant of the proof |
| `SerialRows` | p1 where rows are locked: all but resets; p3 on MySQL ssi, SQL Server rr: all, with resets; p2 on MySQL ssi: orders, reloads, on SQL Server rr: bills, recharges, reloads; 2 requests | `ActsSerially` | refinement: every commit is one step of `SerialBiz` |
| `Answers` | five ways of waiting, with resets; 2 requests | `EveryRequestAnswered` | liveness: waits in the database, in the plan and across both end |
| `RedisLock` | two calls, two names, three commands a call | `TypeOK`, `BodiesExclusive`, `OnlyErrorsLeaveKeys`, `CallsEnd`, `IsLeases` | bodies for a common name overlap only when a key's time was over, whatever is lost, late or fails; a call that timed out half way or succeeded leaves nothing behind unless a command threw; calls end; the keys are leases |
| `Ids` | two hosts with different or equal numbers, two ids in a millisecond, three milliseconds, two corrections of a clock, any number of restarts | `UniqueIds`, `SnowflakeInv`, `WaitEnds` | no host makes a primary key twice, although a restart forgets `lastTimestamp`, and hosts with different numbers make no common one; the wait for the next millisecond ends |
| `Zipf` | two updaters, three ranks, three updates with three coefficients, one of whose sums ends below 1 | `TypeOK`, `RanksExist`, `WholeWhenQuiet`, `FailsOnlyDuringUpdate` | what a draw returns while the distribution is replaced, once or twice at a time, and what is left afterwards |
| `Charts` | all twenty charts | `Readable`, `JavaAboveRedis`, `CommonPointConfirmed`, `PowerLaw`, `SameColors`, `FallsWithContention` | the lines are comparable and the copied numbers plausible |
| `JavaReadCommitted` | p3, MySQL rc; orders | `AccountsBalance` violated | finding 1 |
| `RedisKeys` | p2, MySQL ru; bills, recharges | `AccountsBalance` violated | finding 2 |
| `ServerAudit` | p1, SQL Server rc; orders, reloads | `SQLServerStockCheck` violated | finding 3 |

`AccountsBalance` over all deployments, tried one at a time with orders, bills
and recharges: it fails under p2 and p3 for MySQL ru, rc, rr, PostgreSQL ru, rc
and SQL Server ru, rc; it holds for MySQL ssi, PostgreSQL rr, ssi, SQL Server rr,
ssi and for every p1 deployment. A reset among the requests adds to the first
list p1 where rows are locked: a bill that has read its accounts writes them
over the reset's, and the account audit fails. `StockBalance`, which
needs no lock, holds everywhere, resets included (it is proved).

The operations act one at a time (`ActsSerially`) where rows are locked `FOR UPDATE` or
shared locks are kept. On PostgreSQL's REPEATABLE READ neither happens: a bill that
takes from the cash and a recharge that only fills the credit of the same user may both
commit, each from a view without the other, and the result is that of no order of the
two (write skew). Its SERIALIZABLE level detects this; the model's `CommitRefused` may,
but need not refuse such a commit, so nothing is claimed there either. The two audits and
the limits of the accounts do not suffer: each row is written by the one who read it last.

### Bounds, and why they are enough

* **Deployments.** A run leaves out a deployment when another one has all its
  behaviours: PostgreSQL runs ru as rc, its rr is its ssi without refused
  commits, SQL Server ru is MySQL ru without repetitions (`GiveUp` is possible
  after any refusal), and SQL Server ssi is its rr where no row is locked `FOR
  UPDATE`. `MCEverywhere` lists the 25 that remain of 36.
* **Two threads.** Every property relates two transactions, or one and the
  committed rows; cycles of waits of two exist (two reloads, an order and a
  reload, a reset and a bill, plan lock against row lock). Longer cycles are
  covered by the proof of `NoPlanCycle` for the plans, not for rows.
* **`MaxRequests` 2 or 3.** Two requests overlap; the third starts after one of
  them ended and meets what it left, stale reads included.
* **Amounts.** Cash 1 and credit 2 against bills of 0 and 2 and orders of up to 2
  reach: paid by cash, by both, with a debt, refused. Recharges of 0 to 3 reach
  a full credit, a partly filled one and a remainder for cash. Stock 2 and carts
  of up to 2 reach: in stock, sold out, one product of two sold out.
* **`MaxTries` 1** bounds the repetitions that fit in doTask's 2000 ms; the step
  after the bound is `GiveUp`, as after the deadline in the code.
* **`BatchSize` 1 in `StrictIsolation`** keeps its deployments, resets and expiring
  keys in one run; the loops over sets are in `RowLocks`, `AnyDeployment`, `SerialRows`.
* **p2 serves fewer operations** there, in `SerialRows` and in `AnyDeployment`, as keys that
  expire or are lost multiply the states (`MCStrictLoad`, `MCSerialLoad`, `MCEverywhereLoad`): every
  operation occurs with them in one deployment at least, and every level without them under p3.
  For the same reason `RowLocks` has no orders on PostgreSQL ssi, which `StrictIsolation` and
  `AnyDeployment` have.
* **`ClockMayGoBack`** is TRUE in all passing runs, so `NextIdThrows` is a step of each; it is
  FALSE in the three that expect a violation, which must not need a clock set back.
* **`RedisLock`**: three commands allow a call to fail, try again and have a name
  left; two names make a half of a set. Every order of names is tried, as the
  `HashSet` of names has none.
* **`Zipf`**: three ranks have a first, a middle and a last key, two updaters meet
  on the map, inside a `put` and on the list, and the third update finds what two left.
* **`Ids`**: two ids fill a millisecond, so the sequence wraps within three
  calls; two corrections set a clock back before and during a wait. Two hosts
  share the tables; their addresses end differently, and a restart without an
  address (`RandomWorkers`) may give both the same numbers.
* **Symmetry**: threads are interchangeable (`MCThreads`) and are the only model
  values permuted, in `RowLocks`, `StrictIsolation`, `AnyDeployment` and the three runs that
  expect a violation. Ids are numbers, as their order matters. The runs with liveness
  use none, nor does `SerialRows`. `PlanIsLeases`, checked with symmetry, treats all
  threads alike and is violated, if at all, by a single step.

### Deadlock and fairness

No cfg turns the deadlock check off. `Quiet` in `RunController` and `Finished` in
`RedisLock` stutter when the bounded number of requests is answered or all calls
have ended, so any other state without a successor is an error. The other
machines can always go on (a draw, a tick, another chart).

`RunController`'s `FairSpec` adds `WF_vars(Work(t))` for each thread: one that can go on does.
The code justifies it: a servlet thread is scheduled by the JVM, the database
grants a lock it can grant and ends a cycle (`Deadlocked`), every wait for plan
locks has a limit of 2 s (`MayTimeOut`; without it `EveryRequestAnswered` fails),
and doTask stops after 2000 ms. Nothing is assumed of `Execute` (clients) or
`Expire` (Redis). Weak fairness of the whole of `Work(t)` is enough: a thread that
waits has only its one statement, its time-out or its refusal to take.

`RedisLock`'s `FairSpec` assumes that a call that has begun goes on (each wait of
the Redis client has a limit, each loop one of two seconds). It assumes nothing of
Redis: a command may be under way for ever, a key need not expire.

`Snowflake`'s `FairSpec` assumes that clocks run (`Tick`) and that the loop of
`tilNextMillis` is scheduled. Without a bound on the corrections a clock could be
set back for ever and the wait would not end; `MaxBacks` bounds them.
A call whose clock is behind `lastTimestamp` throws and changes nothing: neither
action is enabled. The other callers of a host wait for the monitor meanwhile, so
no variable is needed for them.

`ZipfGenerator` has no fairness: an update that meets another in a `put` may loop for ever.

## 4. Findings

1. **Locks of p2 and p3 end before the commit** (`JavaReadCommitted`).
   `doPackageBill`'s accounts are written after `JavaLockPlanServiceImpl` has
   released its locks; a second order of the same user reads the old balance and
   one payment is lost, so the account query of `sql/MySQLCheck.sql:26` reports
   a difference. This may be what the paper measures, yet the plan's
   promise of mutual exclusion does not reach the commit.
2. **Two spellings of one Redis key** (`RedisKeys`). A set of ids locks
   `uid-lock:-1`, a single id `uid-lock-1`; a recharge and a bill of one user do not
   exclude each other. The run uses a level at which p3 keeps the audit for the
   same requests (`StrictIsolation`), so the key is the only difference.
3. **The SQL Server audit adds reloads** (`ServerAudit`).
   `sql/SQLServerCheck.sql:7` adds what `sql/MySQLCheck.sql` subtracts.

## 5. Proofs

`tlapm` proves, for any number of threads, users, products, requests and
repetitions, any amounts and prices, every deployment and workload (resets
included), keys that expire or get lost, and clocks set back, where the statement names
no condition:

| Theorem | Statement |
|---|---|
| `BooksProofs!StockInvariant` | `Spec => []StockInv` |
| `BooksProofs!TypeCorrect` | `Spec => []TypeOK` |
| `BooksProofs!StockBalances` | `Spec => []StockBalance` |
| `PlanProofs!NothingLeftLocked` | `Spec => []IdleHoldsNothing`: no row, no shared lock, and no key but one in Redis that was lost by an exception |
| `PlanProofs!BodiesApartUnderJavaLocks` | `Spec => []BodiesExclusive` |
| `PlanProofs!JavaLocksNeverDeadlock` | `Spec => []NoPlanCycle` |
| `PlanProofs!PlansImplementLeases` | `Spec => PlanIsLeases`: refinement of `Leases` |
| `BooksProofs!AccountsStayWithinLimits` | `Spec => []AccountsWithinLimits` |
| `BooksProofs!OrdersArePaidInFull` | `Spec => [](OrdersOnly => OrdersPaidInFull)`: no usage bills, prices without rounding |
| `BalanceProofs!AccountsBalanceUnderRowLocks` | `Spec => [](RowLocked => AccountsBalance)`: p1 with row locks, no resets |
| `BalanceProofs!StockInRangeUnderRowLocks` | `Spec => [](LocksRows => StockWithinMax)`: p1 with row locks |
| `BalanceProofs!AccountsBalanceUnderStrictIsolation` | `Spec => [](Strict => AccountsBalance)`: MySQL ssi, PostgreSQL rr and ssi, SQL Server rr and ssi; every plan, with resets |
| `BalanceProofs!StockInRangeUnderStrictIsolation` | `Spec => [](Strict => StockWithinMax)` |
| `BalanceProofs!AccountsBalanceUnderJavaLocks` | `Spec => [](JavaLocked => AccountsBalance)`: p3 under READ UNCOMMITTED (MySQL, SQL Server); bills, recharges and reloads; `ClockMayGoBack => BatchSize = 1` |
| `SerialProofs!OperationsActSeriallyUnderRowLocks` | `Spec /\ RowLocked => ActsSerially`: refinement of `SerialBiz`; p1 with row locks, no resets |
| `RedisLockProofs!BodiesApart` | `Spec => []BodiesExclusive` (the `Spec` of `RedisLock`), any number of calls, names and commands |
| `RedisLockProofs!LockTypeCorrect` | `Spec => []TypeOK` |
| `RedisLockProofs!CleanReturn` | `Spec => []OnlyErrorsLeaveKeys` |
| `RedisLockProofs!RedisKeysAreLeases` | `Spec => IsLeases`: refinement of `Leases` |
| `SnowflakeProofs!SnowflakeInvariant` | `Spec => []SnowflakeInv` (the `Spec` of `Snowflake`) |
| `SnowflakeProofs!IdsAreUnique` | `Spec => []UniqueIds`: on every host, and among hosts with different numbers |
| `ZipfProofs!ZipfTypeCorrect` | `Spec => []TypeOK` (the `Spec` of `ZipfGenerator`) |
| `ZipfProofs!RanksAlwaysExist` | `Spec => []RanksExist` |
| `ZipfProofs!MapIsWhole` | `Spec => []WholeWhenQuiet` |
| `ZipfProofs!DrawsFailOnlyDuringUpdates` | `Spec => FailsOnlyDuringUpdate`: an action property |
| `AccountsProofs!ConsumeConserves`, `ConsumeLimits` | `consume` conserves money, overdraws nothing, leaves a debt only when both accounts are empty |
| `AccountsProofs!RechargeConserves`, `RechargeLimits` | `calculationRecharge` books the amount once; credit before cash, never above its maximum |

Assumptions: `TablesAssumption` (ids and amounts are naturals, users and products
finite and not empty, `BatchSize` not above the number of users, as `doRecharge`
needs), `DatabaseAssumption` (`NoThread` is no thread), `PlanServiceAssumption`,
`BizServiceAssumption`, `RunControllerAssumption`, `RedisLockAssumption` (`None` is neither
a call nor a name), `ZipfAssumption` (a rank at least, positive frequencies, sums that end at
1 or below), and `SnowflakeAssumption`: the constructor's range tests. That hosts have
different numbers is *not* assumed, as `BeanConfiguration` takes the last octet of an
address that may be the same everywhere, or a random number: `UniqueIds` speaks of hosts with
different numbers where it compares two.
Every run evaluates the assumptions of its modules.

**Why the stock balances.** `StockBalance` speaks of committed rows only and is
not inductive: a commit replaces them by `latest`. `StockInv` adds

* `StockEntries`: if transaction *t* holds a product's row and is not about to be rolled
  back (`Fails`: a reload that got no id for its log has filled the stock without one), `latest`
  differs from `committed` by exactly the order items and reload logs *t* has inserted; if it
  does not hold the row, *t* has none for that product. This is the heart: `deductStock` and
  `reload` change the stock relatively, inside the database, and the same
  amount is inserted in the same transaction, so it does not matter how stale the
  value was from which `doReload` computed the amount;
* `ResetEntries`: what this is for a reset. It holds the rows of all products
  before its first `DELETE`, so nobody else can commit an entry of a product between
  that and its own commit, and what it took out of the books is what is in them;
* `FreeStockCommitted`: a product nobody holds has no uncommitted value;
* `TypeOK`, and `WorkOK`: what a loop visits at each step exists, so that
  `First(todo[t])` is a product when a stock statement runs.

A commit then adds to `committed` what it adds to the histories; a rollback
drops both. The proof has one lemma per action (`...Step`), under it the
conjuncts the action can disturb; `StockUpdated` is the common argument of the
relative updates and `StockLocked` of a lock without a change. `FirstIn` proves
that a least id exists, from the well-foundedness of `<`. `AnyDeployment` has TLC
check `StockInv` itself.

**Why the locks do what they promise.** `PlanInv` says of the keys, thread by
thread: a thread owns what it has to release, unless keys expire (`KeysKept`);
nobody owns a key he will not release, unless Redis stored or kept it when a command of his
threw (`KeysOwned`, `lost`); inside a body the keys of all its
ids are there (`KeysOfBody`, p3); at an operation's ends and in a reset there
are none (`KeysAtEnds`); and a thread without a request has no row (`RowsAtIdle`).
`IdleHoldsNothing` follows from the last three, and `BodiesExclusive` because two
bodies with a common id would both own its one key. Neither property is inductive by
itself: that a body has its keys depends on the whole loop that took them.

**Why there is no cycle.** `KeysAscend` adds the order: a thread that locks users
has no product's key, and in each loop its keys are below the ids still to come.
A thread in `lockProduct` waits for a product's key (`WaitFacts`), whose owner, if it
waits as well, is in `lockProduct` too. So the members of a cycle in that loop are a
cycle by themselves, or there are none and all are in `lockUser` (`NoCycleInLoop`
is used for either). Each then waits for an id below those its owner still
waits for, and a finite set of ids has a largest (`NoLargerForever`).

**Why accounts stay within their limits.** Under weak isolation a balance may be stale or
uncommitted when it is used, so `LimitsInv` speaks of every version of an account row that a
statement can meet: committed, newest, in a read view (`RowsFit`), and waiting in Hibernate
(`LocalsFit`). Whatever was read, `ConsumeLimits` and `RechargeLimits` then bound
what is written.

**Why orders are paid in full.** `OrdersPaidInFull` compares two sums over committed rows.
`PaymentInv` says the same of what each transaction has inserted so far (`PaysItems`): until
its trade there are none of its trades and the price of its items is `due`, the amount
`doPackageBill` adds up in its loop; after the trade the two sums are equal. `consume` splits
`due` into cash, credit and debt, and a debt is refused, so the trade is of `due` exactly
(`ConsumeConserves`). A reset takes all trades out and all items, and nobody sells meanwhile,
as it holds the rows of all products. No lock plan and no isolation level is needed.
The premise `OrdersOnly` leaves out usage bills, whose trades have no items, and prices that
are rounded per item, of which a sum knows nothing.

**Sums.** `AccountsProofs` proves of the library's fold what the above needs: it is defined
for a finite set (`FoldExists`), is a sum of integers (`SumType`), adds point by point
(`SumAdd`) and follows a change at one index (`SumPoint`). These are inductions over
data, done without the library's induction theorems: the sets (or numbers) of which a
statement fails would have a smallest member (`WFMin` for the subset order), and the
step shows that there is none (`SetInduction`, `NaturalsInduced`).

**Why accounts balance under row locks.** `RowLocked` is a deployment of p1 that locks
rows (`SkipsRowLocks` is false), without resets among its requests; a reset takes no
row of `user_info`. Operations lock that row and no other before they use the two
accounts, so `AccountsInv` has to carry a protection from one row to another:

* `RowsOwned`: an account's row is written by nobody but the owner of the user's row;
* `OwnerBalance`: with what the owner has written or is going to write (`After`), the
  accounts differ from the committed ones by what it has entered in the trades, and its
  read view, if it has one, shows the committed accounts; nobody else has entered or
  saved anything for them;
* `InTurn`: the users are locked before the first read, hence before a view is opened
  (on MySQL rr a view opened earlier would be out of date), nothing is saved before it is
  computed, and the cash in hand is still the account's.

So what the owner reads is the newest value (`VisibleLatest`), also under READ
UNCOMMITTED. `SettleBalance` is the common argument of bills, orders and recharges (with
`ConsumeConserves` and `RechargeConserves`), `EndsBalance` that of commit and rollback,
`AsideKeeps` that of the statements that concern no account. It also covers a deadlock's
victim and the repetition of its operation.

**Why the stock stays in range under row locks.** `doReload` reads a product's stock,
computes what is missing and adds that to whatever the row holds then; filling it
above `product-stock-max` takes somebody else's commit in between. `RangeInv` says,
where p1 locks rows, that both versions of every stock are in range and
(`ProductsHeld`) that a thread owns the rows of all products it has locked, works with
no others, and that what it has read for the one it is about to fill is still its newest
stock (`ReloadHolds`). `deductStock` tests the stock in its own statement, and a reset
has to wait for the rows as well, so resets are included. `RangeKept` is the common
argument: a statement that leaves in range what it writes keeps `VersionsInRange`,
commit and rollback included.

**Why they do under strict isolation.** `Strict` is the database's own protection: plain
reads take shared locks that are kept (`SharedHeld`), or an update of a row that changed after
the view was taken is refused (`FirstUpdaterWins`). No lock plan is needed, keys may expire and
resets are included, so nothing can be said of who holds `user_info`. The common notion is
`Guarded`: what a transaction has read of a row is what a commit would find there, or the
transaction will not be able to write that row. `StrictInv` says

* `RowsGuarded`: a row under somebody else's shared lock is committed, and a view is out of
  date only in rows it has missed, never in one its owner has written;
* `BooksEven`: what an operation has entered in a user's trades (`Net`) is what it has changed
  and is going to change in his two accounts (`Change`, relative to the version it reads), and
  the accounts it is going to write are guarded. A recharge works on several users, those
  `Ahead` of it untouched; a usage bill stops after its one user (`OneUsers`, an invariant of its own);
* `CashRead`, `StockRead`: the values in hand are those of guarded versions;
* `ResetEven`: a reset sets back all accounts, and so holds them, before its `DELETE` clears
  the trades; until it commits, what it took out of the books is what is in them.

With a kept shared lock two requests that have read the same account can both not write it: one
is the deadlock's victim (`StatementFails`) and starts again. The proof thus also shows that the
victim's locals are read anew.

**Why they do under the Java locks alone.** `JavaLocked` is p3 under READ UNCOMMITTED with bills,
recharges and reloads. The database isolates nothing, and the locks are given back before the
commit, so what a request reads may be uncommitted, of a transaction that has lost its locks.
`JavaInv` rests on `BodiesExclusive` (two threads use no common row, `UseApart`) and says

* `RowsKeyed`: whoever has written a row has the lock for it, or nothing is left for it to do
  but its commit (`WillCommit`), or the row is a stock it is going to roll back, because a
  reload got no id for its log;
* `SavesAccount`: what Hibernate keeps back is written before `updateStatusCode`, hence before the
  locks are given back; the orders' accounts are not, which is finding 1;
* `BooksOwed`: what is entered in the trades is what a thread has changed in the accounts and
  is going to, relative to the newest values; `InHand`: the cash it has read is the newest.

The uncommitted account read is thus never taken back. That a refusal does not roll it back
either is `NeverVictim`: whoever waits for a row, waits for a thread that has given back its locks
and waits for nobody (`WaitsForEnd`), so there is no cycle and no deadlock's victim.
`Snowflake.nextId` fails before the accounts of a bill are written (`HoldsNothing`), and before those
of a recharge for *one* user. A recharge for two users writes the first user's accounts, then may
get no id for the second: it gives its locks back, another request reads what is then
rolled back, and the balance is lost. So `JavaLocked` requires `BatchSize = 1` where clocks
may be set back, and the run has it. An order is
left out, as it may find a debt after it has taken stock others read; a reset, as it takes
no lock of the plan. Of the stock nothing is claimed here: without orders no stock is ever sold.

**Why operations act one after the other under row locks.** `RowLocked` is p1 on a level it locks
rows on, without resets. `SerialInv` says of every operation under way, unless it is about to be
rolled back (`Fails`), what it has made of the *committed* rows so far. `Mine(t, r)` is the row as
`t` will leave it: what Hibernate keeps back for it, else the newest value if `t` holds the row, else
the committed one.

* `UserSerial`: the users `t` has come to (`Served`) are `Billed` or `Recharged`: `Mine` is `consume`
  or `calculationRecharge` of their committed accounts, and the trade entered is that amount;
  the accounts of all others are `Still`.
* `ProductSerial`: the products it has come to (`Handled`) are `Sold` or `Refilled`, by the amount in
  the batch and the order item or reload log; all others are `Still`.
* `Asked` and `Ordered`: amounts and carts keep to the configuration, and an order's `due` is the
  price of what was in the *committed* stock (`Price`), although it was added up product by product.
* `UserRowsStill`: a user's own row, which the locks are taken on, is never rewritten.

Committed values stay what they were read as, because whoever commits a row holds it
(`RowsApart`, `OthersKeep`), and what a body reads is committed or its own (`AccountsInv`
for the accounts, `RangeInv` for the stock). When `Commit` comes, `SerialInv` leaves nothing open: it is
`UsageBill`, `PackageBill`, `RechargeAll` or `Reload` of `SerialBiz` (`UsageCommits` and so on), and every
other step leaves committed rows and books alone. `SameTables` states that the operators `SerialBiz`
is instanced with are the program's. A dirty or stale read, a lost update or a half-done
operation at the commit would all be steps `SerialBiz` does not have.

**Why Redis keeps bodies apart.** `LockInv`: a command under way is the one its call
waits for, or belongs to a call that threw and will never ask again (`CommandsOK`); so what a
call has on record was set for it, and is still there unless its time was over
(`HeldOK`); the loop leaves no name out (`LoopOK`); and a key in Redis is on record, or
its call has seen an exception (`RecordOK`, from which `CleanReturn` follows). Without `CommandsOK` a late
command could set a key for a call that is in its body on account of another.

**Why ids are unique.** `UniqueIds` counts. `SnowflakeInv` adds that no id of a host
is above the one made of `lastTimestamp` and `sequence` (during a wait: of the last
sequence number of that millisecond), and that each is made of its host's current
numbers (a restart, which may change them, empties the tables). A new id is above that bound
because `Pack` orders ids by time, then
sequence (`LaterIsGreater`, `SequenceOrders`), so it is new; ids of hosts with different numbers
differ because the digits of a number are unique (`DigitsUnique`, `HostsDiffer`).

**Why draws find a product.** `ZipfInv`'s main parts: `EntriesOK`: every entry of the map
is one of a distribution asked for; so keys are between 0 and 1 and values ranks less one
(`MapEntries`, from `SumsGrow`: the running sums grow).
`Refilled`: unless the tree is torn or the list stuck, all keys of some distribution are in the
map, or an update will put them (`Restores`), be it that it has not come to `putAll` yet or that what
it still has to put completes them; an update that throws in `arr.add` was thrown off by another
that goes on. `Alone`: an update that met no other (`ByItself`) finds the map as it has cleared
it, builds the tree in one step with nobody inside a `put`, and so leaves its own distribution
even where earlier ones had torn the tree.
The proof showed that an earlier form of `WholeWhenQuiet`, that one distribution's entries
are all left, does not follow: of two overlapping updates, one may put its smaller keys, the
other replace the tree, and the first put the rest over it, so that where both distributions
have the same key the value is the wrong one's. TLC confirms it for frequencies chosen so that keys
coincide. Hence the present form, that all *keys* of a distribution are there and every entry is
of one of them, which is what draws need. A draw in a quiet moment then fails only above the
last key, which is the last sum.

**Only model-checked**: liveness (`EveryRequestAnswered`, `CallsEnd`, `WaitEnds`; fairness
and ENABLED are out of the prover's reach),
and the refinement `ActsSerially` where shared locks take the place of row locks (p2 and p3 on the
levels of `SerialRows`) and where tables are reset: it is proved for p1 with row locks.
The five theorems about `AccountsBalance` and `StockWithinMax`
cover every deployment and workload of the runs that check them: `RowLocks` (p1 locks rows, or
its level is strict) and `StrictIsolation` (strict levels, Java locks under READ UNCOMMITTED).
`Charts` has no parameters: its data are constants and TLC visits every state there is, so
a theorem would say no more than the run.

## 6. Not modelled, and why

* `doSearchOrder`, `doSearchStock` and `preheat`: they change nothing and lock
  only history rows. The 100-row lock scan could make a search or a reset wait, not an
  operation fail.
* History rows themselves: they are private until the commit; their sums are kept.
* `/gen/user` and `/gen/product`: they fill the tables before an experiment. (`/gen/user`
  sets a credit to five times its maximum until the next start; `RechargeConserves`
  covers the arithmetic of such an account.)
* `MAX_TRY` in real time: the 2 s of a lock, the 10 s of a key and the 2000 ms of
  doTask are "may pass at any time" or a bound, not clock values.
* Longs as 64 bits: the program's amounts stay below 10^10. Prices are rounded in the
  model as in the code; the runs use prices that need no rounding.
* Which user and operation is drawn (Zipf, percentages): any may be. The loop of
  `doRecharge` that draws until it has enough different users is the choice of a set;
  it does not end with fewer users than `BatchSize` (`TablesAssumption`).
* Requests a host serves between its start and the end of `RunnerConfig.run`: in
  `Snowflake` a restart empties the tables before the first id.
* A SET that Redis executes after its caller has given up: in `RedisLock` at any later time, in
  `PlanService` at the exception.
* A host whose address has no four octets separated by dots: `BeanConfiguration` throws and the
  program does not start.
* The connection pool (20 connections): a request holds its connection before it
  waits for a plan lock, so a full pool only delays the start of others.
* Of `js/product` the nine first shares; the others are a sample of the tail.
* Wiring, entities, start scripts, images, build files.

## 7. What is left

* Proof of `ActsSerially` on the levels with shared locks, and with resets.
* Longer cycles of row waits, with three threads.
* The history searches with their `FOR UPDATE` scans, as a fourth kind of wait.
