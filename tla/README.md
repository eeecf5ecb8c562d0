# CPDE web: a TLA+ verification project

CPDE web keeps, for each client, a pipeline of *pursuits* and an estimated
probability of winning each of them (*Pwin*).  This directory models its core:
what may depend on what, where the Pwin that is shown comes from, what people
who edit at the same time see of each other, who may see and administer what,
and the one event loop, the caches and the background tasks everything runs on.

## 1. Inventory

One process runs the FastAPI application on one asyncio event loop, over
PostgreSQL (READ COMMITTED, row level security per client) and one HTTP service,
the Pwin engine.  All handlers but `login` are coroutines that call psycopg
*synchronously* inside `with tenant_tx(...)`.  A handler is therefore one atomic
step, except where it awaits something inside its open transaction.  Only
`recalculate_pwin -> call_run` does; market synchronisation and the scoring
refresh await outside theirs, and `login` runs in a thread.

| Component | State | Operations | Correct when | Module |
|---|---|---|---|---|
| Dependency (`plan_scope.py`, `write.py`) | `depends_on_pursuit_id` | resolve, auto-clear | a forest; nothing depends on a cancelled pursuit; sole source, LPTA and a dependency exclude each other | `PursuitDependency` |
| Recalculation, Black Hat / PTW (`recalc.py`, `bhptw.py`) | `pwin_assessment`, `pwin_answer` | recalculate, blend, submit | one current row per scenario; answers carried forward; closed pursuits are history | `PwinAssessment` |
| Editing (`write.py`, the page) | the other columns of `pursuit` | PATCH, bid, outcome, poll | no update is lost, a page hears of every change | `PursuitEditing` |
| Database access (`db.py`) | pool of ten connections, row locks | `tenant_tx` | no request waits for ever | `EventLoop` |
| Engine client (`engine_client.py`) | key cache | resolve, call | a rejected key is not used again | `EngineKeys` |
| Scoring table (`scoring.py`) | table cache | start-up, loop, lookup | eventually the engine's table, never parts of two | `ScoringTable` |
| Market sync (`market_sync.py`) | `market` | loop, apply | one row per market, codes stable, flags true | `MarketSync` |
| Users and sessions (`users.py`, `auth.py`) | `app_user`, sessions in memory | create, update, log in | someone can still administer; scope is handed down | `UserAdmin` |
| Org scope (`plan_scope.py`, `07_scope.sql`) | the org tree | resolve nodes, owners | never outside the caller's scope | `OrgScope` |
| Staffing (`staffing.py`, `staffing_escalation.py`) | escalation rates | phasing, escalation | every day is worked once; a rate reaches later years only | `Staffing` |
| Questionnaire (`write.py`) | `pwin_answer` | cascades | only legal combinations are stored | what saving does, in `PwinAssessment` |
| Presence, audit, reads, fee lookup, pages, migration | | | | section 6 |

How they interact: a PATCH calls the dependency check and, for two of its
transitions, the recalculation; the recalculation and the Black Hat / PTW
submissions blend through the dependency; an outcome reaches other pursuits by
clearing their dependency and un-blending their rows; an answer save clears the
dependency.  User administration and operators change what the scope resolvers
answer between two requests.  The scoring refresh and the recalculations share
one cached engine key.  All of it meets in the database, at the awaits, and on
the one loop.

What makes it hard:

* **State read before an await and used after it.**  A recalculation reads
  everything before the engine is called and nothing after; a PATCH has by then
  locked its pursuit's row, but no other.
* **Two notions of the row in force.**  `is_current` names the row whose Pwin is
  shown, the latest `calculated_at` among questionnaire rows the one whose answers
  are read.  `calculated_at`, and `updated_at` too, is when a transaction *started*.
* **Partial failure.**  A reverting PATCH makes up to three calls to the engine and
  commits whatever succeeded.
* **Many handlers on one rule.**  Five of them write the dependency, six write
  assessments; each clears or checks only some of what goes with it.
* **A synchronous driver in an event loop.**  An UPDATE of a locked row, or a
  wait for a connection, stops the loop that would release it.
* **Copies that outlive their source.**  Sessions keep roles, pages keep rows and
  cursors, caches keep keys and tables.

Every hazard is listed at its line in `PROJECT.json`, with the properties aimed at
it, or why there is none.  Some hazards are an overlap, and the property aimed at them
holds only of transactions that run one at a time: a note there says so, and section 5
says what the overlap breaks.

## 2. Modules and their correspondence with the code

| Module | Role |
|---|---|
| `DependencyForest` | abstract: predecessors form a forest; link one pursuit, unlink some |
| `PursuitDependency` | every handler that reads or writes the dependency, over a set of pursuits; implements `DependencyForest` |
| `PwinAssessment` | every handler that touches the assessments of one pursuit |
| `PursuitEditing` | several editors with a page each: guarded and unguarded writes, loads and polls |
| `EventLoop` | any requests on one loop, with the pool, the row locks and an operator's script |
| `EngineKeys`, `ScoringTable` | the key cache; the table on top of it, sharing the key |
| `MarketSync` | the background task over the clients in turn |
| `UserAdmin` | accounts, assignments and sessions of one client |
| `OrgScope` | the scope resolvers over a tree that changes |
| `Staffing` | phasing and escalation of one pursuit |
| `BackgroundTasks_proofs` | theorems of `EngineKeys`, `ScoringTable` and `MarketSync`, the two loops `main.py` starts |
| the other `*_proofs` | theorems of `PursuitDependency`, `PwinAssessment`, `PursuitEditing`, `EventLoop`, `UserAdmin`, `OrgScope`, `Staffing` |
| `MC*` | the instances TLC checks |

Operators commented "variant" or "Mutant of" are not part of the specifications:
each is a plausible mistake in the code, in place of which a property fails.

### PursuitDependency

Variables: `dependsOn`, `outcome` and `soleSource` are columns of `pursuit`
(`DECIDED` is WON or LOST, which nothing here tells apart); `lpta` is the P2 answer of
the latest BASE questionnaire row; `patches` and `recalcs` are the transactions
that wait for the engine, with what they have written or read.

| Action | Code |
|---|---|
| `PatchPursuit` | `patch_pursuit` that does not call the engine, or whose calls are refused |
| `SuspendPatch`, `CommitPatch` | `patch_pursuit` that leaves sole source or reverts to Pre-BH: up to the await, and from the last one to the commit |
| `SetOutcome` | `set_outcome` with `auto_clear_dependents_of_outcome` |
| `SaveP2` | `set_questionnaire_answers` in the BASE scenario |
| `BeginRecalc`, `FinishRecalc`, `FailRecalc` | `recalculate` up to the await, and after it |
| `Restart` | the process ends; open transactions roll back |

`MayDependOn` is `resolve_pursuit_dependency`, `Walk` its recursive query with the
depth cap as a constant.  `RowFree` is the row lock of the PATCH's UPDATE: an
UPDATE of a locked row does not return, so the step is disabled.  In the program
the loop is then stuck until the process is restarted: that is `EventLoop`'s
subject, and here such behaviours only stop (and may `Restart`).  The foreign key
check of a link takes a KEY SHARE lock, which does not conflict with that UPDATE.

### PwinAssessment

One pursuit.  `rows` is `pwin_assessment` in commit order; values are reduced to
where they came from (engine, analyst, sole source rule, blend) and answers to the
number of the save that last changed them, so "older answers" can be said.
`BH_PTW` stands for both types of analyst row.  `clock` orders `calculated_at`.

| Action | Code |
|---|---|
| `PatchPursuit` | `patch_pursuit`: guards, UPDATE, the sole source block, then the three possible calls in order (`LeaveSoleSource`, `Revert`, `RevertDependentWon`), ending in `Await` or `Commit` |
| `EngineAnswersPatch`, `EngineFailsPatch` | the PATCH resumes at the call it waited for |
| `SaveAnswers` | `set_questionnaire_answers`, the insertion of a first row and the LPTA clearing included |
| `SubmitBhPtw` | `submit_black_hat`, `submit_ptw` with the blend and `_recompute_complete` |
| `BeginRecalc`, `FinishRecalc`, `FailRecalc` | `recalculate` and `recalculate_pwin` |
| `CloseOrReopen` | `set_outcome` of this pursuit |
| `PredecessorCancelled` | `auto_clear_dependents_of_outcome` reaching this pursuit |
| `Restart` | as above |

`Written(t)` is the table as PATCH `t` sees it: its writes applied, in order, to the
committed rows.  They can be kept back until the commit because the locks it holds
(`RowFree`, `BaseRowFree`) keep the others off the rows it has rewritten.
Abstractions: which answers are LPTA and whether a target may be depended on is
`PursuitDependency`'s subject, so here both are left open; a missing fee or P1
answer is a failed call; a stage is Pre-BH or a later one (never NULL, as in the
data); the preview writes nothing and is left out.

`PursuitDependency` and `PwinAssessment` have two specifications each.  `Spec` lets
requests arrive while others wait.  `SerialSpec` lets one arrive only when none
waits: what the handlers do if each transaction runs alone.  A property checked
of `SerialSpec` only is one the awaits may break; section 5 lists those they do.

### PursuitEditing

`row` is the pursuit table as committed, reduced to bid, outcome, dependency, one
bit for everything else, `stamp` (`updated_at`) and `by`; `patch` is each editor's
PATCH that waits for the engine; `page`, `view`, `since` and `told` are what a
browser page does, shows, polls from and says.  `excused` is a history variable.

| Action | Code |
|---|---|
| `PatchPursuit`, `CommitPatch` | `patch_pursuit` with its lost-update guard, at once or waiting |
| `SetBid`, `SetOutcome`, `SubmitBhPtw`, `AnswerLpta` | the requests that write the row without that guard, with what the page does afterwards |
| `BeginLoad`, `ShowLoaded` | `loadData`: bootstrap reads, then the page shows it and takes its own clock for the cursor |
| `Poll` | `pollChangesTick` and `changes` |
| `Restart` | open transactions roll back |

Abstractions: WON stands for LOST and NO_BID for UNDECIDED, which the code treats
alike here; no two writing transactions start in the same millisecond and the
browsers' clocks agree with the database's; one load at a time per page.  `told` starts
anew with each load, while the banner stays until it is clicked: what the page is warned
of counts from its last load.

The writers are the application's requests.  The operator's script
`reassign_aero_org_tree.sql:59-71` rewrites `org_node_id` of many rows and stamps none, and no
trigger does it instead: a save that passes the guard may come from a page that shows the
old unit, and no poll reports the change.  `NoLostUpdate` and `MissedOnlyInAWindow`, and the
theorems about them, hold of requests only.

### EventLoop

`kind`, `on` and `at` say what each request is, about which pursuit, and where it is
(queued, waiting for a connection or a row, at the engine, done, refused); `loop` is the
request whose synchronous call has stopped the loop.  Between two awaits a handler is
one action: `Start` and `Resume` run it (`Runs`) or stop the loop (`StopsLoop`).
`Holds` and `Writes` are its row locks: a PATCH holds its pursuit from its UPDATE and
the assessments from its first answer on, or from the start when it sets sole source and
reverts at once (a "ruling"); a recalculation writes only after its call.  The rows of
dependents that an outcome clears are left out: they give the loop more rows to wait for,
and a wait of theirs that involves the script is one PostgreSQL may itself end.
A login waits in a thread, so it never stops the loop.  `PoolTimeout` is the pool's
thirty seconds, `Answer` the engine's reply or the call's twenty.  `BeginScript`,
`ScriptLocks` and `EndScript` are `reassign_aero_org_tree.sql`, which updates every pursuit
row by row in one transaction on the same database.

### EngineKeys and ScoringTable

Keys are numbered as they are issued.  A call resolves its key, caches it and goes
out in one step (`Send`; SSM is read without an await), the engine judges it
(`Judge`), and handling the verdict drops whatever key is cached by then (`Handle`).
`ScoringTable` adds the start-up refresh and the loop (`BeginRefresh`,
`FinishRefresh`) and the recalculations that read the table.  Two parts stand for the
four that `refresh` assigns: those before the KeyError an answer without a base score
raises, and the base score; an answer without tables raises before either.  An exception
other than ScoringTableError ends the start-up or the loop (`Uncaught`).  What is stored is
the version the engine served when it *answered* (`answered`), which a deployment may have
replaced by the time it is stored.  While no client is active (`someClient`) there is no key
to fetch with and the refresh is skipped.  Its specification is called `TableSpec`.

### MarketSync

`BeginClient`, `Answer`/`AnswerPlaceholder` and `Apply` are the fetch and the one
transaction that applies it (`Applied`) and records it (`Recorded`); `FailClient` is any
exception on the way.  `AnswerWithoutList` is a 200 without "markets", which the code takes
for an empty list and applies (`engine_client.py:244`); `genuine` is therefore the last list
that was *applied*, whatever the engine meant.  Names are numbered in their order, and a code is the sequence
of its slug's parts, so that the suffix of one name can be the slug of another.
Left out: two local rows of one name, and a round with no active client.

### UserAdmin

`CreateUser` and `UpdateUser` are the handlers of `users.py`, authorised by the roles
in the *session* and by the scope in the *database*.  `LookUp` and `CreateSession` are
the two steps of `login`; `Tick` lets sessions run out.  All nodes are active here; `OrgScope`
is about nodes that are shut.

### OrgScope

Each request is one transaction, hence one action: `PatchUnitAndOwner` (the org unit
and owner of a PATCH), `PutPlanYear`, `Bootstrap` (whose targets a dashboard sums).
`Regrant` and `SwitchUser` are user administration (by anyone who sees the account, the
deactivated with a session included), `SwitchNode` an operator's change of `is_active`; all
interleave.  `MovesGoToVisibleLeaves` is about requests: operators' scripts place pursuits
where they like.  The filter that hides test fixtures is for display and left
out.

### Staffing

`dates` and `demand` are what a request would compute now: the phases stacked back from
the due date (`PhaseDates`), cut at the cancellation (`Cut`), spread over the months
(`Contributions`) and divided by the compounded rates (`Factor`).  Amounts are kept as
fractions and lists of rates, so that nothing is rounded; weeks come in halves.  The
actions are the two writes that change the result.  The check of the due date against
the other dates (award, period of performance) is reduced to the planning start.

Every fourth year is a leap year, which is Python's calendar from 1901 to 2099.
`CalendarAssumption` keeps the years of a configuration there and the phases within them,
so that the walk over the months (`Walked`), which in the code only the end of the phase
bounds, never comes to the end of the calendar.

## 3. Runs

| Run | Bounds | Shows |
|---|---|---|
| `dep_serial` | 4 pursuits, walk of 4, symmetry | exclusions, refinement of `DependencyForest`, closed pursuits, the proof's invariant |
| `dep_overlap` | 2 pursuits, pool of 3 | what overlap leaves intact: sole source stands alone, the PATCHed row is held |
| `dep_overlap_cycle` | 2 pursuits | **violated**: while one PATCH waits with its link uncommitted, an ordinary one sets the opposite link |
| `pwin_serial` | 4 recorded start times, 2 saves | shown Pwin and shown answers agree, answers never regress, a closed pursuit keeps its assessments |
| `pwin_overlap` | 4 recorded start times, 1 save, pool of 3 | one current row per scenario, BASE covered, analyst rows filled, demoted rows frozen |
| `event_loop` | 3 requests of any kind about 2 pursuits, 2 connections, 2 calls per PATCH, one script, one restart | a wait for another request's row is a deadlock nothing ends; whatever is sent ends otherwise |
| `engine_caches` | 3 callers, 2 keys, a TTL of one tick, 2 versions, database and incomplete-answer faults, one restart | a rejected key stays out and rejections end; the table catches up unless its loop has ended, and a torn one is the last |
| `market_sync` | 2 clients, 3 names whose codes collide and the placeholder, 2 changes, answers without a list or restarts | flags and codes are those the applied lists explain; a steady client converges although the other fails every time |
| `user_admin` | 2 accounts, 2 nodes, 2 tokens, sessions of 2 ticks | scope comes from above, a deactivation leaves an administrator, a lost role ends |
| `editing` | 2 pursuits that may depend, 2 editors, 3 writing transactions, symmetry | no lost update, what is won was bid, what a page can miss |
| `org_scope` | 4 nodes, 2 users, 1 pursuit, 1 node switch, at most 2 grants each | moves go to leaves the mover sees, owners see their pursuit, sums stay in scope |
| `staffing` | 2 categories, 3 grids, durations of 0 to 28.5 weeks, 3 due dates, 4 cancellations, 2 overrides out of 4 years | every day is worked once; a rate reaches later years only, none if before the base year |

Why the bounds are enough.  Cycles need two pursuits to overlap and three to be
transitive; four also give a tree with a branch, a cancelled inner node and a bystander.
The walk covers every pursuit in `dep_serial`, which is the assumption of the
proofs.  A pool of three allows two waiting transactions and one more request.  Four
start times are what a revert with both scenarios assessed and a recalculation begun
before it need: two first rows, the recalculation, the PATCH.  Two saves tell older
answers from newer; no property of `pwin_overlap` compares answers, so one is enough
there.  In `event_loop` two requests make a deadlock and the third is who suffers or
exhausts the pool; two pursuits let the script hold one and wait for the other; the
requests start in the order of their kinds and pursuits, and the first is about the first
pursuit, since both are interchangeable (`MCInit`).  In `engine_caches` the two
recalculations and the refresh carry the old key across a rotation at once; a tick
makes a key stale.  In `market_sync` two names are slugged into the same code and the
third into the suffixed one; the first client may always fail.  In `user_admin` two
accounts already deactivate, demote and outlive each other in every order.  In
`editing` three writes are a first state, a change and a change of the change, with a page
in each state between.  In `org_scope` a unit with a division and one without, shut or
reopened, are the two kinds of leaf.  The dates of `staffing` straddle a year's end, a
29 February and the last year of the generic table, whose neighbours are overridden.

Deadlock is checked except where the system really stops: `event_loop` (every request
has ended and the restart is spent, or the loop is stuck after it) and `user_admin`
(everyone is logged out and nobody can log in).

Fairness, and why the code justifies it:

* `EventLoop`: weak fairness of each request's `Step`, since the loop and the threads go
  on as long as they can, an engine call ends after 20 seconds at most and the pool gives
  up after 30; and of the script once it has begun.  Nothing makes a row come free.
* `ScoringTable`: weak fairness of the refresh loop, of the engine's verdict (or the
  call's timeout) and of its handling.  Nobody has to rotate, publish or recalculate, and
  `RejectionsEnd` and `TableCatchesUp` hold of behaviours that become healthy for good, the
  second of those in which a client stays active from some time on.
* `MarketSync`: weak fairness of the loop.  Strong fairness of the last client's three
  steps is the property's hypothesis, a client whose sync succeeds now and then, and says
  nothing of the other client.
* `UserAdmin`: time passes, and a login that has read its user ends.

## 4. Proofs

All for every value of the constants, under the assumptions named in the modules.

`PursuitDependency_proofs`

* `TypeCorrect`, `SoleSourceAlwaysAlone` and `PatchedRowStaysHeld` of `Spec`.  The
  invariant is `OverlapInv`: sole source alone is not inductive, because a waiting
  PATCH commits a row computed earlier; one adds that a waiting PATCH is the only one
  on its row, that its pursuit is open, and that what it will commit is itself legal.
* `SerialInvariance`, `DependenciesAcyclic`, `LptaDependsOnNothing`,
  `NothingDependsOnCancelled`, `ClosedChangesOnlyWhenPredecessorCancelled` and
  `ImplementsForest` of `SerialSpec`, for finitely many pursuits and a walk no shorter
  than their number.  That assumption is needed: section 5, the deep cycle.
  `SerialInv` adds that at most one request waits and that what it has read or will
  commit is still current.

The heart of the second part is that the *bounded* walk finds every cycle.  A path
of the walk need not be followed: the set it visits is closed under `dependsOn`
(`WalkIsClosed`, because a simple path has no more than `DepthCap` members) and
contains the target (`WalkStarts`).  If the new link closed a cycle, some
nonempty set of pursuits would be closed under the new dependencies; what it shares
with the walk would be a nonempty set closed under the old ones, which a forest does
not have (`CheckedLinkKeepsForest`).

`PwinAssessment_proofs`: `TypeCorrect`, `CurrentIsUnique`, `BaseIsCovered`,
`EnteredPwinIsShown` and `HistoryIsKept` of `Spec`.  Each way the table is rewritten
(`Insert`, `Blend`, `SoleRuled`, `Unblended`) has a lemma: it keeps the table well formed
and what was demoted as it is.  A PATCH strings them together (`WrittenIsTable`), so the
handlers follow whatever the interleaving.  `Entered` is the strengthening: an entered row
always has a *base*, and that is what makes it one the blend fills in.

The same module proves of `SerialSpec` `ClosedPursuitsKeepTheirPwin`, `LatestStaysCurrent` and
`AnswersAreCarried`.  The first needs that no transaction is open on a closed pursuit.  The
second, that rows are dated in the order they are committed (`Dated`) and that what waits
carries the latest start time (`Waiting`), which is what overlapping breaks.  The third
follows the answers instead of the rows: each way the table is rewritten carries them
(`Carries`: a scenario that was assessed still is, and the answers of its latest rows are
among those it had), which composes over the steps of a PATCH.  Of what waits it needs
that it waits alone (`Solo`) and holds answers still in the table (`Known`): a recalculation those of the
latest row; a PATCH, between its two calls, those the first call's row was given and those
the second is about to be.  A save is the exception, and numbers its answers above all
of the scenario's.

`PursuitEditing_proofs`: `EditInvariance`, `NothingIsOverwrittenUnseen`,
`WonOnlyAfterABid`, `WarnedUnlessExcused`.  `NoLostUpdate` speaks of pages that pass the guard; it is
inductive only once every stamp is tied to its row: what a page shows is what the row
was when it was stamped (`ViewsAreOfTheirStamp`), and what a waiting PATCH will commit is
newer than its open row, which nobody else can write (`PatchesAreNewer`).  It is the second
part that rests on the row lock and that makes the stamp, the *start* of a transaction,
good enough for the guard, although it is not for the poll.  What the poll misses,
`MissesAreExcused` bounds: a row newer than a page shows it is still ahead of the page's
cursor, or told, or was committed while the page loaded or by a PATCH that had waited.

`EventLoop_proofs`: `LoopInvariance`, `RowWaitsAreDeadlocks`, `FrozenForGood`.  `LoopInv`
adds to the types that only a handler on the loop stops it, at a connection or a row.  A
row's holder is then another request, suspended in a PATCH, that only the loop could resume.

`UserAdmin_proofs`: `AccountsStayAssigned`, `ScopeIsHandedDown`, `DeactivatorRemains`.
Replacing a role keeps the nodes and replacing the nodes keeps the first role; the
transitivity of `Below` carries "in the caller's scope" from the nodes named to all below.

`OrgScope_proofs`: `TypeCorrect`, `RollupInScope`, `PursuitsMoveToLeaves`,
`OwnersSeeWhatTheyGet`, for any tree of three levels (`TreeAssumption`; the code's
depths in `plan_scope.py:132`) and any first grants.  `Above` is recursive; that its
recursion has a solution is proved by giving one (`AboveOf`), from which the ancestors can be
listed (`AboveListed`) and are an order (`AboveIsAnOrder`).  `SubtreesNest` then says that
what is reached from a visible node is visible, so a dashboard need not filter again; and
`ActiveDivisionsAreSeen` that whoever sees a unit sees its active divisions, so that
"a leaf", which the code decides from what the user sees, is a leaf to everybody.

`BackgroundTasks_proofs`, of `TableSpec`: `RejectedKeysStayOut`, `TornTablesAreLast`,
`TablesNeverRegress`.  The last needs that an answer still to be stored is no older than the
table, since nobody else stores one.  The key invariant adds what SSM and the cache may still hold: keys
are issued in order, so whatever is cached or in flight is no newer than SSM's, and what
was dropped is older.

The same module proves of `MarketSync`'s `Spec` `TypeCorrect`, `FlagsFollowTheEngine`,
`NoSharedCodes`, `FlagsAreOnRecord` and `CodesAreKept`, for any clients, names and base codes.
`SyncInv` is the three invariants together with the types, by which a list in hand is one
of real names or the made-up one.  The core is `GeneratedCodeIsNew`: of one more suffix
than there are codes one is free (the pigeonhole principle), so `_generate_code` ends, and
with a code no market has.  The loop over the missing names is a recursive function, whose
equation is proved by induction over the names (`CreateAllByName`) before anything is proved
about what it creates (`CreateAllIsSound`).

`Staffing_proofs`: `TypeCorrect`, `EveryDayOnce`, `OverridesReachForward`, for any durations,
grids, due dates, cancellations and rates in any calendar within 1901-2099.  `StaffInv` says
that what a request finds is what the phaser makes of what is kept (nothing is cached), so both
writes preserve it at once; the work is in what the phaser makes, in five steps:

* the calendar: months follow each other (`MonthsFollow`), never overlap
  (`MonthsAreApart`), and each day is in the one `MonthOf` chooses (`MonthOfDay`), leap
  days included;
* the walk: its recursion has a solution, by giving one, and no other, by the least month
  at which two would differ; it comes through exactly the months that share a day with the
  phase (`WalkedMonths`, `MonthsOfSpan`), and `min(end) - max(start)` counts the days
  they share (`SharedDays`);
* the sum: the folds of the property are worth any function that adds up (`SumIs`), here the
  number of days in a set of months, and months being apart, those add up (`DaysAddUp`);
* the stacking: each backward phase ends where the next begins (`PhasesBackToBack`), none
  starts before the calendar does, and the cutoff leaves the days before the cancellation
  (`PhaseDays`);
* the rates: a year that nobody gave a rate for takes that of the latest known year before
  it, and since the generic table has the base year that is never one before it
  (`RateReadsBack`); so the compounded rates of a year depend on the overrides from the
  base year to the year before it alone (`FactorReadsBack`).

Model-checked only: all liveness (`SentRequestsEnd`, `RejectionsEnd`, `TableCatchesUp`,
`SteadyClientConverges`, `LostRoleEndsSessions`), which is out of this prover's reach.  Every
other property of the passing runs is a theorem, and type invariants are proved in every
module with variables but `DependencyForest`, on their own or as part of an invariant.

## 5. Where the code and what it says of itself disagree

Only the first has a run of its own; the others can be seen by adding the definition
named in parentheses to the configuration of the module's run, under the
specification named where it matters.

* A PATCH that waits for the engine has checked its link and not committed it; an ordinary
  PATCH, which commits at once, sets the opposite link meanwhile; together they close a
  cycle, against `plan_scope.py:463-464` (`dep_overlap_cycle`).
* So does a chain longer than the walk's cap of 50 (`plan_scope.py:514`; `Acyclic` of
  `SerialSpec` with 3 pursuits and `DepthCap = 2`).
* A waiting PATCH commits a link to a pursuit cancelled meanwhile, or to one that is LPTA by
  then (`plan_scope.py:560`; `NoDependentOfCancelled`, `LptaStandsAlone` of `Spec`).
* A recalculation that waited writes into a closed pursuit and over newer answers
  (`recalc.py:417`, `459`; `ClosedPwinIsHistory`, `AnswersNeverRegress` of
  `PwinAssessment!Spec`); `LatestIsCurrent` does not hold of it either.
* A Black Hat replaces the sole source rule's Pwin, clearing a dependency by hand
  leaves a blended BASE and a current DEPENDENT_WON, and `black_hat_ptw_complete` goes
  stale (`SoleSourceShowsRule`, `ClearedDependencyLeavesNothing`, `CompleteMeansAnalysed`).
* A change that a waiting PATCH commits late, or that commits while a page loads, is never
  reported to that page (`index.html:3311-3313`, `3549-3553`; `EveryChangeIsReported`).
* After one's own bid toggle the page keeps the old stamp, and the next save is refused
  with a message that somebody else has modified the pursuit (`write.py:233-235`;
  `RefusalNamesSomebodyElse`).
* Two administrators deactivate each other, against the comment at `users.py:233-235`
  (`LastAdministratorStays`); replacing a user's assignments drops those
  outside the caller's scope (`OutOfScopeGrantsUntouched`).
* `refresh()` says it never partially updates (`scoring.py:119-120`), yet an answer
  without a base score leaves new tables beside an old score (`ScoredWithOneVersion`);
  `refresh_loop()` says a failed refresh does not stop it (`scoring.py:287`), yet an error
  of any other kind does (`LoopGoesOn`).
* The default dashboard is not the user's full scope when they are assigned beside their highest
  node (`plan_scope.py:201-204`; `DefaultShowsFullScope`).  A dashboard
  sums the targets of the root and those of its units, where both have some.
* Staffing: the duration of a phase nobody is staffed in is not read
  (`staffing.py:259`), although the phases before it are stacked on it (`:56`); a
  phase that a cancellation cuts keeps its whole FTE in fewer days; an override beyond
  2031 changes the years after it, since rates are held from the latest year known, which
  `ddl/14` does not say at its lines 23-24; one before 2026 is taken and changes nothing
  (`OverridesReachForward`); the planning start is not recomputed when the due date moves.

## 6. Plan, and what is not modelled

Next, in this order:

1. `Questionnaire`: option cascades as functions of rules the engine sends; that saved
   combinations are legal.
2. `BlendedPwin`: `PursuitDependency` composed with the current rows of several
   pursuits, for the freshness of a blend.
3. Presence: heartbeats that expire.

Not modelled: the cascades of the questionnaire, which interpret the engine's data
(what saving answers does to dependency and assessments is in the modules); presence and the
reading of the audit log; the amounts of a plan year and the dashboard layout, one upsert each; the
remaining reads of `portfolio.py` and `bootstrap.py`, fee lookup and page rendering,
which change no shared state; the workbook migration, demo data and shell
scripts, which are offline.  Row level security and audit triggers are declarative and
evaluated by PostgreSQL.  The engine is external: it answers or it fails.
