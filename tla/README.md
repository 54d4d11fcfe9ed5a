# Verification of the Hackatime server (a fork of Wakapi)

Hackatime collects *heartbeats* from editor plug-ins, turns them into
*durations* and *summaries*, and shows them to their user. This directory holds
TLA+ models of the parts of the server whose correctness depends on the order
in which goroutines, scheduled jobs, requests and crashes meet, the TLC runs
that check them and the proofs that hold for every size of the system. All
paths below are relative to `src/`.

## 1. The system

One Go process, one SQL database, an optional object storage. The process has

* HTTP handlers, one goroutine per request;
* job queues (`config/jobqueue.go`, the artifex library): a bounded channel of
  4096 jobs and a fixed number of workers each. Cron jobs are dispatched to the
  *default* queue, which has one worker. `GetQueue` creates a missing queue
  with one worker, and the services' constructors call it before `StartJobs`
  runs, so the *processing* queue has one worker as well, whatever
  `StartJobs` asks for;
* an event bus (blocking subscribers, one goroutine per subscription);
* in-memory caches with expiry in most of the services.

There are no transactions across queries: whatever a handler or job reads, it
reads query by query, and another goroutine may write in between.

| Component | State | Operations | Talks to | Modules |
|---|---|---|---|---|
| Job queues (`config/jobqueue.go`) | queues, workers | dispatch, dispatch at a time | every service | `Jobs` |
| Ingestion (`routes/api/heartbeat.go`, `services/heartbeat.go`, `repositories/heartbeat.go`) | heartbeats; cached counts, entity sets, project statistics | insert a batch, count, statistics, delete | relay, user cache, event bus | `Ingest` |
| Relay (`middlewares/custom/wakatime.go`) | hash cache, failure counter | forward heartbeats to the next server | event bus, users | `Relay` |
| Durations, summaries (`services/duration.go`, `services/summary.go`, `models/summary.go`, `models/filters.go`) | rows with their items | summarize, retrieve (rows + missing intervals, merged), alias, label, filter | heartbeats, aliases, labels | `Retrieval` |
| What is kept in memory of them (`services/summary.go`, `alias.go`, `project_label.go`, `language_mapping.go`) | cached summaries, alias map, lists | fill, invalidate, reload | event bus, settings | `ViewCache` |
| Aggregation (`services/aggregation.go`) | users in progress | the daily job, regeneration | summaries, processing queue | `Aggregation`, `DailyLedger` |
| Data exports (`services/data_dump.go`, `services/object_storage.go`) | rows, files | create, process, mark stuck, clean up, delete by user | processing queue, object storage | `DataDump` |
| Leaderboard (`services/leaderboard.go`) | items; cached pages | scheduled generation, update after a settings change | summaries, user events | `Leaderboard` |
| Sharing (`helpers/interval.go`, `routes/utils/badge_utils.go`, `stats.go`, `badge.go`, `activity.go`) | preferences in the user's row | resolve a range, decide whether it is shared | users, summaries | `Sharing` |
| Users (`services/user.go`, `repositories/user.go`, the handlers of settings, login, billing) | rows; cached copies | get, update (all columns), delete | event bus | `Accounts` |
| Sign-up, invites (`routes/login.go`) | users, key-values | sign-up with an invite code | users | `Signup` |
| Subscriptions (`routes/subscription.go`, `services/misc.go`, `services/housekeeping.go`) | dates in the user's row, the mark of a reminder | Stripe's webhooks, reminders, retention, cancellation on deletion | users, key-values, mail | `Subscription` |
| Imports (`services/imports`, `routes/settings.go`) | key-values, queue, channel | fetch and insert foreign heartbeats | heartbeats | `Import` |
| Misc jobs (`services/misc.go`) | key-values, two locks | total time, oldest heartbeats | summaries, processing queue | `Jobs` |
| Migrations (`migrations/`) | marks in the key-values | pre, schema and post migrations at each start | everything | `Migrations`, `MigrationList` |
| Settings page (`routes/settings.go`) | latch per user | one action per form | nearly everything | in the modules of what it changes |
| Reports, metrics, shop, mail, views, configuration | none | formatting and presentation | summaries | none |

What is hard, and what correctness means, per component:

* *Aggregation*: reads three tables in three queries, emits days into a
  blocking channel, and releases its lock when the jobs are queued, not when
  they are done. Correct when every finished day of a user gets one summary,
  no day is skipped (retrieval relies on it), no heartbeat counts twice, the
  lock excludes and both lock and latch are given back.
* *Exports*: a row, a job with its copy of the row, a file and a housekeeping
  job with its own copies; crashes lose the job. Correct when no file is
  without a row, a completed export has its file, a dead export does not block
  its user, and everything is removed after it expired.
* *Summary retrieval*: rows and missing intervals must add up to what the raw
  heartbeats give; cached results must not outlive a deletion.
* *Leaderboard*: the scheduled generation and the handler of user events
  delete and insert the same items without a lock. Correct when the items of a
  user converge to one set, and to none after an opt-out.
* *Users*: `Update` writes all columns of a copy that may be stale. Correct
  when a saved change is not undone by a request that did not make it.
* *Subscriptions*: webhooks come late, twice and out of order. Correct when
  the row converges to Stripe's last state and one notification is sent per
  expiry.
* *Ingestion caches*, *view caches*: counters, sets and lists updated beside the
  database. Correct when they do not outlive a change, or converge once
  changes cease.
* *Relay*: servers may relay to each other in a cycle. Correct when relaying ends.
* *Imports, invites*: one code for one account; an import is complete.
* *Migrations*: a start may end anywhere. Correct when later starts finish the
  work and undo nothing that users chose.

`PROJECT.json` lists the hazards one by one with their lines.

## 2. Plan

Done, in this order: the daily aggregation; data exports; the leaderboard; users,
subscriptions and sign-up; retrieval; what is kept in memory beside the
database; relay, import, queues, migrations; what is shared with others; the
refinement of `DailyLedger` with its proof.

What composes what: `MCUsers`, `Server` (which `MCServer` gives its values and its fairness)
and `MCPublic` each bring together
parts that share no state but tables which only one of them writes in the model.
A behaviour is one part's, chosen at the start, and the others rest in an initial
state: the states of the parts add up instead of multiplying, and each property
of the run is the property of a part. Where two parts do meet, the meeting is
inside one module: `Aggregation` has the settings page, clearing and deletion;
`Leaderboard` the saves of users and the event bus; `Subscription` the reminders,
the retention job and the deletion; `Accounts` every handler that writes a user.

What is proved (section 10) are the safety properties of `Aggregation` with its refinement,
`DataDump`, `Leaderboard`, `Accounts`, `Signup`, `Subscription`, `Jobs`, `ViewCache`, `Ingest`,
`Import`, `Relay` and `Migrations`, and that the runs' compositions have them, too. The proofs are in

| Module | about |
|---|---|
| `AggregationProofs`, `DataDumpProofs`, `LeaderboardProofs`, `SignupProofs`, `SubscriptionProofs` | the module of that name |
| `AccountsProofs` | `Accounts`, and `MCUsers` as the composition of it with `Signup` and `Subscription` |
| `PartsProofs` | `Ingest`, which it extends, and `ViewCache`, `Import`, `Relay`, `Migrations` as instances |
| `ServerProofs` | `Jobs`, and `Server` as the composition of it with the parts of `PartsProofs` |

## 3. Aggregation

`Aggregation` models one call of `AggregateSummaries` as a *run*: the cron job
(`Cron`, which names no user and thereby all of them) or the goroutine of a
settings request (`Regens`). A run's record holds the call's local variables:
its program counter, the users it was called with (`target`), what the three
queries returned (`last`, `first`, `known`), the entries of the loop still to do
(`todo`) and the jobs between the loop and the queue (`pipe`).

| Code | Model |
|---|---|
| `lockUsers`, `unlockUsers` | `Lock`, `LockRefused`, `Return` on `inProgress` |
| `GetLatestByUser`, `GetFirstByUsers`, `GetAllMapped`/`GetManyMapped` | `ReadLast`, `ReadFirst`, `ReadUsers`, one query each, each may fail |
| the loop and `generateUserJobs` | `EmitUser`, `UserJobs`, `NextDay` |
| the forwarding goroutine, `Dispatch` | `Forward`, blocked while `queue` holds `QueueCap` jobs |
| `process`, `Summarize`, `Insert` | `Process`, `InsertSummary` |
| `actionRegenerateSummaries` and its goroutine | `ClickRegenerate`, `Latch`, `ClearSummaries`, (the run), `Unlatch` |
| `actionClearData` | `ClearData`, `ClearHeartbeats` |
| `actionDeleteUser` (after its delay) | `DeleteUser` with the cascade of the tables |
| a nil user in a job | `Panic`: the worker goroutine has no recover, the process ends |
| the process ends and starts | `Crash`, `Restart` |

Abstractions. Time is counted in slots, `DayLen` to a day; slot 0 is the day's
first second, because `generateUserJobs` takes off a second before it rounds
to the next day and everything that can go wrong there happens at that second.
A heartbeat is its time; a summary is its interval and the set of heartbeats
whose activity its items hold. The end of a summary is the *start* of its last
duration, as in `Summarize`. Rows that are equal count as one, since
`Retrieve` drops rows with the same start. A run's loop continues with the
next user while the last job waits in the channel (`Len(pipe) <= 1`): the
sender of an unbuffered channel goes on when the receiver has taken the value.

Runs:

* `agg_regenerate`: one user, who may be deleted, two settings requests, the
  cron job, one failing query and one crash, a queue of one. Checks
  `TypeOK`, `OneFinishedDayPerRow`, `LockExclusive` and, under fairness,
  `LatchReleased`. One user is enough because runs of different users share
  nothing but the queue, whose blocking three runs of the same user produce;
  two requests are the least that can collide, and each takes at most one click.
* `agg_daily`: the cron job alone, two heartbeats over five days of
  three slots (first second, middle, last), posted late or in time, two
  crashes. Checks `NoDoubleCount`, `LedgerKept` and, under fairness, `UpToDate`.
  `LedgerKept` is the specification of `DailyLedger` under the refinement mapping
  "a user's days are those of his rows": a row is only written for a day that is
  over and is there already or follows one that has a row. `NoDaySkipped` follows
  from it. (With failures it does not hold: see `agg_insert_fails`.)
  Three slots and a timeout of two give all cases of the boundary: a row that
  ends at midnight (no heartbeats), in the first second, later. `UpToDate`
  speaks of days before the last one, and no crash happens on the last day:
  a crash then would need another day to catch up.
* `agg_regenerate_double` (violation): `NoDoubleCount` fails as soon as a
  regeneration meets the cron job. The cron job's empty set of users collides
  with nobody in `lockUsers`, and the lock is released while the jobs are
  still queued; a late heartbeat gives the two rows of the day different
  starts, and `mergeSummaries` then counts the shared heartbeats twice.
* `agg_insert_fails` (violation): `NoDaySkipped` fails when one day's `Insert`
  fails and a later one succeeds; nothing aggregates the day again.

Assumption `Backlog = FALSE` (in the runs about the cron job alone): a day's
jobs are done before the cron job fires again. With `Backlog = TRUE` the
cron job collides with its own backlog the way a regeneration does.

Known behaviour without a property of its own: a job that is under way when
"clear data" runs inserts a summary of deleted heartbeats; a user deleted
between the first and the third query gives a job whose nil user ends the
process (`Panic`). Both are in the model, so that the checked properties hold
in spite of them. The first, partial day of a user is never aggregated when
the first heartbeat is after its first second (`NextDay`); retrieval computes it
from the heartbeats.

Fairness: midnight comes, the cron library fires, and Go's scheduler starves
no goroutine, which gives weak fairness of each run, each worker, and each
request's goroutine. None is assumed of clients, failures and crashes.

## 4. Data exports

`DataDump` models `Create` as two actions (`CheckExisting`, `InsertDump`), the
job as one action per `Save` and storage call (`Begin`, `StartUpload`, `Upload`,
`CannotUpload`, `Finish`, `Fail`) with its copy `mem` of the row, the
housekeeping job with the copies it read (`FindStuck`, `MarkStuck`, `FindExpired`,
`DeleteExpiredObject`, `DeleteExpiredRow`) and `DeleteByUser` (`StartClear`,
`ClearObject`, `ClearRows`). `Save` writes all columns and inserts a row that is
gone, which is what gorm's `Save` does. An upload may fail although the file has
been stored. The branch of `Create` for a failing `Dispatch` is left out: it
happens only after `CloseQueues`, which nothing calls. Contents and
the progress percentage are not modelled.

Runs:

* `dump_exports`: two requests at a time, two exports, a failing call, a crash,
  one tick until an export counts as stuck, two until it expires. Checks
  `TypeOK`, `NoOrphanFile`, `CompletedHasFile` and, under fairness,
  `ExportRemoved`. Its assumption `Prompt`: a job ends before its export
  expires (24 hours). Two exports are the least that can be confused; time
  goes on until both have expired (`LastPost`, `MaxClock`).
* `dump_settles`: with a user who deletes exports, and with an expiry beyond
  the end of time, so that only its job or `MarkStuckDumps` can settle an export:
  `ExportSettles`.
* `dump_double_post` (violation): two requests both pass the check of `Create`;
  `OneInProgress` fails. The same property also fails with one request at a
  time, when a job that starts after the threshold writes the mark of
  `MarkStuckDumps` away with its own copy.

Known behaviour without a property of its own: an export made while
`DeleteByUser` runs loses its row but not its file, and a job that is under way
inserts the row that was deleted (hence no `DeleteByUser` in the run
that checks `NoOrphanFile`).

Fairness: time passes, workers work, the housekeeping job is scheduled again
and again, and a request that deletes exports goes on.

## 5. Leaderboard

`Leaderboard` has the table as the number of copies of each user's items
(`items`: the total and the items by language), because nothing in the table
keeps an item from being there twice. `ComputeLeaderboard` is one action per query
(`DeleteItems`, `InsertTotal`, `InsertLanguages`) and the flush at its end
(`EndCompute`), run by two goroutines: the default queue's worker
(`StartGeneration`) and the handler of `user.update` (`CheckListed`, then a
computation of its own or `ClearListed`). The event bus hands a message over only when
the handler is free; a request therefore waits in `Publish` and writes its row
afterwards (`WriteUser`). A request may save either preference, which covers
changes of the preference and stale copies in other updates; requests that hold the
same cached object see each other's value (`Shared`). `Insert` also restores the
row of a user who is gone: the items carry their user, and gorm inserts the
objects a row refers to.

Runs:

* `public` (with the sharing of section 9): one user, two saves or deletions at
  the same time, a reader, a failing query, a crash, and generations for ever.
  Checks `TypeOK`, `AtMostTwo` and, under fairness, `EachListedOnce` and
  `PagesForget`. Users share nothing but the list of a generation, and a list of one
  is as stale as a longer one; two saves are the least that give the handler two
  events to work on.
* `lead_opt_out` (violation): `OptedOutIsDropped` fails. A generation under way
  inserts the items of a user who has just opted out; the next generations skip
  the user, and the handler looks at them only when the user saves something
  again. `leaderboard.tpl.html` promises a list of those who opted in.

Both runs have `IgnorePreference = FALSE`, the default of the code (the shipped
`config.default.yml` sets it, and then everybody is listed); the theorems hold for
both. Fairness: the cron library fires again and again, and Go's scheduler
starves no goroutine. None is assumed for a page's expiry (six hours), so
`PagesForget` says that the flush of the next generation is enough.

Left out: totals and ranks; the cached count of users, whose condition is
inverted (`CountUsers` caches the answer of a *failing* query only).

## 6. Users, subscriptions, sign-up

**`Accounts`** has one user's row, the cache entry, and the objects on the heap.
`GetUserById` hands out a pointer into the cache, so that requests of a user share
an object and see changes that have not been saved; `Update` writes *all* columns
of such an object, after it flushed the cache. `Handler` describes what a handler
does in these terms (how it gets the object, which columns it changes or empties, how it
saves, when it flushes, whether it may refuse its input after changing the object, whether
it asks for the user's time zone), `Table`
lists the handlers of settings, login, billing, heartbeats, import and retention,
and one sequence of steps (`Arrive`, `Query`, `Fill`, `Edit`, `Hash`, `FlushAndPublish`,
`Write`, `LateFlush`) serves them all. A value is the number of the request that
chose it. `User.TZ()` changes the object it is asked of: an empty location becomes "Local"
there (models/user.go:115), in two unguarded steps, `ReadZone` and `SetZone` of a page or an
API call, or `Compute` of the leaderboard, which an update tells of the object (`told`).
`UpdateNowhere` saves an empty location. `Hash` does not fail: argon2id fails only when
there are no random bytes, and with Go 1.24 (`go.mod`) this ends the process (`Crash`).

**`Subscription`** has Stripe with its events (in order, twice, or overtaken), the
dates in the row, the goroutine that deletes the mark of the reminder, the reminder
job between its two queries, the mail and the mark after it, the retention
job with its copy, and the deletion that works on an object captured five minutes
earlier. A day of the model is the time from one check for reminders to the next, twelve
hours in the code (misc.go:23); the retention job runs on some of them.

**`Signup`** has one action per query of `PostSignup` and `InsertOrGet`.

Run `users` (`MCUsers`):

* `SavedStands`, `CacheFresh`, `UsedTokenIsDead`: what holds while the requests
  of a user come one after the other, for all handlers, with a "Local" allowed in place of an
  empty location. `CacheCatchesUp`: what becomes of overlapping requests (`overlap`), for
  the handlers of `Mixed`: a page, a login and a deletion. Two requests, one fault, and
  two changes after that of `Init`, which is an outstanding reset token: the password may be
  set with it and another request save its copy afterwards, or a stale object be held by one
  request and another write.
* `RowFollowsStripe`, `RemindersApart`, `WarnedBeforeCleaned`, `DeletedIsCancelled`:
  five days with periods of three and a notice of one, three orders of the user and
  faults together. That is a renewal, a cancellation and a deletion within one
  behaviour, and a reminder before and after each expiry.
* `CreatedOnce`, `OneAccountPerCode`, `OneAdministrator`: two requests for two
  names, with one code and one failing query. `CreatedOnce` holds however they overlap; the
  other two are about sign-ups that do not, and exclude what the list below says of overlaps.

Known behaviour without a property of its own (each is in the model):

* An empty location does not last: once somebody has asked for the time zone, the next update of
  any column saves "Local" with it (hence `Agrees`).
* A lasting consequence of overlaps: a request that saves an object read before
  another's change writes the old columns back (hence `~ overlap` in `SavedStands`).
* `ChangePassword` keeps the plain password in the shared object until it is hashed
  (settings.go:253); a request that saves the object in between stores it.
* `GenerateResetToken` updates one column without a flush, so the token
  is excepted from `SavedStands`; `GetUserByKey` always queries, since nothing is
  cached under keys; a deleted user stays cached for up to an hour.
* An invite code is spent although the form is refused; a failing count makes the
  new account an administrator's (login.go:233); overlapping sign-ups share a code.
* Reminders repeat, every twelve hours, unless a mark of the last week is found, and for as long as the dates stay expired; a cancellation
  that is taken back does not restore the renewal (subscription.go:304); an event
  that fails is answered 200 and lost; a check-out of an unknown customer
  dereferences nil (subscription.go:266).

Fairness: goroutines run, an entry's hour passes; users, Stripe and clock owe nothing. In
`Accounts` it matters only to the behaviours with overlaps, which `CacheCatchesUp` is about.

## 7. Retrieval

`Retrieval` is mostly functions: `Durations` (the fold over heartbeats, with the
gap at midnight and the shortest and the lone duration), `Summarize`,
`GetMissingIntervals`, `MergeSummaries`, `Retrieve`, and `Aliased` with aliases, labels,
filters and the filling of missing types. Its only action persists a day. Its inputs
are all sets of up to three heartbeats (four in `retrieve_double`) out of seven times
on three days and three kinds, with three settings: no aliases, an alias of two projects
with a label, a wildcard alias with a label.

* `RetrieveNearRecompute` (run `server`, as `NearRecompute`): the time of a project from
  rows is that from heartbeats, up to the deviations its comment lists, each of which
  has its cause in a line of the code.
* `ProjectFilterGivesItem` (`FilterGivesItem`): asking for a project, or an alias, gives
  the time it has among all.
* `retrieve_double` (violation): `RetrievedIsRecomputed` states the intent of the comment
  in `duration.go:62`. The interval after the last row begins at the row's `ToTime`, the
  *start* of its last duration, which is thus counted twice.

Known behaviour: a label filter whose label has no projects returns everything;
`FillBy` overwrites an existing label "default"; wildcard aliases of other types are
resolved against projects (services/summary.go:493-516); filters are changed in place
across intervals; the keys "unknown" and "-" differ between the shortcut
and the full path.

## 8. Memory, queues and start-up

All checked by run `server`: `Server` extends `Jobs` and instantiates the others, and `MCServer`
extends it with values and fairness. `Retrieval` has its inputs in `RetrievalValues` (`MCRetrieval`
uses the same). `MCServer` also assumes, and TLC thereby evaluates, `ListFits`: what the theorems
about migrations ask of a list is so of the one in `MigrationList`.

* **`ViewCache`**: cached summaries, the lists of labels and mappings, the map of aliases
  with its reloads in goroutines, the label event, and who changes the tables. One
  reader, one possible row per table, two changes, one failing query. `CachedIsCurrent`
  holds while no reader overlaps with a change; `ViewsCatchUp` says that everything
  converges afterwards, which for the alias map, which never expires, depends on its
  being loaded anew for each summary (`SF` of `InitializeUser`: the hourly count of the
  total time asks for every user's). Known: a failed label query caches an unlabelled
  summary for a day; changes of aliases do not invalidate cached summaries;
  deleting an alias with a stale map answers "deleted" and deletes nothing.
* **`Ingest`**: posts with their goroutines (`UpdateEntity`, `OnHeartbeat`), readers that
  fill caches, deletions with a flush in a goroutine. `ProjectsComplete`,
  `CountCatchesUp`. Two posts of two hashes, one read, one deletion or failing insert. The
  query of the statistics takes only heartbeats with a language and older than today (`Counted`,
  repositories/heartbeat.go:314-319); `ProjectsComplete` asks that the set has every project of the
  table, and the statistics every one all of whose heartbeats are of that kind.
  Known: duplicates are counted; an entity set filled between the
  query and the commit of an insertion stays short for good; the statistics lack for up to
  twelve hours a project first seen in a heartbeat that they do not count, since the unique
  projects have it from then on and no notice drops them any more.
* **`Relay`**: three servers, one of which relays into the cycle of the other two, so that
  no origin's id stops a post; the hash cache must (`RelayEnds`). Also lost and refused
  requests, restarts, the failure counter. Two posts of two hashes.
* **`Import`**: the handler, the goroutine, both importers with ticker, queue, workers
  and unbuffered channel. `ImportComplete`: an import that is not disturbed ends with all of
  the foreign heartbeats. Three heartbeats on two days, batches of two, two imports.
  Known: last_import is put after the goroutine's start and the success is marked before
  the insertion, so that a crash or failure leaves an import that may not be repeated for a
  day; a retry starts from the latest heartbeat although days arrive in any order; an
  import whose list of user agents cannot be fetched waits for ever
  (wakatime_heartbeats.go:58); a poll may be dispatched while another runs
  (wakatime_dump.go:141), and then sends on or closes a closed channel, which ends the process (the
  model leaves the worker stuck; both need a fault, which `ImportComplete` excuses).
* **`Jobs`**: queues made by constructors and by `StartJobs`, `CountTotalTime` and
  `ComputeOldestHeartbeats`. `CountsWhole`: the lock is unlocked only by the run that has it
  (a run that does not get it would unlock it all the same; that the default queue has one
  worker prevents it), and the total that is stored lacks nobody's time but that of users whose
  count failed, though the runs' counts and the goroutines that store overlap. Two users, queues
  of two, two runs: the queue of the counts is full with those of the first run while the
  second dispatches, and either may be stored last. Known: a count that fails adds 0 and the sum is stored all
  the same (misc.go:243-247). Left out: the number of users, which is stored after the total.
* **`Migrations`**: the list of migrations (`MigrationList`) run over an empty or an old
  database on four dialects, with a failing statement, a mark that is not stored, or a
  crash anywhere, and users who set what migrations write. `MigrationsSettle` excuses an
  overwritten choice only where `badges_enabled` stays or a mark was not stored or not found
  (`unmarked`). Ages 0 and 15 stand for the oldest and the newest database to which a post
  migration is left. The models are migrated in one step (`AutoMigrate`), which when it fails has
  done any part of it; `automigrate_fail_silently` is off, as by default. Known: 20210206 sets the
  sharing flags anew at each start on SQLite; the condition of 20240925 is the wrong way
  round, so that no names are filled in; a failing commit of 20211215 is not looked at, and
  leaves Postgres with small ids and a mark.

The fairness of this run is that of the parts, written as few conditions: since a behaviour
is one part's, weak fairness of a disjunction of steps of different parts is weak
fairness of each. Goroutines, workers and tickers go on, entries expire, and a server that is
down is started again.

## 9. Sharing

`Sharing` works out, on a calendar with a leap year and with the changes of the clock in
Central Europe, which ranges others are shown: `ResolveIntervalTZ`, `ResolveMaximumRange`,
the width of a range against the number of days shared (`TooBroad`), statistics with the
filters of the request, badges, and the chart. The caches of badges and charts are left out: a
badge's key has its parameters and the permission is checked before the look-up. Run `public` asks `SharingAgrees` on every date
from August 2023 to January 2025, which has a 29th of February, changes of the clock in
both directions and dates from which ranges reach across them, for the numbers of days
at which the resolution changes. Statistics and badges are compared on requests without a
filter; that nothing is served to others when nothing is shared, with filters, too.

Known: the statistics apply a stranger's filters before they blank what is not shared
(stats.go:105), so that their total follows a filter which the badge route refuses; categories and
branches are listed whatever is shared (stats.go:118-135); the limit is on a range's width, so older data is shown by ranges
that end in the past (last week, the fixed seasons); a user who shares one day is
refused the default range on the day after the clock was set forward; at 365 days the
chart is refused although the statistics of twelve months are shown; the chart shows up to
six days more than the statistics; a badge or chart stays in its cache for one or six
hours, but the permission is checked first.

## 10. Proofs

### Aggregation

`AggregationProofs` proves, for all values of the constants that satisfy
`ConstantsAssumption` (any number of users, requests and workers, any length of
a day, any number of crashes, failures and clicks):

* `TypeCorrect`: `Spec => []TypeOK`.
* `RowsOfFinishedDays`: `Spec => []OneFinishedDayPerRow`. The
  property is not inductive: a row gets its days from a job, so the invariant
  `IInv` adds that every job in a pipe or in the queue is for a day that is
  over (`JobsFinished`). `IInv` is `TypeOK`, `JobsFinished` and the property.
* `AggregationExclusive`: `Spec => []LockExclusive`, inductive with `TypeOK`:
  the users in progress are those of the runs past the lock, and a run only
  passes it when its users are not in progress.

Each proof has one lemma per group of actions and a last one for `Next`.

It also proves, under the assumption `Undisturbed` (no regeneration, no clearing, no deletion, no failing query, one worker, and a cron
job that fires when the jobs of the day before are done; crashes and late
heartbeats are allowed, any number of them):

* `AggregationKeepsLedger`: `Spec => LedgerKept`, the refinement: every step of
  `Aggregation` is a step of `DailyLedger` or leaves today and the recorded days
  alone (`LedgerStep`).
* `DaysAreContiguous`: `Spec => []NoDaySkipped`.
* `NoHeartbeatTwice`: `Spec => []NoDoubleCount`.

  A row's day follows the day before it only because of the order in which jobs are
  made and done. `LedgerInv` therefore lines up all jobs under way as they will be
  recorded (the computed summary, then the queue, then the run's channel) and
  says that each one's day is recorded, or follows one that is recorded or stands
  before it in the line, or is its user's first (`PendingFollow`). Emitting keeps this
  because what the run read of a user it has not come to is still so and no job of
  that user is under way (`RunFresh`), which holds because the cron job starts with
  an empty line (`Backlog = FALSE`) and emits one user after the other. A job
  emitted on top of the latest row follows that row's day: `RowsOnDays` says that a
  row ends on its day or at the midnight after it, the case for which the code takes off
  a second (`NextDayFollows`, `SummaryOfDay`). Without `Undisturbed` the
  theorems are false, as `agg_regenerate_double` and `agg_insert_fails` show.

  The same second makes a day be summarised twice: a row that ends there has the job of its
  own day follow it. `NoDoubleCount` survives this because both rows begin with the heartbeat
  of that second. `CountedInv` says so for what is written and what is still in the
  line: a row covers heartbeats of one day (`HoldsItsDay`), rows of a day begin at the same
  time, and a job for a day that has rows finds them beginning at the day's first second,
  with a heartbeat there that no late one can precede (`Repeats`).

### Data exports

`DataDumpProofs` proves, for any number of users, exports, requests and workers,
any threshold and expiry:

* `TypeCorrect`: `Spec => []TypeOK`. The copies that `Save` writes back are rows
  only because a job that is queued or running holds its copy, and is queued
  once; these are `QueuedOnce` and `CopiesHeld`, with `TypeOK` the invariant `TInv`.
* `NoFileLosesItsRow`: under the assumptions `Prompt` and `Clearers = {}` (the two
  situations in which the code does lose a file, see section 4),
  `Spec => []NoOrphanFile`. The property allows a file whose row is gone while
  its job lives; the proof shows that not even that happens. The invariant
  `SInv` says that every living job has an unexpired row as old as its copy
  (`JobsHaveRows`), that the rows to be marked are still there, so that marking
  inserts none (`MarkedHaveRows`), and that what is being removed has no living
  job, and no file once it is the row's turn (`CleanedAreDead`). `NobodyClears` and
  `FreshHaveNone` carry the assumptions and the uniqueness of ids along.

* `CompletedIsThere`: under `Clearers = {}` alone, `Spec => []CompletedHasFile`. Jobs
  may outlast their exports here, so the row's age decides: `FInv` says that row, the job's
  copy and the copy of the housekeeping job are equally old (`OneAge`), that files are only
  removed of what has expired by each of these copies (`RemovedOld`), that neither a row to be
  marked nor a copy yet to be saved says "completed" (`EndedOnce`), and that an upload
  has left a file (`UploadedHasFile`).

### Leaderboard

`LeaderboardProofs` proves, for any number of users, requests, failures and
crashes, and with preferences heeded or ignored:

* `TypeCorrect`: `Spec => []TypeOK`.
* `ItemsBounded`: `Spec => []AtMostTwo`. The number of copies alone is not
  inductive: it grows with each insertion. The invariant `DueBounded` adds what
  each goroutine has removed and not yet inserted again (`TotalDue`,
  `LanguagesDue`): copies and dues together never exceed one per goroutine, since
  whoever owes an insertion has removed the copies first.

### Users

`AccountsProofs` proves, for any finite set of requests, any number of changes, failing
queries and crashes, with all handlers of `Table`:

* `TypeCorrect`: every request, cached copy and object on the heap keeps its type; a handler is
  only where its entry in the table leads it (`ByTable`).
* `UpdatesStand`, `CacheAgrees`, `TokensWorkOnce`: `Spec => []SavedStands`, `[]CacheFresh`,
  `[]UsedTokenIsDead`. All three say something only while no requests have overlapped, and need
  one invariant (`SInv`): one request at a time (`OneByOne`); the cached object agrees with the
  row unless a handler that has changed it is on its way to a flush (`CacheClean`); what was
  loaded is the row (`LoadedFresh`); what is about to be written is the row with the
  handler's columns changed and hashed (`Prepared`); who writes past the cache has emptied it,
  but for the reset token (`CacheApart`); "Local" is written only over an empty location
  (`Zoning`), and the object the leaderboard was told of is in nobody's way (`ToldApart`); and no
  copy holds a used token (`TokensUnused`). That this is enough rests on what every handler of the table has in
  common, `Sound`: who may refuse after a change flushes, a password is saved together with
  the token that allowed it.

### Sign-up

`SignupProofs` proves, for any requests, names, codes and failing queries:

* `TypeCorrect`, with one account per name.
* `OneCreator`: `Spec => []CreatedOnce` however requests overlap: whoever was told "created"
  has an account (`CreatedHasAccount`), and a name's second insertion finds it.
* `CodeAdmitsOne`, `OneAdmin`: `Spec => []OneAccountPerCode`, `[]OneAdministrator`. While nothing
  overlaps and fails, a code is in one place: unused, in a request's hands, or an account's
  (`CodeUsedOnce`), and a count made is right when the row is inserted (`CountStillRight`).
  In any case who comes in paid with a code that was given out (`EntryPaid`). `NoCode \notin
  Codes` says that a form without a code is not one with a code.

### Subscriptions

`SubscriptionProofs` proves, under `Bounds` (any length of the period and any shorter notice, any
number of days, orders and faults):

* `TypeCorrect`: `Spec => []TypeOK`.
* `RowIsStripes`: `Spec => []RowFollowsStripe`. The events on the way are part of the invariant
  (`WebhookInv`): the last one that reports the subscription reports it as it is, or there is
  none and the row agrees (`Told`); a period that did not begin today is in the row already,
  and no event of today can take it out (`OldIsKnown`).
* `RemindersStayApart`, `CleanedAfterWarning`: `Spec => RemindersApart`, `Spec => WarnedBeforeCleaned`,
  two action properties from one invariant. The mark says when the last reminder was
  sent, except between mail and mark, and where it was cleared the row has
  another end since (`Marked`). The copies of the check, the mail in the queue and
  the last reminder have the row's end, unless that end was made today (`Warned`): hence a
  reminder went out no later than on the day the subscription ends, and cleaning starts the day
  after. `OneMail` bounds what one day's check can leave. The proof needs a notice that is shorter than
  the period (seven days, a month or more): were they equal, the reminder could be due on the
  very day on which the period begins, before the mark of the last one is cleared, and TLC shows
  the invariant violated.

### Queues

`ServerProofs` proves of `Jobs`, for any finite set of users, any capacity, and any number of runs and CPUs
(`SizesAssumption`):

* `TypeCorrect`: no queue exceeds its capacity or its workers, no wait group falls below zero.
* `TotalsWhole`: `Spec => []CountsWhole`, whatever counts and puts fail. Both rest on `OneWorkerEach`: the queues as
  constructors and `StartJobs` make them have one worker each. The invariant `IInv`
  follows a user's count from the loop that dispatches it, through the queue, to the worker: it
  is in one place, once (`OnePlace`), the wait group is the number of those still somewhere,
  and who is in none of them is in the total or failed (`TimesCounted`); the lock is held by the one run that
  has passed its start (`LockHeld`), and a run not yet started has left nothing (`NothingBefore`).

### Views and heartbeats

`PartsProofs` proves. About `ViewCache`, for any readers,
rows, changes and failing queries:

* `ViewsTyped`: `V!Spec => []V!TypeOK`; a change under way is not yet counted among events and
  versions.
* `ViewsCurrent`: `V!Spec => []V!CachedIsCurrent`. While readers and changes take turns
  (`TakeTurns`), a cached list is the table's except between a change and its end
  (`ListsCurrent`), a cached summary has the rows' version always and the labels unless an
  event that drops it is on its way (`SummaryCurrent`), and what a reader has read is so
  still (`ReadersCurrent`). One reader and two changes in the run, any number in the theorem:
  readers that fill the same entries at the same time do each other no harm.

About `Ingest`, under `Bounds` (finitely many hashes, and no project has the name that stands for
a missing entry):

* `HeartbeatsTyped`: `Spec => []TypeOK`. The count's bound needs `CountTyped`: the count and the
  notices on their way are together no more than the hashes of a full table and of each
  request that was answered.
* `NoProjectMissing`: `Spec => []ProjectsComplete`. `Apart` says what takes turns with
  what; one goroutine escapes it, since a notice of a new project starts the search
  for the unique projects while posts go on, and is harmless because it then finds
  them there. `EntitiesComplete`: the set has each project of the table and of what
  is about to be inserted, or its update is on its way. `StatsComplete`: the stats have
  each project with none but counted heartbeats whose notice is not on its way. That a notice drops the stats depends on a
  third cache, so the invariant ties them: the unique projects have none that the stats lack,
  and no set has a project that the table will not have. The last is lost as soon as
  an insertion fails, which is why the property excepts the stats from then on.

### Imports

`PartsProofs` proves of `Import`, under `ImportSizes` (any number of heartbeats, days of any length
of at least one, batches of at least one, any number of imports):

* `ImportTyped`: `P!Spec => []P!TypeOK`: only WakaTime's heartbeats come into the table, and no batch
  exceeds its size, whatever fails.
* `ImportsWhole`: when nothing failed and all imports have ended, one of them done, the table has
  all heartbeats. This is the safety half of `ImportComplete`; that imports end stays with TLC. The
  invariant follows each heartbeat: once an import has begun, it is in the table, or an import that
  is under way has it in its batch or before the channel, or will ask for it (`AllOwed`). A second
  import starts from the latest heartbeat in the table, so "owed by some import" is what is
  preserved, not "owed by each". An import's work has one place at a time, the ticker, the queue or
  the worker (`OneJob`), and who still has something to send has a sender, who closes the channel
  only afterwards (`Sending`).

### Relaying

`PartsProofs` proves of `Relay`, under `RelaySizes` (any servers and any targets, cycles of any
length included, any number of posts, any finite set of hashes):

* `RelayTyped`: `R!Spec => []R!TypeOK`. The failure counters are bounded because a failure is counted
  once, by one goroutine, though it is set and incremented in two steps (`FailuresCounted`).
* `RelayedWhole`: when no request was lost, refused or cut off by a restart, and all posts have ended,
  what a server has handled the one behind it has handled, too. The middleware may drop a hash only
  because it knows it; hence the invariant `OnItsWay`: what a server knows it has handled or is about
  to (`KnownComes`), so is what it dropped (`DroppedComes`), a post that comes back to its
  origin has nothing its origin has not handled (`SentHandled`), and what a server has
  handled is with the server behind, on its way there, or still to be sent (`HandledGoesOn`).

### Migrations

`PartsProofs` proves of `Migrations`, for every list of which `ListFits` holds, on any database, with
any number of failures, crashes and starts. `ListFits` says where the schema is made, that names
and marks are those of the list, and that a migration that sets a field for all users either
has a mark or afterwards drops the column it looks for; TLC evaluates it for the real list.

* `MigrationsTyped`: `M!Spec => []M!TypeOK`.
* `SchemaServed`: when the server serves, there is a schema in which nothing is missing: what an earlier
  start dropped in order to have it made anew was made, since the way to serving leads past the schema
  (`SchemaThere`).
* `ChoicesKept`: no start sets again what users have set, unless `badges_enabled` stays (SQLite) or
  a mark was not stored or not found, whatever else fails. A migration that has run has its mark, or has dropped what it
  looks for, before users can set anything (`OnceOnly`).

These are the safety half of `MigrationsSettle`. That a settled database has none of the old parts
but those that stay is about what this list does, not any; it stays with TLC, which has the list.

### The parts together

`MCUsers` and `Server` choose a part at the start and then take its steps. `PartsOfUsers` and
`PartsOfServer` show that each of their behaviours, seen through the variables of a part, is a
behaviour of that part (an initial state of the whole is one of the part; a step is one of the part
or leaves it alone). Every theorem about a part therefore holds of the run:
`UsersTyped`, `WebhooksFollow`, `RemindersSpaced`, `CleaningWarned`, `NameCreatedOnce`, `CodeOpensOnce`
and `FirstIsAdmin` state the properties of run `users`; `TotalsWhole`, `CachesCurrent` and `ProjectsThere`
those of run `server`, `PartsTyped` its `AllTypesOK` for every part but `Retrieval`, and `RelayedThere`, `ImportedThere` and `MigratedWhole` what is proved of the relay, of
imports and of migrations. The assumptions are those of the parts.

### What the theorems do not say

Checked by TLC only:

* all liveness under fairness (`ViewsCatchUp`, `CountCatchesUp`, `RelayEnds`, `ImportComplete`,
  `MigrationsSettle` and those of the other runs);
* `RetrieveNearRecompute` and `ProjectFilterGivesItem`, which are about what folds compute of their
  input and would need induction over it;
* `SharingAgrees`, an arithmetic statement about one calendar;
* the types of `Retrieval`, a persisted row of which is what folds return, and of `Sharing`.

Where a property has a premise (no overlap, no failure), so has the theorem: the behaviours
outside it are those in which the code does lose something, as the sections above list.

## 11. Not modelled

* Formatting and presentation: reports (a weekly mail), metrics, shop, compatibility routes
  apart from what they share, mail, templates, the generated docs and mocks.
* Configuration: read once, before anything runs. What it decides is a constant or is
  chosen at the start (`config` in `Signup`, `IgnorePreference` in `Leaderboard`).
* `routes/relay`: a reverse proxy without state.
* Data of no consequence to the properties: the parsing of user agents, placeholders such as
  LAST_BRANCH, the mapping of imported fields, totals and ranks of the leaderboard, the
  progress of an export.
* Small disorders we met and state no property about: the failure counter of the relay is
  set and incremented in two steps (in the model, without a property); the report changes the
  interval of a cached summary; the count of leaderboard users is cached when its query
  *fails* (leaderboard.go:168); gorm inserts a deleted user again with
  leaderboard items (in the model); a file written by an export that expired while
  it was made (excluded by `Prompt`).

## 12. Running

`tlc -config agg_daily.cfg MCAggregation.tla` (each run's module and properties
are in `PROJECT.json`), `tlapm AggregationProofs.tla`. Each property names, in
`PROJECT.json`, a mutant: a plausible wrong version of a definition (defined
before it in the module) with which the run finds the property violated.
