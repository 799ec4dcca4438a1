# TLA+ models of the RFID gate service

The program (`src/`) watches one antenna of an Impinj reader, learns which RFID
tag belongs to which vehicle by correlating sightings with the license plates
that UniFi Access recognises (LPR), and opens the Entry Gate for a tag whose
resident is entitled to enter. These modules model the parts of it that keep
state or decide something, the runs check them on small instances with TLC, and
eight modules prove most of their properties for every configuration with TLAPS.

Source paths below are relative to the repository root.

## The system

| Component | State | Operations | What makes it hard | What makes it correct |
|---|---|---|---|---|
| Reader stream, `src/impinj.rs` | line buffer, bounded channel, time of the last activity | check the active preset, connect, stream, reconnect | two requests for one check, chunks cut anywhere, a silent reader | events once and in order, health says what the stream does |
| Report intake, `src/main.rs`, `src/model.rs` | throttle map | filter, throttle, record | two clocks, a queue in between | one visit is one passage |
| Discovery store, `src/store.rs` | `discovery_tags`, `discovery_passages` | record a sighting, mark ambiguous, record a match, sweep old rows, reset | sightings arrive late; rows are deleted under ids held elsewhere | ids never dangle, one visit is one vote, the dwell flag tells the truth |
| Evidence, `src/store.rs`, `src/plate.rs` | none | rank the vehicles of a tag, thresholds, conflicts | boundaries, ties, what counts | no activation without the evidence the documentation asks for |
| LPR correlation and reply cache, `src/unifi.rs`, `src/main.rs` | one cached reply | verdict over one page of a window's hits, reuse for a poll interval | order, late events, truncation, one reply for all tags | fails closed, independent of order, a match lies in its own window |
| Retry scheduler, `src/main.rs` | attempts map | retry passages that had no LPR event yet | batch, horizon, time limit of a pass | bounded, and every passage gets its tries |
| Learned assignments, `src/store.rs` | `learned_tag_ownership` | activate, renew, suspend, revoke, reset | service and commands write the same row | revocation is final, only active leases are renewed |
| Discovery handler, `src/main.rs` | locals of one task | sight, look up, match, assess, propose, validate, activate | awaits UniFi between statements; may die at any of them | suspension after contrary evidence, activation on current evidence |
| Administrator commands, `src/main.rs` | none of their own | `associate-discovered`, `revoke-learned`, `reset-learned` | other processes, at any time | the same |
| Gate authorization, `src/main.rs`, `src/unifi.rs` | cooldown map, `gate_events` | read the owner, ask UniFi, unlock, record | two awaited calls of several requests each, lost replies, restart | spacing of openings, revocation takes hold, every opening on record, a grant on facts of the call |
| Access schedules, `src/unifi.rs` | none | weekly ranges, holidays | midnight, local time, year end | a policy grants exactly when its schedule says |
| Loki delivery, `src/logging.rs` | queue, batch, counters | enqueue, push, retain, shut down | several threads and atomics, full queue, lost answers, a stepped clock | every record accounted for once, order kept |
| Migrations, `src/store.rs` | schema | `Store::open` | crash between steps, two processes | reopening always completes |
| Release publication, `scripts/release`, `.github/workflows` | git tags, GitHub releases | plan, commit, tag, draft, upload, publish | a run dies at any step, runs by hand | what is public is whole, no day blocks the next |
| Web, configuration, listings, install, CI | none | | | see "What is not modelled" |

The service is one task: a `select!` loop that takes a reader event from a
channel of 4096 or, once a second, makes a retry pass. An event first goes
through discovery (if it is strong enough) and then through the gate step. The
reader's stream, the worker that delivers logs and the web server are tasks of
their own; they meet the loop in the event channel, the log channel and a few
atomics. The commands are processes of their own; they meet the service only in
SQLite, in WAL mode with immediate transactions, so that a transaction is one
atomic step and anything may happen between two of them.

## The modules

```
Reader ── ReaderStream, ReaderPreset            LokiDelivery   Migration   Release
Intake ────────┐
LprMatching ── PassageLog ──(implements)── PassageBook ── Learning ──(implements)── Ownership
  └─ LprLog ── LprCorrelation   └─ Evidence ──┘
RetryScheduler                   GateAuthorization   Authorization ── AccessSchedule
```

**`Evidence`** holds the pure decisions over rows of `discovery_passages`: what
a new match does to a passage (`MatchedWith`), votes, the ranking of vehicles
(`Outranks`, `Leader`), readiness (`Ready`) and conflicts (`Conflicts`). An
identity is the triple of plate family, LPR actor type and actor id: the code
compares the three together everywhere, and `canonical_plate_key` decides both
grouping and `same_plate_family`.

**`PassageLog`** is the store with its clock. `RecordSeen` is the whole
transaction of `record_discovery_seen`: open or continue a passage, `MAX` the
times and the dwell flag, close current passages past the retention, delete old
rows. Reader times may lag the latest one by `Skew`, because buffered events and
clock steps do. **`PassageVisits`** adds a history, `sighted`: the times of all
sightings each passage has gathered, of which the columns keep only the one that
opened it and the latest. The properties about visits and dwell compare the tables
with it.

**`PassageBook`** is the same store without the clock: opening, continuing,
dwelling and sweeping are choices. It is the abstract specification that
`PassageLog` implements (`ImplementsBook`, with the times projected away) and
the store that `Learning` is built on, so that what holds of `Learning` holds
whatever the times are.

**`Intake`** puts the channel, the filters of `handle_event` and the throttle in
front of `PassageLog`. A report carries the reader's time and is taken up later;
the throttle goes by the second time, the store by the first. `reported` is
history.

**`LprCorrelation`** is `correlate_lpr_hits` as a recursive function over the hits,
with its early returns; **`LprLog`** adds the log, the page and `find_lpr_user_match`
(`LookedUp`). The request names whole seconds (`src/unifi.rs:294`), `Second` units of
the models' time: what it asks for (`AskedPart`) ends with the last whole second of
the window. **`LprMatching`** composes them with `PassageLog`: `Sight` and
`Retry` fix the locals of `match_discovery_passage` (`Look`), then the cached
reply serves (`SettleFromCache`) or UniFi is asked (`SettleFromUniFi`,
`LookupFails`) while events are published and time passes.

**`RetryScheduler`** is the pass once a second: `BeginPass` lists and cuts the
batch and forgets old attempts, `VisitRow` is one turn of the loop,
`LookupReturns`, `EndPass` and `CutPass` end it. A lookup settles its passage or
leaves it pending.

**`Ownership`** states the life cycle of one tag's assignment, for any actors.

**`Learning`** composes the book with the service's discovery handler and the
commands. Each SQLite statement and each awaited call of `match_discovery_passage`
is a step: `pc` says which one is next and `event` holds the handler's locals.
`Sight` is a sighting up to its first await, `Retry` a passage taken up again,
`LookupNothing`, `LookupAmbiguous`, `LookupMatch` and `LookupRefused` the LPR
reply with the statement that follows it, `Assess` to `Audit` the rest.
`Abandon` ends the handler early: a crash, or a failed statement. The commands'
steps interleave with all of these. It implements `Ownership`
(`ImplementsOwnership`).

**`GateAuthorization`** is `handle_event` seen from the gate: discovery is a
call that may change the tag's assignment and arm the cooldown (`Learned`) or
fail (`LearnFails`), then `GateSkips` or `GateAttempts`, the two awaited calls
and the audit row. Timers are kept as the time left, so that the state space is
finite without a bound on time. `sinceOpen`, `sinceUsable`, `opened` and `lost`
are history for the properties.

**`AccessSchedule`** is `schedule_allows` with `time_ranges_allow` and
`holiday_active`, each loop ending at its first entry that decides or cannot be
read (`FirstAnswer`). **`Authorization`** is what `GateAuthorization` takes as one
call: `authorize_now` and `validate_claim_user` request by request (`GetUser`,
`GetUserPolicies`, `InspectResource` for `policy_grants_entry_gate`,
`GetSchedule`), while `Edit` changes the controller's data between any two.

**`ReaderPreset`** is `require_inventory_preset`, two requests to a reader that
somebody may reconfigure in between. **`ReaderStream`** is `stream_events` and
`stream_once`: the reader sends events in two pieces, a chunk holds any run of
pieces, and connections end anywhere. **`Reader`** composes the two with the death
of the process and the restart by systemd.

**`LokiDelivery`** has an action for every step of `JournalAndLokiWriter`'s drop
that another thread can come between (the journal, the depth counter,
`try_send`, the totals), for every await of `loki_worker` and for each of the two
counters it updates one after the other. So a thread may be between the depth and
the dropped total (`"released"`), and the worker between the total and the depth of
a record over the limit (`OverStates`) or of a batch it has settled
(`SettledStates`). The updates are taken in the order of the code; they are
`Relaxed`, so that another thread may see two of them the other way round, which no
property is about. `PushFails` leaves open whether Loki has stored the batch.

**`Migration`** is `Store::open`, one `PRAGMA table_info`, `ALTER TABLE` or `UPDATE`
at a time, by the service and a command. An open store is then used
(`UseStore`): passages become ambiguous, matches and assignments get their actors.
**`Release`** is the calendar workflow's plan, commit and tag, and `publish.sh`, with
GitHub as the external record. `publish.sh:53` takes any failure of `gh release
view` for an absent release (`ViewFails`): `create` then fails on a published one,
and beside a draft may make a second, which is what the run goes on with. A head
that moved ends the run at its look (`HeadMoved`) or at its push (`PushRejected`).

The `MC...` modules give the constants their values. Operators whose comment
begins with "Faulty variant" are the project's mutants: plausible bugs of the
definition that follows. No specification uses them; each shows that a property
notices.

## The runs

| Run | Asks | Answer |
|---|---|---|
| `passage_log` | Do late sightings, sweeps, verdicts and resets keep the tables consistent? Is a visit one passage, and a dwell noticed? Is a verdict only ever withdrawn, and what a sighting says true? Does the clocked store implement the book? | yes; up to what late sightings cost |
| `intake` | Is a visit one passage, and a passage one visit, when reports wait? | yes, while wait and throttle fit into the gap |
| `lpr_matching` | Is a match the only entry of its window, in any order of the log, also from a shared reply, and one vote per event? | yes, but for the window's last part of a second, and when two windows fit into the gap |
| `retry_scheduler` | Are lookups bounded, and does a passage get its tries before it expires? | yes, while the list fits into a batch and the loop keeps up |
| `learning` | Does the service ever assign a tag whose evidence is gone, renew a lease a command has ended, or break the life cycle? Does contrary evidence end in suspension when the handler is not cut short? | no; yes |
| `learning_crash` | Does it still when the handler dies once? | no: the tag stays active |
| `gate` | Are openings spaced, recorded, and over soon after a revocation? Is a usable tag always put to UniFi again? | yes, up to the length of the calls |
| `authorization` | Do schedules mean what their entries say? Is an answer right when nothing is edited meanwhile, and a grant founded when something is? | yes |
| `reader` | Are events handed on once and in order, only from a checked preset? Is a lost reader reported, a suitable one streamed? | yes |
| `loki_delivery` | Is every record accounted for, in order, and does none wait for ever? | yes |
| `migration` | Does an open store have every column and actor, and does the service come up? | yes |
| `release` | Is what is public whole and the latest the newest, and does no interruption block the days after it? | yes |

`SchedulesAreKept`, `OrderDoesNotMatter` and `MatchIsSoleEntry` are about functions:
they are checked for the schedules and the lookup of the state at hand and, once,
for a large set of others (`Schedules`, `Logs`). Schedules are compared with a
reference definition by intervals of absolute time (`MeantHoliday`, `MeantDay`).

### Bounds

* `MaxPassages` (2 to 4) bounds the ids handed out. Three passages are the
  fewest in which a tag can have two votes and a rival, or a swept, a current and
  an orphaned passage. `passage_log`: `MaxTime` 4 with a gap of 1, a dwell limit
  of 2 and a retention of 2 lets every comparison fall on either side and on its
  boundary; `Skew` 1 reorders neighbouring sightings.
* Two identities, a resident's and a visitor's, cover the two ways to an
  assignment and make each the other's rival. Two tags matter where tables are
  shared (`passage_log`, `lpr_matching`, `gate`); `Learning`'s steps touch one tag
  at a time and are run with one.
* `MaxFailures` 1: one early end is enough for the only crash window there is.
* `intake`: a gap of 4 into which the throttle of 2 and a wait of 2 just fit, and
  time for two visits with an absence between them.
* `lpr_matching`: a window that just fits twice into the gap, two events, of two
  plates, times 0 to 3, two of them to a second, so that a window may or may not end
  within one. The logs looked at by themselves have up to four hits of
  fifteen kinds, one more than the page holds.
* `retry_scheduler`: two passages, two attempts within a horizon of three, one
  restart. The batch holds both; what happens when it does not is described
  below.
* `gate`: each call takes up to one unit of time, the cooldown three.
* `authorization`: users of at most two policies, each naming the gate or a group
  behind another door, one edit at any point of the call. The calendar has two
  days of four seconds to a week and three to a year, the clock is off UTC by an
  odd number of ticks, and two years and more are looked at tick by tick, so that
  every boundary is met from both sides.
* `reader`: a channel for two of four events, a line limit of one piece, so that
  an endless line is cut off; two presets and one change of the configuration.
* `loki_delivery`: two threads of two records, a channel for one, a batch of two,
  three retained: the channel and the retained batch can both be full. The
  system clock may show 0 or 1 at any time, so that it is stepped both ways.
* `migration`: every set of columns an earlier release or an open that died can
  have left; two processes, three opens each.
* `release`: four days and one setback. A setback on the second day leaves two
  days to recover in, one more than is needed.

### Fairness

* `Learning!FairSpec` is weak fairness of the handler's own steps: each UniFi
  request has a time-out, each statement a busy time-out of five seconds, and
  the task does nothing else meanwhile. Nothing is assumed of sightings or
  commands. `RecurringSpec` adds that tags keep coming back; it makes the
  counterexample of `learning_crash` stronger, since not even new passages
  repair it.
* `GateAuthorization!FairSpec` adds strong fairness of time passing and of each
  tag's reports being taken up, which a first-in first-out channel gives a tag
  that keeps being reported.
* `Reader!FairSpec`: the unit file says `Restart=on-failure`, a connection attempt
  ends after ten seconds and the backoff after thirty, and the clock runs. It
  says nothing of the response headers, which nothing limits. That the reader
  answers now and then is no fairness of the program; it is the hypothesis
  `Answers` of `SuitablePresetIsStreamed` only.
* `LokiDelivery!FairSpec`: the runtime schedules the worker's task, whose request has
  a time-out, and a push that is tried again and again succeeds once.
* `Migration!FairSpec`: systemd starts the service until it runs.
* `release` needs none: a day does not end before the day's run has, which the
  workflows' time-outs ensure (`NextDay`), so that `ReleasedInTime` is an
  invariant.

## The proofs

Every theorem holds for all values of the constants that satisfy the named
assumptions, which are the relations `Config::from_env` or the constants in the
code ensure.

### The store: `PassageLogProofs`

* `TypeCorrect`: `Spec => []TypeOK`
* `CurrentPassagesExist`: `Spec => []CurrentPassageExists`
* `HistoryWatches`: `VisitSpec => Spec`
* `VisibilityIsOneVote`: `VisitSpec => []OneVotePerVisibility`
* `StationaryMeansDwell`: `VisitSpec => []StationaryIsDwell`
* `BookImplemented`: `Spec => ImplementsBook`
* `VerdictsDegrade`: `Spec => VerdictsOnlyDegrade`
* `SightingsTrue`: `Spec => SightingsAreTrue`

They rest on `ConfigAssumption` (positive durations; the dwell limit is used
only as positive), `LogAssumption` and `IdentityAssumption` (`None` is no tag,
id or identity). No invariant of the tables is inductive alone. That the sweep
leaves no passage behind that belongs to a closed visit needs the gap between the
rows of a tag; that a new passage is apart from *all* earlier ones of its
tag, and not only from the last, needs to know that the current passage is the
tag's last one. The inductive invariant `IInv` is therefore `Sound`: types, rows
(`SoundRows`), the current passage (`SoundCurrent`), that a tag with passages is
in one, its last (`SoundLast`), and the gaps (`SoundGaps`). One lemma shows for
each table transformation that it keeps `Sound`; `ObserveSound` chains them as
`record_discovery_seen` does, and `NextIInv` has a case per action.

`IInv` is about columns and says nothing of the reader's sightings. `VisitInv` adds
what the history says of each row (`SoundVisit`): the latest sighting and the one
that opened the passage are in it, none is earlier than the latter by more than
`Skew`, and each but the latest is followed by another within reach. A late sighting
is why the two statements about visits are weaker than the documentation's. It does
not lower `started_at_ms`, and passages are never joined again: so sightings at 2, 4
and, late, 3 make two passages with a gap of 1, and 2, late 1, and 3 do not make a
stationary one with a limit of 2. What is lost is bounded by `Skew`, and only lost
where a sighting did come late.

For the refinement, `Rows` and `Cur` are the mapping as operators on the two
tables. `SweptMaps` carries the argument: the sweep spares the passage just seen,
because the retention is positive, and closes a tag exactly when it drops the
tag's current passage, because the passage belongs to no other tag. Each
transformation then has a lemma that maps it to its counterpart, and `BookStep`
has a case per action. So what is proved or checked of `Learning`, over the book,
holds of the store with its clock.

The two action properties need `IInv` before the step and a lemma about its
kind: `JudgedRows` follows a row through a verdict, `SightedRows` through the whole
transaction of a sighting, sweep included. A late sighting moves `MAX` times and
an `OR`ed flag only one way, which is what keeps the dwell verdict standing.

### Reports and matches: `DiscoveryProofs`

* `IntakeUsesStore`: `IntakeSpec => Spec`, `MatchingUsesStore`: `MatchingSpec => Spec`
* `PassagesVisits`: `IntakeSpec => []PassagesAreVisits`
* `OrderNeverMatters`: `MatchingSpec => []OrderDoesNotMatter`
* `MatchesAreSole`: `MatchingSpec => []MatchIsSoleEntry`
* `MatchedCameBy`: `MatchingSpec => []MatchedVehicleCameBy`
* `EventsVoteOnce`: `MatchingSpec => []OneVotePerEvent`

The first two say that both compositions only take the store's own steps, so that
every theorem about `PassageLog` holds in them.

*From reports to passages*, for any throttle, wait and gap (`IntakeAssumption`).
That a passage never spans an absence needs that it begins and ends with a report
(`ReportedRows`). That a visit is not split needs more: nothing about the rows
says when reports were dropped. `IntakeInv` adds the order of the channel (`Queue`)
and how far a tag's current passage may be behind (`UpToDate`): behind the report
recorded last by that report's wait, and behind any taken up since by less than
throttle and wait together. So when both fit into the gap, and a report opens a
passage all the same, the moment after the passage before it was last seen, or a
later one up to the gap, has no report: one that is taken up would be in reach of
that passage, and one that still waits comes after the report in hand.

*From passages to matches*, for any log, page and window (`PageAssumption`,
`WindowAssumption`). A lookup is one pass over the log (`OnePass`), although the code
filters first and scans then. A match is sole in the part of the window that was asked for, which lacks the last
fraction of a second. Two neighbouring hits commute in it up to values that are `Alike`, equal or both spoilt, and spoilt is
never undone; so the verdict is the same in either order. What has been kept tells
what has been passed over (`Told`), which makes a match the sole admission of its
window. `MatchInv` carries that past the awaits: a look under way knows its
passage's times or earlier ones (`GoodLook`), the cached reply was true of a part of
the log that is still there (`GoodReply`), and every matched row has its event
(`GoodRow`). `OneVotePerEvent` then follows from the gap between two rows.

Hits are data of any number, so these proofs are inductions. The induction
theorems of the library take an operator, which no installed prover can
instantiate; here a statement about every prefix is refuted at the least element
of the set of its counterexamples (`LeastElement`, from `WFMin`), and a recursive
function is shown to be one the same way (`ScanIsFunction`).

### Learning: `LearningProofs`

* `TypeCorrect`: `Spec => []TypeOK`
* `ActivationIsEarned`: `Spec => ServiceActivationIsEarned`
* `RenewalIsEarned`: `Spec => LeaseRenewedByOwnVehicle`
* `OwnershipImplemented`: `Spec => ImplementsOwnership`

They rest on `ThresholdAssumption` (at least one occurrence is needed) and
`OwnerAssumption` (no row is not a row). The invariant adds to the types what the
handler may still rely on after an await (`Knows`). Evidence about a tag can
only disappear under the handler's feet by `reset-learned`, which needs a
suspended assignment, and only the handler itself suspends: so from `Assess` to
`ActivateTag` the assignment of the tag in hand is not resettable, and the
candidate that `Propose` read is still the one the evidence gives
(`ClearKeepsFound`, `SameEvidence`). The same argument holds the assignment in
place between `RenewRead` and `RenewWrite`. It has no counterpart for
`associate-discovered`, which is not the only one to write evidence.

### The gate: `GateAuthorizationProofs`

* `TypeCorrect`: `Spec => []TypeOK`
* `OpeningsRecorded`: `Spec => []OpeningsAreRecorded`
* `UnlocksAreApart`: `Spec => UnlocksKeepDistance`
* `RevocationEndsOpenings`: `Spec => RevocationTakesHold`

for any cooldown, limits of the calls and number of tags. Neither action property
follows from the types alone: an opening looks only at where the attempt is. The
invariant `Timing` says what is left of the facts the attempt began with. A tag that
is usable has not been unusable (`FreshlyUsable`); the time since a tag's last
opening, what is left of its cooldown and the length of an attempt make up at
least the cooldown (`Cooled`); and for the tag in hand, which was usable and had no
cooldown running when its report was taken up, all three may have moved by at
most the time spent in the calls (`UnderWay`). The cooldown is armed at the
report, so that two openings may come closer than it by the length of one
attempt, and no closer.

### The controller: `AuthorizationProofs`

* `UndisturbedAnswers`: `Spec => UndisturbedAnswerIsRight`
* `GrantsRestOnFacts`: `Spec => GrantedOnFactsOfTheCall`
* `SchedulesKept`: `Spec => []SchedulesAreKept`

The first two hold for any policies, door groups, schedules and numbers of edits, and whatever
`ScheduleAllows` makes of a schedule: the walk is proved without opening it. They
rest on `PolicyAssumption` and on `NoneAssumption` (no answer is not an answer).
The invariant says of a call under way what it has learnt (`LearntBy`), each fact at
some world in `during`; and, as long as nothing was edited, that no policy before
the one in hand and no resource before the one looked at grants (`PassedOver`).
`ContinueKeeps` reduces each turn of the walk to these two for its new locals.

The third opens `ScheduleAllows`, under `CalendarAssumption`: seconds divide days'
and years' lengths, which are otherwise any, the offset of the local clock is any
integer, and `Schedules` may be all schedules there are. A moment is its year and
its second in the year (`WholeSecondIs`), so that the code's comparison of keys is
one of intervals (`WithinIsMeant`, `MeantIsWithin`), and one day of one week of the
local calendar (`ClockIs`, `MeantDayIs`). A loop's answer is its first entry's that
is not off (`FirstDecides`): its order does not matter when nothing is malformed
(`AnyDecides`), and what replaces a malformed entry changes no grant
(`ErrorsDecide`). The proof needs two things said precisely: a holiday must be
shorter than a year *in the seconds it begins and ends in*, since the keys of one
that misses a year by a fraction of a second are equal and it is never in force;
and a holiday that repeats does so before its first year, too, for the code looks
at no year.

### Log delivery: `LokiDeliveryProofs`

* `TypeCorrect`: `Spec => []TypeOK`
* `DepthCountsWhatIsUnderWay`: `Spec => []DepthIsUnderWay`
* `RecordsAreAccounted`: `Spec => []EveryRecordAccounted`
* `LogKeepsOrder`: `Spec => []LokiLogIsOrdered`
* `DeliveryFollowsJournal`: `Spec => []DeliveredIsJournaled`

for any threads, capacity, batch size, limit and clock. Two inductive invariants
are used. `IInv` is the two conservation laws with the types: that `queue_depth`
stays a natural number is a consequence of what it counts, so neither can be
proved first. The laws hold between any two atomics because they name what is then
missing or doubled: `queue_depth` counts a record over the limit until it is released
(`InHand`), a refused record is in no counter between the depth and the dropped total
(`"released"`), and what the worker has counted as sent or dropped is counted twice
until it has left the depth (`CountedTwice`). `Moved` says how a thread's step changes the number of threads in a
set of stages, and each action is a sum of such changes (`DepthKept`,
`JournalKept`). `OInv` is about order,
and must be stated of what Loki holds *and* what the worker retains (`Held`), for
a lost answer leaves an entry in both: whatever is held is ordered, the clock is
not behind it, the channel's records come after it and each other, and a thread
that has a record in hand has sent only earlier ones. A push moves entries within
`Held`, which is why repeating it is harmless; only `Receive` and `Drain` add one,
stamped ahead of all others.

### Migrations and releases: `DeploymentProofs`

* `OpenMeansMigrated`: `Spec => []OpenStoreIsMigrated`
* `ActorsAreKept`: `Spec => NewerActorsAreKept`
* `PublishedWhole`: `ReleaseSpec => []PublishedIsWhole`
* `LatestNewest`: `ReleaseSpec => []LatestIsNewest`
* `ReleasedTimely`: `ReleaseSpec => []ReleasedInTime`

*Migrations*, for any number of processes and opens, and any earlier release.
`MigrationInv` says what a process at a step of `open` may count on (`Reached`), and
that no other process, at whatever step, takes it away: columns are only added, but
for the renaming of `tid`, which only a process does that has seen no `tag_key`; and
a row that names an actor goes on naming one.

*Releases*, under `ReleaseAssumption` (finite sets of changes and assets, at least
one asset, and a cut upload is no build), for any number of days and setbacks.
`ReleaseInv` has four parts.

* `ReleaseTypes`: in particular no tag and no version is ahead of the day.
* `Drafted`: a release run that is past its first look has a draft, and one about
  to publish has found its draft whole; concurrency groups see to it that nobody
  else writes there.
* `InOrder`: every tag but the newest is published, and the newest too before
  another is made. This is what `PlanOf` looks the previous tag up for, and
  without it neither `LatestIsNewest` nor the next part would be inductive.
* `Timely`: a change that is not out has not used up the day it has and the one
  each setback gives (`InTime`). What must be known besides: a change whose tag has
  to wait for an earlier release was paid for by the setback that kept that
  release back (`Behind`, `Blocked`), once the day's run has started only what it is
  about to bring may be without a day to spare (`CaughtUp`, `ToCome`), and the run
  under way ends in a release unless another setback comes (`Promising`). A run that
  died between the push of the version and that of its tag (`Halfway`) leaves a day
  on which no run can bring anything; that setback has paid for it.

### The loop: `RunProofs`

* `LookupsBounded`: `RetrySpec => []LookupsAreBounded`
* `RetriedInTime`: `RetrySpec => []RetriedBeforeExpiry`
* `PresetsAreChecked`: `ReaderSpec => StreamsCheckedPreset`
* `WholeLinesHandled`: `ReaderSpec => []WholeLinesAreHandled`

*Retries*, under `RetryAssumption`: the relations `from_env` enforces between delay,
interval, attempts and horizon, and limits that are not 0. The bound would be lost
if an attempt were forgotten while its passage can still be looked up. `BoundInv`
says it is not (`TriesCounted`): an entry that counted lookups was made after the
delay, so when it is older than the horizon, the passage has left the list, which
the list of a pass under way respects too (`PassListed`). In time is a deadline for
each lookup: `InTimeInv` puts the next one of a passage seen once at the delay and
as many intervals as it had lookups (`NextBy`), and lets a second pass it only while
the pass of that second is still due to visit the row (`ToVisit`).

*The reader's stream*, for any sizes of the buffer, the channel and the chunks.
`Fed` says that the buffer holds what the reader has sent since the last event in
the channel, each once and in order, whole lines and the beginning of one;
`StreamInv` adds that channel and buffer together make up what has been sent. A
chunk is any run of pieces, so a chunk of several lines is again an induction.

### What is only model-checked

Liveness under fairness (`UsableTagIsAttempted`, `RecordsSettle`, `LossIsReported`,
`SuitablePresetIsStreamed`, `ServiceOpens`, and that contrary evidence ends in
suspension, `SpoiltEvidenceSuspends` and `ConflictsSuspend`) is out of the prover's
reach. Every safety property of a passing run is proved. That `Leader` is well
defined for every finite set of candidates is assumed nowhere: the
proofs about `Learning` only use that it is the same for the same evidence.

## Where the code and its documentation differ

One difference is shown by a run. In `learning_crash` the handler dies, or a
statement fails, between the withdrawal of a match (`src/main.rs:358`) and the
suspension of the tag: the next sighting finds the passage ambiguous and returns
early, and the tag stays active. The test at `src/main.rs:1819` says that later
ambiguity suspends.

Others were met while modelling. The models follow the code; the properties are
stated so that they say what does hold.

* `associate-discovered` (`src/main.rs:913`) applies a candidate it has read before an
  awaited call; it may not be ready any more ("Candidates need the configured
  number of occurrences ...", `docs/gateway-services.md:72`).
* A sighting that arrives late may show that two passages were one period of
  visibility, but neither `started_at_ms` is lowered nor are passages joined
  (`src/store.rs:329`; "Each continuous period of RFID visibility is one passage",
  `docs/gateway-services.md:61`); nor does the dwell begin with it. Hence the
  exceptions for late sightings, and their bound `Skew`, in `OneVotePerVisibility`
  and `StationaryIsDwell`.
* The window of a lookup is sent in whole seconds (`src/unifi.rs:294`), so that an
  admission in its last part of a second is not listed and a second vehicle there
  leaves the match standing ("A passage is matched only when its time window
  contains one successful entry-side plate identity",
  `docs/gateway-services.md:62`). Hence `MatchIsSoleEntry` speaks of `AskedPart`.
* Long stationary reads do not count against confidence, they are left out
  (`src/store.rs:530`, `docs/gateway-services.md:69`).
* The cooldown is armed at the report and not at the opening (`src/main.rs:681`):
  when the calls take as long as the cooldown, two openings may follow each other
  at once. Hence the bound in `UnlocksKeepDistance`.
* A failing discovery skips the gate step of the same report (`src/main.rs:231`),
  although "Gate authorization is independent from discovery"
  (`deploy/gateway.env.example:56`). Hence `UsableTagIsAttempted` speaks of a tag
  whose reports do get through.
* The shared LPR reply (`src/main.rs:323`) may come from a narrower window than the
  passage's own, which may hold a second vehicle
  (`docs/gateway-services.md:62`). Hence `MatchedVehicleCameBy` speaks of the
  vehicle matched and not of all that came by.
* The second half of a weekly range across midnight is looked up under the next
  weekday (`src/unifi.rs:695`); the test at `src/unifi.rs:1252` calls
  `time_ranges_allow` without a weekday. Hence `WithinDays`.
* Records queued after the last `try_recv` of `finish_loki_worker` stay in
  `queue_depth` (`src/logging.rs:442`), though the help text calls these "awaiting a
  final Loki delivery outcome". Hence `worker = "returned"` in `RecordsSettle`.
* The retry batch is cut before the due rows are picked (`src/main.rs:584`), so that
  rows that are not due may keep a due one out ("Pending passages are retried",
  `docs/gateway-services.md:65`). Hence `~crowded` in `RetriedBeforeExpiry`.
* Nothing limits the wait for the response headers of the event stream
  (`src/impinj.rs:267`; "recycled after 90 seconds", `docs/gateway-services.md:55`).
  Hence `LossIsReported` asks for the report only.
* After a stall the throttle drops reports whose times lie apart
  (`src/main.rs:247`), so that one visit becomes two passages
  (`docs/gateway-services.md:61`). Hence `MaxLag + PollTime <= Gap` in
  `PromptVisibilityIsOnePassage`.

## What is not modelled

* Plates as text, EPC, TID and signal strength; wording, logging and metrics. One
  key stands for a tag.
* In `Learning`, the LPR window, the reply cache and the correlation itself: a
  lookup may answer anything. This is more than the real service can see, so the
  safety results are on the safe side.
* The age of evidence at a read: `discovery_candidate` and
  `count_discovery_conflicts` also leave out rows older than the retention that no
  sighting has swept yet. `discovery_candidate` makes three reads outside a
  transaction; here they are one.
* `EventTimes` has one value in the runs of `Learning`: distinct days, ties in the
  ranking by time and the thresholds of EPC tags are in `Evidence`, and the proofs
  cover them, but no run exercises them.
* Dry-run and disabled modes are in `Learning` and `GateAuthorization` as the
  constants `Mode` and `GateMode`; the runs are of the live service, the proofs of
  every mode.
* A controller that carries out an order after the service has given it up is
  assumed not to exist.
* Months of different length and changes of the clock's offset in schedules;
  `list_users`, which nothing calls.
* Loki's request counters; `CREATE TABLE IF NOT EXISTS` in `Migration`, taken as done.
* Pre-releases, tags pushed by hand, dates in the future and the build itself in
  `Release`.
* The metrics and the web server but for what `/healthz` says of the reader: its
  database check is one stateless query, the rest is output.
* Parsing of the configuration, the command line and listings: pure functions
  and read-only output. What `Config::from_env` enforces is in the assumptions.
* Installation, unit files and CI: shell around the program.

## Plan

1. `GateAuthorization` composed with `Learning` in place of `Learned`, as a
   refinement of what is there.
2. Distinct days, ties and EPC thresholds over bounded inputs against a reference
   definition of readiness.
3. Proofs: a well defined `Leader`, and ranges across midnight in
   `WeeklyHoursAreLocal`.
