# A verification project for the low-altitude obstacle avoidance system

The system (`src/low_altitude_ai`, one asyncio process in Python) takes radar
scans and weather samples, tracks targets, keeps a digital twin, rates the risk,
plans a path, decides what the vehicle should do, has a safety gate authorise the
decision, and lets a control gateway carry it out. A bench adapter for real
hardware, a management service and an operator console stand beside that chain.
This project models the parts that keep state, checks them with TLC on small
instances, and proves the safety of the control chain, the bus, the tracker and
the twin, the assessment, the bench adapter, the management service and the console
with TLAPS, for every value of their constants.

## 1. Inventory

Components pass immutable, identified events (`domain/envelope.py`); none shares
mutable state with another except the clock. Inside one component a method
without `await` is atomic; interleaving happens at `await`s and between calls.

| Component | State | Operations | Talks to | What is hard |
|---|---|---|---|---|
| Event bus `adapters/event_bus/in_memory.py` | subscriptions, bounded queues, worker tasks, remembered failure | subscribe, publish (enqueue with timeout), worker, join, drain, close | every service | back-pressure, timeouts racing wake-ups, handlers that publish, close and drain at any moment |
| Radar tracker `perception/` | tracks, window of seen events, last sequence per session | initialize, shutdown, process; handler publishes | bus in, bus out | repeated and late scans, the limit of tracks, LOST reported before it is deleted |
| Weather `weather/` | context, number of the next estimate | initialize, shutdown, health, estimate | bus in, bus out | old, late and unusable samples; estimates that expire |
| Risk engine `risk/engine.py` | context, number | initialize, shutdown, health, assess | twin, tracker, weather in; planner out | closest approach and its limits; inputs of different ages |
| Path planner `planning/planner.py` | context, number | initialize, shutdown, health, plan | risk in, decision center out | clearance between the waypoints, expiry, revision |
| Digital twin `digital_twin/` | entities, revision, watermark, dedup window | apply, snapshot; handler publishes | bus in, bus out | two topics' workers over one store, late batches, errors after the commit |
| Decision center `decision/engine.py` | machine state, time of the last unsafe evaluation, cache | decide | gate | order of rules, hysteresis, fallback, expiry, a cache that leaves the report out of its key |
| Safety gate `decision/safety_gate.py` | cache, sequence | authorize | gateway | cached answers, evidence of another vehicle, risk or revision, reused identities |
| Control gateway `control/gateway.py` | cache | dispatch | vehicle | repetitions, late dispatch, several gates |
| HIL gate and adapter `hil/`, `adapters/flight_control/` | permit, connection, acknowledgements | issue_permit, connect, execute, close | bench transport | overlapping calls around an `await`, permits that expire or are renewed, cancelled calls |
| Management `management/service.py` | revision, results by key, audit, configurations, plugins, alerts | execute, upsert_alert, set_available | console | retries, old views, approvals, rollback |
| Health aggregator `management/health.py` | newest report per component | ingest, snapshot | bus, console | silence, restarts that reset sequence numbers |
| Console `ui/state.py`, `ui/replay.py`, `ui/command_client.py` | projected entities, sequence per source, connection, position | apply, sync, reset, seek, step, send | management | gaps, late events, bounded history, seek against step |
| Qt view, envelope and schemas, simulator drivers, demonstration scripts | none that lasts | | | rendering, validation, numeric generation |

What makes each correct is stated below with its module. `PROJECT.json` lists
the components with their status, and the hazards at the lines where they bite,
those no property covers yet among them.

## 2. Modules

| Module | Models | Built on |
|---|---|---|
| `SimClock` | `SimClock.advance` | |
| `Evidence` | risk, path and vehicle events as the chain reads them; staleness; `_path_valid` | `SimClock` |
| `DecisionCenter` | `DecisionCenter.decide` with every rule | `Evidence` |
| `SafetyGate` | `SafetyGate.authorize` | `Evidence` |
| `ControlGateway` | `SimulatedControlGateway.dispatch` | `Evidence` |
| `ControlChain` | the three composed, as `app/phase5_demo.py` wires them; the inductive invariant | the above |
| `AuthorizedControl` | the abstract promise: at most one execution per decision, each on sound evidence | `Evidence` |
| `ControlChainProofs` | theorems about the center and the chain | `ControlChain` |
| `EventBus` | the in-memory bus at the granularity of its awaits | |
| `Delivery` | the abstract promise of the bus: per receiver in order, at most once, bounded; acknowledged when accepted | |
| `EventBusProofs` | theorems | `EventBus` |
| `TwinStore`, `TwinIngest` | the twin; its handlers on two topics | |
| `TwinProofs` | theorems | `TwinIngest` |
| `Tracker` | the radar tracker and its handler | |
| `Situation` | tracker and twin composed, as `app/phase3_demo.py` wires them | `Tracker`, `TwinIngest` |
| `SituationProofs` | theorems about the tracker and about the composition | `Situation`, `TwinProofs` |
| `Weather` | the weather estimator | `SimClock` |
| `RiskEngine` | the five dimensions of a rating; closest approach on integer vectors | `SimClock` |
| `Planner` | detours, geofence, clearance, the shortest feasible path | `RiskEngine` |
| `Health` | the health aggregator | `SimClock` |
| `Assessment` | weather, twin, risk, planning and health composed, as `app/phase4_demo.py` wires them | the four above; `TwinStore` as an instance |
| `AssessmentProofs` | theorems about weather, risk, planning and health, geometry included | `Assessment` |
| `HilAdapter` | permit gate and MAVLink adapter with overlapping calls | `SimClock` |
| `HilAdapterProofs` | theorems | `HilAdapter` |
| `Management` | the management service | |
| `ManagementProofs` | theorems | `Management` |
| `UiStore`, `Console` | the console's store; live connection, replay and command client | |
| `ConsoleProofs` | theorems | `Console` |
| `MC...` | instances of constants for TLC | |

How state and actions correspond to code is noted at each declaration (a
variable names its attribute) and, line by line, in the `map` of
`PROJECT.json`. Three decisions recur:

- **Events are constants.** An event is an immutable record indexed by an
  identity; an action may be handed any event that exists by now, any number of
  times and in any order. Lateness, repetition and reordering need no channel.
- **Caches are histories.** `proposals`, `outcomes`, `effects`, `history` and
  `audit` hold everything that was made; a cache of the code is a view of them.
  A bounded window (`Seen`, `SeenScans`) is the end of such a sequence.
- **Numbers are classified, or integers.** In the control chain a score, a
  battery level or a position is reduced to what the code compares it with
  (`severe`, `energy`, "associated or not"); in `RiskEngine` a score is the band
  it falls in. Where geometry is the point (closest approach, clearance of a
  leg), it is computed as the code does, on vectors of integers chosen so that
  roots and quotients come out even, which `EvenGeometry` states and TLC checks.
  Time is a natural number; the constants of a configuration give it its unit.

A call that raises, or answers from a cache, without changing anything is not an
action of the chain's modules: it would be a stutter. Where an error does change
something (the tracker remembers a scan it cannot read; the twin commits and then
raises; a bus subscription keeps the failure of its handler), it is an action.

## 3. Runs

All properties of a passing run hold in every reachable state of its instance; a
violation run exhibits one documented statement that the code does not keep.

| Run | Instance | What it shows |
|---|---|---|
| `decision_center` | 2 decisions, 4 risks and an envelope that is none, 4 paths, 10 kinds of vehicle report, 5 instants | `ExpiresWithEvidence`, `FliesOnlyCoherentPath`, `FeasibleManoeuvre`, `AvoidanceOutlastsRecoveryHold` |
| `control_chain` | 1 decision, 2 gates, 2 answers of each, a severe SIM and a HIL risk, 4 reports, 5 instants | `AtMostOnce`, `EffectWithinEvidence`, `EffectTraceable`, and `KeepsPromise`: the chain implements `AuthorizedControl` |
| `bus_delivery` | two messages for two subscriptions, one of which may fail, queues of one place | `Delivers`: the bus implements `Delivery` (order, at-most-once, bounded backlog); what an acknowledgement means, what close() covers, and that drain() returns normally only over work that is handled and did not fail |
| `bus_liveness` | a handler publishing to its own full queue beside an outside publisher | the queue stays bounded; publish(), close() and drain() end |
| `situation` | 6 scans of 2 radars, 2 tracks, environment events, windows of 1, 2 entities, 3 publications, the tracker shut down and started | a confirmation counts no scan twice; a deleted track was announced as LOST and the twin has it as LOST; the twin holds the newest it took in, traceably, once per window; snapshots are revisions, losses are on record |
| `assessment` | 3 batches of tracks, 4 weather samples, 2 vehicles, 5 instants, 2 plugins with health reports | closest approach found; a planned path keeps clear along its legs; calm ratings rest on recent weather, bad weather is not forgotten; silence is seen |
| `hil_adapter` | 2 adapters, 2 callers, 3 approvals, 3 commands | connects and closes overlap; nothing is sent outside an approval; an acknowledged command is not sent again; answers follow sends |
| `management` | 18 commands, a namespace, two versions of a plugin under one resource, 8 operations | nothing is active unapproved; no success on an old revision, and the audit of a namespace or plugin version is a chain; a key is worth one attempt; an active plugin was in shadow |
| `console` | 7 live events of 3 sources, 2 snapshots, 6 recorded events of which one is twice | what is shown is the newest of what came; commands leave on a whole view; seek equals step |
| `decision_recovery_doc` | 3 decisions | violated: the documented recovery window before CONTINUE |
| `bus_barrier` | 2 subscriptions | violated: the docstring of drain() |
| `hil_repeat` | as `hil_adapter` | violated: a repeated command has no second side effect |

### Bounds and why they are enough

Every bound is a constant with "bound" in its comment, and a guard of the action
it stops. `CHECK_DEADLOCK FALSE` is set because a run ends when its bound is
reached, and because queues and sessions really do come to rest.

- *Decision center*: two decisions put one through each machine state and the
  next through the recovery window; the window is 2 ticks and a decision lives 2,
  so both sides of each limit occur. The reports fail in each way a rule tells
  apart, one at a time and, where a fallback needs it, two at a time.
- *Control chain*: interference is between the answers for one decision (two
  gates, an event and a gate's own output) and the passing of time; between
  decisions the only shared thing is the identity, which the theorems cover for
  any number of decisions, gates and events.
- *Bus*: queues of one place make every second put wait. In `bus_delivery` the
  first of two targets may have accepted when the second fails, closes or stays
  full, as the two subscribers of `perception.tracks` in `app/phase3_demo.py`. In
  `bus_liveness` two messages of the publisher and two of the handler compete for
  the queue, its line and the worker. Both at once, with any number of callers,
  are covered by the theorems.
- *Situation*: windows of 1 and capacities of 2 are passed by six scans; the scan
  of the south radar falls between those of the north one and may come before or
  after them. Two tracks reach CONFIRMED, COASTING and LOST within three scans,
  and the third publication carries the tombstone. `MaxTrackId` leaves out
  batches with a third track: the twin holds two entities, and a batch it refuses
  for want of room is reached with the environment instead.
- *Assessment*: the targets are one that crosses, one that recedes, one that is
  closest beyond the horizon, and one, LOST, that keeps its distance; of the two
  vehicles one has room for a detour and one has not. Every
  limit (freshness, the two validities, the twin's staleness, the heartbeat
  timeout) is 1 or 2 of four instants and is passed on both sides. `Budgets` says
  what one behaviour may do: two estimates and two commits without health
  reports, or one estimate, two reports and a shutdown; health and twin share no
  state, so nothing is lost by taking them apart. One rating and one plan per
  behaviour suffice, as neither looks at the one before.
- *Console*: capacities of 1 or 2 are passed by 5 to 7 events; eviction and
  overflow happen.
- *HIL*: two callers are what the race around one `await` needs; the trace of 3
  admits a send, a cancelled or answered call and a repetition.
- *Management*: 8 operations, of which one may be refused, reach two drafts, two
  approvals, an activation and a rollback, or both versions of the plugin registered and either of them ACTIVE;
  commands share keys, which is the misuse to be rejected.

### Fairness

Only `bus_liveness` needs it. `FairSpec` assumes weak fairness of each task's
next step: the asyncio loop runs every ready task, timers fire, and a handler
whose `publish()` returns comes to its end. It assumes nothing of the order in
which tasks run. The known case in CPython where `wait_for` swallows a
cancellation is not modelled. `DrainReturns` excludes, in its statement, a
subscription that somebody else closes while `drain()` joins it.

## 4. What is proved

The theorems hold for all values of the constants that satisfy the named
assumptions of the modules (`ClockAssumption`, `EvidenceAssumption`,
`CenterAssumption`, `BusAssumption`, `HilAssumption`, `TrackerAssumption` and so on): any number of
risks, paths, reports, vehicles, gates, decisions, adapters, callers, subscriptions,
queue sizes, scans and radars, any validity, staleness limit or window. TLC evaluates the assumptions in
the runs.

- `CenterTypeCorrect`, `ProposalsExpireWithEvidence`: the center alone.
- `FliesOnlyOnCoherentPaths`, `ManoeuvresFeasible`, both from `ProposalsSound`.
  A proposal never changes once it is made, so the invariant speaks of each new
  one; the work is in following an action through the rules (`RulesAgree`, rule by
  rule), the hysteresis and the capability fallback (`ChosenAgrees`), because each
  stage may replace what the one before decided, for a reason of its own.
- `ChainInvariant`: `ChainSpec => []ChainInv`. The properties are not inductive
  by themselves: that an effect rests on unexpired evidence depends on what the
  gate saw when it answered, possibly long ago, and on which answers it cached.
  `ChainInv` therefore says of *every* proposal, outcome and effect on record
  what was true when it was made: proposals are numbered and expire with their
  evidence; an AUTHORIZED outcome is `Justified` by the report it names, as of
  its instant; a gate has one cached answer per decision, and a rejection for
  reuse points at another event; an effect's outcome is authorised, in SIM, and
  preceded the expiry. Each action preserves it, action by action and conjunct by
  conjunct.
- `DecisionsTakeEffectOnce`, `EffectsWithinEvidence`, `GatesAnswerOnce`,
  `EffectsTraceable`: the properties of the run `control_chain`, from `ChainInv`.
- `ChainKeepsPromise`: every step of the chain is a step of `AuthorizedControl`
  or a stutter under the mapping `Executions`. It needs the arithmetic that a
  decision made on a report at most `StaleAfter` old and living at most
  `ValidFor` is executed on a report younger than their sum.

- `BusInvariant`, and from it `BusDelivers` (the bus implements `Delivery`),
  `AcknowledgedIsAccepted` and `ClosesAfterItsWork`, for any subscriptions, topics,
  handlers that publish, queue sizes and numbers of messages. That a log is in order
  is not inductive: a caller may be parked, woken, overtaken and parked again
  between two targets. `CallSound` says of every `publish()` in progress that its
  message is at each target behind it and newer than anything of its caller's at
  those before it; `LinesInv` that who stands in a line has not got past its put
  (otherwise waking it would move another call); `QueuesInv` that `close()` is
  woken only when what it counted is finished. Two facts about sequences carry the
  argument: `Only` keeps order and repeats nothing, and a subscription is in the
  list once, because `subscribe()` lists only new ones and `close()` takes off the one.
  `BusTyped` adds the types and the bound of every queue.
- `DrainInvariant`, and from it `DrainCoversItsWork`. What `drain()` owes at the
  moment it is called is, at any later moment, finished without a failure or at a
  subscription that is still on its list of joins (`DrainSound`); a subscription
  leaves that list only when its join has returned, which raises a failure, whichever
  message it came from. The subscription keeps the first failure alone, so that is
  the one that the property speaks of: a normal return says that no message `drain()`
  owes is the one whose handler failed first. The list is the one `drain()` copied, so `ListedInv` has to say that every
  open subscription was on it. Which one `drain()` joins next is the first that has
  anything unfinished; that there is a first is a lemma (`FirstExists`).
- `AvoidanceOutlasts`, an action property: a step from AVOIDING to CONTINUING
  comes at least `RecoveryHold` after the last evaluation that was not safe. The
  invariant it needs, `AvoidingSinceUnsafe`, is that there was one.
- `HilTypeCorrect`, `HilInvariant`, and from it `EverySendApproved` and
  `NoSendAfterAck`. `AcknowledgedNotResent` is not inductive: that nothing is
  sent after an acknowledgement came back needs that what was returned is in the
  cache (`ReturnsRemembered`) and stays there. `SentUnderApproval` rests on the
  type invariant, which says of a permit that its evidence was proven, and on
  the fact that an adapter's permit never changes once it is connected.
- `AnswersBalanced`, and from it `AnswersAreFromTheBench`. That the answers follow
  the sends is a matter of counting with calls in flight: the different answers
  returned for a command and the calls of it that await the bench are together no
  more than its sends. A cancelled call leaves a send that no answer uses up.
- `TracksSourced`, and from it `ConfirmationsDistinct`. The window of remembered
  scans is no part of the argument: what keeps a repeated scan from counting twice
  is that a radar's number only rises, so a scan in the sources of a track has a
  number its radar has reached already (`SourcesInv`).
- `LossesAnnounced`: between `process()` and the end of its publication,
  subscribers are owed what the handler is about to tell them; `Announced` is that
  case and the settled one together.
- `TwinInvariant`, and from it `TwinTyped`, `TwinTraceable`, `WindowHolds`,
  `SnapshotsGenuine` and `NoSilentLoss`. `Traced` is `EntitiesTraceable` key by key,
  with a witness for each entity in the place of a maximum, and the watermark added.
  A snapshot in flight is `Genuine`: the twin as of some commit. The commits that
  follow do not change what an earlier commit left (`CommitsGrown`, `PastRefs`), and
  no two snapshots, published or in flight, have one revision.
- `SituationInvariant`, for tracker and twin composed. `SituationIsBoth` shows the
  composition to implement the two parts, so that their theorems hold in it.
  `TwinLearnsOfLosses` and `NewestIsHeld` need what is on the line between the two:
  the batches queued, the one being published and the tracker's own tracks, in this
  order (`OnLine(i)`). A track is on the line without a gap (`Unbroken`), leaves it
  as LOST (`LeavesLost`) in a batch that is no older than anything before it
  (`LossIsNewest`), and what the twin has is still to come or LOST there
  (`LossKnown`). That a batch with a loss is never refused as late rests on
  `LateWithinTimeout` and, through it, on an invariant of the tracker
  (`TrackerInvariant`): no scan it remembers is so much newer than a track that the
  track should be gone. The two theorems have this as their hypothesis; section 5
  says what happens without it.
- `AssessmentInvariant`, for weather, twin, risk, planning and health. From it
  - `CalmIsRecent`: a rating below HIGH had an estimate that was valid when it was
    rated, which had samples that were fresh when it was estimated; the three
    limits add up (`CalmWhenRated`), and no other combination of them is needed.
  - `BadWeatherStays`: an invalid estimate stays an entity of the twin for good,
    because each has a key of its own (`TwinKept`), and makes its snapshot invalid.
  - `SilenceCounts`: whatever the order its reports are heard in, none of a plugin
    is of a time after it was shut down (`ReportsInv`).
  - `CollisionsFound`: the distance of two bodies in uniform motion is a parabola
    over time. It falls up to its vertex and rises after it, so its minimum over
    `0..CollisionHorizon` is at the vertex clipped to it, which is `Tcpa`
    (`LowestAtFirst`, `LowestAtLast`, `LowestAtVertex`). The squares are expanded by
    hand (`Expand`) where the prover's nonlinear arithmetic would not.
  - `OfferedPathsAreClear`: the distance of a point to a leg is that to its foot,
    or to an end when the foot lies outside (`BeforeTheFoot`, `BehindTheFoot`,
    `AroundTheFoot`); no quarter of the leg is nearer. That the path chosen is a
    feasible one at all is `BestIsFeasible`.
- `TrailExplains`, for the management service: at any time the audit trail accounts
  for all there is. Every key in it is used up (`KeysOnRecord`), the last success on
  a resource left what is there now (`TrailReachesNow`), an approval that a snapshot
  carries was given for its content by the person named (`ApprovalsOnRecord`), a
  plugin beyond VALIDATED was moved to SHADOW after its last registration
  (`PluginOnRecord`), and each success was sent on the revision that the one before
  it had left (`SentInOrder`). A namespace and a plugin version are told apart by the
  commands, whatever resources these give (`Subject`). From it `KeysDecideOnce`, `NothingActiveUnapproved`,
  `TrailIsChain` and `ActiveWasShadowed`. A rollback is the case that needs most: it
  rewrites two snapshots, and the one it brings back has the approvals it had.
- `ConsoleInvariant`, for a console that is live or replays. It relates the store
  to the deliveries of the session (`StoreSound`), and that of any store and any
  deliveries, because a seek and `apply_snapshot()` go through stores that no state
  ever shows: one lemma about one event (`ApplyKeeps`) then serves all of them. The
  number known of a source is the highest it delivered (`SeenSound`); entities are
  kept in the order of their last updates (`KeptSound`); what is missing had to
  leave for what was updated no earlier (`MissingSound`). That this last part
  survives the next event needs that an update never changes the class of an entity
  (`ClassStays`), as a schema is critical or not for good. From it
  - `TheNewestIsShown`, for any loss, repetition and order of the deliveries;
  - `CommandsNeedTheWholeView`: a store that stays LIVE has met no gap since its
    last synchronisation, and a delivery without a gap continues what its source
    delivered before (`FollowsNext`);
  - `SeekGivesWhatStepsGive`: on the way the store of a seek and that of as many
    steps differ in connection and cursor only (`Agree`), nothing an event does
    depends on these two, and the synchronisation that ends a seek sets both
    (`SeekIsStepping`). The cursor a seek arrives with is no further than the
    position, because an event moves it by one at most (`ApplyCursor`).

Of the assumptions two say more than a type. `UiAssumption` requires that events
about one entity are all critical or all not, as its key names their schema.
`EvenGeometry` (`RiskEngine`) requires that roots and quotients come out even, as the
integers of the model stand for the code's floating-point numbers.

### Only model-checked

Liveness (`PublishReturns`, `CloseReturns`, `DrainReturns`) is out of the prover's
reach. Every other property of a passing run is stated by a theorem. Two ways around
what the provers cannot open run through the modules. Folds and `SelectSeq` were
replaced by sets of indices (`Joins` of the bus, `Best` of the planner) or by a
partial function whose values carry their place in the order (`entities` of the
console). Where an argument needs an induction, it goes by the smallest
counterexample, for the library's theorem on minimal elements of a well-founded
order takes a set and no operator; `StepByStep` of `ConsoleProofs` is that argument
for a set of numbers, and `CourseExists` the existence of what a recursive function
over a sequence of events defines.

## 5. Where the code and its documents part

Three are shown by violation runs and quoted under `findings` in `PROJECT.json`:
the recovery window, which guards AVOIDING and no other safe state; `drain()` that may return with
a handler still running; a HIL command that is sent twice when its calls overlap
or the first is cancelled. More were met while modelling:

- `TwinStateStore.apply()` commits and then raises when the twin is empty after
  the commit, as after a first scan without a target
  (`digital_twin/store.py:228`). The model has it: `Report` yields an error, and
  `LossIsOnRecord` holds because the subscription shows the failure.
- An audit record of the management service names `command.resource` and nothing
  else, while plugins are kept by the name and version of the payload
  (`management/service.py:250`, `:327`). Two versions under one resource, as
  `risk/baseline` of `tests/unit/test_management.py:187` would be for two versions of
  that plugin, leave records that both start from nothing: the records of one
  resource are no chain. `AuditIsChain` therefore goes by the commands, of which a
  record keeps only this much, and holds of each namespace and plugin version.
- The gateway looks at a decision's expiry, state, mode and identity. It does not
  evaluate the preconditions that a decision lists, the age of the vehicle's report
  among them (`control/gateway.py:47`, `decision/engine.py:116`); `EffectWithinEvidence`
  bounds that age by the gate's limit and the decision's validity together.
- The repetitions of a bench command may be told different results when its calls
  overlap: the answer that comes last stays in the cache. `ReturnsFollowSends` bounds
  the different answers by the sends and does not exclude them.
- `complete_sync()` declares a view complete whatever is missing in it, and
  `ReplayController` calls it after every step and seek: a replay shows no gap of its
  recording.
- `RadarTrackerPlugin.process()` associates scans of invalid quality, which
  section 3 of the perception document excludes by default.
- The tracker deletes a LOST track before its last report is published. If that
  publication fails, no tombstone goes out; `LostIsAnnounced` and `TwinKnowsLost`
  hold under the condition that the handler has not failed.
- A scan may bring a track's time back: `process()` sets `lastObservedAt` to the
  time of whatever scan matched last. With two radars, a track of scan 5 of the one
  that is matched by scan 0 of the other is lost at time 4, when the timeout is 4;
  the batch with the tombstone is of time 4, and the twin, which has the track as of
  5, refuses it as late. The tracker has deleted the track by then, and the twin
  keeps it for good. The attempt to prove `TwinKnowsLost` brought this up.
  `LateWithinTimeout` excludes it, is true of the scans of the run `situation`, and
  is the hypothesis of `TwinLearnsOfLosses` and `NewestIsHeld`.
- `assess()` never looks at the age of the tracks. Item 5 of section 12 of the
  risk document says that missing or expired key inputs give no LOW; with no new
  batch of tracks, estimates alone keep the twin's watermark recent and the rating
  LOW. TLC finds it within `Assessment`; there is no limit in the code that an
  invariant could state.
- Every estimate gets an identifier of its own and is an entity of its own in the
  twin (`weather/estimator.py:293`, `digital_twin/store.py:258`). One estimate
  without usable samples makes every later snapshot invalid and every later rating
  HIGH at least: `BadWeatherIsNotForgotten` states that as it is. The twin also
  grows by an entity per estimate until it is full, and `environment_ref` names
  the oldest estimate, the first in the order of the identifiers.
- Only the worst target becomes a constraint of the rating, so a detour may lead
  past it through another. `PlannedPathClear` is about the constraints given.
- The health aggregator's critical components are services by default
  (`risk-service`), while plugins report under their own names
  (`explainable_rule_risk`): the rule for critical components never applies to
  them. Of two reports with one number, which the tracker's all have, the one that
  comes last wins; `SilenceIsSeen` holds all the same.

## 6. What is not modelled

- The fused numbers of the weather (averages, residuals): the model keeps the band
  of the worst risk factor, and any band above the peaks for several samples.
  A NaN in precipitation, visibility or pressure passes the sample's checks; TLA+
  has no counterpart.
- Floating-point rounding in risk and planning, costs and times of a path,
  confidences, explanations.
- Association in the tracker: any one-to-one association is allowed.
- What `snapshot()` of the console derives (ages, highest risk).
- `start()` and `stop()` of the services are `Subscribe` and `Close` of the bus
  and not repeated in the modules of the services.
- Process restarts: every cache is in memory and lost as a whole. Where instances
  are renewed in normal operation (HIL adapters) the model has several.
- A newer, more severe decision does not supersede an older one in gate or
  gateway; the documents ask for it, the code has nothing that could be checked.
- Qt, schemas, identifiers, simulator drivers, command-line tools.

## 7. Plan

The order in which the modules were and will be written, most important first.

1. Done: the control chain with its theorems; the bus; tracker and twin, composed;
   weather, risk, planning and health, composed; the HIL adapter; management;
   console; `Delivery` as the bus's abstract specification; theorems about all of
   them.
2. Next abstract specification: a last-writer-wins map by observation time that
   `TwinStore` implements.
3. Next in the model: assessment and control chain joined, so that `Evidence` is
   what risk engine and planner produce instead of any record.
