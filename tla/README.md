# Verification of the Teltonika RMS integration

TLA+ models, TLC runs and TLAPS proofs for `custom_components/teltonika_rms`,
the Home Assistant integration that polls routers through Teltonika's Remote
Management System (RMS). Everything runs on one asyncio event loop: the code
between two `await`s is atomic, and every `await` is a place where a refresh, a
service call, a timer or an unload may come in between. RMS and Home Assistant
itself are outside this repository and are modelled from how the code uses them.

## 1. The system

| Part | State it keeps | Operations | What makes it correct |
|---|---|---|---|
| `RmsApiClient.async_request` (`api.py`) | `_request_counter` and its 30-day window; per call the attempt number and the response held | send, classify the answer, sleep, retry, release | bounded sends, one outcome, no leak, an exact count, every call ends unless RMS makes it sleep for ever |
| State refresh (`coordinator.py`, `api.py`) | `_aggregate_state_available`, `_round_robin_cursor`, the published data | aggregate request, fallback per device, location and wireless enrichment | every refresh ends with a bounded number of requests, no device is left out of it, one device or one scope does not cost the others their data |
| Inventory listing (`api_devices.py`) | offset, seen identities, last page signature | page requests until the listing is complete | terminates, no device twice, none lost |
| Port scan and port configuration refresh (`coordinator.py`) | published rows per device, a warning flag | one request per device | a failing device does not block the others |
| Status channel (`status_channel.py`) | a future, a socket, deadlines | subscribe, wait, fall back to polling | an asynchronous result is found however the message and the subscription race, nothing is reported that has not ended, and the wait ends |
| PoE switch (`switch.py`) | nothing of its own, reads the port data | write, then request a refresh | what is shown follows what was written |
| Entities and discovery (`entity.py` and the platforms) | the set of known entities | coordinator listeners add entities | each device gets its entities once |
| Entry lifecycle and services (`__init__.py`) | `runtime_data`, service registry | setup, unload, reload, refresh, history | services stay while an entry can serve them, and a call serves all that stay loaded |
| Config flow (`config_flow.py`) | per flow its step, its unique id, the entry it renews; per entry its login and unique id | add with a token or OAuth, renew, remove | an entry keeps its account, no login twice, no renewal refused by mistake, no entry replaced |
| Endpoint matrix (`endpoint_matrix.py`) | the resolved paths | load, categorize, choose, fall back | every key the code relies on has a path it can complete |
| Request budget (`api.py`, `config_flow.py`, `coordinator.py`) | options and what the coordinators were made of; their intervals; the requests sent | estimate, check, warn, reload, the four refresh schedules | checked options stay within RMS's quota and never warn |

The coordinators own the schedule. Each refresh runs a sequence of calls of
`async_request`, all on one shared `RmsApiClient`. An answer whose `meta` names a
channel is completed through the status channel, which calls the client again to
poll. Entities read the published data of several coordinators, and the switch
and the button call the client and then ask for a refresh.

Hard behaviours: refreshes that overlap (Home Assistant does not serialize a
scheduled and a requested one), answers lost after RMS acted, requests carried
out after the caller gave up, `TimeoutError` being neither `ClientError` nor
`RmsApiError`, state read before an `await` and used after it, a single failure
remembered for good, and round-robin over a list that changes.

## 2. Modules

The order is that of the plan: what everything else stands on first. A module
translates the code named in its header comment; the numbers of lines are in
`PROJECT.json` under `map`. One action is the code between two `await`s, with
everything that code changes. Home Assistant and RMS are outside the repository
and are modelled from how the code uses them (`external` in the map).

| Module | State | Actions |
|---|---|---|
| `RmsCall` | abstract call: what a caller of `async_request` may rely on | a call is sent up to `MaxSends` times, carried out at most as often, and returns or raises |
| `RmsRequest` | per call: attempt, place, response held, copies of the request RMS may still carry out; `_request_counter` and its window | one per outcome of an attempt: network error, timeout, 401/403, 404, retriable status with retries left, error status, success, a body taken for data, `"success": false`; RMS carrying a copy out, whenever it likes |
| `StateRefresh` | `_aggregate_state_available`, `_round_robin_cursor`, the data; per refresh its device ids, the rest of its loop, whether that runs inside the `try` of the aggregate request, its state map | start by timer or request, one per answer in each of the five places that await, the second pass of the fallback, authentication failure, timeout, a new inventory |
| `Inventory` | offset, page before, identities seen; RMS's registry | next page, last page, repeated page, error; devices join and leave |
| `StatusChannel` | future, socket, deadlines in discrete time, the payload; the job at RMS, device by device | token, connect, subscribe, message, wait over, disconnect and its error, poll, sleep; the subscription arrives, the job ends on a device, RMS reads a poll, socket drops |
| `PortConfig` | per call its phase, per refresh its results, `data`, the timers of coordinator and debouncer; the settings at RMS | a PoE call and its outcomes, RMS carrying the write out, refreshes by timer, by request and by cooldown, one action per kind of answer |
| `Entities` | the data of the four coordinators, platforms set up, ids known | set-up of a platform, publication by each coordinator |
| `EndpointMatrix` | none: the choice of a path per key as operators over an OpenAPI file | (used by `RequestBudget` at set-up and in the options flow) |
| `RequestBudget` | options and whether they were checked, what the coordinators run with, when each is due, the fleet, requests sent by kind | save options, reload, one refresh per coordinator, devices come and go, time passes to the next refresh |
| `EntryRegistry` | abstract entries: what the config flows promise of them | an entry is added under an identity of its own, renewed within its kind and account, or removed |
| `ConfigFlow` | entries listed, their logins and unique ids; flows | one per step of the flow, the start of a renewal, removal of an entry, giving up |
| `EntryLifecycle` | per entry its phase, runtime data, listeners, reloads due, what was made of its options; the services; a service call | one per `await` of set-up and unload, the user and the config entry manager, the steps of a service call |

`MCStateRefresh`, `MCPortConfig`, `MCConfigFlow` and `MCRequestBudget` hold what
only TLC needs: two concrete inventories, symmetries, concrete options and OpenAPI
files. Each `*_proofs` module extends the module it is about; `ApiClient_proofs` is
about both `RmsRequest` and `StatusChannel`, which share no state.

How they fit together. Every request of `StateRefresh`, `Inventory`,
`StatusChannel` and `PortConfig` is one call of `RmsRequest`, and these modules
use only what `RmsCall` promises of it: it returns or raises once, and it may be
carried out later, more than once or not at all, whatever it returned: any body
of a status below 400 is data to the client (`api.py:505`). `RmsRequest`
implements `RmsCall` (`KeepsPromise`, checked and proved). `PortConfig` uses of
`StatusChannel` that a wait ends (`WaitEnds`). What `Inventory` publishes is the
inventory that `StateRefresh` and `PortConfig` iterate over and `Entities`
listens to; what `StateRefresh` and `PortConfig` publish are the publications of
`Entities`. `EntryLifecycle` begins and ends all of them. `RequestBudget` is built
on `EndpointMatrix` and takes the coordinators together: its refreshes are those
of `StateRefresh`, `Inventory` and `PortConfig` reduced to the number of requests
they send. `KeysAreFrozen` also tells which case of `StateRefresh` the shipped
integration can be in: with an aggregate path. Its `"nopath"` case, with the
slices, is code that no configuration reaches; it is modelled because it is there
and would matter as soon as the frozen matrix lost its path.
`ConfigFlow` adds and removes the entries that `EntryLifecycle` sets up, and its
renewals are the latter's `Reauthenticated`; it implements `EntryRegistry`
(`FlowsAreAtomic`, checked and proved), under the mapping that forgets what removed
entries have left behind.

Where the code decides something by data, the model keeps the decision:

- `RmsRequest`: an answer is a class of status (retriable, not found, refused,
  other) because the code branches on nothing else. RMS carries an attempt out
  before it answers, after the client has given up on it, or never, and no answer
  tells which. A sleep is the client's own backoff, which ends, or one that
  `Retry-After` asked for, which need not.
- `StateRefresh`: a request is its outcome. `available` is the flag of the
  client, and `"nopath"` stands for a matrix without an aggregate path. The fallback
  for an answer without data runs inside the `try` of the aggregate request
  (`guarded`; `api.py:365`), so that an `RmsApiError` of its loop is caught there and
  the loop runs once more behind it (`SecondPass`).
- `StatusChannel`: a message or the answer to a poll is the set of devices it
  reports as through, since `_is_terminal` takes a payload grouped by device for
  the end as soon as one of them is. RMS reads the channel for a poll some time
  before its answer arrives. Messages for other channels are left out: `_handle`
  drops those that are tagged.
- `PortConfig`: a write whose request was accepted may be carried out later or
  never, as one whose request failed.
- `Entities`: a port row is absent, without PoE, with PoE, or names the setting
  as null (`"unset"`, enough for a switch and not for a sensor); `"marked"` is a
  row the sensors wrote a scan's values into, in the coordinator's own data. A
  port id is a name with or without `switch_`. `sensorFirst` is the order of the
  two listeners, which is the order in which the platforms were set up.
- `EndpointMatrix`: a path is the sequence of its segments, a trailing slash and
  its length, on which the choice between candidates depends. Placeholders are
  written without their braces. Scopes and polling hints are left out, since
  nothing reads them. The tests of `_categorize_endpoint` exclude each other
  (`OneKey`, proved), so their order is left out as well.
- `RequestBudget`: time is in seconds, refreshes take none (which makes the most
  of them), every request succeeds at once; retries, detail fallbacks, a second
  pass of the state fallback and polls of a channel would come on top. The estimate is computed in integers of 32 bits;
  the code divides in floats, which may differ by one at a whole number.
- `ConfigFlow`: a login is its kind, its account or token, and whether RMS names
  the account in the token. Home Assistant's flow manager is external: a flow
  that sets a unique id ends when another flow in progress has it; a renewal has
  the unique id of its entry from the start; a new entry takes the place of one
  with its unique id.
- `EntryLifecycle`: `current` says which of the two things set-up makes of the
  options (the endpoint matrix, the coordinators) were made after the last
  change of options.

## 3. Runs

### Runs that pass

| Run | Shows |
|---|---|
| `request_calls` | two concurrent calls keep the promise of `RmsCall`: they are sent a bounded number of times and carried out no more often than sent, have one outcome, and return a 404 only where it is allowed (`KeepsPromise`); they hold no response while they send or afterwards (`ResponseReleased`), count every attempt in its window (`CounterIsWindow`) and return, unless RMS makes them sleep for ever (`CallReturns`) |
| `state_refresh` | two overlapping refreshes keep the fallback on (`FallbackIsSticky`), bring every device nearer with every slice (`SliceProgress`), leave no device out of a fallback, also when an error makes it start over (`WholeListing`), make a bounded number of requests, each answer leaving fewer (`BillBounded`), and end (`RunsEnd`) |
| `inventory_pages` | a listing misses no device while none leaves and fewer join than a page holds (`CompleteUnlessShrunk`), publishes none that is gone (`OnlyRegistered`), keeps its offset bounded whatever the server makes of it (`OffsetBound`) and ends (`ListingEnds`), on servers with and without a total, that cap the limit or ignore the offset; the first of these with the proviso below (`Countable`) |
| `channel_wait` | a wait names only devices that are through (`TruthfulResult`), is bounded (`WaitBounded`), finds a job that is through on all its devices a poll and an interval before the deadline, unless RMS answers a poll without a status (`DoneIsFound`), and ends (`WaitEnds`) |
| `port_refresh` | what is published is current but for writes during the refresh that publishes it (`PublishedIsCurrent`), leaves out no device that answered that refresh (`NobodyLeftOut`), polling goes on (`PollGoesOn`) and no call waits for a refresh nobody runs (`NoCallStranded`) |
| `entities_discovery` | what a platform's coordinators report has its entity (`Discovered`), no switch without PoE data from RMS (`SwitchesReported`), power sensors follow with the state (`PowerSensorsFollow`) |
| `budget_month` | whatever the OpenAPI file, the matrix has the frozen keys (`KeysAreFrozen`) and, if the file follows the code's conventions, paths that can be completed (`PathsConcrete`); checked options never warn (`NoWarningAfterGate`); a month as estimated stays within the quota, with what the estimate leaves out and a reload on the way (`WithinQuota`) |
| `config_flows` | flows that add and renew in any interleaving keep an entry to its account (`RightAccount`), the same login out of two entries as far as the code can tell (`SameLoginOnce`), refuse no renewal for its own account (`OwnAccountAccepted`) and implement `EntryRegistry`: each flow adds one entry, renews one or does nothing (`FlowsAreAtomic`) |
| `lifecycle_entries` | services stay while an entry is loaded (`ServicesWhileLoaded`), one listener per loaded entry (`OneListener`), a call serves all that stay loaded (`CallServesAll`), options take effect (`OptionsApplied`) |

### Runs that find a violation

| Run | Shows |
|---|---|
| `state_location` | a 403 from the location endpoint, which needs an optional scope, fails the state of every device (`coordinator.py:182`) |
| `port_blocked` | the timeout of one device drops the ports read for the others (`coordinator.py:311`), which `CHANGELOG.md:87` says is prevented |
| `budget_quota` | twenty devices, a state interval of 900 s and location on: accepted at an estimate of 61,200 requests of 80,000, and past the quota of 100,000 by about the 24th day, because the estimate (`api.py:640`) leaves out the location requests; `docs/architecture/constraints.md:3` says the quota must be respected |

Things that do not hold and have no run of their own, because a property above
states the part that does: a device that leaves RMS between two pages hides the
one behind it from that listing (`~shrunk` in `CompleteUnlessShrunk`), and as many
joins between two pages as a page holds make the page before come again, which
ends the listing early (`changes < server.limit` there: 50 joins on the pages the
code asks for, or as many as the server caps them to); on a server that caps the
limit and sends no `meta.total` every device behind the first page is lost
(`Countable` there; `tests/unit/test_api_devices.py:152` says "Without meta.total,
a short page terminates pagination safely"); a refresh
that read a port before its write may publish after it, and the old setting
stays until the next poll (`changed` in `PublishedIsCurrent`); options changed
while an entry is being set up are not applied by a reload (`raced` in
`OptionsApplied`); with an aggregate path in the matrix the fallback takes every
device in every cycle (`MaxPerCycle`); with a file whose placeholders have other names, or
which lists the devices of one company under `/v3/`, a chosen path cannot be
completed (`conforms` in `PathsConcrete`).

Facts about the code that the models show and that no run is spent on:

- RMS can carry one POST out several times, a reboot included: the retry loop
  (`api.py:429`) makes no difference between methods. `KeepsPromise` bounds it by
  the attempts.
- A device that joins after set-up has no reboot button until the entry is
  reloaded: the button platform has no listener (`button.py:27`; `Listens`).
- The services outlive the last entry: `async_unload_entry` asks whether the
  domain has entries while the one being unloaded is still listed
  (`__init__.py:164`; `RemoveServices`).
- Without an aggregate path a refresh takes as many devices as the budget allows
  requests, less one (`coordinator.py:149`), and each costs three requests, or four
  with its location (`BillBounded`). The frozen matrix always has that path, so no
  configuration reaches the slice.
- With an aggregate path the refresh whose aggregate answer has no data costs up to
  six requests a device, five without location: one error in its fallback makes
  it ask all devices again (`api.py:365` and `378`; `SecondPass`).
- `Retry-After` is slept whatever it says, and `float` accepts `inf` (`api.py:615`):
  such an answer holds the call, and the refresh or the service behind it, until
  something cancels it. `CallReturns` has it as its condition.
- A payload grouped by device ends a wait when the first of its devices is through
  (`status_channel.py:169`), although the manager's docstring says "Wait for channel
  completion" (`status_channel.py:21`). Of the integration's own requests only the
  aggregate state's may open a channel for several devices.
- The history service returns an empty list whatever is asked: the frozen matrix
  has no `device_history`, and no file can add the key (`api.py:255`;
  `KeysAreFrozen`). `services.yaml:7-9` offers it all the same: "Get historical
  monitoring data for a Teltonika RMS device."
- An OpenAPI file that is not UTF-8 does not fall back to the frozen matrix as
  other unusable files do: `UnicodeDecodeError` is caught neither in
  `endpoint_matrix.py:68` nor by the set-up (`__init__.py:86`) or the options flow
  (`config_flow.py:186`), which fail. `File` has no such file.
- The default options are estimated at 182,160 requests, above the ceiling of
  80,000; they are not checked when an entry is added, so a new entry warns in
  every cycle until its options have been through the options flow. The shortest
  state interval accepted for twenty devices is 687 s.
- Renewing a personal access token keeps the fingerprint of the old one as unique
  id: the new token can be added again as a second entry, the old one cannot
  (`renewed` in `SameLoginOnce`).

### Bounds

- `request_calls`: two calls share the counter, one of them accepts 404. Two
  retries give a first, a middle and a last attempt, which is all the code tells
  apart. Two days of window over three days let the window restart within a
  call.
- `state_refresh`: two refreshes are the least that overlap. Two devices with one
  per slice let the cursor wrap, the inventories `<<d1>>` and `<<d2, d1>>` let a
  device join, leave and change its place, and make the cursor stale. Larger
  inventories and slices are covered by the proof of `SliceProgress`.
- `inventory_pages`: four devices, pages of three (two on a server that caps the
  limit), one without an identity. Up to `MaxChanges` = 3 joins and leaves during
  one listing: as many joins as a page holds, more than a capped page does, and
  leaves beside joins. `MaxOffset` lies beyond `OffsetBound` on every server and
  so cuts nothing off.
- `channel_wait`: two devices, one of which may be through long before the other;
  budgets of a few ticks, chosen so that connecting, waiting and polling each can
  end before, at and after a deadline; the last poll may start within the budget
  and end after it, and RMS may read it at any moment in between. Each `emit` and
  `disconnect` takes up to `SendTime`.
- `port_refresh`: two devices, one call, two slots for refreshes. One slot stays
  free for a debounced refresh, as Home Assistant has no limit on them. Devices,
  calls and slots are only compared with each other, so their permutations are
  symmetries; the run has no liveness property.
- `entities_discovery`: one device, since devices share neither rows nor ids, with
  one port name and so two port ids; the port is also a factory port. The
  platforms without `device_tracker` and `update`, which discover from inventory
  and state as the diagnostic sensors do. The proofs have no such bounds.
- `lifecycle_entries`: two entries and two reloads waiting for one entry, one in
  hand when another becomes due. One service call at a time: a call changes
  nothing that another one reads.
- `budget_month`: one day with a thirtieth of the quota, so that the month of the
  proof is as long as TLC can count. Options that are accepted, refused, at the
  edge, and with location; fleets below, at and above the estimate and the page;
  files that are missing, empty, complete, ambiguous and out of convention. One
  change (`MaxChanges`) is of the options, the fleet or the aggregate endpoint.
  `budget_quota` has the constants of the code and no change.
- `config_flows`: three entries, three flows, two accounts and two tokens: two
  renewals and a flow that adds, or two flows that add the same login beside an
  entry. All four sets are only compared, so their permutations are symmetries.

`CHECK_DEADLOCK FALSE` in `RmsRequest_calls` and `StatusChannel`: calls and waits
are made once and then over; in the `RequestBudget` runs the month ends.

### Fairness

A liveness property rests on these, and no other, assumptions: every attempt of a
request times out if nothing else ends it (`async_request` runs it under
`asyncio.timeout`), so its steps are weakly fair; the event loop runs what is
ready; the client's own backoff, of 30.5 seconds at most, ends; the poll and socket
timers of `StatusChannel` fire. Nothing is assumed of RMS: its messages, its writes
and its changes of the registry need never come, and no user need ask for
anything. A sleep that RMS asks for with `Retry-After` is not assumed to end either:
`CallReturns` says that every call returns which is not held in one for ever. The
modules above it take an answer as one step and so assume that RMS names no
endless `Retry-After`: the weak fairness of the answers in `StateRefresh`,
`Inventory` and `PortConfig`, and the finite `TokenTime` and `PollTime` of
`StatusChannel`. The listing of
`Inventory` additionally assumes that RMS does not change for ever between two
pages, which is its bound on changes.

## 4. Proofs

All theorems hold for every value of the constants that the named assumptions
allow, which say no more than the code does (a positive slice, orders without
duplicates, factory ports among the ports, options within the form's limits,
placeholders that are no fixed words).

- `ApiClient_proofs`, on the request loop. `IInv` counts the copies of a request:
  those carried out and those RMS may still carry out are at most the attempts
  made. `EffectBound` alone is not inductive, since a late delivery adds an effect
  without a send. From it also `NeverExhausted`, `ResponseReleased`
  and the refinement `KeepsPromise`, step by step: an attempt that gives up is a
  stutter of `RmsCall`. `CounterInv` relates `_request_counter` to `sentBefore`, the
  number of attempts made before each day: the window's attempts are a difference
  of two of these, so no sum is needed (`CounterIsWindow`). `CallAdvances` says
  that a step of a call leaves it fewer awaits, three an attempt at most, and a
  step of another one as many.
- `ApiClient_proofs`, on the status channel, from `ChannelAssumption` (budgets are
  natural numbers, polling budget and interval positive, a device at least).
  `ChannelInv` keeps what is left of every budget in every phase, which bounds the
  wait, and what a message, a future and a poll say of the job, which makes its
  result true. A poll that says nothing of a job through on all devices was read
  before that, so no earlier than `PollTime` before its answer; slept through, that
  is the bound of `DoneIsFound`.
- `Inventory_proofs`. The registry is a sequence without repetitions; lemmas say
  where a join or a leave moves its devices and what a page holds. `CoveredInv`:
  while nothing leaves, each device before the cursor that was there all the time
  has been received, since a join only moves devices on. `PreviousInv`: the first
  device of the page before, which was full, is at least a page before the cursor,
  less one place per join, so with fewer joins than a page it is not the first of
  the next (`NoFalseRepetition`), and a listing that succeeds has reached the end
  (`LastPageReaches`, the one place that needs `Countable`). `RepeatInv`: if the server ignores the offset, a page is only new
  after a change of the registry; without it `OffsetBound` is not inductive.
- `StateRefresh_proofs`. `IInv` adds to the types that a refresh waiting in a loop
  has a device to wait for, that only a refresh with an aggregate path waits for it
  or loops inside its `try`, and that in the fallback each device of the listing has
  a state or is still to be asked for (`MapInv`): `WholeListing` reads that off when
  the loop ends, the second pass included, which starts with an empty map and the
  whole list. `FallbackIsSticky` and `SliceProgress` follow too; the latter rests on
  arithmetic of the rotated list: position `i` lies `Distance(cursor, i)` behind
  the cursor, the slice takes the first `PerCycle` of these, and the new cursor is
  `PerCycle` further. `BillBounded` needs that no answer changes whether there is
  an aggregate path (`PathKept`), on which the length of every loop depends, and
  that a slice is as long as a loop; `Moves` then says what an answer makes of
  the loops, and each way leaves fewer requests. The second pass is paid for in
  advance by a loop that is `guarded`.
- `PortConfig_proofs`. `IInv` describes a refresh in flight device by device: the
  port's setting, a write it has been told of, a refusal, or a question still to
  ask. `PublishedIsCurrent` and `NobodyLeftOut` read it off the refresh that ends;
  `NoCallStranded` and `PollGoesOn` are part of it.
- `Entities_proofs`. One lemma says what a round of discovery leaves behind
  whichever platforms take part; a publication reaches every platform that goes
  by what it changes, so each part of `Discovered` is either found now or was
  there. `RowsReported` is what makes `SwitchesReported` inductive: rows the
  sensors marked are rows RMS has reported power for.
- `EntryLifecycle_proofs`. `SetupInv` says what an entry has at each point of its
  set-up (listed, runtime data, parts made of the current options), `CallInv`
  that an entry loaded all through a call is served, being served, or to come.

- `RequestBudget_proofs`. First the matrix: no path fits two keys (`OneKey`), the
  best candidate exists (`BestExists`, by well-foundedness), so loading a file
  changes paths and never keys (`LoadTyped`), and completes them if the file keeps
  the conventions (`LoadComplete`). Then arithmetic: what the estimate accepts
  bounds the requests of any span of the month in proportion. The inductive
  invariant counts: a coordinator has refreshed once per interval since set-up
  (`ClockInv`), what was sent since is bounded by these refreshes (`CountInv`), and
  what was sent before by the ceiling's share of the time passed (`BeforeInv`),
  which a reload carries over. `WithinQuota` needs one more assumption,
  `HeadroomAssumption`: the headroom has room for the port requests of a page of
  devices and the first refreshes of every set-up. With the constants of the code
  it holds for up to 51 set-ups a month.
- `ConfigFlow_proofs`. `IdInv` says which unique ids entries have, `FlowInv` which
  flows may hold the unique id of an entry: only its own renewal, of which there
  is one. There is a lemma for adding an entry and one for renewing it, with what
  the flows have checked before as hypotheses; both also give the step of
  `EntryRegistry`. A renewal that has begun refers to an entry that is listed and
  of its kind (`FlowInv`), which is why no removal lets it revive one.

Proved and not in a run of their own: the bound on effects behind `KeepsPromise`
(`EffectBound`), that the retry loop is never exhausted (`NeverExhausted`), the
variant `CallAdvances`, that no socket is left open (`SocketClosed`), and the
inductive and type invariants of the modules whose runs do not name them; TLC has
checked all of these on the instances of the runs.

Only model-checked is what needs fairness: `CallReturns`, `RunsEnd`, `ListingEnds`
and `WaitEnds`. Of each, the part that is not about fairness is proved:
`CallAdvances`, `BillBounded`, `OffsetBound` and `WaitBounded` say that every step
brings it nearer or that it cannot be far. What
TLAPS cannot add here is that a fair step is taken, which needs `ENABLED`.

## 5. Not modelled

- The loop of `PortScanCoordinator` as one of its own: the same as that of
  `PortConfigCoordinator` with another endpoint. What it publishes is in
  `Entities`, its schedule and requests are in `RequestBudget`.
- The redirects of OAuth and the refresh of its tokens: Home Assistant's own.
- Names, formatting and extraction of values (`models.py`, `models_api.py`): no
  state. Which of two sources wins is in `Entities`.
- `diagnostics.py`, the texts of `const.py`, and the tools under `tools/`: no
  state, or not part of the running integration.

## 6. Plan

1. The availability of PoE switches over the rows the sensors mark, and the
   normalization of state values (`models.py`) as operators.
2. `StateRefresh` and `Inventory` composed, with the request counter of
   `RmsRequest` between them.
3. Proofs: that `StatusChannel` implements an abstract wait (an outcome within a
   time, true of the job) and a refresh of `PortConfig` has a bill as that of
   `StateRefresh`; the share of `RequestBudget` in terms of `BillBounded`.
