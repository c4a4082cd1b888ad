----------------------------- MODULE RequestBudget -----------------------------
(***************************************************************************)
(* The monthly request budget: the options flow that checks it             *)
(* (config_flow.py), the estimate it checks (api.py), and the requests the *)
(* four coordinators of one entry send in a month (coordinator.py).        *)
(*                                                                         *)
(* Time is in seconds.  A refresh takes no time, which makes the most of   *)
(* them: Home Assistant counts the interval from the end of a refresh.     *)
(* Every request succeeds at once, without retries and without polls of a  *)
(* status channel, which would come on top.                                *)
(***************************************************************************)
EXTENDS EndpointMatrix

CONSTANTS
  MonthSeconds,      \* 30 days
  MaxMonthly,        \* MAX_MONTHLY_REQUESTS
  HeadroomPercent,   \* REQUEST_BUDGET_HEADROOM
  PortInterval,      \* DEFAULT_PORT_SCAN_INTERVAL and DEFAULT_PORT_CONFIG_INTERVAL
  PageSize,          \* page_size of async_list_devices
  DefaultOptions,    \* DEFAULT_OPTIONS
  Choices,           \* the options users submit
  SpecFiles,         \* what may be found at a spec_path
  Fleets,            \* the numbers of devices RMS may list
  MaxChanges         \* bound: changes of options, fleet and aggregate endpoint

Option == [inventory : Nat \ {0}, state : Nat \ {0}, devices : Nat \ {0},
           location : BOOLEAN, spec : BOOLEAN]

\* int(MAX_MONTHLY_REQUESTS * REQUEST_BUDGET_HEADROOM)
Ceiling == (MaxMonthly * HeadroomPercent) \div 100

Least(a, b) == IF a < b THEN a ELSE b
Most(a, b) == IF a > b THEN a ELSE b

ASSUME BudgetAssumption ==
  /\ MonthSeconds \in Nat \ {0} /\ MaxMonthly \in Nat /\ HeadroomPercent \in Nat
  /\ PortInterval \in Nat \ {0}
  /\ PageSize \in Nat \ {0}
  /\ DefaultOptions \in Option /\ ~DefaultOptions.spec
  /\ Choices \subseteq Option
  /\ SpecFiles \subseteq File
  /\ Fleets \subseteq Nat
  /\ MaxChanges \in Nat
  \* the schema of the form, vol.Range(min=60, ...)
  /\ \A o \in Choices \cup {DefaultOptions} : o.inventory >= 60 /\ o.state >= 60

\* What the headroom leaves for the traffic the estimate does not count: the
\* requests of a set-up and the first refreshes after it, for the first set-up
\* and MaxChanges more, and the port refreshes of a page of devices
ASSUME HeadroomAssumption ==
  LET setUps == MaxChanges + 1
  IN  Ceiling + 1 + setUps * (3 + PageSize)
      + 2 * PageSize * (MonthSeconds \div PortInterval + 1 + setUps) <= MaxMonthly

VARIABLES
  options,    \* entry.options
  gated,      \* they have been through the options flow
  running,    \* what the coordinators were made of: the options then, whether
              \* those were gated, the client's endpoint matrix, and whether
              \* the file it was read from names its paths as the client does
  reload,     \* the update listener has a reload to do
  aggregate,  \* _aggregate_state_available is not False
  fleet,      \* the number of devices RMS lists
  listed,     \* those in inventory.data
  clock,      \* seconds since the beginning of the month
  due,        \* when each coordinator refreshes next
  since,      \* history: the time of the last set-up ...
  before,     \* ... what had been sent by then ...
  runs,       \* ... and the refreshes of each coordinator after it
  sent,       \* requests of this month, by what they were for
  warned,     \* _log_budget_warning has warned since set-up
  plain,      \* history: the month has been as the estimate assumes
  changes     \* changes so far

config == <<options, gated, running, reload>>
hist == <<since, before>>
vars == <<options, gated, running, reload, aggregate, fleet, listed, clock, due,
          since, before, runs, sent, warned, plain, changes>>

Coordinators == {"inventory", "state", "scan", "config"}
Kinds == Coordinators \cup {"setup", "location", "fallback"}

-------------------------------------------------------------------------------
(* The estimate *)

\* Mutants: the devices of the wireless requests are forgotten
EstimateMonthlyRequests_flat(o, supported) ==
  MonthSeconds \div o.inventory + (MonthSeconds * 2) \div o.state

\* estimate_monthly_requests: the whole part of
\*   month/inventory + month/state * calls,  in integers of 32 bits.
\* The code divides in floats, which may differ by one at a whole number.
EstimateMonthlyRequests(o, supported) ==
  LET calls == (IF supported THEN 1 ELSE o.devices) + o.devices
      rest  == (MonthSeconds % o.inventory) * o.state
               + ((MonthSeconds * calls) % o.state) * o.inventory
  IN  MonthSeconds \div o.inventory + (MonthSeconds * calls) \div o.state
      + rest \div (o.inventory * o.state)

AggregateSupported(matrix) == PathFor(matrix, "device_state_aggregate") # NoPath

\* load_endpoint_matrix with the option and what is at the path
Load(o, file) == IF o.spec THEN LoadEndpointMatrix(file) ELSE Frozen

\* async_step_init of the options flow: what it accepts
Accepts(o, file) ==
  EstimateMonthlyRequests(o, AggregateSupported(Load(o, file))) <= Ceiling

\* estimate_max_calls_per_cycle, less one: the devices of a cycle without an
\* aggregate path
PerCycle(o) ==
  LET cycles == Most(MonthSeconds \div o.state, 1)
  IN  Most(1, Most(1, Ceiling \div cycles) - 1)

-------------------------------------------------------------------------------
(* Steps *)

\* The requests the estimate is made for: no location, the aggregate endpoint
\* answers, and RMS lists no more devices than estimated, on one page
AsEstimated(o, g, a, n) ==
  g /\ ~o.location /\ a /\ n <= o.devices /\ n <= PageSize

\* The client fills in {id} and {device_id}: a file with other names, or with
\* a placeholder elsewhere than after a single "devices", gives paths it cannot
\* complete
Conforms(file) ==
  \A k \in 1..Len(file.items) :
    LET s == file.items[k].path.segments
    IN  \A i \in 1..Len(s) : s[i] \in Placeholders =>
          /\ s[i] = "id"
          /\ \A j \in 1..Len(s) : (s[j] = "devices") <=> (j = i - 1)

MadeOf(o, g, file) ==
  [options |-> o, gated |-> g, matrix |-> Load(o, file),
   conforms |-> o.spec => Conforms(file)]

\* async_setup_entry with the options o and what is at the path: the matrix, the
\* coordinators, all due at once, and async_validate_connection
SetUp(o, g, file) ==
  /\ running' = MadeOf(o, g, file)
  /\ reload' = FALSE
  /\ aggregate' = TRUE
  /\ listed' = 0
  /\ since' = clock
  /\ due' = [c \in Coordinators |-> clock]
  /\ runs' = [c \in Coordinators |-> 0]
  /\ warned' = FALSE

\* The options of an entry come from the config flow or from the options flow
Init ==
  /\ \E o \in Choices \cup {DefaultOptions}, file \in SpecFiles :
       /\ gated = (o # DefaultOptions)
       /\ gated => Accepts(o, file)
       /\ options = o
       /\ running = MadeOf(o, gated, file)
  /\ reload = FALSE
  /\ aggregate = TRUE
  /\ fleet \in Fleets
  /\ listed = 0
  /\ clock = 0
  /\ since = 0
  /\ before = [k \in Kinds |-> 0]
  /\ due = [c \in Coordinators |-> 0]
  /\ runs = [c \in Coordinators |-> 0]
  /\ sent = [k \in Kinds |-> IF k = "setup" THEN 1 ELSE 0]
  /\ warned = FALSE
  /\ plain = AsEstimated(options, gated, aggregate, fleet)
  /\ changes = 0

\* The user submits o and the flow accepts it.  An update listener runs only
\* when the options are others than before.
SaveOptions(o, file) ==
  /\ changes < MaxChanges
  /\ o # options \/ ~gated
  /\ Accepts(o, file)
  /\ options' = o
  /\ gated' = TRUE
  /\ reload' = (reload \/ o # options)
  /\ changes' = changes + 1
  /\ UNCHANGED <<running, aggregate, fleet, listed, clock, due, hist, runs, sent,
                 warned, plain>>

\* async_reload_entry: the file may have changed since the options flow read it
Reload(file) ==
  /\ reload
  /\ SetUp(options, gated, file)
  /\ before' = sent
  /\ sent' = [sent EXCEPT !["setup"] = @ + 1]
  /\ plain' = (plain /\ AsEstimated(options, gated, TRUE, fleet))
  /\ UNCHANGED <<options, gated, fleet, clock, changes>>

\* Mutant: the interval follows the options of the entry without a reload
Interval_live(c) ==
  IF c = "inventory" THEN Most(60, options.inventory)
  ELSE IF c = "state" THEN Most(60, options.state)
  ELSE PortInterval

\* The update_interval of each coordinator
Interval(c) ==
  IF c = "inventory" THEN Most(60, running.options.inventory)
  ELSE IF c = "state" THEN Most(60, running.options.state)
  ELSE PortInterval

\* Coordinator c refreshes and sends requests, a function from kinds.  Set-up
\* begins with the first listing.
Refresh(c, requests) ==
  /\ due[c] = clock
  /\ c # "inventory" => runs["inventory"] > 0
  /\ due' = [due EXCEPT ![c] = clock + Interval(c)]
  /\ runs' = [runs EXCEPT ![c] = @ + 1]
  /\ sent' = [k \in Kinds |-> IF k \in DOMAIN requests THEN sent[k] + requests[k]
                              ELSE sent[k]]
  /\ UNCHANGED <<config, fleet, clock, hist>>

\* InventoryCoordinator: one request for each page
RefreshInventory ==
  /\ Refresh("inventory",
             [inventory |-> Most(1, (fleet + PageSize - 1) \div PageSize)])
  /\ listed' = fleet
  /\ UNCHANGED <<aggregate, warned, plain, changes>>

\* Mutant: the warning estimates as if there were no aggregate path
LogBudgetWarning_single(o, matrix) ==
  EstimateMonthlyRequests(o, FALSE) > Ceiling

\* _log_budget_warning, with monthly_request_estimate
LogBudgetWarning(o, matrix) ==
  EstimateMonthlyRequests(o, AggregateSupported(matrix)) > Ceiling

\* The devices of the loops of one cycle
Slice == IF AggregateSupported(running.matrix) THEN listed
         ELSE Least(listed, PerCycle(running.options))

\* StateCoordinator asks the aggregate endpoint ...
AskAggregate == listed > 0 /\ AggregateSupported(running.matrix) /\ aggregate

\* ... or, when it has no answer and from then on, each device, and then for the
\* location and the wireless interfaces of each
RefreshState(answers) ==
  /\ ~answers => AskAggregate /\ changes < MaxChanges
  /\ Refresh("state",
             [state    |-> (IF AskAggregate THEN 1 ELSE 0) + Slice,
              fallback |-> IF AskAggregate /\ answers THEN 0 ELSE Slice,
              location |-> IF running.options.location THEN Slice ELSE 0])
  /\ aggregate' = (aggregate /\ answers)
  /\ plain' = (plain /\ answers)
  /\ changes' = IF answers THEN changes ELSE changes + 1
  /\ warned' = (warned \/ (listed > 0 /\ LogBudgetWarning(running.options, running.matrix)))
  /\ UNCHANGED listed

\* PortScanCoordinator and PortConfigCoordinator: one request for each device
RefreshPorts(c) ==
  /\ Refresh(c, [k \in {c} |-> listed])
  /\ UNCHANGED <<aggregate, listed, warned, plain, changes>>

\* Devices are added to RMS or taken from it
FleetChanges(n) ==
  /\ changes < MaxChanges
  /\ n # fleet
  /\ fleet' = n
  /\ plain' = (plain /\ AsEstimated(running.options, running.gated, aggregate, n))
  /\ changes' = changes + 1
  /\ UNCHANGED <<config, aggregate, listed, clock, due, hist, runs, sent, warned>>

\* Time passes until a coordinator is due, in this month
Tick ==
  /\ ~reload
  /\ \A c \in Coordinators : clock < due[c]
  /\ \E c \in Coordinators :
       /\ \A e \in Coordinators : due[c] <= due[e]
       /\ due[c] < MonthSeconds
       /\ clock' = due[c]
  /\ UNCHANGED <<config, aggregate, fleet, listed, due, hist, runs, sent, warned,
                 plain, changes>>

Next ==
  \/ \E o \in Choices, file \in SpecFiles : SaveOptions(o, file)
  \/ \E file \in SpecFiles : Reload(file)
  \/ RefreshInventory
  \/ \E answers \in BOOLEAN : RefreshState(answers)
  \/ \E c \in {"scan", "config"} : RefreshPorts(c)
  \/ \E n \in Fleets : FleetChanges(n)
  \/ Tick

Spec == Init /\ [][Next]_vars

-------------------------------------------------------------------------------
(* Properties *)

TypeOK ==
  /\ options \in Choices \cup {DefaultOptions} /\ gated \in BOOLEAN
  /\ running \in [options : Choices \cup {DefaultOptions}, gated : BOOLEAN,
                  matrix : [DOMAIN Frozen -> Path], conforms : BOOLEAN]
  /\ reload \in BOOLEAN /\ aggregate \in BOOLEAN /\ warned \in BOOLEAN /\ plain \in BOOLEAN
  /\ fleet \in Nat /\ listed \in Nat
  /\ clock \in Nat /\ since \in Nat
  /\ due \in [Coordinators -> Nat] /\ runs \in [Coordinators -> Nat]
  /\ sent \in [Kinds -> Nat] /\ before \in [Kinds -> Nat]
  /\ changes \in 0..MaxChanges

\* Requests of this month
Total == sent["inventory"] + sent["state"] + sent["scan"] + sent["config"]
         + sent["setup"] + sent["location"] + sent["fallback"]

\* The inductive invariant.  A coordinator has refreshed once for each interval
\* since set-up, and at set-up ...
ClockInv ==
  /\ since <= clock /\ clock < MonthSeconds
  /\ \A c \in Coordinators :
       /\ due[c] = since + runs[c] * Interval(c)
       /\ clock <= due[c] /\ due[c] <= clock + Interval(c)

\* ... options that are gated pass the check with the matrix in use ...
GateInv ==
  /\ gated => EstimateMonthlyRequests(options, TRUE) <= Ceiling
  /\ running.gated => EstimateMonthlyRequests(running.options, TRUE) <= Ceiling
  /\ running.gated => ~warned

\* ... every set-up but the first follows a change ...
SetUpInv ==
  /\ sent["setup"] = before["setup"] + 1
  /\ before["setup"] + (IF reload THEN 1 ELSE 0) <= changes

\* ... in a plain month each refresh since set-up has sent no more than the
\* estimate counts for it ...
Calls == 1 + Least(running.options.devices, PageSize)

CountInv ==
  plain =>
    /\ AsEstimated(running.options, running.gated, aggregate, fleet)
    /\ listed <= running.options.devices /\ listed <= PageSize
    /\ sent["location"] = 0 /\ sent["fallback"] = 0
    /\ sent["inventory"] = before["inventory"] + runs["inventory"]
    /\ sent["state"] <= before["state"] + runs["state"] * Calls
    /\ \A c \in {"scan", "config"} : sent[c] <= before[c] + runs[c] * PageSize

\* ... and up to set-up no more than the ceiling's share of the time passed,
\* beside the first refreshes after each earlier set-up.
BeforeInv ==
  plain =>
    /\ MonthSeconds * (before["inventory"] + before["state"])
         <= (Ceiling + 1) * since + MonthSeconds * (before["setup"] * (2 + PageSize))
    /\ \A c \in {"scan", "config"} :
         PortInterval * before[c] <= PageSize * (since + PortInterval * before["setup"])

IInv == TypeOK /\ ClockInv /\ GateInv /\ SetUpInv /\ CountInv /\ BeforeInv

\* Whatever is at the spec path, the matrix keeps the frozen keys and has no
\* others: the aggregate path is never missing, so that the budget slice of
\* StateCoordinator is never taken, and the path async_get_device_history looks
\* for is always missing, so that it returns [] without a request.
KeysAreFrozen ==
  /\ AggregateSupported(running.matrix)
  /\ PathFor(running.matrix, "device_history") = NoPath

\* The paths of all devices have nothing to fill in, and those of one device
\* nothing but what the client fills in
Complete(matrix) ==
  /\ \A key \in {"devices_list", "device_state_aggregate", "device_port_configurations"} :
       Unfilled(matrix[key], "none") = {}
  /\ \A key \in {"device_detail", "device_location", "device_state_single"} :
       Unfilled(matrix[key], "id") = {} /\ Unfilled(matrix[key], "none") # {}
  /\ Unfilled(matrix["device_wireless"], "device_id") = {}

\* With a file that names devices as the client does, every path is complete
\* once the client has filled in its device, and the one for all devices has
\* none to fill in, whichever candidates the file has for a key.
PathsConcrete == running.conforms => Complete(running.matrix)

\* Options that passed the check of the options flow never raise the warning of
\* the coordinator afterwards, although that estimates again, with its own
\* intervals and with the matrix of the client, whose file may have changed.
NoWarningAfterGate == running.gated => ~warned

\* The headroom covers what the estimate leaves out of it: a month with checked
\* options, no location, an aggregate endpoint that answers and no more devices
\* than estimated or than a page lists stays within the quota, with its port
\* refreshes, its set-ups and up to MaxChanges changes of options on the way.
WithinQuota == plain => Total <= MaxMonthly

\* docs/architecture/constraints.md: "The integration must respect RMS request
\* quotas", and the options flow has checked these options, for as many devices.
QuotaRespected ==
  gated /\ fleet <= running.options.devices => Total <= MaxMonthly
===============================================================================
