------------------------------ MODULE Entities ------------------------------
(***************************************************************************)
(* Discovery of entities (async_setup_platform_helper in entity.py and the *)
(* _discover_* functions of the platforms).  Each platform keeps a set of  *)
(* the unique ids it has added and looks for new ones when it is set up    *)
(* and whenever a coordinator it listens to publishes.  What it finds      *)
(* depends on the data of several coordinators; PoE power sensors merge    *)
(* the rows of the port scan into those of the port configuration, in the  *)
(* coordinator's own data, where the PoE switches look for them.           *)
(*                                                                         *)
(* An update runs the listeners one after another without an await, so a   *)
(* publication is one step.  Rows without a usable name or id ("NIL") are  *)
(* dropped by every reader and not modelled.                               *)
(***************************************************************************)
EXTENDS FiniteSets

CONSTANTS
  Devices,  \* device ids
  Names,    \* port names ("port1"), as in scans
  Factory,  \* those every TSW and SWM switch is taken to have
  Facts,    \* optional values RMS may know of a device
  PLATFORMS \* the platforms an entry sets up

Optional == {"diagnostic", "release", "location"}

AllPlatforms == {"binary_sensor", "sensor", "device_tracker", "button", "switch", "update"}

ASSUME EntitiesAssumption ==
  /\ Factory \subseteq Names
  /\ Facts \subseteq Optional
  /\ PLATFORMS \subseteq AllPlatforms

\* Port ids in the port configuration: a name, or "switch_" and the name
Ids == [name : Names, prefixed : BOOLEAN]
Bare(n) == [name |-> n, prefixed |-> FALSE]

\* "switch": TSW or SWM; "capable": another series is_poe_capable_series accepts
Models == {"switch", "capable", "other"}
Entries == [model : Models, has : SUBSET Facts]
Gone == [model |-> "gone", has |-> {}]

VARIABLES
  inventory,    \* inventory.data
  state,        \* state.data: does a device's record name a fact, perhaps as null
  config,       \* port_config.data: rows without PoE, with PoE, or naming it as
                \* null; "marked": a row the PoE sensors wrote into
  scan,         \* port_scan.data: the ports, those with "PoE (W)" apart
  platforms,    \* platforms set up
  sensorFirst,  \* the sensor platform was set up before the switch platform
  known,        \* unique ids added, of all platforms
  reported      \* history: ports RMS has given PoE data for

vars == <<inventory, state, config, scan, platforms, sensorFirst, known, reported>>

Uniques ==
  (Devices \X {"online", "standard", "reboot"}) \cup (Devices \X Facts)
    \cup (Devices \X {"link"} \X Names) \cup (Devices \X {"poe_w", "poe"} \X Ids)

Records == [Facts -> {"missing", "null", "value"}]
Given == {"none", "plain", "unset", "poe"}
Rows == [Devices -> [Ids -> Given \cup {"marked"}]]
Scans == [Devices -> [Names -> {"none", "port", "watts"}]]

TypeOK ==
  /\ inventory \in [Devices -> Entries \cup {Gone}]
  /\ state \in [Devices -> Records]
  /\ config \in Rows
  /\ scan \in Scans
  /\ platforms \subseteq PLATFORMS
  /\ sensorFirst \in BOOLEAN
  /\ known \subseteq Uniques
  /\ reported \subseteq Devices \X Ids

-------------------------------------------------------------------------------
(* What the coordinators' data say; the arguments are their four data *)

Listed(inv) == {d \in Devices : inv[d] # Gone}
PoeCapable(inv) == {d \in Listed(inv) : inv[d].model # "other"}

\* The facts of merged_device: what a state record names replaces the
\* inventory's value, with null as well
Merged(inv, st, d) ==
  {f \in Facts : st[d][f] = "value" \/ (st[d][f] = "missing" /\ f \in inv[d].has)}

\* The rows a platform starts from: a switch without any gets the factory ports
PortRows(inv, rows, d) ==
  IF inv[d].model = "switch" /\ \A i \in Ids : rows[d][i] = "none"
  THEN [i \in Ids |-> IF i \in {Bare(n) : n \in Factory} THEN "plain" ELSE "none"]
  ELSE rows[d]

Scanned(scn, d) == {n \in Names : scn[d][n] # "none"}
Powered(scn, d) == {Bare(n) : n \in {m \in Names : scn[d][m] = "watts"}}

\* _apply_scan_results writes into the rows of port_config.data themselves
Marked(inv, rows, scn) ==
  [d \in Devices |-> [i \in Ids |->
     IF d \in PoeCapable(inv) /\ i \in Powered(scn, d) /\ rows[d][i] \in {"plain", "unset"}
     THEN "marked" ELSE rows[d][i]]]

-------------------------------------------------------------------------------
(* Discovery, platform by platform *)

\* mutant: the "switch_" prefix is kept
LinkPorts_prefixed(inv, rows, scn, d) ==
  {i \in Ids : rows[d][i] # "none"} \cup Scanned(scn, d)

LinkPorts(inv, rows, scn, d) ==
  {i.name : i \in {j \in Ids : rows[d][j] # "none"}} \cup Scanned(scn, d)
    \cup (IF inv[d].model = "switch" THEN Factory ELSE {})

FindBinarySensors(inv, rows, scn) ==
  (Listed(inv) \X {"online"}) \cup
  UNION {{d} \X {"link"} \X LinkPorts(inv, rows, scn, d) : d \in Listed(inv)}

FindFact(inv, st, f) == {d \in Listed(inv) : f \in Merged(inv, st, d)} \X {f}

HasPoeData(row) == row \in {"poe", "marked"}

FindSensors(inv, st, rows, scn) ==
  (Listed(inv) \X {"standard"}) \cup FindFact(inv, st, "diagnostic") \cup
  UNION {{d} \X {"poe_w"} \X
           ({i \in Ids : HasPoeData(PortRows(inv, rows, d)[i])} \cup Powered(scn, d)) :
         d \in PoeCapable(inv)}

\* A setting that is named is enough for a switch, not for a sensor
SupportsPoe(row) == row \in {"unset", "poe", "marked"}

\* mutant: a port without PoE counts as one with it
FindSwitches_scan(inv, rows) ==
  UNION {{d} \X {"poe"} \X {i \in Ids : PortRows(inv, rows, d)[i] # "none"} :
         d \in PoeCapable(inv)}

\* Scanned ports are added as rows with nothing but an id
FindSwitches(inv, rows) ==
  UNION {{d} \X {"poe"} \X {i \in Ids : SupportsPoe(PortRows(inv, rows, d)[i])} :
         d \in PoeCapable(inv)}

FindReboots(inv) == Listed(inv) \X {"reboot"}

Find(p, inv, st, rows, scn) ==
  CASE p = "binary_sensor"  -> FindBinarySensors(inv, rows, scn)
    [] p = "sensor"         -> FindSensors(inv, st, rows, scn)
    [] p = "device_tracker" -> FindFact(inv, st, "location")
    [] p = "button"         -> FindReboots(inv)
    [] p = "switch"         -> FindSwitches(inv, rows)
    [] p = "update"         -> FindFact(inv, st, "release")

-------------------------------------------------------------------------------
(* Listeners *)

\* mutant: link states are looked for with the inventory only
Listens_links(c) ==
  CASE c = "inventory"   -> AllPlatforms \ {"button"}
    [] c = "state"       -> {"sensor", "device_tracker", "update"}
    [] c = "port_config" -> {"switch"}
    [] c = "port_scan"   -> {"sensor", "switch"}

\* mutant: sensors are not looked for with the state
Listens_state(c) ==
  CASE c = "inventory"   -> AllPlatforms \ {"button"}
    [] c = "state"       -> {"device_tracker", "update"}
    [] c = "port_config" -> {"switch"}
    [] c = "port_scan"   -> {"binary_sensor", "sensor", "switch"}

\* The platforms that listen to a coordinator
Listens(c) ==
  CASE c = "inventory"   -> AllPlatforms \ {"button"}
    [] c = "state"       -> {"sensor", "device_tracker", "update"}
    [] c = "port_config" -> {"switch"}
    [] c = "port_scan"   -> {"binary_sensor", "sensor", "switch"}

Reported(rows, scn) ==
  {u \in Devices \X Ids : rows[u[1]][u[2]] \in {"unset", "poe"} \/ u[2] \in Powered(scn, u[1])}

\* The platforms in ps look for entities, the others do not; the sensors mark
\* rows for whoever comes after them
Discover(ps, inv, st, rows, scn, first) ==
  LET marked == IF "sensor" \in ps THEN Marked(inv, rows, scn) ELSE rows
      Seen(p) == IF p = "switch" /\ ~first THEN rows ELSE marked
  IN  /\ inventory' = inv
      /\ state' = st
      /\ config' = marked
      /\ scan' = scn
      /\ known' = known \cup UNION {Find(p, inv, st, Seen(p), scn) : p \in ps}
      /\ reported' = reported \cup Reported(rows, scn)

Publish(c, inv, st, rows, scn) ==
  /\ Discover(platforms \cap Listens(c), inv, st, rows, scn, sensorFirst)
  /\ UNCHANGED <<platforms, sensorFirst>>

Init ==
  /\ inventory \in [Devices -> Entries \cup {Gone}]
  /\ state \in [Devices -> Records]
  /\ config = [d \in Devices |-> [i \in Ids |-> "none"]]
  /\ scan = [d \in Devices |-> [n \in Names |-> "none"]]
  /\ platforms = {}
  /\ sensorFirst = FALSE
  /\ known = {}
  /\ reported = {}

\* Platforms are set up in tasks of their own, in any order
SetUpPlatform ==
  \E p \in PLATFORMS \ platforms :
    /\ Discover({p}, inventory, state, config, scan, FALSE)
    /\ platforms' = platforms \cup {p}
    /\ sensorFirst' = IF p = "switch" THEN "sensor" \in platforms ELSE sensorFirst

PublishInventory ==
  \E inv \in [Devices -> Entries \cup {Gone}] :
    Publish("inventory", inv, state, config, scan)

PublishState ==
  \E st \in [Devices -> Records] : Publish("state", inventory, st, config, scan)

\* Only the sensors mark rows
PublishConfig ==
  \E rows \in [Devices -> [Ids -> Given]] :
    Publish("port_config", inventory, state, rows, scan)

PublishScan ==
  \E scn \in Scans : Publish("port_scan", inventory, state, config, scn)

Next ==
  \/ SetUpPlatform
  \/ PublishInventory
  \/ PublishState
  \/ PublishConfig
  \/ PublishScan

Spec == Init /\ [][Next]_vars

-------------------------------------------------------------------------------
(* Properties *)

LinksFound ==
  "binary_sensor" \in platforms =>
    \A d \in Listed(inventory) :
      /\ <<d, "online">> \in known
      /\ \A n \in Scanned(scan, d) : <<d, "link", n>> \in known

SensorsFound ==
  "sensor" \in platforms =>
    \A d \in Listed(inventory) :
      /\ <<d, "standard">> \in known
      /\ "diagnostic" \in Merged(inventory, state, d) => <<d, "diagnostic">> \in known
      /\ d \in PoeCapable(inventory) =>
           \A i \in Powered(scan, d) : <<d, "poe_w", i>> \in known

FactFound(p, f) ==
  p \in platforms =>
    \A d \in Listed(inventory) : f \in Merged(inventory, state, d) => <<d, f>> \in known

SwitchesFound ==
  "switch" \in platforms =>
    \A d \in PoeCapable(inventory), i \in Ids :
      config[d][i] \in {"unset", "poe"} => <<d, "poe", i>> \in known

\* A platform that is set up has entities for everything its own coordinators
\* report of the devices in the inventory, whichever of them published last
\* and however often devices came and went.
Discovered ==
  /\ LinksFound
  /\ SensorsFound
  /\ FactFound("device_tracker", "location")
  /\ FactFound("update", "release")
  /\ SwitchesFound

\* Neither the factory ports of a switch nor a scanned port make a PoE switch:
\* RMS has given PoE data for every port that has one, in its configuration or,
\* by way of the rows the sensors wrote into, in a scan.
SwitchesReported ==
  \A u \in Devices \X Ids : <<u[1], "poe", u[2]>> \in known => u \in reported

\* What makes it inductive: the rows with PoE data and the ports with power are
\* ports RMS has given PoE data for, those the sensors marked as well.
RowsReported ==
  \A d \in Devices, i \in Ids :
    SupportsPoe(config[d][i]) \/ i \in Powered(scan, d) => <<d, i>> \in reported

IInv ==
  /\ TypeOK
  /\ Discovered
  /\ RowsReported
  /\ SwitchesReported

\* The sensors do not listen to the port configuration; the state, polled far
\* more often, makes up for it: with its next publication every port with PoE
\* data in either source has a power sensor.
PowerSensorsFollow ==
  [][PublishState /\ "sensor" \in platforms =>
       \A d \in PoeCapable(inventory), i \in Ids :
         HasPoeData(config[d][i]) => <<d, "poe_w", i>> \in known']_vars

===============================================================================
