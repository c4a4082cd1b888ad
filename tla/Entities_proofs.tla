--------------------------- MODULE Entities_proofs ---------------------------
(***************************************************************************)
(* Proofs about Entities: IInv is inductive, for any number of devices and *)
(* ports and any set of platforms.                                         *)
(***************************************************************************)
EXTENDS Entities, TLAPS

-------------------------------------------------------------------------------
(* What the platforms find *)

\* Data of the four coordinators
Data(inv, st, rows, scn) ==
  /\ inv \in [Devices -> Entries \cup {Gone}]
  /\ st \in [Devices -> Records]
  /\ rows \in Rows
  /\ scn \in Scans

LEMMA BareIsId == \A n \in Names : Bare(n) \in Ids
BY DEF Bare, Ids

\* The sensors mark rows and do nothing else to them
LEMMA MarkedRows ==
  ASSUME NEW inv, NEW st, NEW rows, NEW scn, Data(inv, st, rows, scn)
  PROVE  /\ Marked(inv, rows, scn) \in Rows
         /\ \A d \in Devices, i \in Ids :
              /\ Marked(inv, rows, scn)[d][i] \in {rows[d][i], "marked"}
              /\ rows[d][i] = "poe" => Marked(inv, rows, scn)[d][i] = "poe"
              /\ Marked(inv, rows, scn)[d][i] = "marked" =>
                   rows[d][i] = "marked" \/ i \in Powered(scn, d)
<1>1. \A d \in Devices : rows[d] \in [Ids -> Given \cup {"marked"}]
  BY DEF Data, Rows
<1>2. QED BY <1>1 DEF Marked, Rows, Given

LEMMA PortRowsPoe ==
  ASSUME NEW inv, NEW st, NEW rows, NEW scn, Data(inv, st, rows, scn),
         NEW d \in Devices, NEW i \in Ids
  PROVE  /\ SupportsPoe(PortRows(inv, rows, d)[i]) <=> SupportsPoe(rows[d][i])
         /\ HasPoeData(PortRows(inv, rows, d)[i]) <=> HasPoeData(rows[d][i])
<1>1. CASE inv[d].model = "switch" /\ \A j \in Ids : rows[d][j] = "none"
  BY <1>1 DEF PortRows, SupportsPoe, HasPoeData
<1>2. CASE ~(inv[d].model = "switch" /\ \A j \in Ids : rows[d][j] = "none")
  BY <1>2 DEF PortRows
<1>3. QED BY <1>1, <1>2

LEMMA LinkPortsTypes ==
  ASSUME NEW inv, NEW st, NEW rows, NEW scn, Data(inv, st, rows, scn), NEW d \in Devices
  PROVE  LinkPorts(inv, rows, scn, d) \subseteq Names
BY EntitiesAssumption DEF LinkPorts, Ids, Scanned

LEMMA PoweredTypes == \A scn, d : Powered(scn, d) \subseteq Ids
BY BareIsId DEF Powered

LEMMA FindTypes ==
  ASSUME NEW inv, NEW st, NEW rows, NEW scn, Data(inv, st, rows, scn),
         NEW p \in AllPlatforms
  PROVE  Find(p, inv, st, rows, scn) \subseteq Uniques
<1> USE DEF Uniques
<1>1. FindBinarySensors(inv, rows, scn) \subseteq Uniques
  BY LinkPortsTypes DEF FindBinarySensors, Listed
<1>2. \A f : FindFact(inv, st, f) \subseteq Uniques
  BY DEF FindFact, Listed, Merged
<1>3. FindSensors(inv, st, rows, scn) \subseteq Uniques
  BY <1>2, PoweredTypes DEF FindSensors, Listed, PoeCapable
<1>4. FindSwitches(inv, rows) \subseteq Uniques
  BY DEF FindSwitches, PoeCapable, Listed
<1>5. FindReboots(inv) \subseteq Uniques
  BY DEF FindReboots, Listed
<1>6. QED BY <1>1, <1>2, <1>3, <1>4, <1>5 DEF Find, AllPlatforms

\* What Discover leaves behind, seen from outside
LEMMA DiscoverEffect ==
  ASSUME IInv, NEW inv, NEW st, NEW rows, NEW scn, Data(inv, st, rows, scn),
         NEW ps \in SUBSET PLATFORMS, NEW first, Discover(ps, inv, st, rows, scn, first)
  PROVE  /\ inventory' = inv /\ state' = st /\ scan' = scn
         /\ config' \in Rows
         /\ \A d \in Devices, i \in Ids :
              /\ config'[d][i] \in {rows[d][i], "marked"}
              /\ rows[d][i] = "poe" => config'[d][i] = "poe"
              /\ config'[d][i] = "marked" => rows[d][i] = "marked" \/ i \in Powered(scn, d)
         /\ known \subseteq known' /\ known' \subseteq Uniques
         /\ reported' = reported \cup Reported(rows, scn)
         /\ reported' \subseteq Devices \X Ids
         /\ \A p \in ps : \E seen \in {rows, config'} :
              Find(p, inv, st, seen, scn) \subseteq known'
         /\ \A u \in known' : u \in known \/
              \E p \in ps, seen \in {rows, config'} : u \in Find(p, inv, st, seen, scn)
<1> DEFINE marked == IF "sensor" \in ps THEN Marked(inv, rows, scn) ELSE rows
           Seen(p) == IF p = "switch" /\ ~first THEN rows ELSE marked
<1>1. inventory' = inv /\ state' = st /\ scan' = scn /\ config' = marked
  BY DEF Discover
<1>2. known' = known \cup UNION {Find(p, inv, st, Seen(p), scn) : p \in ps}
  BY DEF Discover
<1>3. marked \in Rows /\ \A d \in Devices, i \in Ids :
        /\ marked[d][i] \in {rows[d][i], "marked"}
        /\ rows[d][i] = "poe" => marked[d][i] = "poe"
        /\ marked[d][i] = "marked" => rows[d][i] = "marked" \/ i \in Powered(scn, d)
  BY MarkedRows DEF Data
<1>4. \A p : Seen(p) \in {rows, config'}
  BY <1>1
<1>5. reported' = reported \cup Reported(rows, scn)
  BY DEF Discover
<1>6. \A p \in ps : Find(p, inv, st, Seen(p), scn) \subseteq Uniques
  <2> TAKE p \in ps
  <2>1. Data(inv, st, Seen(p), scn) BY <1>3 DEF Data
  <2>2. p \in AllPlatforms BY EntitiesAssumption
  <2>3. QED BY <2>1, <2>2, FindTypes
<1> HIDE DEF marked, Seen
<1>7. known \subseteq known' /\ known' \subseteq Uniques
  BY <1>2, <1>6 DEF IInv, TypeOK
<1>8. reported' \subseteq Devices \X Ids
  BY <1>5 DEF IInv, TypeOK, Reported
<1>9. \A p \in ps : Find(p, inv, st, Seen(p), scn) \subseteq known'
  BY <1>2
<1>10. \A u \in known' : u \in known \/ \E p \in ps : u \in Find(p, inv, st, Seen(p), scn)
  BY <1>2
<1>11. config' \in Rows /\ \A d \in Devices, i \in Ids :
        /\ config'[d][i] \in {rows[d][i], "marked"}
        /\ rows[d][i] = "poe" => config'[d][i] = "poe"
        /\ config'[d][i] = "marked" => rows[d][i] = "marked" \/ i \in Powered(scn, d)
  BY <1>1, <1>3
<1>12. QED BY <1>1, <1>4, <1>5, <1>7, <1>8, <1>9, <1>10, <1>11

\* The last fact of DiscoverEffect alone
LEMMA Looked ==
  ASSUME IInv, NEW inv, NEW st, NEW rows, NEW scn, Data(inv, st, rows, scn),
         NEW ps \in SUBSET PLATFORMS, NEW first, Discover(ps, inv, st, rows, scn, first),
         NEW p \in ps
  PROVE  \E seen \in {rows, config'} : Find(p, inv, st, seen, scn) \subseteq known'
BY DiscoverEffect

LEMMA FindIs ==
  ASSUME NEW inv, NEW st, NEW rows, NEW scn
  PROVE  /\ Find("binary_sensor", inv, st, rows, scn) = FindBinarySensors(inv, rows, scn)
         /\ Find("sensor", inv, st, rows, scn) = FindSensors(inv, st, rows, scn)
         /\ Find("device_tracker", inv, st, rows, scn) = FindFact(inv, st, "location")
         /\ Find("switch", inv, st, rows, scn) = FindSwitches(inv, rows)
         /\ Find("update", inv, st, rows, scn) = FindFact(inv, st, "release")
BY DEF Find

-------------------------------------------------------------------------------
(* Each part of Discovered, over one run of discovery.  The platform looks, or *)
(* it was not set up and still is not, or nothing it goes by has changed.      *)

LEMMA LinksStep ==
  ASSUME IInv, NEW inv, NEW st, NEW rows, NEW scn, Data(inv, st, rows, scn),
         NEW ps \in SUBSET PLATFORMS, NEW first, Discover(ps, inv, st, rows, scn, first),
         \/ "binary_sensor" \in ps
         \/ "binary_sensor" \notin platforms'
         \/ "binary_sensor" \in platforms /\ inv = inventory /\ scn = scan
  PROVE  LinksFound'
<1>1. inventory' = inv /\ scan' = scn /\ known \subseteq known'
  BY DiscoverEffect
<1>2. CASE "binary_sensor" \in ps
  <2>1. \E seen : FindBinarySensors(inv, seen, scn) \subseteq known'
    <3>1. PICK seen \in {rows, config'} : Find("binary_sensor", inv, st, seen, scn) \subseteq known'
      BY <1>2, Looked
    <3>2. QED BY <3>1, FindIs
  <2>2. \A seen : \A d \in Listed(inv) :
          /\ <<d, "online">> \in FindBinarySensors(inv, seen, scn)
          /\ \A n \in Scanned(scn, d) : <<d, "link", n>> \in FindBinarySensors(inv, seen, scn)
    BY DEF FindBinarySensors, LinkPorts
  <2>3. QED BY <1>1, <2>1, <2>2 DEF LinksFound, Listed, Scanned
<1>3. CASE "binary_sensor" \in platforms /\ inv = inventory /\ scn = scan
  <2>1. LinksFound BY DEF IInv, Discovered
  <2>2. QED BY <1>1, <1>3, <2>1 DEF LinksFound, Listed, Scanned
<1>4. QED BY <1>2, <1>3 DEF LinksFound

LEMMA SensorsStep ==
  ASSUME IInv, NEW inv, NEW st, NEW rows, NEW scn, Data(inv, st, rows, scn),
         NEW ps \in SUBSET PLATFORMS, NEW first, Discover(ps, inv, st, rows, scn, first),
         \/ "sensor" \in ps
         \/ "sensor" \notin platforms'
         \/ "sensor" \in platforms /\ inv = inventory /\ st = state /\ scn = scan
  PROVE  SensorsFound'
<1>1. inventory' = inv /\ state' = st /\ scan' = scn /\ known \subseteq known'
  BY DiscoverEffect
<1>2. CASE "sensor" \in ps
  <2>1. \E seen : FindSensors(inv, st, seen, scn) \subseteq known'
    <3>1. PICK seen \in {rows, config'} : Find("sensor", inv, st, seen, scn) \subseteq known'
      BY <1>2, Looked
    <3>2. QED BY <3>1, FindIs
  <2>2. \A seen : \A d \in Listed(inv) :
          /\ <<d, "standard">> \in FindSensors(inv, st, seen, scn)
          /\ "diagnostic" \in Merged(inv, st, d) =>
               <<d, "diagnostic">> \in FindSensors(inv, st, seen, scn)
          /\ d \in PoeCapable(inv) => \A i \in Powered(scn, d) :
               <<d, "poe_w", i>> \in FindSensors(inv, st, seen, scn)
    BY DEF FindSensors, FindFact
  <2>3. QED BY <1>1, <2>1, <2>2 DEF SensorsFound, Listed, PoeCapable, Powered, Merged
<1>3. CASE "sensor" \in platforms /\ inv = inventory /\ st = state /\ scn = scan
  <2>1. SensorsFound BY DEF IInv, Discovered
  <2>2. QED BY <1>1, <1>3, <2>1 DEF SensorsFound, Listed, PoeCapable, Powered, Merged
<1>4. QED BY <1>2, <1>3 DEF SensorsFound

LEMMA FactStep ==
  ASSUME IInv, NEW inv, NEW st, NEW rows, NEW scn, Data(inv, st, rows, scn),
         NEW ps \in SUBSET PLATFORMS, NEW first, Discover(ps, inv, st, rows, scn, first),
         NEW p, NEW f,
         \A seen : Find(p, inv, st, seen, scn) = FindFact(inv, st, f),
         FactFound(p, f),
         \/ p \in ps
         \/ p \notin platforms'
         \/ p \in platforms /\ inv = inventory /\ st = state
  PROVE  FactFound(p, f)'
<1>1. inventory' = inv /\ state' = st /\ known \subseteq known'
  BY DiscoverEffect
<1>2. CASE p \in ps
  <2>1. FindFact(inv, st, f) \subseteq known'
    <3>1. PICK seen \in {rows, config'} : Find(p, inv, st, seen, scn) \subseteq known'
      BY <1>2, Looked
    <3>2. QED BY <3>1
  <2>2. QED BY <1>1, <2>1 DEF FactFound, FindFact, Listed, Merged
<1>3. CASE p \in platforms /\ inv = inventory /\ st = state
  BY <1>1, <1>3 DEF FactFound, Listed, Merged
<1>4. QED BY <1>2, <1>3 DEF FactFound

LEMMA SwitchesStep ==
  ASSUME IInv, NEW inv, NEW st, NEW rows, NEW scn, Data(inv, st, rows, scn),
         NEW ps \in SUBSET PLATFORMS, NEW first, Discover(ps, inv, st, rows, scn, first),
         \/ "switch" \in ps
         \/ "switch" \notin platforms'
         \/ "switch" \in platforms /\ inv = inventory /\ rows = config
  PROVE  SwitchesFound'
<1>1. /\ inventory' = inv /\ known \subseteq known' /\ config' \in Rows
      /\ \A d \in Devices, i \in Ids : config'[d][i] \in {rows[d][i], "marked"}
  BY DiscoverEffect
<1>2. CASE "switch" \in ps
  <2>1. PICK seen \in {rows, config'} : FindSwitches(inv, seen) \subseteq known'
    <3>1. PICK seen \in {rows, config'} : Find("switch", inv, st, seen, scn) \subseteq known'
      BY <1>2, Looked
    <3>2. QED BY <3>1, FindIs
  <2>2. Data(inv, st, seen, scn) BY <1>1 DEF Data
  <2>3. \A d \in PoeCapable(inv), i \in Ids :
          SupportsPoe(rows[d][i]) => SupportsPoe(PortRows(inv, seen, d)[i])
    BY <1>1, <2>2, PortRowsPoe DEF SupportsPoe, PoeCapable, Listed
  <2>4. \A d \in PoeCapable(inv), i \in Ids :
          SupportsPoe(rows[d][i]) => <<d, "poe", i>> \in FindSwitches(inv, seen)
    BY <2>3 DEF FindSwitches
  <2>5. QED BY <1>1, <2>1, <2>4 DEF SwitchesFound, PoeCapable, Listed, SupportsPoe
<1>3. CASE "switch" \in platforms /\ inv = inventory /\ rows = config
  <2>1. SwitchesFound BY DEF IInv, Discovered
  <2>2. \A d \in Devices, i \in Ids :
          config'[d][i] \in {"unset", "poe"} => config[d][i] \in {"unset", "poe"}
    BY <1>1, <1>3
  <2>3. QED BY <2>2, <1>1, <1>3, <2>1 DEF SwitchesFound, PoeCapable, Listed
<1>4. QED BY <1>2, <1>3 DEF SwitchesFound

LEMMA ReportedStep ==
  ASSUME IInv, NEW inv, NEW st, NEW rows, NEW scn, Data(inv, st, rows, scn),
         NEW ps \in SUBSET PLATFORMS, NEW first, Discover(ps, inv, st, rows, scn, first),
         \/ rows = config
         \/ \A d \in Devices, i \in Ids : rows[d][i] # "marked"
  PROVE  RowsReported' /\ SwitchesReported'
<1>1. /\ inventory' = inv /\ scan' = scn /\ config' \in Rows
      /\ \A d \in Devices, i \in Ids :
           /\ config'[d][i] \in {rows[d][i], "marked"}
           /\ config'[d][i] = "marked" => rows[d][i] = "marked" \/ i \in Powered(scn, d)
      /\ reported' = reported \cup Reported(rows, scn)
  BY DiscoverEffect
<1>2. \A d \in Devices, i \in Ids :
        SupportsPoe(rows[d][i]) \/ SupportsPoe(config'[d][i]) \/ i \in Powered(scn, d)
          => <<d, i>> \in reported'
  BY <1>1 DEF IInv, RowsReported, Reported, SupportsPoe
<1>3. RowsReported'
  BY <1>1, <1>2 DEF RowsReported, Powered
<1>4. SwitchesReported'
  <2> SUFFICES ASSUME NEW d \in Devices, NEW i \in Ids, <<d, "poe", i>> \in known'
               PROVE  <<d, i>> \in reported'
    BY DEF SwitchesReported
  <2>1. CASE <<d, "poe", i>> \in known
    BY <1>1, <2>1 DEF IInv, SwitchesReported
  <2>2. ASSUME NEW p \in ps, NEW seen \in {rows, config'},
               <<d, "poe", i>> \in Find(p, inv, st, seen, scn)
        PROVE  <<d, i>> \in reported'
    <3>1. p = "switch"
      BY <2>2, EntitiesAssumption DEF Find, AllPlatforms, FindBinarySensors, FindSensors,
           FindFact, FindReboots
    <3>2. SupportsPoe(PortRows(inv, seen, d)[i])
      BY <2>2, <3>1 DEF Find, FindSwitches
    <3>3. Data(inv, st, seen, scn) BY <1>1 DEF Data
    <3>4. SupportsPoe(seen[d][i]) BY <3>2, <3>3, PortRowsPoe
    <3>5. QED BY <1>2, <3>4
  <2>3. QED BY <2>1, <2>2, DiscoverEffect
<1>5. QED BY <1>3, <1>4

LEMMA DiscoveryStep ==
  ASSUME IInv, NEW inv, NEW st, NEW rows, NEW scn, Data(inv, st, rows, scn),
         NEW ps \in SUBSET PLATFORMS, NEW first, Discover(ps, inv, st, rows, scn, first),
         platforms' \subseteq PLATFORMS, sensorFirst' \in BOOLEAN,
         \A p \in platforms' : p \in ps \/
           /\ p \in platforms
           /\ p # "button" => inv = inventory
           /\ p \in {"sensor", "device_tracker", "update"} => st = state
           /\ p = "switch" => rows = config
           /\ p \in {"binary_sensor", "sensor"} => scn = scan,
         \/ rows = config
         \/ \A d \in Devices, i \in Ids : rows[d][i] # "marked"
  PROVE  IInv'
<1>1. TypeOK'
  <2>1. /\ inventory' = inv /\ state' = st /\ scan' = scn /\ config' \in Rows
        /\ known' \subseteq Uniques /\ reported' \subseteq Devices \X Ids
    BY DiscoverEffect
  <2>2. QED BY <2>1 DEF TypeOK, Data
<1>2. LinksFound' BY LinksStep
<1>3. SensorsFound' BY SensorsStep
<1>4. FactFound("device_tracker", "location")'
  <2>1. FactFound("device_tracker", "location") BY DEF IInv, Discovered
  <2>2. \A seen : Find("device_tracker", inv, st, seen, scn) = FindFact(inv, st, "location")
    BY FindIs
  <2>3. QED BY <2>1, <2>2, FactStep
<1>5. FactFound("update", "release")'
  <2>1. FactFound("update", "release") BY DEF IInv, Discovered
  <2>2. \A seen : Find("update", inv, st, seen, scn) = FindFact(inv, st, "release")
    BY FindIs
  <2>3. QED BY <2>1, <2>2, FactStep
<1>6. SwitchesFound' BY SwitchesStep
<1>7. RowsReported' /\ SwitchesReported' BY ReportedStep
<1>8. QED BY <1>1, <1>2, <1>3, <1>4, <1>5, <1>6, <1>7 DEF IInv, Discovered

LEMMA OwnData == IInv => Data(inventory, state, config, scan)
BY DEF IInv, TypeOK, Data

LEMMA SetUpKeeps ==
  ASSUME IInv, SetUpPlatform
  PROVE  IInv'
<1>1. PICK p \in PLATFORMS \ platforms :
        /\ Discover({p}, inventory, state, config, scan, FALSE)
        /\ platforms' = platforms \cup {p}
        /\ sensorFirst' = IF p = "switch" THEN "sensor" \in platforms ELSE sensorFirst
  BY DEF SetUpPlatform
<1>2. platforms' \subseteq PLATFORMS
  BY <1>1 DEF IInv, TypeOK
<1>3. sensorFirst' \in BOOLEAN
  <2>1. CASE p = "switch" BY <1>1, <2>1
  <2>2. CASE p # "switch" BY <1>1, <2>2 DEF IInv, TypeOK
  <2>3. QED BY <2>1, <2>2
<1>4. QED BY <1>1, <1>2, <1>3, OwnData, DiscoveryStep

\* A publication reaches every platform that goes by what it changes
LEMMA PublishKeeps ==
  ASSUME IInv, NEW c \in {"inventory", "state", "port_config", "port_scan"},
         NEW inv, NEW st, NEW rows, NEW scn, Data(inv, st, rows, scn),
         Publish(c, inv, st, rows, scn),
         c = "inventory" \/ inv = inventory,
         c = "state" \/ st = state,
         c = "port_config" \/ rows = config,
         c = "port_scan" \/ scn = scan,
         rows = config \/ \A d \in Devices, i \in Ids : rows[d][i] # "marked"
  PROVE  IInv'
<1> DEFINE ps == platforms \cap Listens(c)
<1>1. /\ Discover(ps, inv, st, rows, scn, sensorFirst)
      /\ platforms' = platforms /\ sensorFirst' = sensorFirst
  BY DEF Publish
<1>2. ps \in SUBSET PLATFORMS /\ platforms' \subseteq PLATFORMS /\ sensorFirst' \in BOOLEAN
  BY <1>1 DEF IInv, TypeOK
<1>3. \A p \in platforms' : p \in ps \/
        /\ p \in platforms
        /\ p # "button" => inv = inventory
        /\ p \in {"sensor", "device_tracker", "update"} => st = state
        /\ p = "switch" => rows = config
        /\ p \in {"binary_sensor", "sensor"} => scn = scan
  <2>1. \A p \in platforms : p \in AllPlatforms BY EntitiesAssumption DEF IInv, TypeOK
  <2>2. CASE c = "inventory" BY <1>1, <2>1, <2>2 DEF Listens, AllPlatforms
  <2>3. CASE c = "state" BY <1>1, <2>1, <2>3 DEF Listens, AllPlatforms
  <2>4. CASE c = "port_config" BY <1>1, <2>1, <2>4 DEF Listens, AllPlatforms
  <2>5. CASE c = "port_scan" BY <1>1, <2>1, <2>5 DEF Listens, AllPlatforms
  <2>6. QED BY <2>2, <2>3, <2>4, <2>5
<1> HIDE DEF ps
<1>4. QED BY <1>1, <1>2, <1>3, DiscoveryStep

LEMMA NextKeeps == IInv /\ [Next]_vars => IInv'
<1>1. ASSUME IInv, UNCHANGED vars
      PROVE  IInv'
  <2>1. UNCHANGED <<inventory, state, config, scan, platforms, sensorFirst, known, reported>>
    BY <1>1 DEF vars
  <2>2. TypeOK' BY <1>1, <2>1 DEF IInv, TypeOK
  <2>3. Discovered'
    BY <1>1, <2>1 DEF IInv, Discovered, LinksFound, SensorsFound, FactFound, SwitchesFound
  <2>4. RowsReported' /\ SwitchesReported'
    BY <1>1, <2>1 DEF IInv, RowsReported, SwitchesReported
  <2>5. QED BY <2>2, <2>3, <2>4 DEF IInv
<1>2. ASSUME IInv, PublishInventory
      PROVE  IInv'
  BY <1>2, OwnData, PublishKeeps DEF PublishInventory, Data
<1>3. ASSUME IInv, PublishState
      PROVE  IInv'
  BY <1>3, OwnData, PublishKeeps DEF PublishState, Data
<1>4. ASSUME IInv, PublishConfig
      PROVE  IInv'
  <2>1. PICK rows \in [Devices -> [Ids -> Given]] :
          Publish("port_config", inventory, state, rows, scan)
    BY <1>4 DEF PublishConfig
  <2>2. rows \in Rows /\ \A d \in Devices, i \in Ids : rows[d][i] # "marked"
    BY <2>1 DEF Rows, Given
  <2>3. QED BY <1>4, <2>1, <2>2, OwnData, PublishKeeps DEF Data
<1>5. ASSUME IInv, PublishScan
      PROVE  IInv'
  BY <1>5, OwnData, PublishKeeps DEF PublishScan, Data
<1>6. QED BY <1>1, <1>2, <1>3, <1>4, <1>5, SetUpKeeps DEF Next

LEMMA InitHolds == Init => IInv
<1> SUFFICES ASSUME Init PROVE IInv OBVIOUS
<1>1. TypeOK BY DEF Init, TypeOK, Rows, Given, Scans
<1>2. Discovered BY DEF Init, Discovered, LinksFound, SensorsFound, FactFound, SwitchesFound
<1>3. RowsReported /\ SwitchesReported
  BY DEF Init, RowsReported, SwitchesReported, SupportsPoe, Powered, Bare, Ids
<1>4. QED BY <1>1, <1>2, <1>3 DEF IInv

-------------------------------------------------------------------------------
\* The invariant holds for any devices, ports and platforms.
THEOREM Inductive == Spec => []IInv
BY InitHolds, NextKeeps, PTL DEF Spec

\* The data and the added ids keep their types: no platform adds an id of
\* another shape.
THEOREM TypeCorrect == Spec => []TypeOK
<1>1. IInv => TypeOK BY DEF IInv
<1>2. QED BY <1>1, Inductive, PTL

\* In whatever order the platforms are set up and the coordinators publish,
\* nothing a platform's own coordinators report goes without its entity.
THEOREM NothingMissed == Spec => []Discovered
<1>1. IInv => Discovered BY DEF IInv
<1>2. QED BY <1>1, Inductive, PTL

\* A PoE switch exists only for a port RMS has given PoE data for, although the
\* sensors write into the rows the switches are made from.
THEOREM NoSpuriousSwitch == Spec => []SwitchesReported
<1>1. IInv => SwitchesReported BY DEF IInv
<1>2. QED BY <1>1, Inductive, PTL

\* The state's listener makes up for the one the sensors do not have on the port
\* configuration.
THEOREM SensorsCatchUp == Spec => PowerSensorsFollow
<1>1. ASSUME IInv, PublishState, "sensor" \in platforms,
             NEW d \in PoeCapable(inventory), NEW i \in Ids, HasPoeData(config[d][i])
      PROVE  <<d, "poe_w", i>> \in known'
  <2>1. PICK st \in [Devices -> Records] : Publish("state", inventory, st, config, scan)
    BY <1>1 DEF PublishState
  <2> DEFINE ps == platforms \cap Listens("state")
  <2>2. /\ Discover(ps, inventory, st, config, scan, sensorFirst)
        /\ ps \in SUBSET PLATFORMS /\ "sensor" \in ps
    BY <1>1, <2>1 DEF Publish, Listens, IInv, TypeOK
  <2>3. Data(inventory, st, config, scan) BY <1>1, <2>1, OwnData DEF Data
  <2> HIDE DEF ps
  <2>4. PICK seen \in {config, config'} :
          Find("sensor", inventory, st, seen, scan) \subseteq known'
    BY <1>1, <2>2, <2>3, Looked
  <2>5. /\ config' \in Rows
        /\ \A j \in Ids : config[d][j] = "poe" => config'[d][j] = "poe"
    BY <1>1, <2>2, <2>3, DiscoverEffect DEF PoeCapable, Listed
  <2>6. config[d][i] = "marked" => config'[d][i] = "marked"
    BY <1>1, <2>2 DEF Discover, Marked, PoeCapable, Listed
  <2>7. HasPoeData(seen[d][i]) /\ Data(inventory, st, seen, scan)
    BY <1>1, <2>3, <2>5, <2>6 DEF HasPoeData, Data
  <2>8. HasPoeData(PortRows(inventory, seen, d)[i])
    BY <2>7, PortRowsPoe DEF PoeCapable, Listed
  <2>9. <<d, "poe_w", i>> \in FindSensors(inventory, st, seen, scan)
    BY <1>1, <2>8 DEF FindSensors
  <2>10. QED BY <2>4, <2>9, FindIs
<1>2. IInv => (PublishState /\ "sensor" \in platforms =>
                 \A d \in PoeCapable(inventory), i \in Ids :
                   HasPoeData(config[d][i]) => <<d, "poe_w", i>> \in known')
  BY <1>1
<1>3. QED BY <1>2, Inductive, PTL DEF PowerSensorsFollow

===============================================================================
