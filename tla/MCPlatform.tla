------------------------------ MODULE MCPlatform ------------------------------
(* Instances for TLC of the components that share nothing but the database.   *)
(* No two of them have a variable in common, so that interleaving them would  *)
(* only multiply their states: a behaviour moves the component in focus.      *)
EXTENDS Supervision, ConfigVersions, AuditChain, Commissioning, Archiving, Automation,
        Placement, IfcImport, Diagnostics, Timeline, AssetGraph, AssetRecords,
        EdgeDevices, EdgeCycle, Filing, Energy, EquipmentStatus, FieldTest, Migrations,
        PointVocabulary, TLC

CONSTANTS
    pB, pF, pE,     \* elements of the file that is imported
    n1, n2, n3      \* nodes of the graph

VARIABLE focus

(* A building of the file, one floor of it, an equipment of the floor. *)
MCHeld ==
    [c \in {pB, pF, pE} |->
        CASE c = pB -> [type |-> "building", within |-> NoNode]
          [] c = pF -> [type |-> "floor", within |-> pB]
          [] c = pE -> [type |-> "equipment", within |-> pF]]

(* Two equipments and a space. *)
MCNodeTypes ==
    n1 :> "functional_location" @@ n2 :> "functional_location" @@ n3 :> "space"

(* A cycle of two, and a node that may depend on one of them. *)
MCPairs == {<<n1, n2>>, <<n2, n1>>, <<n3, n2>>}

(* A temperature, in degrees above the desired one, the command of its        *)
(* cooling, a level and a running state.                                      *)
MCPoints ==
    [temp |-> [type |-> "number", kind |-> "sensor", interval |-> 1, validated |-> TRUE,
               values |-> {0, 2, 5}],
     level |-> [type |-> "number", kind |-> "sensor", interval |-> 0, validated |-> TRUE,
                values |-> {0, 2, 5}],
     cool |-> [type |-> "number", kind |-> "command", interval |-> 1, validated |-> TRUE,
               values |-> {2}],
     run |-> [type |-> "boolean", kind |-> "status", interval |-> 0, validated |-> TRUE,
              values |-> {0, 1}]]

(* The windows of three instants of level and run hold four readings, one     *)
(* more than HistoryLimit.                                                    *)
MCRules ==
    [high |-> [kind |-> "threshold", point |-> "temp", operator |-> ">", threshold |-> 1],
     trend |-> [kind |-> "trend_projection", point |-> "temp", operator |-> ">",
                threshold |-> 4, window |-> 3, horizon |-> 2],
     falls |-> [kind |-> "trend_projection", point |-> "level", operator |-> "<",
                threshold |-> 1, window |-> 3, horizon |-> 2],
     anomaly |-> [kind |-> "statistical_anomaly", point |-> "temp", window |-> 4,
                  min_samples |-> 2, deviation |-> 1],
     drift |-> [kind |-> "baseline_drift", point |-> "level", recent |-> 1, reference |-> 2,
                min_samples |-> 2, deviation |-> 1],
     diverges |-> [kind |-> "desired_state_divergence", point |-> "temp", tolerance |-> 1],
     both |-> [kind |-> "simultaneous_heating_cooling", heating |-> "temp",
               cooling |-> "cool", heating_threshold |-> 1, cooling_threshold |-> 0],
     cycles |-> [kind |-> "short_cycling", point |-> "run", max_starts |-> 1, window |-> 2],
     cycles_long |-> [kind |-> "short_cycling", point |-> "run", max_starts |-> 1,
                      window |-> 3]]

(* Nothing is expected from the third to the first instant of a day.  The     *)
(* first expectation was declared again for the same date.                    *)
Expected(value, recorded) ==
    [point |-> "temp", value |-> value, from |-> 0, to |-> 9, recorded |-> recorded,
     daily |-> TRUE, start |-> 3, end |-> 1]
MCDesired == {Expected(5, 1), Expected(0, 2)}

MCMax == [temp |-> 3, level |-> 4, cool |-> 1, run |-> 4]
MCTogether == {{"temp", "cool"}, {"level"}, {"run"}}

(* A meter replaced or reset by the third instant, whose register is then     *)
(* still above, or below, the value read before.                              *)
MCReset == [used |-> 0 :> 0 @@ 1 :> 1 @@ 2 :> 4, register |-> 0 :> 0 @@ 1 :> 1 @@ 2 :> 2]
MCCourses ==
    {MCReset,
     [used |-> 0 :> 2 @@ 1 :> 3 @@ 2 :> 5, register |-> 0 :> 2 @@ 1 :> 3 @@ 2 :> 1]}
MCPeriods == {<<1, 1>>}

(* Two running states of an equipment, one of which is always recent enough,  *)
(* and a temperature of each of four points, the last one not validated.      *)
StatusPoint(e, class, interval, order, validated) ==
    [location |-> e, class |-> class, interval |-> interval, order |-> order,
     validated |-> validated]
MCStatusTable ==
    [run |-> StatusPoint("e1", "run_status", 1, 1, TRUE),
     again |-> StatusPoint("e1", "run_status", 0, 2, TRUE),
     fault |-> StatusPoint("e1", "fault_status", 2, 3, TRUE),
     enable |-> StatusPoint("e2", "enable_status", 0, 1, TRUE),
     t1 |-> StatusPoint("e1", "temperature", 1, 4, TRUE),
     t2 |-> StatusPoint("e2", "temperature", 1, 2, TRUE),
     t3 |-> StatusPoint("e2", "temperature", 1, 3, TRUE),
     t4 |-> StatusPoint("e2", "temperature", 0, 4, FALSE)]
MCSamples ==
    [point : {"run"}, at : {1, 2}, value : {0, 1}, doubtful : {FALSE}]
    \cup [point : {"run"}, at : {2}, value : {1}, doubtful : {TRUE}]
    \cup [point : {"again", "fault"}, at : {1}, value : {0, 1}, doubtful : {FALSE}]
    \cup [point : {"enable"}, at : {2}, value : {0}, doubtful : {FALSE}]
    \cup [point : {"t1", "t3"}, at : {1}, value : {0, 1, 5}, doubtful : {FALSE}]
    \cup [point : {"t2"}, at : {1, 2}, value : {0}, doubtful : BOOLEAN]
    \cup [point : {"t4"}, at : {2}, value : {5}, doubtful : {FALSE}]

(* Two versions of a simulated relay and a meter on Modbus, two mappings of   *)
(* MQTT of which one names a topic twice, one of each other protocol.         *)
Connection(over, type, points) ==
    [protocol |-> over, device_type |-> type, address |-> type, points |-> points]
MCMappings ==
    {Connection("modbus", "simulated_relay", <<<<"power", "relay_state">>>>),
     Connection("modbus", "simulated_relay", <<<<"relay", "relay_state">>>>),
     Connection("modbus", "sdm120", <<<<"power", "active_power">>>>),
     Connection("mqtt", "any", <<<<"power", "topic1">>, <<"relay", "topic2">>>>),
     Connection("mqtt", "any", <<<<"power", "topic1">>, <<"relay", "topic1">>>>),
     Connection("opcua", "any", <<<<"relay", "node1">>>>),
     Connection("bacnet", "any", <<<<"power", "object1">>>>)}
MCPointUnits == [relay |-> "", power |-> "W"]
MCRegisterUnits == [relay_state |-> "", active_power |-> "W"]
MCPolicies ==
    {[roles |-> Everything, values |-> {0}], [roles |-> {"admin"}, values |-> Everything]}

(* Every object of each type, with every unit and every group of words.       *)
MCFound ==
    [type : {"analog-input", "analog-output"},
     units : DOMAIN UnitQuantity \cup {"percent-relative-humidity", "none"},
     words : SUBSET {"temperature", "pressure", "setpoint"}]
    \cup [type : {"binary-input", "binary-output"}, units : {"none"},
          words : SUBSET {"fault", "run", "enable"}]
    \cup [type : {"multi-state-value"}, units : {"none"}, words : {{}}]
MCFirstFound == [type |-> "multi-state-value", units |-> "none", words |-> {}]

MigrationAtRest == family = "points" /\ measures = NoMeasures

-----------------------------------------------------------------------------
Components ==
    {"findings", "configurations", "audit journal", "commissioning", "archiving",
     "automation", "placement", "spaces", "diagnostics", "timeline", "graph", "records",
     "devices", "edge cycle", "filing", "energy", "status", "field test", "migrations",
     "vocabulary"}

(* A component that is not in focus has one initial state. *)
Init ==
    /\ focus \in Components
    /\ SuperInit /\ (focus = "findings" \/ key = "rule")
    /\ ConfigInit /\ AuditInit /\ CommInit
    /\ ArchInit /\ (focus = "archiving" \/ status = [l \in Locations |-> "none"])
    /\ AutoInit /\ PlaceInit /\ ImportInit /\ DiagInit /\ TimelineInit
    /\ GraphInit /\ RecordInit
    /\ DevicesInit /\ (focus = "devices" \/ devices = <<>>)
    /\ CycleInit /\ (focus = "edge cycle" \/ protocol = "modbus")
    /\ EnergyInit /\ (focus = "energy" \/ course = MCReset)
    /\ FilingInit /\ StatusInit /\ FieldInit
    /\ MigrationInit /\ (focus = "migrations" \/ MigrationAtRest)
    /\ VocInit /\ (focus = "vocabulary" \/ found = MCFirstFound)

watchVars == <<superVars, autoVars, auditVars, timeVars>>
setupVars == <<configVars, commVars, deviceVars, cycleVars, vocVars>>
registryVars == <<archVars, placeVars, importVars, graphVars>>
recordedVars == <<recordVars, filingVars, migrationVars>>
computedVars == <<diagVars, energyVars, statusVars, fieldVars>>

Next ==
    \/ /\ focus = "findings" /\ SuperNext
       /\ UNCHANGED <<focus, autoVars, auditVars, timeVars, setupVars,
                       registryVars, recordedVars, computedVars>>
    \/ /\ focus = "configurations" /\ ConfigNext
       /\ UNCHANGED <<focus, commVars, deviceVars, cycleVars, vocVars, watchVars,
                       registryVars, recordedVars, computedVars>>
    \/ /\ focus = "audit journal" /\ AuditNext
       /\ UNCHANGED <<focus, superVars, autoVars, timeVars, setupVars,
                       registryVars, recordedVars, computedVars>>
    \/ /\ focus = "commissioning" /\ CommNext
       /\ UNCHANGED <<focus, configVars, deviceVars, cycleVars, vocVars, watchVars,
                       registryVars, recordedVars, computedVars>>
    \/ /\ focus = "archiving" /\ ArchNext
       /\ UNCHANGED <<focus, placeVars, importVars, graphVars, watchVars,
                       setupVars, recordedVars, computedVars>>
    \/ /\ focus = "automation" /\ AutoNext
       /\ UNCHANGED <<focus, superVars, auditVars, timeVars, setupVars,
                       registryVars, recordedVars, computedVars>>
    \/ /\ focus = "placement" /\ PlaceNext
       /\ UNCHANGED <<focus, archVars, importVars, graphVars, watchVars, setupVars,
                       recordedVars, computedVars>>
    \/ /\ focus = "spaces" /\ ImportNext
       /\ UNCHANGED <<focus, archVars, placeVars, graphVars, watchVars, setupVars,
                       recordedVars, computedVars>>
    \/ /\ focus = "diagnostics" /\ DiagNext
       /\ UNCHANGED <<focus, energyVars, statusVars, fieldVars, watchVars,
                       setupVars, registryVars, recordedVars>>
    \/ /\ focus = "timeline" /\ TimelineNext
       /\ UNCHANGED <<focus, superVars, autoVars, auditVars, setupVars,
                       registryVars, recordedVars, computedVars>>
    \/ /\ focus = "graph" /\ GraphNext
       /\ UNCHANGED <<focus, archVars, placeVars, importVars, watchVars, setupVars,
                       recordedVars, computedVars>>
    \/ /\ focus = "records" /\ RecordNext
       /\ UNCHANGED <<focus, filingVars, migrationVars, watchVars, setupVars, registryVars,
                       computedVars>>
    \/ /\ focus = "devices" /\ DevicesNext
       /\ UNCHANGED <<focus, configVars, commVars, cycleVars, vocVars, watchVars,
                       registryVars, recordedVars, computedVars>>
    \/ /\ focus = "edge cycle" /\ CycleNext
       /\ UNCHANGED <<focus, configVars, commVars, deviceVars, vocVars, watchVars,
                       registryVars, recordedVars, computedVars>>
    \/ /\ focus = "filing" /\ FilingNext
       /\ UNCHANGED <<focus, recordVars, migrationVars, watchVars, setupVars, registryVars,
                       computedVars>>
    \/ /\ focus = "energy" /\ EnergyNext
       /\ UNCHANGED <<focus, diagVars, statusVars, fieldVars, watchVars, setupVars,
                       registryVars, recordedVars>>
    \/ /\ focus = "status" /\ StatusNext
       /\ UNCHANGED <<focus, diagVars, energyVars, fieldVars, watchVars, setupVars,
                       registryVars, recordedVars>>
    \/ /\ focus = "field test" /\ FieldNext
       /\ UNCHANGED <<focus, diagVars, energyVars, statusVars, watchVars,
                       setupVars, registryVars, recordedVars>>
    \/ /\ focus = "migrations" /\ MigrationNext
       /\ UNCHANGED <<focus, recordVars, filingVars, watchVars, setupVars,
                       registryVars, computedVars>>
    \/ /\ focus = "vocabulary" /\ VocNext
       /\ UNCHANGED <<focus, configVars, commVars, deviceVars, cycleVars, watchVars,
                       registryVars, recordedVars, computedVars>>

vars == <<focus, watchVars, setupVars, registryVars, recordedVars, computedVars>>

Spec == Init /\ [][Next]_vars

(* A component that is not in focus stays in a state that its own behaviours  *)
(* begin with: what is said of it is evaluated where it moves.                *)
InFocus(component, property) == focus = component => property

(* The types of every component, with the constraints of its tables. *)
TypeOK ==
    /\ focus \in Components
    /\ InFocus("findings", SuperTypeOK) /\ InFocus("configurations", ConfigTypeOK)
    /\ InFocus("audit journal", AuditTypeOK) /\ InFocus("commissioning", CommTypeOK)
    /\ InFocus("archiving", ArchTypeOK) /\ InFocus("automation", AutoTypeOK)
    /\ InFocus("placement", PlaceTypeOK) /\ InFocus("spaces", ImportTypeOK)
    /\ InFocus("diagnostics", DiagTypeOK) /\ InFocus("timeline", TimelineTypeOK)
    /\ InFocus("graph", GraphTypeOK) /\ InFocus("records", RecordTypeOK)
    /\ InFocus("devices", DevicesTypeOK) /\ InFocus("edge cycle", CycleTypeOK)
    /\ InFocus("filing", FilingTypeOK) /\ InFocus("energy", EnergyTypeOK)
    /\ InFocus("status", StatusTypeOK) /\ InFocus("field test", FieldTypeOK)
    /\ InFocus("migrations", MigrationTypeOK) /\ InFocus("vocabulary", VocTypeOK)

(* What relates the records of the registry to one another holds between the  *)
(* statements of any two requests: the tree of spaces, the walk of impacts,   *)
(* the dated values, the numbered plans, the files and what the plans show,   *)
(* the rows between two migrations.                                           *)
RegistryConsistent ==
    /\ InFocus("spaces", TreeConsistent) /\ InFocus("graph", WalkFaithful)
    /\ InFocus("records", OneValueAtATime) /\ InFocus("filing", FilingSound)
    /\ InFocus("migrations", ContractReady)

(* What the platform computes from the measures is what its documents define, *)
(* over every series within the bounds: the findings of the rules, the energy *)
(* of a period, the status that the screens show.                             *)
ComputedAsDefined ==
    /\ InFocus("diagnostics", DiagnosisAsDefined) /\ InFocus("energy", EnergyExplained)
    /\ InFocus("status", ScreensAgree)

(* The points and the edge devices are known as they are, the readings are in *)
(* the unit of their point, and a daemon, between two requests of its round   *)
(* and the changes made meanwhile, commands nothing real and records only     *)
(* what a configuration told it to read.                                      *)
EdgeAsRegistered ==
    /\ InFocus("commissioning", PointOfAccepted) /\ InFocus("vocabulary", UnitsAgree)
    /\ InFocus("devices", DevicesAccountedFor) /\ InFocus("edge cycle", CycleSafe)

(* No later step of a request that decided on an older row rewrites history:  *)
(* a version taken over, a value that has ended, a declaration submitted, a   *)
(* device that is revoked; no migration of the three series, in either        *)
(* direction, rewrites what a row tells, but for the exemplar, the flags and  *)
(* the origin of a measure, each lost at the one revision that drops it.      *)
HistoryKept ==
    [][TakesOver /\ SettledKept /\ RevocationKept /\ MeaningKept]_
        <<configVars, recordVars, deviceVars, migrationVars>>
===============================================================================
