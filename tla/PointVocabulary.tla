--------------------------- MODULE PointVocabulary ----------------------------
(***************************************************************************)
(* What a point measures and in which unit (app/point_vocabulary.py): from *)
(* the guess made on a BACnet object that was found                        *)
(* (connectors/bacnet_semantics.py), through the acceptance, correction    *)
(* and validation of the point (app/points.py), to the readings that a     *)
(* sender declares in a unit (telemetry.record_measurement).               *)
(* Every request reads the point, then writes by id.                       *)
(***************************************************************************)
EXTENDS Naturals, FiniteSets

CONSTANTS
    FoundObjects,   \* objects found: [type, units, words]
    ClassesTyped,   \* classes that a person may enter
    UnitsTyped,     \* units that a person, or a sender, may enter
    VocCallers,     \* requests that may be open at once
    MaxVocCalls,    \* bound: requests after the acceptance
    Unknown         \* no class, no unit, no row, no request

VARIABLES
    found,          \* object whose proposal is not decided
    defined,        \* row of the point
    vocCalls,       \* what each open request has read
    vocReadings,    \* readings stored: the unit declared, was it flagged
    vocSteps        \* bound

vocVars == <<found, defined, vocCalls, vocReadings, vocSteps>>

-----------------------------------------------------------------------------
(* UNITS and POINT_CLASSES: the physical quantity of each.                 *)
UnitQuantity ==
    [Cel |-> "temperature", K |-> "temperature", Pa |-> "pressure", kPa |-> "pressure",
     bar |-> "pressure", percent |-> "ratio", W |-> "power", kW |-> "power",
     kWh |-> "energy", ppm |-> "concentration", m3h |-> "volume_flow", kg |-> "mass"]

NumberClass ==
    [temperature_sensor |-> "temperature", temperature_setpoint |-> "temperature",
     pressure_sensor |-> "pressure", humidity_sensor |-> "ratio",
     co2_sensor |-> "concentration", electric_power_sensor |-> "power",
     energy_meter_reading |-> "energy", heating_valve_position |-> "ratio"]
BooleanClasses == {"run_status", "fault_status", "enable_status", "on_off_command"}

(* check_point_definition.                                                 *)
Consistent(row) ==
    /\ row.unit # Unknown => row.value_type = "number" /\ row.unit \in DOMAIN UnitQuantity
    /\ row.class # Unknown =>
          \/ /\ row.class \in DOMAIN NumberClass /\ row.value_type = "number"
             /\ row.unit # Unknown => UnitQuantity[row.unit] = NumberClass[row.class]
          \/ row.class \in BooleanClasses /\ row.value_type = "boolean"

(* check_point_ready_for_validation, on a point that has its equipment.    *)
ReadyForValidation(row) ==
    /\ row.class # Unknown
    /\ row.value_type = "number" => row.unit # Unknown
    /\ Consistent(row)

-----------------------------------------------------------------------------
(* guess_point_class: the units first, then the words of the name, with a  *)
(* confidence in hundredths.                                               *)
ValueType(o) ==
    CASE o.type \in {"analog-input", "analog-output", "analog-value"} -> "number"
      [] o.type \in {"binary-input", "binary-output", "binary-value"} -> "boolean"
      [] OTHER -> "multistate"

(* map_bacnet_unit: the two ratios of BACnet are one unit of ours.         *)
map_bacnet_unit(units) ==
    CASE units \in DOMAIN UnitQuantity -> units
      [] units = "percent-relative-humidity" -> "percent"
      [] OTHER -> Unknown

SetpointNamed(o) == o.type = "analog-output" \/ "setpoint" \in o.words
TemperatureClass(o) ==
    IF SetpointNamed(o) THEN "temperature_setpoint" ELSE "temperature_sensor"

Guess(class, unit, confidence) == [class |-> class, unit |-> unit, confidence |-> confidence]

NumberGuess(o) ==
    LET unit == map_bacnet_unit(o.units)
        quantity == IF unit = Unknown THEN Unknown ELSE UnitQuantity[unit]
    IN CASE quantity = "temperature" ->
              Guess(TemperatureClass(o), unit, IF SetpointNamed(o) THEN 80 ELSE 90)
         [] quantity = "pressure" -> Guess("pressure_sensor", unit, 90)
         [] o.units = "percent-relative-humidity" -> Guess("humidity_sensor", unit, 90)
         [] quantity = "concentration" -> Guess("co2_sensor", unit, 85)
         [] quantity = "power" -> Guess("electric_power_sensor", unit, 85)
         [] quantity = "energy" -> Guess("energy_meter_reading", unit, 85)
         [] OTHER ->
              CASE "temperature" \in o.words -> Guess(TemperatureClass(o), unit, 50)
                [] "temperature" \notin o.words /\ "pressure" \in o.words ->
                      Guess("pressure_sensor", unit, 50)
                [] OTHER -> Guess(Unknown, unit, 0)

BooleanGuess(o) ==
    IF "fault" \in o.words THEN Guess("fault_status", Unknown, 80)
    ELSE IF "enable" \in o.words THEN Guess("enable_status", Unknown, 60)
    ELSE IF "run" \notin o.words THEN Guess(Unknown, Unknown, 0)
    ELSE IF o.type = "binary-output" THEN Guess("on_off_command", Unknown, 50)
    ELSE Guess("run_status", Unknown, 70)

guess_point_class(o) ==
    CASE ValueType(o) = "number" -> NumberGuess(o)
      [] ValueType(o) = "boolean" -> BooleanGuess(o)
      [] OTHER -> Guess(Unknown, Unknown, 0)

-----------------------------------------------------------------------------
(* The point, once accepted, and what the requests about it have read. *)
VocClasses == ClassesTyped \cup DOMAIN NumberClass \cup BooleanClasses \cup {Unknown}
VocUnits == UnitsTyped \cup DOMAIN UnitQuantity \cup {Unknown}
DefinedRows ==
    [class : VocClasses, unit : VocUnits, value_type : {"number", "boolean", "multistate"},
     status : {"proposed", "validated", "rejected"}]
VocRequests ==
    [op : {"identify"}, row : DefinedRows]
    \cup [op : {"decide"}, decision : {"validated", "rejected"}]
    \cup [op : {"record"}, unit : VocUnits, flagged : BOOLEAN]

ASSUME VocAssumption ==
    /\ MaxVocCalls \in Nat
    /\ Unknown \notin DOMAIN UnitQuantity \cup DOMAIN NumberClass \cup BooleanClasses
    /\ Unknown \notin {UnitQuantity[u] : u \in DOMAIN UnitQuantity}
    /\ Unknown \notin DefinedRows \cup VocRequests

VocTypeOK ==
    /\ found \in FoundObjects \cup {Unknown} /\ vocSteps \in 0..MaxVocCalls
    /\ defined \in DefinedRows \cup {Unknown}
    /\ vocCalls \in [VocCallers -> VocRequests \cup {Unknown}]
    /\ vocReadings \subseteq [unit : VocUnits, flagged : BOOLEAN]

VocInit ==
    /\ found \in FoundObjects
    /\ defined = Unknown /\ vocReadings = {} /\ vocSteps = 0
    /\ vocCalls = [c \in VocCallers |-> Unknown]

Definition(class, unit, type) ==
    [class |-> class, unit |-> unit, value_type |-> type, status |-> "proposed"]

(* accept_proposal, create_point: a class or a unit entered replaces the   *)
(* one proposed; an inconsistent point is refused.                         *)
AcceptFound ==
    /\ found # Unknown
    /\ \E class \in ClassesTyped \cup {guess_point_class(found).class},
          unit \in UnitsTyped \cup {guess_point_class(found).unit} :
          LET row == Definition(class, unit, ValueType(found)) IN
          Consistent(row) /\ defined' = row
    /\ found' = Unknown
    /\ UNCHANGED <<vocCalls, vocReadings, vocSteps>>

(* A request reads the point: it stays open until it writes or is refused. *)
ReadDefinition(c, request) ==
    /\ defined # Unknown /\ vocCalls[c] = Unknown
    /\ vocSteps < MaxVocCalls /\ vocSteps' = vocSteps + 1
    /\ vocCalls' = [vocCalls EXCEPT ![c] = request]
    /\ UNCHANGED <<found, defined, vocReadings>>

RequestIdentify(c) ==
    /\ defined # Unknown /\ defined.status = "proposed"
    /\ \E class \in ClassesTyped \cup {defined.class, Unknown},
          unit \in UnitsTyped \cup {defined.unit, Unknown} :
          LET row == [defined EXCEPT !.class = class, !.unit = unit] IN
          Consistent(row) /\ ReadDefinition(c, [op |-> "identify", row |-> row])

RequestDecision(c) ==
    /\ defined # Unknown /\ defined.status = "proposed"
    /\ \E decision \in {"validated", "rejected"} :
          /\ decision = "validated" => ReadyForValidation(defined)
          /\ ReadDefinition(c, [op |-> "decide", decision |-> decision])

(* check_declared_unit, check_value: a reading is refused unless its unit, *)
(* when it is declared, is that of the point; it is never converted.       *)
RequestReading(c) ==
    /\ defined # Unknown /\ defined.status # "rejected"
    /\ \E unit \in UnitsTyped \cup {Unknown} :
          /\ unit \in {defined.unit, Unknown}
          /\ ReadDefinition(c, [op |-> "record", unit |-> unit,
                                flagged |-> defined.status # "validated"])

(* The trigger points_protect_definition, on the row as it is.             *)
UpdateDefinition(row) ==
    defined' = IF defined.status = "proposed" THEN row ELSE defined

VocWrite(c) ==
    /\ vocCalls[c] # Unknown
    /\ vocCalls' = [vocCalls EXCEPT ![c] = Unknown]
    /\ UNCHANGED <<found, vocSteps>>
    /\ LET call == vocCalls[c] IN
       \/ /\ call.op = "identify"
          /\ UpdateDefinition([call.row EXCEPT !.status = defined.status])
          /\ UNCHANGED vocReadings
       \/ /\ call.op = "decide"
          /\ UpdateDefinition([defined EXCEPT !.status = call.decision])
          /\ UNCHANGED vocReadings
       \/ /\ call.op = "record"
          /\ vocReadings' = vocReadings \cup {[unit |-> call.unit, flagged |-> call.flagged]}
          /\ UNCHANGED defined

VocNext ==
    \/ AcceptFound
    \/ \E c \in VocCallers :
          RequestIdentify(c) \/ RequestDecision(c) \/ RequestReading(c) \/ VocWrite(c)

VocSpec == VocInit /\ [][VocNext]_vocVars

-----------------------------------------------------------------------------
(* What the platform proposes with confidence is what it accepts: a guess  *)
(* made on a known unit, accepted as it is, can be created and validated.  *)
(* Whatever requests overlap, the point stays consistent, and a reading    *)
(* that is not flagged was declared in the unit that the point has now.    *)
UnitsAgree ==
    /\ found # Unknown /\ guess_point_class(found).confidence >= 80 =>
          LET guess == guess_point_class(found) IN
          ReadyForValidation(Definition(guess.class, guess.unit, ValueType(found)))
    /\ defined # Unknown =>
          /\ Consistent(defined)
          /\ \A r \in vocReadings : r.flagged \/ r.unit \in {defined.unit, Unknown}
===============================================================================
