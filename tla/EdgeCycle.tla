------------------------------- MODULE EdgeCycle -------------------------------
(***************************************************************************)
(* The gates a command goes through and the cycle of an edge daemon, for   *)
(* one equipment whose connections are versions that change meanwhile:     *)
(* creation of a command (app/commands.py, app/command_policies.py,        *)
(* app/point_control_mode.py, app/connectors/device_mapping.py), then the  *)
(* daemons of the four protocols (scripts/*_daemon.py), which ask for      *)
(* their configuration and, for Modbus, execute commands before they read. *)
(*                                                                         *)
(* Each statement of a request sees the versions active at that instant.   *)
(* The races of several claims are those of Commands, the crashes of a     *)
(* daemon and the file of its buffer those of EdgeBuffer.                  *)
(***************************************************************************)
EXTENDS Integers, FiniteSets, FiniteSetsExt, Sequences

CONSTANTS
    Protocols,      \* protocols whose daemon is started
    Mappings,       \* contents of *_device_mapping versions: [protocol,
                    \* device_type, address, points], where points is the
                    \* sequence of <<point, register>>
    Policies,       \* contents of command_point_policy: [roles, values]
    PointUnits,     \* units of the points that are validated
    RegisterUnits,  \* units of the registers, "" for a coil
    Commandable,    \* the points a person or a rule may ask a command of
    Roles, Levels,  \* roles of a requester, values that may be requested
    Callers,        \* requests that create a command
    MaxChanges, MaxOrders, MaxRounds, MaxOutages,     \* bounds
    NoMapping, NoPolicy, NoCaller, Everything, Unreachable

VARIABLES
    active,         \* content of the active mapping of each protocol
    policy, mode,   \* active policy and control mode of the point
    calls,          \* of each caller: what its request has read
    ordered,         \* commands, with the gates each one went through
    protocol,       \* protocol of the daemon
    daemon,         \* [phase, config, last_config, round, todo, checked]; checked is the
                    \* candidate whose mapping has been found, and that mapping
    answers,        \* history: what each request for the configuration answered
    writes,         \* history: coils written
    held, stored,   \* readings in the buffer, and recorded by the API
    changes, outages    \* bounds

cycleVars == <<active, policy, mode, calls, ordered, protocol, daemon, answers, writes,
               held, stored, changes, outages>>

SIMULATED_DEVICE_TYPES == {"simulated_relay"}
COMMANDABLE_DEVICE_TYPES == {"simulated_relay"}

PointsIn(m) == {m.points[i][1] : i \in DOMAIN m.points}
RegistersIn(m) == {m.points[i][2] : i \in DOMAIN m.points}
Contents == Mappings \cup {NoMapping}

(* What a caller asks for, and the row that its request inserts. *)
OrderCalls ==
    [origin : {"person", "dry run", "rule"}, point : Commandable, value : Levels,
     role : Roles, step : {"mapping", "policy"}]
OrderRows ==
    [origin : {"person", "dry run", "rule"}, point : Commandable, value : Levels,
     role : Roles, status : {"pending", "sent", "failed", "done"}, served : Contents,
     under : Policies \cup {NoPolicy}]
Phases == {"off", "load", "claim", "check", "execute", "read", "post", "crashed"}
Daemons ==
    [phase : Phases, config : Contents, last_config : Contents, round : 0..MaxRounds,
     todo : SUBSET (1..MaxOrders),
     checked : {NoMapping} \cup [order : 1..MaxOrders, mapping : Mappings]]
CoilWrites == [order : 1..MaxOrders, mapping : Mappings, round : 0..MaxRounds]

ASSUME CycleAssumption ==
    /\ MaxChanges \in Nat /\ MaxOrders \in Nat /\ MaxRounds \in Nat /\ MaxOutages \in Nat
    /\ NoMapping \notin Mappings \cup [order : 1..MaxOrders, mapping : Mappings]
    /\ NoCaller \notin OrderCalls

CycleTypeOK ==
    /\ active \in [Protocols -> Contents]
    /\ policy \in Policies \cup {NoPolicy} /\ mode \in {"manual", "automatic"}
    /\ calls \in [Callers -> OrderCalls \cup {NoCaller}]
    /\ ordered \in Seq(OrderRows) /\ Len(ordered) <= MaxOrders
    /\ protocol \in Protocols
    /\ daemon \in Daemons /\ daemon.todo \subseteq DOMAIN ordered
    /\ answers \in Seq(Contents \cup {Unreachable}) /\ writes \in Seq(CoilWrites)
    /\ \A r \in held \cup stored : r.mapping \in Mappings /\ r.round \in 0..MaxRounds
    /\ changes \in 0..MaxChanges /\ outages \in 0..MaxOutages

CycleInit ==
    /\ active = [p \in Protocols |-> NoMapping]
    /\ policy = NoPolicy /\ mode = "manual"
    /\ calls = [c \in Callers |-> NoCaller]
    /\ ordered = <<>> /\ writes = <<>> /\ answers = <<>>
    /\ protocol \in Protocols
    /\ daemon = [phase |-> "off", config |-> NoMapping, last_config |-> NoMapping,
                 round |-> 0, todo |-> {}, checked |-> NoMapping]
    /\ held = {} /\ stored = {}
    /\ changes = 0 /\ outages = 0

-----------------------------------------------------------------------------
(* What a mapping must satisfy to be created, and again to be activated:   *)
(* no register and no point twice, validated points only, and for Modbus   *)
(* the unit of the register is that of the point (nothing is converted).   *)
Distinct(m) ==
    /\ Cardinality(PointsIn(m)) = Len(m.points)
    /\ Cardinality(RegistersIn(m)) = Len(m.points)
AllValidated(m) == PointsIn(m) \subseteq DOMAIN PointUnits

check_declared_unit(m) ==
    \A i \in DOMAIN m.points :
        LET unit == RegisterUnits[m.points[i][2]]
        IN unit = "" \/ unit = PointUnits[m.points[i][1]]

_validate_modbus_device_mapping(m) ==
    /\ m.protocol = "modbus"
    /\ RegistersIn(m) \subseteq DOMAIN RegisterUnits
    /\ Distinct(m) /\ AllValidated(m) /\ check_declared_unit(m)
_validate_bacnet_device_mapping(m) == m.protocol = "bacnet" /\ Distinct(m) /\ AllValidated(m)
_validate_opcua_device_mapping(m) == m.protocol = "opcua" /\ Distinct(m) /\ AllValidated(m)
_validate_mqtt_device_mapping(m) == m.protocol = "mqtt" /\ Distinct(m) /\ AllValidated(m)

ValidMapping(m) ==
    \/ _validate_modbus_device_mapping(m) \/ _validate_bacnet_device_mapping(m)
    \/ _validate_opcua_device_mapping(m) \/ _validate_mqtt_device_mapping(m)

Changed == changes < MaxChanges /\ changes' = changes + 1

ActivateMapping(m) ==
    /\ Changed /\ ValidMapping(m) /\ m.protocol \in Protocols
    /\ active' = [active EXCEPT ![m.protocol] = m]
    /\ UNCHANGED <<policy, mode, calls, ordered, protocol, daemon, answers, writes, held,
                   stored, outages>>

RetireMapping(p) ==
    /\ Changed /\ active[p] # NoMapping
    /\ active' = [active EXCEPT ![p] = NoMapping]
    /\ UNCHANGED <<policy, mode, calls, ordered, protocol, daemon, answers, writes, held,
                   stored, outages>>

ChangePolicy(new) ==
    /\ Changed /\ new # policy
    /\ policy' = new
    /\ UNCHANGED <<active, mode, calls, ordered, protocol, daemon, answers, writes, held,
                   stored, outages>>

ChangeMode(new) ==
    /\ Changed /\ new # mode
    /\ mode' = new
    /\ UNCHANGED <<active, policy, calls, ordered, protocol, daemon, answers, writes, held,
                   stored, outages>>

-----------------------------------------------------------------------------
(* Served by an active Modbus connection to a simulated device.            *)
_assert_point_is_commandable(m, point) ==
    m # NoMapping /\ m.device_type \in SIMULATED_DEVICE_TYPES /\ point \in PointsIn(m)

(* Without a policy nothing more is restricted. *)
enforce_policy(content, value, role) ==
    content # NoPolicy =>
        /\ content.roles = Everything \/ role \in content.roles
        /\ content.values = Everything \/ value \in content.values

ModbusMapping == IF "modbus" \in Protocols THEN active["modbus"] ELSE NoMapping

(* create_command, or its dry run, of a person or of an automation rule,   *)
(* which reads the control mode first.                                     *)
Ask(c, origin, point, value, role) ==
    /\ calls[c] = NoCaller /\ Len(ordered) < MaxOrders
    /\ origin = "rule" => mode = "automatic"
    /\ calls' = [calls EXCEPT ![c] = [origin |-> origin, point |-> point, value |-> value,
                                      role |-> role, step |-> "mapping"]]
    /\ UNCHANGED <<active, policy, mode, ordered, protocol, daemon, answers, writes, held,
                   stored, changes, outages>>

ReadMapping(c) ==
    /\ calls[c] # NoCaller /\ calls[c].step = "mapping"
    /\ calls' = [calls EXCEPT ![c] =
          IF _assert_point_is_commandable(ModbusMapping, calls[c].point)
          THEN [calls[c] EXCEPT !.step = "policy"] ELSE NoCaller]
    /\ UNCHANGED <<active, policy, mode, ordered, protocol, daemon, answers, writes, held,
                   stored, changes, outages>>

create_command(c) ==
    LET q == calls[c] IN
    /\ q # NoCaller /\ q.step = "policy"
    /\ ordered' = IF enforce_policy(policy, q.value, q.role) /\ q.origin # "dry run"
                    /\ Len(ordered) < MaxOrders
                 THEN Append(ordered, [origin |-> q.origin, point |-> q.point, value |-> q.value,
                                      role |-> q.role, status |-> "pending",
                                      served |-> NoMapping, under |-> NoPolicy])
                 ELSE ordered
    /\ calls' = [calls EXCEPT ![c] = NoCaller]
    /\ UNCHANGED <<active, policy, mode, protocol, daemon, answers, writes, held, stored,
                   changes, outages>>

-----------------------------------------------------------------------------
(* One cycle of the daemon.  Any call to the API may fail.                 *)
Fails == outages < MaxOutages /\ outages' = outages + 1
Answers == UNCHANGED outages
Becomes(phase, d) == daemon' = [d EXCEPT !.phase = phase]

(* At the start, no configuration ends the daemon; no answer does not.     *)
StartDaemon ==
    /\ daemon.phase = "off" /\ answers = <<>>
    /\ \/ /\ Answers /\ active[protocol] # NoMapping
          /\ answers' = <<active[protocol]>>
          /\ Becomes("load", [daemon EXCEPT !.last_config = active[protocol]])
       \/ Fails /\ answers' = <<Unreachable>> /\ Becomes("load", daemon)
    /\ UNCHANGED <<active, policy, mode, calls, ordered, protocol, writes, held, stored, changes>>

(* Then commands if the device is a simulated one, and the values.         *)
WithConfig(d) ==
    CASE d.config = NoMapping -> Becomes("load", d)
      [] d.config # NoMapping /\ d.config.device_type \in COMMANDABLE_DEVICE_TYPES
            -> Becomes("claim", d)
      [] OTHER -> Becomes("read", d)

(* The last configuration known serves when the API does not answer; an    *)
(* answer that there is none erases it.                                    *)
_load_config ==
    /\ daemon.phase = "load" /\ daemon.round < MaxRounds
    /\ \/ /\ Answers
          /\ answers' = Append(answers, active[protocol])
          /\ WithConfig([daemon EXCEPT !.round = @ + 1, !.config = active[protocol],
                                       !.last_config = active[protocol]])
       \/ /\ Fails
          /\ answers' = Append(answers, Unreachable)
          /\ WithConfig([daemon EXCEPT !.round = @ + 1, !.config = daemon.last_config])
    /\ UNCHANGED <<active, policy, mode, calls, ordered, protocol, writes, held, stored, changes>>

(* claim_pending_commands: each candidate is validated again before it is  *)
(* sent, first the mapping, then the policy, before the next candidate.    *)
get_pending_commands ==
    /\ daemon.phase = "claim"
    /\ LET pending == {i \in DOMAIN ordered : ordered[i].status = "pending"}
       IN \/ Answers /\ Becomes(IF pending = {} THEN "read" ELSE "check",
                                [daemon EXCEPT !.todo = pending])
          \/ Fails /\ Becomes("read", daemon)
    /\ UNCHANGED <<active, policy, mode, calls, ordered, protocol, answers, writes, held,
                   stored, changes>>

Candidate(i) == daemon.phase = "check" /\ i \in daemon.todo /\ ordered[i].status = "pending"

CheckMapping(i) ==
    /\ Candidate(i) /\ daemon.checked = NoMapping
    /\ IF _assert_point_is_commandable(ModbusMapping, ordered[i].point)
       THEN /\ daemon' = [daemon EXCEPT !.checked = [order |-> i, mapping |-> ModbusMapping]]
            /\ UNCHANGED ordered
       ELSE /\ ordered' = [ordered EXCEPT ![i].status = "failed"]
            /\ daemon' = [daemon EXCEPT !.todo = @ \ {i}]
    /\ UNCHANGED <<active, policy, mode, calls, protocol, answers, writes, held, stored,
                   changes, outages>>

CheckPolicy(i) ==
    /\ Candidate(i) /\ daemon.checked # NoMapping /\ daemon.checked.order = i
    /\ IF enforce_policy(policy, ordered[i].value, ordered[i].role)
       THEN /\ ordered' = [ordered EXCEPT ![i].status = "sent", ![i].under = policy,
                                         ![i].served = daemon.checked.mapping]
            /\ daemon' = [daemon EXCEPT !.checked = NoMapping]
       ELSE /\ ordered' = [ordered EXCEPT ![i].status = "failed"]
            /\ daemon' = [daemon EXCEPT !.checked = NoMapping, !.todo = @ \ {i}]
    /\ UNCHANGED <<active, policy, mode, calls, protocol, answers, writes, held, stored,
                   changes, outages>>

(* The commands that were sent are answered, or the answer is lost.        *)
ClaimAnswered ==
    /\ daemon.phase = "check" /\ \A i \in daemon.todo : ordered[i].status = "sent"
    /\ \/ Answers /\ Becomes("execute", daemon)
       \/ Fails /\ Becomes("execute", [daemon EXCEPT !.todo = {}])
    /\ UNCHANGED <<active, policy, mode, calls, ordered, protocol, answers, writes, held,
                   stored, changes>>

(* One by one: a point that is not in the configuration is refused, else   *)
(* the coil is written, with success or not, and the command answered; the *)
(* answer may be lost.                                                     *)
_execute_pending_commands(i) ==
    /\ daemon.phase = "execute" /\ i \in daemon.todo
    /\ writes' = IF ordered[i].point \in PointsIn(daemon.config)
                 THEN Append(writes, [order |-> i, mapping |-> daemon.config,
                                      round |-> daemon.round])
                 ELSE writes
    /\ \/ Answers /\ ordered' = [ordered EXCEPT ![i].status = "done"]
       \/ Fails /\ UNCHANGED ordered
    /\ daemon' = [daemon EXCEPT !.todo = @ \ {i}]
    /\ UNCHANGED <<active, policy, mode, calls, protocol, answers, held, stored, changes>>

-----------------------------------------------------------------------------
(* What a device answers for each point, in order: a number, something     *)
(* that is not one, or nothing.  The first that fails ends the reading:    *)
(* registers are always numbers, but float() of an answer that is not one  *)
(* ends the daemon itself for BACnet and OPC UA.                           *)
FirstFailure(got) ==
    LET failed == {i \in DOMAIN got : got[i] # "number"}
    IN IF failed = {} THEN "number" ELSE got[Min(failed)]

read_modbus_points(got) == IF FirstFailure(got) = "number" THEN "values" ELSE "error"
read_bacnet_points(got) ==
    CASE FirstFailure(got) = "number" -> "values"
      [] FirstFailure(got) = "text" -> "crash"
      [] OTHER -> "error"
read_opcua_points(got) == read_bacnet_points(got)

(* Messages of the topics, retained or published while the daemon waits:   *)
(* the first number of a topic counts, and one that is not a number before *)
(* it refuses the whole reading, as does a topic without any.              *)
read_mqtt_points(n, messages) ==
    LET numbers(i) == {k \in DOMAIN messages : messages[k] = <<i, "number">>}
        others(i) == {k \in DOMAIN messages : messages[k] = <<i, "text">>}
    IN IF \A i \in 1..n : numbers(i) # {} /\ \A k \in others(i) : k > Min(numbers(i))
       THEN "values" ELSE "error"

Outcomes(n) ==
    CASE protocol = "modbus" -> {read_modbus_points(got) : got \in [1..n -> {"number", "nothing"}]}
      [] protocol = "bacnet" ->
            {read_bacnet_points(got) : got \in [1..n -> {"number", "text", "nothing"}]}
      [] protocol = "opcua" ->
            {read_opcua_points(got) : got \in [1..n -> {"number", "text", "nothing"}]}
      [] OTHER -> {read_mqtt_points(n, messages) : messages \in
                      UNION {[1..k -> (1..n) \X {"number", "text"}] : k \in 0..3}}

ReadPoints ==
    /\ \/ daemon.phase = "read"
       \/ daemon.phase = "execute" /\ daemon.todo = {}
    /\ \E outcome \in Outcomes(Len(daemon.config.points)) :
          Becomes(CASE outcome = "values" -> "post"
                    [] outcome = "error" -> "load"
                    [] OTHER -> "crashed", daemon)
    /\ UNCHANGED <<active, policy, mode, calls, ordered, protocol, answers, writes, held,
                   stored, changes, outages>>

(* What was read goes with what is held; held again if the call fails,     *)
(* received or not.                                                        *)
post_measurements ==
    LET new == {[point |-> p, mapping |-> daemon.config, round |-> daemon.round] :
                   p \in PointsIn(daemon.config)}
    IN
    /\ daemon.phase = "post"
    /\ \/ Answers /\ stored' = stored \cup held \cup new /\ held' = {}
       \/ Fails /\ stored' \in {stored, stored \cup held \cup new} /\ held' = held \cup new
    /\ Becomes("load", daemon)
    /\ UNCHANGED <<active, policy, mode, calls, ordered, protocol, answers, writes, changes>>

-----------------------------------------------------------------------------
ReadingCycle == StartDaemon \/ _load_config \/ ReadPoints \/ post_measurements

ModbusDaemon ==
    /\ protocol = "modbus"
    /\ \/ ReadingCycle \/ get_pending_commands \/ ClaimAnswered
       \/ \E i \in DOMAIN ordered :
             CheckMapping(i) \/ CheckPolicy(i) \/ _execute_pending_commands(i)
BacnetDaemon == protocol = "bacnet" /\ ReadingCycle
OpcuaDaemon == protocol = "opcua" /\ ReadingCycle
MqttDaemon == protocol = "mqtt" /\ ReadingCycle

CreateCommand ==
    \/ \E c \in Callers, origin \in {"person", "dry run", "rule"}, p \in Commandable,
          v \in Levels, r \in Roles : Ask(c, origin, p, v, r)
    \/ \E c \in Callers : ReadMapping(c) \/ create_command(c)

ChangeVersions ==
    \/ \E m \in Mappings : ActivateMapping(m)
    \/ \E p \in Protocols : RetireMapping(p)
    \/ \E new \in Policies : ChangePolicy(new)
    \/ \E new \in {"manual", "automatic"} : ChangeMode(new)

CycleNext ==
    ModbusDaemon \/ BacnetDaemon \/ OpcuaDaemon \/ MqttDaemon \/ CreateCommand \/ ChangeVersions

CycleSpec == CycleInit /\ [][CycleNext]_cycleVars

-----------------------------------------------------------------------------
(* A coil is written for a command once, on a device that a configuration  *)
(* declares simulated, and only after the API has found, at the claim, the *)
(* point served by a simulated device and the policy satisfied: "deux      *)
(* vérifications indépendantes", whatever versions take over in between.   *)
CommandsReachSimulated ==
    \A k \in DOMAIN writes :
      LET w == writes[k]
          o == ordered[w.order]
      IN /\ w.mapping.device_type \in SIMULATED_DEVICE_TYPES
         /\ o.point \in PointsIn(w.mapping)
         /\ _assert_point_is_commandable(o.served, o.point)
         /\ enforce_policy(o.under, o.value, o.role)
         /\ o.origin # "dry run" /\ o.status \in {"sent", "done"}
         /\ \A j \in DOMAIN writes : writes[j].order = w.order => j = k

(* What a cycle reads or writes follows the latest answer of the API about *)
(* the configuration: an older one serves only while the API is out of     *)
(* reach, never after it has been retired or replaced ("une configuration  *)
(* retirée l'efface"); a reading is of a validated point in its unit.      *)
Follows(m, round) ==
    \E k \in 1..(round + 1) :
       answers[k] = m /\ \A j \in (k + 1)..(round + 1) : answers[j] = Unreachable
ConfigurationFollowed ==
    /\ \A k \in DOMAIN writes : Follows(writes[k].mapping, writes[k].round)
    /\ \A r \in held \cup stored :
          /\ Follows(r.mapping, r.round)
          /\ r.point \in DOMAIN PointUnits
          /\ protocol = "modbus" => check_declared_unit(r.mapping)

CycleSafe == CommandsReachSimulated /\ ConfigurationFollowed
===============================================================================
