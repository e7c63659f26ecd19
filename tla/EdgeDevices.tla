------------------------------ MODULE EdgeDevices ------------------------------
(***************************************************************************)
(* The edge devices of a tenant (app/devices.py, app/routers/devices.py):  *)
(* provisioning, installation and rotation of the public key, revocation,  *)
(* reports, and the communication status that is computed when read.  How  *)
(* a device proves who it is (secret, signed assertion) is left out: an    *)
(* authentication that succeeds is an action.                              *)
(***************************************************************************)
EXTENDS Integers, FiniteSets, Sequences

CONSTANTS
    DeviceIds,      \* labels of devices
    Fingerprints,   \* fingerprints of public keys
    Staff,          \* requests of people in charge
    Reports,        \* requests of devices
    OnlineAfter,    \* ONLINE_AFTER
    Counts,         \* lengths of an offline buffer that may be reported
    MaxClock, MaxDevices, MaxActs,       \* bounds
    NoKey, NoAct

Unsaid == -1        \* a column that is NULL, a field that is absent

KeysKnown == Fingerprints \cup {NoKey}
SeenAt == {Unsaid} \cup 0..MaxClock

DeviceRows ==
    [device_id : DeviceIds, key : KeysKnown, status : {"active", "revoked"},
     revoked_by : Staff \cup {NoAct}, last_seen : SeenAt, pending : {Unsaid} \cup Counts]
IdentityEntries == [n : 1..MaxDevices, old : KeysKnown, new : KeysKnown]

(* What a person in charge, or a device, has asked for. *)
StaffRequests ==
    [act : {"provision"}, device_id : DeviceIds, key : KeysKnown]
    \cup [act : {"key"}, n : 1..MaxDevices, key : Fingerprints, old : KeysKnown]
DeviceReports == [n : 1..MaxDevices, at : SeenAt, pending : {Unsaid} \cup Counts]

ASSUME DevicesAssumption ==
    /\ OnlineAfter \in Nat /\ MaxClock \in Nat /\ MaxDevices \in Nat \ {0} /\ MaxActs \in Nat
    /\ Counts \subseteq Nat
    /\ NoAct \notin Staff \cup StaffRequests \cup DeviceReports

VARIABLES
    devices,        \* edge_devices, in the order of their creation
    identities,     \* entries device.public_key_set and device.provisioned of the audit journal
    acting,         \* of each request of Staff: what it has read
    reporting,      \* of each request of Reports: its instant and what it carries
    clock,
    heard,          \* history: of each device, the latest instant it was heard at,
                    \* and whether it has told its buffer
    acts            \* bound: requests of Staff begun

deviceVars == <<devices, identities, acting, reporting, clock, heard, acts>>

Registered == 1..Len(devices)

DevicesTypeOK ==
    /\ devices \in Seq(DeviceRows) /\ Len(devices) <= MaxDevices
    /\ identities \in Seq(IdentityEntries)
    /\ acting \in [Staff -> StaffRequests \cup {NoAct}]
    /\ reporting \in [Reports -> DeviceReports \cup {NoAct}]
    /\ \A s \in Staff : acting[s] # NoAct /\ acting[s].act = "key" => acting[s].n \in Registered
    /\ \A r \in Reports : reporting[r] # NoAct => reporting[r].n \in Registered
    /\ clock \in 0..MaxClock /\ acts \in 0..MaxActs
    /\ heard \in Seq([at : SeenAt, told : BOOLEAN]) /\ Len(heard) = Len(devices)

Provisioned(d, k) ==
    [device_id |-> d, key |-> k, status |-> "active", revoked_by |-> NoAct,
     last_seen |-> Unsaid, pending |-> Unsaid]
Unheard == [at |-> Unsaid, told |-> FALSE]

(* No device, or one that was provisioned with a shared secret. *)
DevicesInit ==
    /\ \/ devices = <<>> /\ identities = <<>> /\ heard = <<>>
       \/ \E d \in DeviceIds :
             /\ devices = <<Provisioned(d, NoKey)>>
             /\ identities = <<[n |-> 1, old |-> NoKey, new |-> NoKey]>>
             /\ heard = <<Unheard>>
    /\ acting = [s \in Staff |-> NoAct]
    /\ reporting = [r \in Reports |-> NoAct]
    /\ clock = 0 /\ acts = 0

-----------------------------------------------------------------------------
(* create_device: the label is looked for, then the row is inserted, with  *)
(* its key or without (shared secret), under the unique constraint of the  *)
(* labels of a tenant.                                                     *)
Labelled(d) == \E n \in Registered : devices[n].device_id = d

LookForLabel(s, d, k) ==
    /\ acting[s] = NoAct /\ acts < MaxActs
    /\ ~ Labelled(d)
    /\ acting' = [acting EXCEPT ![s] = [act |-> "provision", device_id |-> d, key |-> k]]
    /\ acts' = acts + 1
    /\ UNCHANGED <<devices, identities, reporting, clock, heard>>

uq_edge_devices_tenant_device_id(d) == ~ Labelled(d)

provision_device(s) ==
    LET a == acting[s] IN
    /\ a # NoAct /\ a.act = "provision"
    /\ IF uq_edge_devices_tenant_device_id(a.device_id) /\ Len(devices) < MaxDevices
       THEN /\ devices' = Append(devices, Provisioned(a.device_id, a.key))
            /\ heard' = Append(heard, Unheard)
            /\ identities' = Append(identities,
                  [n |-> Len(devices) + 1, old |-> NoKey, new |-> a.key])
       ELSE UNCHANGED <<devices, identities, heard>>
    /\ acting' = [acting EXCEPT ![s] = NoAct]
    /\ UNCHANGED <<reporting, clock, acts>>

(* set_device_public_key_route: the fingerprint is read, then the key is   *)
(* replaced by the id of the row, whatever its status; the entry of the    *)
(* journal is written in the same transaction, while the row is locked.    *)
ReadFingerprint(s, n, k) ==
    /\ acting[s] = NoAct /\ acts < MaxActs
    /\ acting' = [acting EXCEPT ![s] =
                     [act |-> "key", n |-> n, key |-> k, old |-> devices[n].key]]
    /\ acts' = acts + 1
    /\ UNCHANGED <<devices, identities, reporting, clock, heard>>

set_public_key(s) ==
    LET a == acting[s] IN
    /\ a # NoAct /\ a.act = "key"
    /\ devices' = [devices EXCEPT ![a.n].key = a.key]
    /\ identities' = Append(identities, [n |-> a.n, old |-> a.old, new |-> a.key])
    /\ acting' = [acting EXCEPT ![s] = NoAct]
    /\ UNCHANGED <<reporting, clock, heard, acts>>

(* UPDATE ... WHERE status = 'active': a second revocation is refused. *)
revoke_device(s, n) ==
    /\ acting[s] = NoAct /\ acts < MaxActs
    /\ devices[n].status = "active"
    /\ devices' = [devices EXCEPT ![n].status = "revoked", ![n].revoked_by = s]
    /\ acts' = acts + 1
    /\ UNCHANGED <<identities, acting, reporting, clock, heard>>

-----------------------------------------------------------------------------
(* A batch of measures takes its instant when it is received; what the     *)
(* device reports of itself may be absent.  The row is touched at the end, *)
(* by its id.                                                              *)
create_edge_measurements(r, n, pending) ==
    /\ reporting[r] = NoAct
    /\ reporting' = [reporting EXCEPT ![r] = [n |-> n, at |-> clock, pending |-> pending]]
    /\ UNCHANGED <<devices, identities, acting, clock, heard, acts>>

(* POST /devices/auth: refused unless the device is active; the instant is *)
(* that of the end.                                                        *)
authenticate_device_route(r, n) ==
    /\ reporting[r] = NoAct /\ devices[n].status = "active"
    /\ reporting' = [reporting EXCEPT ![r] = [n |-> n, at |-> Unsaid, pending |-> Unsaid]]
    /\ UNCHANGED <<devices, identities, acting, clock, heard, acts>>

Coalesce(said, kept) == IF said = Unsaid THEN kept ELSE said

touch_last_seen(r) ==
    LET q == reporting[r]
        at == IF q.at = Unsaid THEN clock ELSE q.at
    IN
    /\ q # NoAct
    /\ devices' = [devices EXCEPT ![q.n].last_seen = at,
                                  ![q.n].pending = Coalesce(q.pending, @)]
    /\ heard' = [heard EXCEPT ![q.n] =
          [at |-> IF at > @.at THEN at ELSE @.at, told |-> @.told \/ q.pending # Unsaid]]
    /\ reporting' = [reporting EXCEPT ![r] = NoAct]
    /\ UNCHANGED <<identities, acting, clock, acts>>

communication_status(n) ==
    IF devices[n].last_seen = Unsaid THEN "unknown"
    ELSE IF clock - devices[n].last_seen <= OnlineAfter THEN "online" ELSE "offline"

ClockTicks ==
    /\ clock < MaxClock
    /\ clock' = clock + 1
    /\ UNCHANGED <<devices, identities, acting, reporting, heard, acts>>

DevicesNext ==
    \/ \E s \in Staff, d \in DeviceIds, k \in Fingerprints \cup {NoKey} : LookForLabel(s, d, k)
    \/ \E s \in Staff : provision_device(s) \/ set_public_key(s)
    \/ \E s \in Staff, n \in Registered, k \in Fingerprints : ReadFingerprint(s, n, k)
    \/ \E s \in Staff, n \in Registered : revoke_device(s, n)
    \/ \E r \in Reports, n \in Registered, p \in Counts \cup {Unsaid} :
          create_edge_measurements(r, n, p)
    \/ \E r \in Reports, n \in Registered : authenticate_device_route(r, n)
    \/ \E r \in Reports : touch_last_seen(r)
    \/ ClockTicks

DevicesSpec == DevicesInit /\ [][DevicesNext]_deviceVars

-----------------------------------------------------------------------------
(* The journal tells the identity of each device: its last entry names the *)
(* key that is installed, in whatever order concurrent rotations end       *)
(* ("historique des changements d'identité : le journal d'audit suffit").  *)
EntriesOf(n) == {i \in 1..Len(identities) : identities[i].n = n}
JournalTellsIdentity ==
    \A n \in Registered :
      /\ EntriesOf(n) # {}
      /\ \E i \in EntriesOf(n) :
            (\A j \in EntriesOf(n) : j <= i) /\ identities[i].new = devices[n].key

(* A label names one device, and the status shown never claims more than   *)
(* was heard: online, or silent for ever, only if the requests say so, and *)
(* a buffer reported once stays shown ("une absence ne doit jamais effacer *)
(* la dernière valeur connue").                                            *)
StatusNeverClaims ==
    \A n \in Registered :
      /\ \A m \in Registered : devices[m].device_id = devices[n].device_id => m = n
      /\ communication_status(n) = "unknown" <=> heard[n].at = Unsaid
      /\ communication_status(n) = "online" => clock - heard[n].at <= OnlineAfter
      /\ devices[n].pending # Unsaid <=> heard[n].told
      /\ devices[n].status = "active" <=> devices[n].revoked_by = NoAct

(* A device that was revoked stays so, by the person who revoked it first. *)
RevocationKept ==
    \A n \in Registered : devices[n].status = "revoked" =>
        devices'[n].status = "revoked" /\ devices'[n].revoked_by = devices[n].revoked_by

DevicesAccountedFor == JournalTellsIdentity /\ StatusNeverClaims
===============================================================================
