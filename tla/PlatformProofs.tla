---------------------------- MODULE PlatformProofs ----------------------------
(***************************************************************************)
(* What the components that MCPlatform composes have been proved to keep,  *)
(* the composition keeps: a behaviour of the whole is one of each of them. *)
(***************************************************************************)
EXTENDS MCPlatform, SetupProofs, RegistryProofs, WatchProofs

LEMMA EdgeBehaviours == Spec => CommSpec /\ VocSpec /\ DevicesSpec /\ CycleSpec
  <1>1. Init => CommInit /\ VocInit /\ DevicesInit /\ CycleInit
    BY DEF Init
  <1>2. [Next]_vars => /\ [CommNext]_commVars /\ [VocNext]_vocVars
                       /\ [DevicesNext]_deviceVars /\ [CycleNext]_cycleVars
    BY DEF Next, vars, setupVars
  <1> QED BY <1>1, <1>2, PTL DEF Spec, CommSpec, VocSpec, DevicesSpec, CycleSpec

(* The points, the units, the devices and the daemon are as the invariant  *)
(* that TLC checks on the instances says, for every value of the constants.*)
THEOREM EdgeAsRegisteredHolds == Spec => []EdgeAsRegistered
  <1>1. PointOfAccepted /\ UnitsAgree /\ DevicesAccountedFor /\ CycleSafe => EdgeAsRegistered
    BY DEF EdgeAsRegistered, InFocus
  <1> QED BY <1>1, EdgeBehaviours, PointOfAcceptedHolds, UnitsAgreeHolds,
             DevicesAccountedForHolds, CycleSafeHolds, PTL

LEMMA RegistryBehaviours == Spec => ImportSpec /\ GraphSpec /\ RecordSpec /\ FilingSpec /\ MigrationSpec
  <1>1. Init => ImportInit /\ GraphInit /\ RecordInit /\ FilingInit /\ MigrationInit
    BY DEF Init
  <1>2. [Next]_vars => /\ [ImportNext]_importVars /\ [GraphNext]_graphVars /\ [RecordNext]_recordVars
                       /\ [FilingNext]_filingVars /\ [MigrationNext]_migrationVars
    BY DEF Next, vars, registryVars, recordedVars
  <1> QED BY <1>1, <1>2, PTL DEF Spec, ImportSpec, GraphSpec, RecordSpec, FilingSpec, MigrationSpec

LEMMA OtherBehaviours ==
  Spec => /\ SuperSpec /\ AutoSpec /\ AuditSpec /\ TimelineSpec
          /\ ConfigSpec /\ ArchSpec /\ PlaceSpec
          /\ DiagSpec /\ EnergySpec /\ StatusSpec /\ FieldSpec
  <1>1. Init => /\ SuperInit /\ AutoInit /\ AuditInit /\ TimelineInit
                /\ ConfigInit /\ ArchInit /\ PlaceInit
                /\ DiagInit /\ EnergyInit /\ StatusInit /\ FieldInit
    BY DEF Init
  <1>2. [Next]_vars => /\ [SuperNext]_superVars /\ [AutoNext]_autoVars /\ [AuditNext]_auditVars
                       /\ [TimelineNext]_timeVars
    BY DEF Next, vars, watchVars
  <1>3. [Next]_vars => /\ [ConfigNext]_configVars /\ [ArchNext]_archVars /\ [PlaceNext]_placeVars
    BY DEF Next, vars, setupVars, registryVars
  <1>4. [Next]_vars => /\ [DiagNext]_diagVars /\ [EnergyNext]_energyVars
                       /\ [StatusNext]_statusVars /\ [FieldNext]_fieldVars
    BY DEF Next, vars, computedVars
  <1> QED BY <1>1, <1>2, <1>3, <1>4, PTL
        DEF Spec, SuperSpec, AutoSpec, AuditSpec, TimelineSpec, ConfigSpec, ArchSpec, PlaceSpec,
            DiagSpec, EnergySpec, StatusSpec, FieldSpec

(* Between the statements of any two requests the records of the registry  *)
(* agree with one another: the tree of the spaces and what was imported    *)
(* into it, the walk of the impacts, the dated values, the files and what  *)
(* the plans show, the rows between two migrations.                        *)
THEOREM RegistryConsistentHolds == Spec => []RegistryConsistent
  <1>1. TreeConsistent /\ WalkFaithful /\ OneValueAtATime /\ FilingSound /\ ContractReady
        => RegistryConsistent
    BY DEF RegistryConsistent, InFocus
  <1> QED BY <1>1, RegistryBehaviours, TreeConsistentHolds, WalkFaithfulHolds,
             OneValueAtATimeHolds, FilingSoundHolds, ContractReadyHolds, PTL

(* A component that does not move keeps its history as well.               *)
LEMMA NothingRewritten ==
  /\ UNCHANGED configVars => TakesOver
  /\ UNCHANGED recordVars => SettledKept
  /\ UNCHANGED deviceVars => RevocationKept
  /\ UNCHANGED migrationVars => MeaningKept
  <1>1. UNCHANGED configVars => TakesOver
    <2>1. UNCHANGED configVars => ActiveVersions' = ActiveVersions
      BY DEF configVars, ActiveVersions, Written
    <2> QED BY <2>1 DEF TakesOver
  <1>2. UNCHANGED recordVars => SettledKept
    BY DEF recordVars, SettledKept
  <1>3. UNCHANGED deviceVars => RevocationKept
    BY DEF deviceVars, RevocationKept
  <1>4. UNCHANGED migrationVars => MeaningKept
    BY DEF migrationVars, MeaningKept
  <1> QED BY <1>1, <1>2, <1>3, <1>4

(* No later step of a request that decided on an older row rewrites        *)
(* history: a version taken over, a value that has ended, a declaration    *)
(* submitted, a device that is revoked; no migration rewrites what a row   *)
(* tells.                                                                  *)
THEOREM HistoryKeptHolds == Spec => HistoryKept
  <1>1. [TakesOver]_configVars /\ [SettledKept]_recordVars /\ [RevocationKept]_deviceVars
           /\ [MeaningKept]_migrationVars
        => [TakesOver /\ SettledKept /\ RevocationKept /\ MeaningKept]_
              <<configVars, recordVars, deviceVars, migrationVars>>
    BY NothingRewritten
  <1> QED BY <1>1, EdgeBehaviours, RegistryBehaviours, OtherBehaviours, TakesOverHolds, SettledKeptHolds,
             RevocationKeptHolds, MeaningKeptHolds, PTL DEF HistoryKept

LEMMA FocusKept == Spec => [](focus \in Components)
  <1>1. Init => focus \in Components
    BY DEF Init
  <1>2. focus \in Components /\ [Next]_vars => (focus \in Components)'
    BY DEF Next, vars
  <1> QED BY <1>1, <1>2, PTL DEF Spec

(* The types of every component, with the constraints of its tables.       *)
THEOREM TypeCorrect == Spec => []TypeOK
  <1>1. /\ focus \in Components
        /\ SuperTypeOK /\ ConfigTypeOK /\ AuditTypeOK /\ CommTypeOK /\ ArchTypeOK
        /\ AutoTypeOK /\ PlaceTypeOK /\ ImportTypeOK /\ DiagTypeOK /\ TimelineTypeOK
        /\ GraphTypeOK /\ RecordTypeOK /\ DevicesTypeOK /\ CycleTypeOK /\ FilingTypeOK
        /\ EnergyTypeOK /\ StatusTypeOK /\ FieldTypeOK /\ MigrationTypeOK /\ VocTypeOK
        => TypeOK
    BY DEF TypeOK, InFocus
  <1> QED BY <1>1, FocusKept, EdgeBehaviours, RegistryBehaviours, OtherBehaviours,
             SuperTypeCorrect, ConfigTypeCorrect, AuditTypeCorrect, CommTypeCorrect,
             ArchTypeCorrect, AutoTypeCorrect, PlaceTypeCorrect, ImportTypeCorrect,
             DiagTypeCorrect, TimelineTypeCorrect, GraphTypeCorrect, RecordTypeCorrect,
             DevicesTypeCorrect, CycleTypeCorrect, FilingTypeCorrect, EnergyTypeCorrect,
             StatusTypeCorrect, FieldTypeCorrect, MigrationTypeCorrect, VocTypeCorrect, PTL

(* In the composition as in each component alone: one finding and one work *)
(* order per problem, one approved active version, a journal that          *)
(* verifies, no equipment revived on an archived site but by a stray       *)
(* request, firings apart, placements that agree, walks that skip nothing  *)
(* but ties; and what is computed but for the verdict of the field test.   *)
THEOREM EachAsAlone ==
  Spec => [](/\ OneFindingOneOrder /\ OneActiveApproved /\ JournalVerifies /\ ActiveOnArchivedIsStray
             /\ FiredApart /\ UndisturbedConsistent /\ WalkMissesOnlyTies
             /\ DiagnosisAsDefined /\ EnergyExplained
             /\ ScreensAgree)
  BY OtherBehaviours, OneFindingOneOrderHolds, OneActiveApprovedHolds, JournalVerifiesHolds,
     ActiveOnArchivedIsStrayHolds, FiredApartHolds, UndisturbedConsistentHolds, WalkMissesOnlyTiesHolds,
     DiagnosisAsDefinedHolds, EnergyExplainedHolds, ScreensAgreeHolds, PTL

(* What the platform computes from the measures, for any measures in any    *)
(* order: the findings of its rules are those of their definitions, an      *)
(* energy is never more than what was used and a result says how it was     *)
(* obtained, and no two screens tell of an equipment or a point differently *)
(* (app/rules.py, app/trust.py, app/energy, app/equipment_status.py,        *)
(* app/comparison.py).                                                      *)
THEOREM ComputedAsDefinedHolds == Spec => []ComputedAsDefined
  <1>1. DiagnosisAsDefined /\ EnergyExplained /\ ScreensAgree => ComputedAsDefined
    BY DEF ComputedAsDefined, InFocus
  <1> QED BY <1>1, EachAsAlone, PTL
===============================================================================
