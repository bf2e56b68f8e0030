----------------------------- MODULE Services_proofs -----------------------------
(***************************************************************************)
(* The composed run of the services (MCServices) is a run of each of them. *)
(*                                                                         *)
(* A step of the composition is a step of the service in focus and leaves  *)
(* the variables of the others alone, so ServicesSpec implements each      *)
(* service's own specification, and with it goes everything that is proved *)
(* of that service.                                                        *)
(***************************************************************************)
EXTENDS MCServices, Staff_proofs, Operations_proofs, Supply_proofs

(* A step of the composition, seen by each service. *)
LEMMA ServiceSteps ==
  ASSUME [ServicesNext]_services
  PROVE  /\ [FreeNext]_freeVars /\ [FleetNext]_fleetVars /\ [StaffNext]_staffVars
         /\ [OutboxNext]_outboxVars /\ [ReadingsNext]_readingsVars
         /\ [CapacityNext]_capacityVars /\ [ReleasesNext]_releasesVars
<1>1. CASE UNCHANGED services
  BY <1>1 DEF services
<1>2. CASE ServicesNext
  BY <1>2 DEF ServicesNext, OtherThan
<1> QED BY <1>1, <1>2

(* The composition implements every service: the services begin together, and
   whichever steps, the others stutter. *)
THEOREM ServicesImplementEach ==
  ServicesSpec => /\ FreeSpec /\ FleetSpec /\ StaffSpec /\ OutboxSpec /\ ReadingsSpec
                  /\ CapacitySpec /\ ReleasesSpec
<1>1. ServicesInit => /\ FreeInit /\ FleetInit /\ StaffInit /\ OutboxInit /\ ReadingsInit
                      /\ CapacityInit /\ ReleasesInit
  BY DEF ServicesInit
<1> QED
  BY <1>1, ServiceSteps, PTL
  DEF ServicesSpec, FreeSpec, FleetSpec, StaffSpec, OutboxSpec, ReadingsSpec,
      CapacitySpec, ReleasesSpec

(* Every variable of the composition keeps its type, of the service in focus
   and of the others. *)
THEOREM ServicesTypesSafety == ServicesSpec => []ServicesTypeOK
<1>1. ServicesInit => focus \in Foci
  BY DEF ServicesInit
<1>2. focus \in Foci /\ [ServicesNext]_services => (focus \in Foci)'
  BY DEF ServicesNext, OtherThan, services
<1>3. /\ focus \in Foci
      /\ FreeTypeOK /\ FleetTypeOK /\ StaffTypeOK /\ OutboxTypeOK /\ ReadingsTypeOK
      /\ CapacityTypeOK /\ ReleasesTypeOK
      => ServicesTypeOK
  BY DEF Foci, ServicesTypeOK
<1>4. ServicesSpec => [](focus \in Foci)
  BY <1>1, <1>2, PTL DEF ServicesSpec
<1> QED
  BY <1>3, <1>4, ServicesImplementEach, FreeTypesSafety, FleetTypesSafety, StaffTypesSafety,
     OutboxTypesSafety, ReadingsTypesSafety, CapacityTypesSafety, ReleasesTypesSafety, PTL

(* What the services promise, all together. *)
ServicesPromise ==
  /\ NoOversell /\ OneLiveDailyKey /\ FreeKeysMatchRows
  /\ OneDropletPerJob /\ WithinBudget /\ NodeInUseIsKept /\ EnrolmentIsAllOrNothing
  /\ ConfirmedActionIsCurrent /\ SentOnceUnlessUnsure /\ ReadingsStand
  /\ SoldWithinLimits /\ FailedReleaseIsNotServed

(* Each promise of a service holds of the composed run. *)
THEOREM ServicesSafety == ServicesSpec => []ServicesPromise
<1>1. ServicesPromise <=>
        /\ NoOversell /\ OneLiveDailyKey /\ FreeKeysMatchRows
        /\ OneDropletPerJob /\ WithinBudget /\ NodeInUseIsKept /\ EnrolmentIsAllOrNothing
        /\ ConfirmedActionIsCurrent /\ SentOnceUnlessUnsure /\ ReadingsStand
        /\ SoldWithinLimits /\ FailedReleaseIsNotServed
  BY DEF ServicesPromise
<1> QED
  BY <1>1, ServicesImplementEach, NoOversellSafety, OneLiveDailyKeySafety, FreeKeysMatchSafety,
     OneDropletSafety, BudgetSafety, NodeInUseSafety, EnrolmentSafety,
     ConfirmedActionSafety, SentOnceSafety, ReadingsStandSafety,
     SoldWithinLimitsSafety, ServedReleaseSafety, PTL
=============================================================================
