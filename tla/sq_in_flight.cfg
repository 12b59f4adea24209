SPECIFICATION FairSpec
CONSTANTS MaxVersions = 3 MaxHydrations = 1
INVARIANT InFlightCarriesLatest
(* A closed page does nothing any more. *)
CHECK_DEADLOCK FALSE
