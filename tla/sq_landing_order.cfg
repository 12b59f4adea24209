SPECIFICATION FairSpec
CONSTANTS MaxVersions = 3 MaxHydrations = 1
PROPERTY RequestsLandInOrder
(* A closed page does nothing any more. *)
CHECK_DEADLOCK FALSE
