SPECIFICATION FairSpec
CONSTANTS MaxVersions = 4 MaxHydrations = 1
INVARIANTS SingleFlight LastEditAccountedFor SavedMeansStored QuietMeansIdle
PROPERTIES PendingEditSurvivesPageHide AwaitedWritesLandInOrder ImplementsAutosave SavingEnds
(* A closed page does nothing any more. *)
CHECK_DEADLOCK FALSE
