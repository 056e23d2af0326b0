\* Every engine on small inputs of every kind it tells apart.
SPECIFICATION EnginesSpec
CONSTANTS
  Documents <- MixedDocuments
  MaxScans = 2
  Candidates = {p, q, r}
  Outside = {o}
  Nodes = {p, q, r}
  MaxRank = 2
  Artefacts <- SampleArtefacts
  Contexts <- SampleContexts
  Horizons <- SampleHorizons
  Lifetimes <- SampleLifetimes
  Profiles <- SampleProfiles
  Requirements <- SampleRequirements
  Builds <- SampleBuilds
  Sightings <- SampleSightings
  Inventories <- SampleInventories
  Snapshots <- SampleSnapshots
CHECK_DEADLOCK FALSE
INVARIANTS
  EnginesTypeOK EveryArtefactIsClassified CapabilityNeverHelps LifetimeNeverHelps TracksNeverContradict
  VerdictsSurviveStorage AcceptedProfilesNeverRaise GateNeverRelaxes ObservationsAccounted
  ExportsAgree DiffsReconcile NothingDroppedSilently SoundComponentsSurvive 
  WavesInOrder RaisesExactlyOnCycles HighestAncestorGoverns
PROPERTIES
  WavesEnd CriticalitySettles
