CONSTANTS
  Criteria <- MCCriteria
  Actions <- MCActions
  About <- MCAbout
  Relation <- MCRelation
  Routes = {r1}
  WindowSize = 2
  YieldThreshold = 2
  MaxRedirects = 2
  SupportLimit = 1
  TotalLimit = 2
  EpochLimit = 1
  SameLimit = 2
  MaxPending = 2
  MaxSequence = 2
  MaxRevision = 2
  MaxEpochs = 1
  MaxFaults = 1
  Stages <- Implement
  OwnerOf <- Owners
  Requires <- Requirements
  Frequency <- Frequencies
  TaskStart = {"owl", "anchor_open"}
  Components <- Catalog
  AllowedModes <- CatalogModes
  BaselineMode <- Baselines
  Projections <- Offers
  Batches <- Directives
  Segments = 2
  MaxIndex = 2
  Registries = {"agents", "codex"}
  CoreSkills = {"OWL"}
  StateWorks = {"gitter"}
  Shipped <- TwoReleases
  WrapperSource <- StateWorkDocuments
  MaxInstalls = 3
  MaxEdits = 1
  MaxCrashes = 1
SPECIFICATION PolicySpec
CONSTRAINT MCOneDisturbance
INVARIANTS
  OverlayInv
  ReportedIsInForce
  
  InstallerInv
  FailedInstallRestores
  DoctorAcceptsInstall
PROPERTIES
  ExpiredStaysExpired
  EpochJustified
  UserEditsKept
CHECK_DEADLOCK FALSE
