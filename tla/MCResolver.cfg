CONSTANTS
  Stages <- PipelineStages
  Owner <- PipelineOwner
  Prefix <- PrefixOf
  Requires <- PipelineRequires
  OrderAfter <- PipelineOrderAfter
  Lexical <- PipelineLexical
  Aliases <- PipelineAliases
  Profiles <- PipelineProfiles
  RoutingProfiles <- DeployedProfiles
  Candidate <- MCCandidate
  Advices <- MCAdvices
  Components = {"dox", "flow", "unknown"}
  Facets <- MCFacets
  AlwaysOn <- KernelRules
  Artifact <- ArtifactGuards
  KeyRank <- AlphabeticalKeys
  TokenBudget = 7
  MaxPack = 2
  MaxRegistry = 2
  Starters = {s1, s2}
  Bundles <- AttemptBundles
  MaxStarts = 2
SPECIFICATION MCSpec
INVARIANTS
  ResolutionInv
  
  
  
PROPERTIES
  PolicyArtifactImmutable
CHECK_DEADLOCK FALSE
