SPECIFICATION Spec
CONSTANTS
  Cand <- Three
  Domain <- Domains
  DomainOf <- Origins
  Registries <- Private
  Concurrency = 2
  MaxPasses = 2
  MaxChecks = 3
  Keep = 1
  Fleets <- Projects
  Layers <- Stacks
INVARIANTS
  TypeOK
  FallbackSparing
  DeniedForCause
  DependenciesFirst
  NoneForgotten
  OptInOnly
  PrunedAfterUpdates
PROPERTY PassEnds
\* The bound on passes is reached, or the daemon has stopped.
CHECK_DEADLOCK FALSE
