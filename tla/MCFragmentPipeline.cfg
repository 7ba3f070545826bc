SPECIFICATION Spec
CONSTANTS
  nothing = nothing
  whole = whole
  Nothing <- nothing
  Whole <- whole
  RequirementSets <- MCRequirements
  MaterialPatches <- MCMaterials
  Fragments <- MCFragments
  Proposal <- MCProposal
  Defective <- MCDefective
  MaxFragmentAttempts = 2
  MaxTotalCalls = 3
  MaxRevisions = 2
INVARIANTS
  TypeOK
  AcceptedIsBacked
  PatchQualifies
  MergeIsClean
PROPERTIES
  SoundFragmentsKept
  GenerationReturns
