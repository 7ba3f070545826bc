SPECIFICATION Spec
CONSTANTS
  nothing = nothing
  whole = whole
  Nothing <- nothing
  Whole <- whole
  RequirementSets <- MCRequirements
  MaterialPatches <- MCMaterials
  Fragments <- MCFragments
  Proposal <- MCProposal
  Defective <- MCDefective
  MaxFragmentAttempts = 2
  MaxTotalCalls = 5
  MaxRevisions = 2
INVARIANT RejectedIsRegenerated
