SPECIFICATION Spec
CONSTANTS
  None = None
  Typename = "__typename"
  Id = "id"
  Names <- MCNames
  Types <- MCTypes
  Roots <- MCRoots
  Subgraphs <- MCSubgraphs
  JoinType <- MCJoinType
  JoinField <- MCJoinField
  JoinRoot <- MCJoinRoot
  Variables <- MCVariables
  Representations = "$representations"
  Misread <- MCMisread
  Misquoted <- MCMisquoted
  MutationRoots <- MCMutationRoots
  Costs <- MCCosts
  Searches = {"searchProperties"}
  Plurals = {"searchProperties", "reviews"}
  Introspection = {"__schema", "__type"}
  MaxDepth = 4
  MaxCost = 50
  MaxU32 = 80
  Selections <- MCSelections
  Height <- MCHeight
  Requests <- MCRequests
INVARIANTS
  TypeOK
  SentWithinDepth
  SentWithinCost
  PartsSelfContained
  UsageIsOfThePlan
