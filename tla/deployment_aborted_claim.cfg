CONSTANTS
  h1 = h1
  h2 = h2
  n1 = n1
  Handlers <- MCHandlers
  MaxResends = 0
  Nodes <- MCNodes
  JobTypes = {"system", "batch"}
SPECIFICATION Spec
PROPERTY AbortedMeansEvaluationEnded
