SPECIFICATION Spec
CONSTANTS
  None = None
  Plan <- AllPlans
  MaxPlan = 3
  MaxFd = 6
  Retries = 1
  Rounds = 1
  Probes = 2
  EventNodes <- Nodes
  Scans = 2
  Width = 16
  Lengths = {6, 15}
INVARIANTS TypeOK OKMeansWorks DescriptorsKept EndsExplained
  AnswersTrue
PROPERTIES NGHasCause EveryTestEnds
