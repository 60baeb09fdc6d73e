SPECIFICATION Spec
CONSTANTS
  Thread <- MCThread
  Caller <- MCThread
  Device = {"hub", "stick"}
  Disk = {"stick"}
  IdOf <- MCIdOf
  SizesOf <- MCSizesOf
  NoId = "noId"
  ListSize = 4
  DiskListSize = 4
  Scenario <- MCScenario
  Items <- MCItems
  Store <- MCStore
  Measure <- MCMeasure
  TimeOut = 2
INVARIANTS TypeOK TrueMeansJudged HonestVerdicts OneDialog
PROPERTY TestAnswered
