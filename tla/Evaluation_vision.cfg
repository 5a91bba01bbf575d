CONSTANTS
  RawDatasets <- MCRawDatasets
  Configs <- MCConfigs
  Unit = 2
  CropSize = 4
  Stride = 3
  EdgeTiles = TRUE
  VisibleThreshold <- Half
  ImagesPerSplit = 3
  MaxGap = 2
  MinIoU <- Fifth
  MinIoS <- Half
  MaxAspect <- Three
  MaxAreaRatio <- Three
  DisabledClasses = {1}
  Decay <- MCDecay
  Classes = 2
  RecallPoints = 10
  Jobs <- MCJobs
  Answers <- MCAnswers
  MaxFound = 4
  MatchIoU <- Half
SPECIFICATION Spec
\* Both commands end.
CHECK_DEADLOCK FALSE
INVARIANTS EnrichmentSound DetectionsTraceable ReductionSound ScoresHonest
