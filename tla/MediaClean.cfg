SPECIFICATION FairSpec
CONSTANTS
  Files = {1, 2}
  Orders = {o1}
  Jobs = {j1, j2}
  Stuck = {2}
  MinAge = 1
  MaxPhotos = 1
  MaxCrashes = 1
  MaxTime = 2
PROPERTIES PromptReferenceStays UsedFileStays OrphansGo
