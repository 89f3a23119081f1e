SPECIFICATION PhotoSpec
CONSTANTS
  MaxPhotos = 2
  MaxDrains = 2
  Limit = 2
  Bad = {1}
  Folders = {"progress"}
  MediaFolders <- ServerFolders
  MaxPhotoFaults = 0
INVARIANTS
  RefusalIsAboutThePhoto
CHECK_DEADLOCK FALSE
