SPECIFICATION FairPhotoSpec
CONSTANTS
  MaxPhotos = 2
  MaxDrains = 2
  Limit = 2
  Bad = {1}
  Folders = {"photos", "progress"}
  MediaFolders <- ServerFolders
  MaxPhotoFaults = 4
INVARIANTS
  FiledOnce
  NothingLost
PROPERTIES
  PhotosLeave
  RefusedLeftAlone
CHECK_DEADLOCK FALSE
