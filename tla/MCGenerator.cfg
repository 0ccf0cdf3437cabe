SPECIFICATION FairSpec
CONSTANTS
  MaxRequests = 4
  MaxUploads = 2
  MaxConverts = 1
  UrlLines = 2
  Bodies = 2
CHECK_DEADLOCK FALSE
INVARIANTS FlickerCount UploadsKept WholeForThePatient
PROPERTIES FlickersStop
