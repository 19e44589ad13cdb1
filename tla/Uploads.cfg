\* Every part of multipart uploads.
SPECIFICATION FairParts
CONSTANTS
  Off = Off
  Parts = {"upload", "races", "numbers", "rows", "alone", "skewed", "marks", "sqlite", "resumes", "opening", "assembly"}
  Numbers = {1}
  PartUploads = {"a1", "a2"}
  NumberOf <- OneNumber
  Completions = {"c1", "c2"}
  SlowHolders = FALSE
  ReaperRaces = FALSE
  None = None
  AnyETag = AnyETag
INVARIANTS  PartsKept StatementsHold 
PROPERTIES AsIfAlone UploadClears
CHECK_DEADLOCK FALSE
