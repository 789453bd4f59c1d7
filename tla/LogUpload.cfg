SPECIFICATION FairSpec
CONSTANTS
  Page = {p1}
  Kind = {"log", "kmsg"}
  MaxUploads <- MCMaxUploads
  MaxLag = 1
  NoUpload = NoUpload
INVARIANTS
  BusyIsCovered
  ReportsAreTrue
PROPERTY
  ButtonsComeBack
