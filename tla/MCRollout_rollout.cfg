\* Five releases, two of which do not start, under two events and two receivers.
SPECIFICATION FairSpec
CONSTANTS
  Releases = {1, 2, 3, 4, 5}  Imports <- FiveReleases  First = 1
  Webs = {"web"}  Relays = {"relay", "mailer"}  Lane <- TwoLanes
  Default = "default"  AnyEvent = "AnyEvent"  Nobody = Nobody
  MaxEvents = 1  MaxAttempts = 2  MaxDeploys = 3  MaxReopens = 1
INVARIANTS IInv
PROPERTIES AnnouncedAtDeploy RowsDrain
CHECK_DEADLOCK FALSE
