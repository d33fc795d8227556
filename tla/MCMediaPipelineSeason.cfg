CONSTANTS
  single = single
  pack = pack
  loop = loop
  manualRun = manualRun
  LastEpisode = 2
  Movie = FALSE
  Torrents = {pack}
  Offers <- MCOffers
  Manual = {}
  MaxAttempts = 2
  Scanners = {loop}
  Scheduler = loop
  NoTorrent = NoTorrent
  NoOwner = NoOwner
SPECIFICATION Spec
INVARIANTS
  TypeOK
  QueuedTargetRecoverable
  DeliveredOnly
  NoStrandedRow
  FreshScanIsCurrent
PROPERTIES
  UnknownSubmissionHolds
