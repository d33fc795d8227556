CONSTANTS
  single = single
  pack = pack
  loop = loop
  manualRun = manualRun
  LastEpisode = 1
  Movie = TRUE
  Torrents = {single}
  Offers <- MCOffers
  Manual = {single}
  MaxAttempts = 2
  Scanners = {loop}
  Scheduler = loop
  NoTorrent = NoTorrent
  NoOwner = NoOwner
SPECIFICATION Spec
INVARIANTS
  QueuedTargetRecoverable
  DeliveredOnly
