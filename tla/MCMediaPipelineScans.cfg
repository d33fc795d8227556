CONSTANTS
  single = single
  pack = pack
  loop = loop
  manualRun = manualRun
  LastEpisode = 1
  Movie = FALSE
  Torrents = {single}
  Offers <- MCOffers
  Manual = {}
  MaxAttempts = 2
  Scanners = {loop, manualRun}
  Scheduler = loop
  NoTorrent = NoTorrent
  NoOwner = NoOwner
SPECIFICATION FairSpec
PROPERTIES
  CursorSpec
  StaleScanIsHarmless
  RowSettles
