CONSTANTS
  single = single
  pack = pack
  loop = loop
  manualRun = manualRun
  LastEpisode = 2
  Movie = FALSE
  Torrents = {pack}
  Offers <- MCOffers
  Manual = {}
  MaxAttempts = 1
  Scanners = {loop}
  Scheduler = loop
  NoTorrent = NoTorrent
  NoOwner = NoOwner
SPECIFICATION Spec
PROPERTIES
  UnknownSubmissionKept
