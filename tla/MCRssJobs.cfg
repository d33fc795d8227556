CONSTANTS
  a = a
  b = b
  qb1 = qb1
  h1 = h1
  h2 = h2
  feed = feed
  Jobs = {a, b}
  Downloaders = {qb1}
  Hashes = {h1, h2}
  Workers = {w1, w2}
  w1 = w1
  w2 = w2
  Sources = {feed}
  DownloaderOf <- MCDownloaderOf
  FeedOf <- MCFeedOf
  SourcesOf <- MCSourcesOf
  HashesOf <- MCHashesOf
  Capacity <- MCCapacity
  MaxAttempts = 1
  NoHash = NoHash
  NoJob = NoJob
SPECIFICATION Spec
INVARIANTS
  TypeOK
  SlotKept
  OneSubmission
  HashOwned
  NothingForgotten
  Fits
  Apart
SYMMETRY Symmetric
CONSTRAINT SharedMoves
