CONSTANTS
  LastEpisode = 4
  Torrents = {"single", "opening", "middle"}
  Offers <- MCOffers
  Movie = FALSE
SPECIFICATION Spec
INVARIANTS
  TypeOK
  QueuedHasWork
  ActiveIsCurrent
  SubmittedRowSubmittedTarget
  CursorOpen
