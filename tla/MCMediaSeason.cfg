CONSTANTS
  LastEpisode = 4
  Torrents = {"pack"}
  Offers <- MCOffers
  Movie = FALSE
SPECIFICATION SeasonSpec
PROPERTIES
  CompletedOnEvidence
