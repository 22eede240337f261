SPECIFICATION FairSpec
CONSTANTS
  e1 = e1  e2 = e2  e3 = e3  e4 = e4  v1 = v1  v2 = v2  v3 = v3
  Events = {e1, e2, e3}
  Videos = {v1, v2, v3}
  Precedes <- Order
  VideoOf <- Watched
  Titled <- MusicTitles
  ApiFacts <- Facts
  Fragile = {v3}
  BATCH_SIZE = 2
  ApiLimit = 2
  MAX_RETRIES = 1
  MaxFaults = 2
  Unknown = unknown
PROPERTIES BufferedAreFlushed
