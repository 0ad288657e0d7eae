CONSTANTS
  Request = {r1, r2}
  MaxKeys = 2
  Ttl = 1
  FetchTime = 1
SPECIFICATION FairSpec
CHECK_DEADLOCK FALSE
PROPERTIES TrustExpires DeniedForCause CacheFollows
