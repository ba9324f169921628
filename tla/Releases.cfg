CONSTANTS
  Tags <- MCTags
  Listings <- MCListings
  Reported <- MCReported
  Opened <- MCOpened
  Long <- MCLong
  TTL = 2
  Cooldown = 1
  Interval = 2
  FetchTime = 1
  Unknown = Unknown
  Nothing = Nothing
SPECIFICATION FairSpec
INVARIANTS ClaimsAreNews OffersAreValid
PROPERTIES SelectionFollows UpgradesAreCurrent ReleasesAreShown
