SPECIFICATION FairSpec

CONSTANTS
  Capacity = 2
  MaxSent = 4

INVARIANTS
  ViewsFollowFeed

PROPERTIES
  FeedSpec
  HealthSettles

\* The events are finite and the forwarder ends.
CHECK_DEADLOCK FALSE
