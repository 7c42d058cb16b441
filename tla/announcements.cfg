SPECIFICATION FairSpec
CONSTANTS
  s1 = s1
  s2 = s2
  Announcements = {a1, a2}
  Stores = {s1, s2}
  Audiences <- OneOrAll
  Malformed = Malformed
  Workers = {w1, w2}
  MaxEdits = 1
  MaxCuts = 1
INVARIANTS
  InboxFollowsAudience
PROPERTIES
  ArchivedStaysOut
  PublishedWhenDue
  ScheduledIsPublished
CHECK_DEADLOCK FALSE
