SPECIFICATION Spec
CONSTANTS
  MessageIds = {m}
  NoId = NoId
  Times = {1, 2}
  CacheMax = 2
  MaxMessages = 1
  RowCap = 2
INVARIANTS TypeOK NoIdTwice ShownSurvives OnceUnlessTrimmed TrimKeepsNewest
PROPERTY LogKept
