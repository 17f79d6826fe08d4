\* One channel and one page.
CONSTANTS
  Channels = {c1}
  Pages = {p1}
  Stale = 1
  InitialRetryDelay = 1
  MaxRetryDelay = 2
  NoPage = NoPage
  MaxUpdates = 2
SPECIFICATION FairLinkSpec
PROPERTIES DotsAreLive
