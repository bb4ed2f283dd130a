SPECIFICATION FairSpec
CONSTANTS
  Main = Main
  Loop = Loop
  Loops = {Loop}
  d1 = d1
  d2 = d2
  Devices = {d1, d2}
  Worlds <- MCWorlds
  CaptchaLimit = 1
  TokenLimit = 2
  ConnectionLimit = 2
  ShortLimit = 1
  MaxTokens = 2
INVARIANTS PairKept FallbackOnce
PROPERTIES FailuresSpareValid UnseenTokenKept ComesUp PromotionReconnects
\* the account's task may have come to its end
CHECK_DEADLOCK FALSE
