\* Both framings, every kind of command, up to three items left unread.
CONSTANT MaxInbox = 3
SPECIFICATION FairExchangeSpec
INVARIANTS
  ExchangeTypeOK
  AnswerIsForThisSend
  OkWasSaid
  FourSendsAtMost
  NothingUnread
PROPERTY CallEnds
