\* A comment of programmer_v1.cpp, violated once a reply has timed out.
CONSTANT MaxInbox = 3
SPECIFICATION ExchangeSpec
INVARIANTS NothingBecomesTheNextReply
