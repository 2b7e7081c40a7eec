----------------------------- MODULE MCFlashTool -----------------------------
EXTENDS FlashTool

\* Every family there is.
AllTypes == Families

\* A stack that held the lock bit, and one that held the mass erase bit.
LockOrErase == {{"LOCK"}, {"MER"}}
=============================================================================
