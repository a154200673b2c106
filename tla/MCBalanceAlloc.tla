--------------------------- MODULE MCBalanceAlloc ---------------------------
EXTENDS BalanceAlloc, MCRoutings
=============================================================================
