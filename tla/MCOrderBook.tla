----------------------------- MODULE MCOrderBook -----------------------------
EXTENDS OrderBook

NumberOrText == {"number", "text"}
=============================================================================
