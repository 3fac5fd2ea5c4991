---------------------------- MODULE MCMarketData ----------------------------
EXTENDS MarketData
=============================================================================
