----------------------------- MODULE MCMarketInfo -----------------------------
EXTENDS MarketInfo
=============================================================================
