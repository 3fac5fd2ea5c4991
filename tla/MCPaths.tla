------------------------------- MODULE MCPaths -------------------------------
EXTENDS Paths

\* Three currencies, all connected: the smallest arbitrage.
Triangle == {<<"BTC", "USDT">>, <<"ETH", "USDT">>, <<"ETH", "BTC">>}

\* Four, without the market of two of them: a cycle of four, two of three.
Quad == Triangle \cup {<<"XRP", "USDT">>, <<"XRP", "ETH">>}

SmallRates == -2 .. 2
Steps == {-1, 0, 2}
=============================================================================
