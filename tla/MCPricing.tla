------------------------------ MODULE MCPricing ------------------------------
EXTENDS Pricing

MCLetters == {"B", "C", "E", "U", "X"}

\* Bitcoin, ether, the source, a coin whose name ends like bitcoin's and has no
\* market against the source, and one that has.
btc == <<"B", "C">>
eth == <<"E">>
usd == <<"U">>
xbc == <<"X", "B", "C">>
xrp == <<"X">>

MCQuotes == <<btc, eth, usd>>

Pair(b, q) == [base |-> b, quote |-> q]
MCListed == {Pair(btc, usd), Pair(eth, usd), Pair(xrp, usd), Pair(eth, btc),
             Pair(xrp, eth), Pair(xbc, btc), Pair(xbc, eth)}

MCCycles == {<<usd, btc, eth, usd>>, <<usd, eth, btc, usd>>,
             <<usd, btc, eth, xrp, usd>>, <<usd, xrp, eth, btc, usd>>,
             <<usd, btc, xbc, eth, usd>>, <<usd, eth, xbc, btc, usd>>}

MCPrices == [m \in MCListed |->
               CASE m = Pair(btc, usd) -> {7}
                 [] m = Pair(eth, usd) -> {4, 6}
                 [] m = Pair(xrp, usd) -> {3, 5}
                 [] m = Pair(eth, btc) -> {-2}
                 [] m = Pair(xrp, eth) -> {-1}
                 [] m = Pair(xbc, btc) -> {0}
                 [] m = Pair(xbc, eth) -> {2}]

MCMinSteps == [m \in MCListed |-> IF m = Pair(eth, usd) THEN 3 ELSE 1]
=============================================================================
