----------------------------- MODULE MCSelection -----------------------------
EXTENDS Selection

C(key, quantity, profit) == [key |-> key, quantity |-> quantity, profit |-> profit]

\* Each side of each threshold: a cycle and its reverse, which shares its key;
\* a profit of three cents; a dollar with exactly five.
MCCycle == {C("k1", 50, 90), C("k1", 50, 0), C("k2", 20, 3), C("k3", 1, 5)}
=============================================================================
