------------------------------ MODULE MCMarketData ------------------------------
EXTENDS MarketData

CONSTANTS s1, s2, x
MCSockets == {s1, s2}
MCSymbols == {x}
MCIntervals == <<1, 2>>
=============================================================================
