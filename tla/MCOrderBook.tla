---------------------------- MODULE MCOrderBook ----------------------------
(* OrderBook on a table of four entries and a cache of two levels: three    *)
(* orders of three prices on one side are enough for a level to fall off    *)
(* the cache and to come back.  The slots are the first, the last and one   *)
(* between; two references share the first, one after the other.            *)
EXTENDS OrderBook

SomeRefs      == {0, 1, 3, 4}
ThreePrices   == 1 .. 3
TwoSizes      == 1 .. 2
=============================================================================
