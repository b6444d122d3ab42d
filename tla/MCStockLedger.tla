--------------------------- MODULE MCStockLedger ---------------------------
(* StockLedger with two SKUs that compete for stock and one unknown SKU.    *)
EXTENDS StockLedger, TLC

CONSTANTS a, b, unknown

StockLevels == a :> 2 @@ b :> 1
Requests == {a :> 1, a :> 2 @@ b :> 1, b :> 1, a :> 1 @@ unknown :> 1}
=============================================================================
