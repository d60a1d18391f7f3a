--------------------------- MODULE MCStockCounts ---------------------------
(* One sheet, two branches, one variant, two requests in flight.           *)
EXTENDS StockCounts

CONSTANTS s1, b1, b2, v1, h1, h2
=============================================================================
