--------------------------- MODULE MCCappedStore ---------------------------
(* CappedStore as the order repository and as the shipment book.            *)
EXTENDS CappedStore, TLC

CONSTANTS w1, w2, w3, w4

\* One task per order.
OneWriterEach == w1 :> "o1" @@ w2 :> "o2" @@ w3 :> "o3"
\* Two requests for the shipment of one order, and two other orders.
RetriedRequest == w1 :> "o1" @@ w2 :> "o1" @@ w3 :> "o2" @@ w4 :> "o3"
=============================================================================
