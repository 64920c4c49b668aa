------------------------------- MODULE MCReceipts -------------------------------
EXTENDS Receipts, TLC
CONSTANTS d1, d2, n1, n2, w1, w2, w3
MCNoteOf == w1 :> n1 @@ w2 :> n1 @@ w3 :> n2
MCFiredAt == w1 :> 1 @@ w2 :> 2 @@ w3 :> 1
===============================================================================
