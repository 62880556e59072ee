----------------------------- MODULE MCSummary -----------------------------
(* Two receipts of one work, one of each method, or the first alone; and two periods: the   *)
(* short one leaves out what is more than a tick old.                                      *)
EXTENDS Summary, TLC

CONSTANTS r1, r2, w1, c1, c2

Sold(consumer, method, tariff) ==
  [work |-> w1, consumer |-> consumer, method |-> method, tariff |-> tariff, fee |-> 1]

MCSale ==
  [r \in Receipts |-> IF r = r1 THEN Sold(c1, "escrow", 2) ELSE Sold(c2, "x402", 3)]

\* The voucher's receipt is accepted up to a tick before its row is there.
MCLag == [r \in Receipts |-> IF r = r1 THEN 1 ELSE 0]

MCLength == [p \in {"short", "long"} |-> IF p = "short" THEN 1 ELSE 3]
=============================================================================
