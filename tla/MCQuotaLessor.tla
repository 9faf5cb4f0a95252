--------------------------- MODULE MCQuotaLessor ---------------------------
(***************************************************************************)
(* Two threads, units of two bytes, QUOTA_USE_MIN of four units and a      *)
(* limit of seven or eleven: leases smaller and larger than QUOTA_USE_MIN, *)
(* more than twice QUOTA_USE_MIN accumulated in a lessor, and a quota that *)
(* is nearly used up.                                                      *)
(***************************************************************************)
EXTENDS QuotaLessor

MCTotals == {7, 11}
MCSizes == {1, 5, 9}
=============================================================================
