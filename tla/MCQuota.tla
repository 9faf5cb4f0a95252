------------------------------ MODULE MCQuota ------------------------------
(***************************************************************************)
(* A small instance of Quota, with units of two bytes, in which limits and *)
(* requests stay clear of the top of the 32-bit range.                     *)
(***************************************************************************)
EXTENDS Quota

\* Limits of 0, 2 (from 3 bytes) and 3 units; sizes of one unit (rounded
\* up), two units, and one byte more than QUOTA_MAX.
MCTotals == {0, 3, 6}
MCSizes == {1, 4, QUOTA_MAX + 1}

ASSUME NoWrap
=============================================================================
