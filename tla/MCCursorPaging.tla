--------------------------- MODULE MCCursorPaging ---------------------------
EXTENDS CursorPaging, TLC

CONSTANTS r1, r2, r3, r4, r5

(* Three pages of at most two records; the publication takes both records  *)
(* of the second page away.                                                *)
ShrinkingResults == <<{<<r1, r2, r5>>}>> @@ (0 :> {<<r1, r2, r3, r4, r5>>})
=============================================================================
