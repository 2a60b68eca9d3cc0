---------------------------- MODULE MCBulkIngest ----------------------------
(* Instances of BulkIngest for TLC.                                        *)
EXTENDS BulkIngest

CONSTANTS a, b

Csv(rows) == [header |-> TRUE, rows |-> rows]

\* a malformed row, an id repeated in its batch, an id of an earlier batch
RacingFile == {Csv(<<b, Malformed, a, a, b>>)}
\* good rows, a wide row in the second batch, no valid header
MixedFiles == {Csv(<<a, Blank, b>>), Csv(<<b, a, Wide>>), [header |-> FALSE, rows |-> <<a>>]}
=============================================================================
