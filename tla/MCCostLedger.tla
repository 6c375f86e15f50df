---------------------------- MODULE MCCostLedger ----------------------------
EXTENDS CostLedger

CONSTANTS c1, c2

-----------------------------------------------------------------------------
(* What the documents say of the program                                   *)

OfToday(line) == line.day = day

\* cost.rs: the rollup is of today only and "is rebuilt at startup by
\* replaying today's lines from the ledger"; error.rs tells a chat that is over
\* the budget to "wait until tomorrow".  With no turn on its way into the
\* books, the rollup is what the file says of the lines of this date.
RollupIsToday ==
  UnderWay = {} => today = Filed(OfToday)
=============================================================================
