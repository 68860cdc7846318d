----------------------------- MODULE MCFileTools -----------------------------
(* An instance of FileTools: lines of one or two tokens, texts of at most     *)
(* four lines, and one edit for each way of naming a place.                   *)
EXTENDS FileTools

MCPlain(t) == IF t = "X" THEN "x" ELSE t

L1 == <<"x">>
L2 == <<"y">>
LPad == <<"_", "x">>
LTail == <<"x", "_">>
LBig == <<"X">>
LPair == <<"x", "y">>
LCr == <<"x", "r", "y">>

MCTexts == { <<L1, LPair, LTail>>, <<LPad, L2, LBig, <<>> >>, <<LCr, L2>> }
MCWrites == { <<L2>>, <<L1, L2>> }

Op == [old |-> <<>>, new |-> << <<"z">> >>, oldLines |-> <<>>, newLines |-> <<>>,
       start |-> 0, end |-> 0, before |-> <<>>, after |-> <<>>,
       all |-> FALSE, regex |-> FALSE, fuzzy |-> FALSE]
Two == << <<"z">>, L1 >>

BlindOp == [Op EXCEPT !.start = 1]
MCOps ==
  { BlindOp,
    [BlindOp EXCEPT !.start = 2, !.end = 3],
    [BlindOp EXCEPT !.newLines = Two],
    [BlindOp EXCEPT !.old = << <<>> >>],
    [BlindOp EXCEPT !.old = << <<"_">> >>],
    [BlindOp EXCEPT !.old = <<L1>>],
    [BlindOp EXCEPT !.oldLines = <<L1, L2>>, !.end = 2],
    [BlindOp EXCEPT !.start = 3, !.end = 2],
    [Op EXCEPT !.old = <<L1>>],
    [Op EXCEPT !.old = <<L1>>, !.all = TRUE],
    [Op EXCEPT !.old = <<L1>>, !.regex = TRUE],
    [Op EXCEPT !.old = <<L2>>, !.regex = TRUE],
    [Op EXCEPT !.all = TRUE],
    [Op EXCEPT !.old = <<L1>>, !.before = <<LPair>>],
    [Op EXCEPT !.old = <<L1>>, !.after = <<L2>>],
    [Op EXCEPT !.old = <<LBig>>, !.fuzzy = TRUE],
    [Op EXCEPT !.old = <<L1, L2>>, !.newLines = Two],
    [Op EXCEPT !.oldLines = <<L1>>],
    [Op EXCEPT !.oldLines = <<L1>>, !.fuzzy = TRUE],
    [Op EXCEPT !.oldLines = <<L1>>, !.after = <<LPair>>],
    [Op EXCEPT !.old = <<L2>>, !.oldLines = <<L2>>],
    [Op EXCEPT !.old = <<L2>>, !.oldLines = <<L1>>],
    [Op EXCEPT !.old = <<L2>>, !.new = Two] }

Edit(ops) == [ops |-> ops, dry |-> FALSE]
MCEdits ==
  {Edit(<<op>>) : op \in MCOps}
  \cup {Edit(<<[BlindOp EXCEPT !.newLines = Two], [BlindOp EXCEPT !.start = 2]>>),
        Edit(<<BlindOp, [Op EXCEPT !.old = <<L2>>]>>),
        [ops |-> <<BlindOp>>, dry |-> TRUE]}
=============================================================================
