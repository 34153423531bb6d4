----------------------------- MODULE MCLogQueue ------------------------------
(* LogQueue with records of one, two and one cells.                        *)
EXTENDS LogQueue

MCRecordLength == [rec \in 1 .. MaxRecords |-> IF rec % 2 = 0 THEN 2 ELSE 1]
==============================================================================
