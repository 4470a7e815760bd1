------------------------------ MODULE MCCells ------------------------------
(***************************************************************************)
(* Instances of CellRunner for TLC: a world of two cells and one of a      *)
(* single cell.                                                            *)
(***************************************************************************)
EXTENDS CellRunner

CONSTANTS cell1, cell2, cell3, world1, world2

MCPlanOrder == [c \in Cell |-> CASE c = cell1 -> 1 [] c = cell2 -> 2 [] c = cell3 -> 3]
MCGroupOf   == [c \in Cell |-> IF c = cell3 THEN world2 ELSE world1]
MCLimits    == {{cell1}}
=============================================================================
