------------------------------- MODULE MCDisk -------------------------------
(***************************************************************************)
(* Instances of Disk: blocks of two bytes that differ in both digits, data *)
(* of the right length, one byte short and one byte long.                  *)
(***************************************************************************)
EXTENDS Disk

MCBytes    == {4, 1}
MCBlank    == <<1, 1>>
MCPayloads == UNION {[1 .. n -> MCBytes] : n \in 1 .. 3}
=============================================================================
