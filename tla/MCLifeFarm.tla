----------------------------- MODULE MCLifeFarm -----------------------------
(***************************************************************************)
(* Boards of nine rows and four columns for a farm of three workers with   *)
(* three rows each: a blinker across two workers, and a tangle that lives  *)
(* at the borders of words, of workers and of the torus and takes six      *)
(* generations to settle.                                                  *)
(***************************************************************************)
EXTENDS LifeFarm

BoardOf(cells) ==
  [r \in Lines |-> [c \in Columns |-> IF <<r, c>> \in cells THEN 1 ELSE 0]]

TwoBoards ==
  { BoardOf({<<1, 0>>, <<2, 0>>, <<3, 0>>}),
    BoardOf({<<0, 3>>, <<1, 3>>, <<5, 2>>, <<6, 1>>, <<6, 2>>, <<7, 3>>, <<8, 3>>}) }
=============================================================================
