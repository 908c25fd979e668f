-------------------------------- MODULE Life --------------------------------
(***************************************************************************)
(* What the program of Coursework 1 promises: a board that moves from one  *)
(* generation of the Game of Life to the next, all cells at once, on a     *)
(* torus.  Nothing here knows of workers, words or messages.               *)
(***************************************************************************)
EXTENDS LifeRules, FiniteSets

CONSTANTS
  Height,  \* rows of the board (IMHT)
  Boards   \* the boards the game may start from

Rows  == 0 .. Height - 1
Board == [Rows -> Line]

VARIABLE board

Up(y)   == IF y = 0 THEN Height - 1 ELSE y - 1
Down(y) == IF y = Height - 1 THEN 0 ELSE y + 1

NextBoard(b) == [y \in Rows |-> LifeLine(b[Up(y)], b[y], b[Down(y)])]

Population(b) == Cardinality({cell \in Rows \X Columns : b[cell[1]][cell[2]] = 1})

Init == board \in Boards

Generation == board' = NextBoard(board)

\* Generations never stop coming.
Spec == Init /\ [][Generation]_board /\ WF_board(Generation)
=============================================================================
