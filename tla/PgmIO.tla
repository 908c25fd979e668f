-------------------------------- MODULE PgmIO --------------------------------
(***************************************************************************)
(* The image files of Coursework 1 (pgmIO.c).  A file is the sequence of   *)
(* its header's lines and, behind them, of its words: what stands for      *)
(* eight pixels.  A stream is the number of items behind it, or NULL.  An  *)
(* operator yields what its function returns and leaves behind.            *)
(***************************************************************************)
EXTENDS Integers, Sequences

NULL == -1

\* sprintf( hdr, "P5\n%d %d\n255\n", width, height )
hdr == <<"P5", "size", "255">>

\* Reading stops at the end of the file.
Upto(file, k) == IF k < Len(file) THEN k ELSE Len(file)

\* The line that should hold the size: the second, or what str held before.
SizeLine(file) == IF Len(file) >= 2 THEN file[2] ELSE ""

\* mutant: the third line of the header is not stripped off
LeavesDepth(file) ==
  {[res |-> 0, fp |-> Upto(file, 2)] : r \in {SizeLine(file)} \cap {"size"}} \cup
  {[res |-> -1, fp |-> Upto(file, 2)] : r \in {SizeLine(file)} \ {"size"}}

\* The outcomes if fopen succeeds.  A line that is no size leaves inwidth and
\* inheight as they are, uninitialised: they may happen to be right.
\* On a wrong size _INFP stays open.
_openinpgm(file) ==
  {[res |-> 0, fp |-> Upto(file, 3)] : r \in {SizeLine(file)} \ {"other size"}} \cup
  {[res |-> -1, fp |-> Upto(file, 2)] : r \in {SizeLine(file)} \ {"size"}}

\* fread stores what there is; the rest of line is left as it was.
_readinline(file, fp, line, width) ==
  LET upto == IF fp = NULL THEN NULL ELSE Upto(file, fp + width)
  IN  [res  |-> IF upto = fp + width THEN 0 ELSE -1,
       line |-> [k \in 1 .. width |-> IF fp + k <= upto THEN file[fp + k] ELSE line[k]],
       fp   |-> upto]

\* fwrite takes the first nb items of line.
_writeoutline(file, fp, line, width, nb) ==
  IF fp = NULL THEN [res |-> -1, file |-> file]
  ELSE [res |-> IF nb = width THEN 0 ELSE -1, file |-> file \o SubSeq(line, 1, nb)]

\* A whole image at once.
_writepgm(x) == hdr \o x

_readpgm(x, file) ==
  IF SizeLine(file) # "size" THEN [res |-> -1, x |-> x]
  ELSE [res |-> 0,
        x |-> [k \in DOMAIN x |-> IF k + 3 <= Len(file) THEN file[k + 3] ELSE x[k]]]
=============================================================================
