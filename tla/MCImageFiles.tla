---------------------------- MODULE MCImageFiles -----------------------------
(***************************************************************************)
(* An instance of ImageFiles: a complete input file, one that ends in the  *)
(* data or in the header, one of another size, and one with a comment in   *)
(* its second line.  A round exchanges the words of the image.             *)
(***************************************************************************)
EXTENDS ImageFiles, SequencesExt

MCData == <<"a", "b", "c", "d">>

MCInFiles ==
  {hdr \o MCData, hdr \o SubSeq(MCData, 1, 3), <<"P5">>,
   <<"P5", "other size", "255">> \o MCData, <<"P5", "comment", "size", "255">> \o MCData}

MCEvolve == [f \in Images |-> Reverse(f)]
MCJunk == "junk"
=============================================================================
