------------------------------ MODULE ImageFiles -----------------------------
(***************************************************************************)
(* The threads of LifeControl with the files DataInStream reads and        *)
(* DataOutStream writes (module PgmIO), row by row, ignoring what          *)
(* _readinline and _writeoutline return, and with the image itself, of     *)
(* which LifeControl only counts the words.                                *)
(***************************************************************************)
EXTENDS LifeControl, PgmIO

CONSTANTS
  InFiles,  \* what may be in the input file
  Evolve,   \* what a round makes of an image (module LifeFarm)
  Junk      \* a word of an uninitialised array

\* What may be in a word, and what an image is: rows of words.
Symbols == {Junk} \cup UNION {{file[k] : k \in DOMAIN file} : file \in InFiles}
Images  == [1 .. ImageWords -> Symbols]

ASSUME FilesAssumption ==
  /\ InFiles \subseteq Seq(STRING)
  /\ ImageWords % RowWords = 0
  /\ Evolve \in [Images -> Images]

VARIABLES
  infile,    \* the input file
  infp,      \* _INFP
  line,      \* DataInStream's line
  image,     \* the image in the distributor's board
  outfile,   \* the output file
  outfp,     \* _OUTFP
  row,       \* DataOutStream's dataOut
  exported,  \* history: the image the export is for
  short      \* history: has a write or fclose of this export failed?

inFileVars  == <<infile, infp, line>>
outFileVars == <<outfile, outfp, row, short>>
fileVars == <<inFileVars, outFileVars, image, exported>>

-----------------------------------------------------------------------------
(***************************************************************************)
(* DataInStream.                                                           *)
(***************************************************************************)
\* mutant: what _openinpgm returns is ignored
OpensInputAnyway ==
  /\ dataIn = "open" /\ DataInStep
  /\ \E o \in _openinpgm(infile) \cup {[res |-> -1, fp |-> NULL]} :
       /\ infp' = o.fp
       /\ dataIn' = "send"
  /\ UNCHANGED <<infile, line, image, exported, outFileVars>>

OpensInput ==
  /\ dataIn = "open" /\ DataInStep
  /\ \E o \in _openinpgm(infile) \cup {[res |-> -1, fp |-> NULL]} :
       /\ infp' = o.fp
       /\ dataIn' = IF o.res = 0 THEN "send" ELSE "failed"
  /\ UNCHANGED <<infile, line, image, exported, outFileVars>>

\* A row is read before its first word is sent.
LoadsWord ==
  /\ DistributorLoads
  /\ LET k == words % RowWords
         got == IF k = 0 THEN _readinline(infile, infp, line, RowWords) ELSE [line |-> line, fp |-> infp]
     IN  /\ line' = got.line /\ infp' = got.fp
         /\ image' = [image EXCEPT ![words + 1] = got.line[k + 1]]
  /\ UNCHANGED <<infile, exported, outFileVars>>

\* _closeinpgm.  (Should fclose fail, _INFP stays, but the thread returns.)
ClosesInput ==
  /\ dataIn = "off" /\ DataInStep
  /\ infp' = NULL /\ line' = [k \in 1 .. RowWords |-> Junk]
  /\ UNCHANGED <<infile, image, exported, outFileVars>>

(***************************************************************************)
(* The distributor changes the image, and sends it.                        *)
(***************************************************************************)
ComputesImage ==
  /\ Round
  /\ image' = Evolve[image]
  /\ UNCHANGED <<inFileVars, outFileVars, exported>>

RequestsExport ==
  /\ TellsDataOut
  /\ exported' = image
  /\ UNCHANGED <<inFileVars, outFileVars, image>>

SendsWord ==
  /\ ExportsWord
  /\ row' = [row EXCEPT ![(words % RowWords) + 1] = image[words + 1]]
  /\ UNCHANGED <<inFileVars, outfile, outfp, short, image, exported>>

(***************************************************************************)
(* DataOutStream.                                                          *)
(***************************************************************************)
\* mutant: the file is opened for appending
AppendsOutput ==
  /\ dataOut = "open" /\ DataOutStep
  /\ \/ dataOut' = "receive" /\ outfp' = 0 /\ outfile' = outfile \o hdr
     \/ dataOut' = "failed" /\ outfp' = NULL /\ UNCHANGED outfile
  /\ short' = FALSE
  /\ UNCHANGED <<inFileVars, row, image, exported>>

\* _openoutpgm: "wb" leaves nothing of the file that was there.
OpensOutput ==
  /\ dataOut = "open" /\ DataOutStep
  /\ \/ dataOut' = "receive" /\ outfp' = 0 /\ outfile' = hdr
     \/ dataOut' = "failed" /\ outfp' = NULL /\ UNCHANGED outfile
  /\ short' = FALSE
  /\ UNCHANGED <<inFileVars, row, image, exported>>

\* After the last word of a row the row is written.
WritesRow ==
  /\ dataOut = "got" /\ DataOutStep
  /\ IF written % RowWords = 0
     THEN \E nb \in IF OpenMayFail THEN {0, RowWords} ELSE {RowWords} :
            LET put == _writeoutline(outfile, outfp, row, RowWords, nb)
            IN  outfile' = put.file /\ short' = (short \/ put.res # 0)
     ELSE UNCHANGED <<outfile, short>>
  /\ UNCHANGED <<inFileVars, outfp, row, image, exported>>

ClosesOutput ==
  /\ dataOut = "off" /\ DataOutStep
  /\ \/ outfp' = NULL /\ UNCHANGED short
     \/ OpenMayFail /\ short' = TRUE /\ UNCHANGED outfp
  /\ UNCHANGED <<inFileVars, outfile, row, image, exported>>

-----------------------------------------------------------------------------
FilesInit ==
  /\ Init
  /\ infile \in InFiles /\ infp = NULL /\ line = [k \in 1 .. RowWords |-> Junk]
  /\ image = [k \in 1 .. ImageWords |-> Junk] /\ exported = image
  /\ outfile = <<>> /\ outfp = NULL /\ row = line /\ short = FALSE

InputStep ==
  \/ dataIn = "led" /\ DataInStep /\ UNCHANGED fileVars
  \/ OpensInput \/ ClosesInput

OutputStep == OpensOutput \/ WritesRow \/ ClosesOutput

DistributorFilesStep ==
  \/ LoadsWord \/ ComputesImage \/ RequestsExport \/ SendsWord
  \/ /\ \/ DistributorStartsTimer \/ BeginRound
        \/ TakesTilt \/ TakesRequest \/ NothingToDo
        \/ StopsTimer \/ RedLed \/ TakesTime \/ TakesLevel \/ ResetLed
     /\ UNCHANGED fileVars

FilesNext ==
  \/ /\ Press \/ ListenerSees \/ ListenerRequests \/ ListenerStarts \/ Sample
     /\ UNCHANGED fileVars
  \/ InputStep \/ OutputStep \/ DistributorFilesStep

FilesSpec ==
  /\ FilesInit /\ [][FilesNext]_<<vars, fileVars>>
  /\ WF_vars(ListenerSees) /\ WF_vars(ListenerRequests) /\ WF_vars(ListenerStarts)
  /\ WF_vars(Sample)
  /\ WF_vars(InputStep) /\ WF_vars(OutputStep) /\ WF_vars(DistributorFilesStep)

-----------------------------------------------------------------------------
Data(file) == SubSeq(file, 4, Len(file))

(***************************************************************************)
(* What is loaded is the file: its words are where they are in the file,   *)
(* and one the file does not have is a word of an earlier row, in the same *)
(* column, or what was in line when the first row was read.  (If the       *)
(* second line held no size the file is none of ours.)                     *)
(***************************************************************************)
ImageIsTheFile ==
  [][dist = "load" /\ dist' # "load" /\ SizeLine(infile) = "size" =>
       \A k \in 1 .. ImageWords :
         IF k <= Len(Data(infile)) THEN image'[k] = Data(infile)[k]
         ELSE \/ k > RowWords /\ image'[k] = image'[k - RowWords]
              \/ k <= RowWords /\ image'[k] = Junk]_<<vars, fileVars>>

(***************************************************************************)
(* If no write failed, the output file holds the image as it was at the    *)
(* end of the round the request was found in, whatever became of the       *)
(* boards meanwhile: read as a whole it gives that image, and it is the    *)
(* file that would have been written as a whole.                           *)
(***************************************************************************)
ExportReadable ==
  dataOut = "idle" /\ outfile # <<>> /\ ~short =>
    /\ outfile = _writepgm(exported)
    /\ _readpgm([k \in 1 .. ImageWords |-> Junk], outfile) = [res |-> 0, x |-> exported]

(***************************************************************************)
(* A thread reads, writes or closes only a stream that fopen gave it, and  *)
(* opens no second one while the first is open, however many exports there *)
(* are.                                                                    *)
(***************************************************************************)
StreamsOpen ==
  /\ dataIn \in {"send", "off"} => infp # NULL
  /\ dataOut \in {"receive", "got", "off"} => outfp # NULL
  /\ dataOut = "open" => outfp = NULL \/ short
=============================================================================
