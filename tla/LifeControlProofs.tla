-------------------------- MODULE LifeControlProofs -------------------------
(***************************************************************************)
(* The threads of LifeControl, for every image size, capacity of           *)
(* c_buttonExport and behaviour of user, sensor and file system; and, at   *)
(* the end, their composition with the image files in ImageFiles: what is  *)
(* loaded from them and written to them.                                   *)
(***************************************************************************)
EXTENDS ImageFiles, SequenceTheorems, TLAPS

\* What mytimer is doing at each point of the distributor.
TimerInv ==
  /\ dist \in {"load", "startTimer"} => timer = "new"
  /\ dist \in {"beginRound", "round", "select", "stopToPause",
               "stopToExport", "resetLed"} => timer = "running"
  /\ dist \in {"redLed", "pauseTime", "exportTime"} => timer = "reporting"
  /\ dist \in {"paused", "tellOut", "export", "resumeTimer"} => timer = "stopped"

\* The distributor has taken "tilted" and not yet "level".
TakenTilt == dist \in {"stopToPause", "redLed", "pauseTime", "paused"}

\* The sensor and the distributor differ exactly while a message is due.
SensorInv ==
  /\ tilted \in BOOLEAN
  /\ orient \in {"read", "tell"}
  /\ orient = "tell" <=> ~(tilted <=> TakenTilt)

-----------------------------------------------------------------------------
LEMMA TimerInit == Init => TimerInv
  BY DEF Init, TimerInv

LEMMA TimerStep == TimerInv /\ [Next]_vars => TimerInv'
<1> SUFFICES ASSUME TimerInv, [Next]_vars PROVE TimerInv'
  OBVIOUS
<1> USE DEF TimerInv
<1>1. CASE Press
  BY <1>1 DEF Press, distVars
<1>2. CASE ListenerSees \/ ListenerRequests \/ ListenerStarts
  BY <1>2 DEF ListenerSees, ListenerRequests, ListenerStarts, distVars
<1>3. CASE DataInStep
  BY <1>3 DEF DataInStep, distVars
<1>4. CASE Sample
  BY <1>4 DEF Sample, distVars
<1>5. CASE DataOutStep
  BY <1>5 DEF DataOutStep, distVars
<1>6. CASE DistributorLoads
  BY <1>6 DEF DistributorLoads
<1>7. CASE DistributorStartsTimer
  BY <1>7 DEF DistributorStartsTimer
<1>8. CASE BeginRound \/ Round
  BY <1>8 DEF BeginRound, Round
<1>9. CASE TakesTilt \/ TakesRequest \/ NothingToDo
  BY <1>9 DEF TakesTilt, TakesRequest, NothingToDo
<1>10. CASE StopsTimer \/ RedLed \/ TakesTime \/ TakesLevel
  BY <1>10 DEF StopsTimer, RedLed, TakesTime, TakesLevel
<1>11. CASE TellsDataOut \/ ExportsWord \/ ResetLed
  BY <1>11 DEF TellsDataOut, ExportsWord, ResetLed
<1>12. CASE UNCHANGED vars
  BY <1>12 DEF vars, distVars
<1> QED
  BY <1>1, <1>2, <1>3, <1>4, <1>5, <1>6, <1>7, <1>8, <1>9, <1>10, <1>11, <1>12
  DEF Next, DistributorStep

(***************************************************************************)
(* The timer runs during the rounds and stands still during a pause and an *)
(* export, whatever the image is and whatever buttons and board do.        *)
(***************************************************************************)
THEOREM TimerTheorem == Spec => []TimerFollows
<1>1. TimerInv => TimerFollows
  BY DEF TimerInv, TimerFollows
<1> QED
  BY TimerInit, TimerStep, <1>1, PTL DEF Spec

-----------------------------------------------------------------------------
LEMMA SensorInit == Init => SensorInv
<1> SUFFICES ASSUME Init PROVE SensorInv
  OBVIOUS
<1>1. orient = "read" /\ tilted = FALSE /\ ~TakenTilt
  BY DEF Init, TakenTilt
<1>2. orient # "tell"
  BY <1>1
<1> QED
  BY <1>1, <1>2, Zenon DEF SensorInv

\* The threads other than orientation and distributor touch neither.
LEMMA SensorOthers ==
  ASSUME SensorInv, UNCHANGED <<tilted, orient>>, TakenTilt' <=> TakenTilt
  PROVE  SensorInv'
  BY Zenon DEF SensorInv

LEMMA SensorStep == SensorInv /\ [Next]_vars => SensorInv'
<1> SUFFICES ASSUME SensorInv, [Next]_vars PROVE SensorInv'
  OBVIOUS
<1> USE DEF TakenTilt
<1>1. CASE Press
  BY <1>1, SensorOthers DEF Press, orientVars, distVars
<1>2. CASE ListenerSees \/ ListenerRequests \/ ListenerStarts
  BY <1>2, SensorOthers
  DEF ListenerSees, ListenerRequests, ListenerStarts, orientVars, distVars
<1>3. CASE DataInStep
  BY <1>3, SensorOthers DEF DataInStep, orientVars, distVars
<1>4. CASE Sample
  <2>1. UNCHANGED TakenTilt /\ orient = "read" /\ (tilted <=> TakenTilt)
    <3>1. UNCHANGED dist /\ orient = "read" /\ orient # "tell"
      BY <1>4 DEF Sample, distVars
    <3> QED
      BY <3>1, Zenon DEF SensorInv, TakenTilt
  <2>2. CASE UNCHANGED <<orient, tilted>>
    BY <2>1, <2>2, SensorOthers
  <2>3. CASE ~tilted /\ tilted' = TRUE /\ orient' = "tell"
    BY <2>1, <2>3, Zenon DEF SensorInv
  <2>4. CASE tilted /\ tilted' = FALSE /\ orient' = "tell"
    BY <2>1, <2>4, Zenon DEF SensorInv
  <2> QED
    BY <1>4, <2>2, <2>3, <2>4 DEF Sample
<1>5. CASE DataOutStep
  BY <1>5, SensorOthers DEF DataOutStep, orientVars, distVars
<1>6. CASE DistributorLoads
  BY <1>6, SensorOthers DEF DistributorLoads, orientVars
<1>7. CASE DistributorStartsTimer
  BY <1>7, SensorOthers DEF DistributorStartsTimer, orientVars
<1>8. CASE BeginRound \/ Round
  BY <1>8, SensorOthers DEF BeginRound, Round, orientVars
<1>9. CASE TakesTilt
  BY <1>9 DEF TakesTilt, SensorInv
<1>10. CASE TakesRequest \/ NothingToDo
  BY <1>10, SensorOthers DEF TakesRequest, NothingToDo, orientVars
<1>11. CASE StopsTimer \/ RedLed \/ TakesTime
  BY <1>11, SensorOthers DEF StopsTimer, RedLed, TakesTime, orientVars
<1>12. CASE TakesLevel
  BY <1>12 DEF TakesLevel, SensorInv
<1>13. CASE TellsDataOut \/ ExportsWord \/ ResetLed
  BY <1>13, SensorOthers DEF TellsDataOut, ExportsWord, ResetLed, orientVars
<1>14. CASE UNCHANGED vars
  BY <1>14, SensorOthers DEF vars, orientVars, distVars
<1> QED
  BY <1>1, <1>2, <1>3, <1>4, <1>5, <1>6, <1>7, <1>8, <1>9, <1>10, <1>11,
     <1>12, <1>13, <1>14
  DEF Next, DistributorStep

(***************************************************************************)
(* The distributor takes the sensor's messages for what they are, for any  *)
(* behaviour of the board: the first is always "tilted", the one it waits  *)
(* for in a pause always "level".                                          *)
(***************************************************************************)
THEOREM SensorTheorem == Spec => TiltAndLevelAlternate
<1>1. SensorInv /\ [Next]_vars =>
        [(TakesTilt => tilted) /\ (TakesLevel => ~tilted)]_vars
  BY DEF SensorInv, TakenTilt, TakesTilt, TakesLevel
<1> QED
  BY SensorInit, SensorStep, <1>1, PTL DEF Spec, TiltAndLevelAlternate

-----------------------------------------------------------------------------
\* An export has sent as many words as it has received; otherwise none are due.
WordsInv ==
  /\ dist = "export" => written = words
  /\ dist \notin {"load", "export"} => words = 0

TypeInv == TypeOK /\ WordsInv

LEMMA CountUp ==
  ASSUME NEW n \in 0 .. ImageWords - 1
  PROVE  /\ n + 1 # ImageWords => ((n + 1) % ImageWords) = n + 1
         /\ n + 1 = ImageWords => ((n + 1) % ImageWords) = 0
         /\ ((n + 1) % ImageWords) \in 0 .. ImageWords - 1
<1>1. ImageWords \in Nat \ {0}
  BY ControlAssumption
<1> QED
  BY <1>1

LEMMA TypeInit == Init => TypeInv
<1>1. ImageWords \in Nat /\ ImageWords > 0 /\ ButtonCapacity \in Nat
  BY ControlAssumption
<1>2. Init => tilted \in BOOLEAN
  BY Zenon DEF Init
<1>3. Init => /\ requests \in 0 .. ButtonCapacity /\ words \in 0 .. ImageWords - 1
              /\ LEDCount \in 0 .. 1 /\ written \in 0 .. ImageWords
  BY <1>1 DEF Init
<1> QED
  BY <1>2, <1>3, Zenon DEF Init, TypeInv, TypeOK, WordsInv

LEMMA TypeStep == TypeInv /\ [Next]_vars => TypeInv'
<1> SUFFICES ASSUME TypeInv, [Next]_vars PROVE TypeInv'
  OBVIOUS
<1>0. /\ ImageWords \in Nat /\ ImageWords > 0 /\ RowWords \in Nat
      /\ ButtonCapacity \in Nat \ {0}
  BY ControlAssumption
<1> USE <1>0 DEF TypeInv, TypeOK, WordsInv
<1>1. CASE Press
  BY <1>1 DEF Press, orientVars, inVars, outVars, distVars
<1>2. CASE ListenerSees
  <2>1. listener' \in {"up", "down", "toDist", "toDataIn"}
    BY <1>2, Zenon DEF ListenerSees
  <2>2. UNCHANGED <<pins, requests, orientVars, inVars, outVars, distVars, leds, timer>>
    BY <1>2, Zenon DEF ListenerSees
  <2> QED
    BY <2>1, <2>2 DEF orientVars, inVars, outVars, distVars
<1>3. CASE ListenerRequests
  BY <1>3 DEF ListenerRequests, orientVars, inVars, outVars, distVars
<1>4. CASE ListenerStarts
  BY <1>4 DEF ListenerStarts, orientVars, outVars, distVars
<1>5. CASE DataInStep
  BY <1>5 DEF DataInStep, buttonVars, orientVars, outVars, distVars
<1>6. CASE Sample
  <2>1. tilted' \in BOOLEAN
    BY <1>6, Zenon DEF Sample
  <2>2. orient' \in {"read", "tell"}
    BY <1>6, Zenon DEF Sample
  <2>3. x' \in {"below", "at", "above"}
    BY <1>6, Zenon DEF Sample
  <2>4. UNCHANGED <<buttonVars, inVars, outVars, distVars, leds, timer>>
    BY <1>6, Zenon DEF Sample
  <2> QED
    BY <2>1, <2>2, <2>3, <2>4 DEF buttonVars, inVars, outVars, distVars
<1>7. CASE DataOutStep
  BY <1>7 DEF DataOutStep, buttonVars, orientVars, inVars, distVars
<1>8. CASE DistributorLoads
  BY <1>8, CountUp DEF DistributorLoads, buttonVars, orientVars, outVars
<1>9. CASE DistributorStartsTimer
  BY <1>9 DEF DistributorStartsTimer, buttonVars, orientVars, inVars, outVars
<1>10. CASE BeginRound \/ Round
  BY <1>10 DEF BeginRound, Round, buttonVars, orientVars, inVars, outVars
<1>11. CASE TakesTilt \/ NothingToDo
  BY <1>11 DEF TakesTilt, NothingToDo, buttonVars, orientVars, inVars, outVars
<1>12. CASE TakesRequest
  BY <1>12 DEF TakesRequest, orientVars, inVars, outVars
<1>13. CASE StopsTimer \/ TakesTime
  BY <1>13 DEF StopsTimer, TakesTime, buttonVars, orientVars, inVars, outVars
<1>14. CASE RedLed
  BY <1>14 DEF RedLed, buttonVars, orientVars, inVars, outVars
<1>15. CASE TakesLevel
  BY <1>15 DEF TakesLevel, buttonVars, inVars, outVars
<1>16. CASE TellsDataOut
  BY <1>16 DEF TellsDataOut, buttonVars, orientVars, inVars
<1>17. CASE ExportsWord
  BY <1>17, CountUp DEF ExportsWord, buttonVars, orientVars, inVars
<1>18. CASE ResetLed
  BY <1>18 DEF ResetLed, buttonVars, orientVars, inVars, outVars
<1>19. CASE UNCHANGED vars
  BY <1>19 DEF vars, buttonVars, orientVars, inVars, outVars, distVars
<1> QED
  BY <1>1, <1>2, <1>3, <1>4, <1>5, <1>6, <1>7, <1>8, <1>9, <1>10, <1>11,
     <1>12, <1>13, <1>14, <1>15, <1>16, <1>17, <1>18, <1>19
  DEF Next, DistributorStep

(***************************************************************************)
(* No counter leaves its range and no thread its program, for any image:   *)
(* DataOutStream receives as many words as the distributor sends, because  *)
(* both count the same export.                                             *)
(***************************************************************************)
THEOREM TypeTheorem == Spec => []TypeOK
<1>1. TypeInv => TypeOK
  BY DEF TypeInv
<1> QED
  BY TypeInit, TypeStep, <1>1, PTL DEF Spec

-----------------------------------------------------------------------------
(***************************************************************************)
(* The threads with their files implement the threads without: what holds  *)
(* of LifeControl holds of ImageFiles.  And the streams are used as stdio  *)
(* wants it, for all files, failures and numbers of exports.               *)
(***************************************************************************)
LEMMA FilesInitial == FilesInit => Init
  BY DEF FilesInit

LEMMA FilesStep == [FilesNext]_<<vars, fileVars>> => [Next]_vars
<1> SUFFICES ASSUME FilesNext PROVE Next
  OBVIOUS
<1>1. CASE InputStep \/ OutputStep
  BY <1>1 DEF Next, InputStep, OpensInput, ClosesInput,
              OutputStep, OpensOutput, WritesRow, ClosesOutput
<1>2. CASE DistributorFilesStep
  BY <1>2 DEF Next, DistributorStep, DistributorFilesStep,
              LoadsWord, ComputesImage, RequestsExport, SendsWord
<1> QED
  BY <1>1, <1>2 DEF FilesNext, Next

(***************************************************************************)
(* Every behaviour of the threads with files is one of the threads.        *)
(***************************************************************************)
THEOREM Composition == FilesSpec => Spec
  BY FilesInitial, FilesStep, PTL DEF FilesSpec, Spec

(***************************************************************************)
(* So the timer follows the rounds whatever the files are.                 *)
(***************************************************************************)
THEOREM TimerWithFiles == FilesSpec => []TimerFollows
  BY Composition, TimerTheorem, PTL

-----------------------------------------------------------------------------
\* What DataInStream and DataOutStream hold at each point.
StreamsInv ==
  /\ infile \in Seq(STRING)
  /\ infp # NULL => infp \in Nat
  /\ dataIn \in {"send", "off"} => infp # NULL
  /\ dataOut \in {"idle", "open"} => outfp = NULL \/ short
  /\ dataOut \in {"receive", "got", "off"} => outfp # NULL

\* Steps that leave the files and both file threads alone.
LEMMA StreamsElsewhere ==
  ASSUME StreamsInv, UNCHANGED <<infile, infp, dataIn, dataOut, outfp, short>>
  PROVE  StreamsInv'
  BY DEF StreamsInv

\* No position in a file is NULL.
LEMMA UptoNat ==
  ASSUME NEW file \in Seq(STRING), NEW k \in Nat
  PROVE  Upto(file, k) \in Nat /\ Upto(file, k) # NULL
<1>1. Len(file) \in Nat
  OBVIOUS
<1> QED
  BY <1>1 DEF Upto, NULL

LEMMA OpenedNotNull ==
  ASSUME NEW file \in Seq(STRING), NEW o \in _openinpgm(file)
  PROVE  o.fp \in Nat /\ o.fp # NULL
<1>1. \/ o = [res |-> 0, fp |-> Upto(file, 3)]
      \/ o = [res |-> -1, fp |-> Upto(file, 2)]
  BY DEF _openinpgm
<1> QED
  BY <1>1, UptoNat

LEMMA StreamsInit == FilesInit => StreamsInv
<1> SUFFICES ASSUME FilesInit PROVE StreamsInv
  OBVIOUS
<1>1. infile \in Seq(STRING)
  BY FilesAssumption, Zenon DEF FilesInit
<1>2. dataIn = "wait" /\ dataOut = "idle" /\ infp = NULL /\ outfp = NULL
  BY DEF FilesInit, Init
<1> QED
  BY <1>1, <1>2 DEF StreamsInv

LEMMA StreamsStep ==
  StreamsInv /\ [FilesNext]_<<vars, fileVars>> => StreamsInv'
<1> SUFFICES ASSUME StreamsInv, [FilesNext]_<<vars, fileVars>> PROVE StreamsInv'
  OBVIOUS
<1>1. CASE OpensInput
  <2>1. UNCHANGED <<infile, dataOut, outfp, short>>
    BY <1>1 DEF OpensInput, DataInStep, outFileVars, outVars
  <2>2. PICK o \in _openinpgm(infile) \cup {[res |-> -1, fp |-> NULL]} :
          infp' = o.fp /\ dataIn' = IF o.res = 0 THEN "send" ELSE "failed"
    BY <1>1, Zenon DEF OpensInput
  <2>3. CASE o \in _openinpgm(infile)
    <3>1. infp' \in Nat /\ infp' # NULL
      BY <2>2, <2>3, OpenedNotNull DEF StreamsInv
    <3> QED
      BY <2>1, <3>1 DEF StreamsInv
  <2>4. CASE o = [res |-> -1, fp |-> NULL]
    <3>1. infp' = NULL /\ dataIn' = "failed"
      BY <2>2, <2>4
    <3> QED
      BY <2>1, <3>1 DEF StreamsInv
  <2> QED
    BY <2>2, <2>3, <2>4
<1>2. CASE ClosesInput
  BY <1>2 DEF ClosesInput, DataInStep, StreamsInv, outFileVars, outVars
<1>3. CASE LoadsWord
  <2>1. /\ dataIn = "send" /\ dataIn' \in {"send", "off"}
        /\ UNCHANGED <<infile, dataOut, outfp, short>>
    BY <1>3 DEF LoadsWord, DistributorLoads, outFileVars, outVars
  <2>2. infp' \in Nat /\ infp' # NULL
    <3>1. infp \in Nat
      BY <2>1 DEF StreamsInv
    <3>2. infp' = infp \/ infp' = _readinline(infile, infp, line, RowWords).fp
      BY <1>3 DEF LoadsWord
    <3>3. CASE infp' = _readinline(infile, infp, line, RowWords).fp
      <4>1. infp' = Upto(infile, infp + RowWords)
        BY <3>1, <3>3 DEF _readinline, NULL
      <4>2. infp + RowWords \in Nat
        BY <3>1, ControlAssumption
      <4> QED
        BY <4>1, <4>2, UptoNat DEF StreamsInv
    <3> QED
      BY <2>1, <3>1, <3>2, <3>3 DEF StreamsInv
  <2> QED
    BY <2>1, <2>2 DEF StreamsInv
<1>4. CASE OpensOutput
  BY <1>4 DEF OpensOutput, DataOutStep, StreamsInv, inFileVars, inVars, NULL
<1>5. CASE WritesRow
  <2>1. UNCHANGED <<infile, infp, dataIn, outfp>> /\ dataOut = "got"
    BY <1>5 DEF WritesRow, DataOutStep, inFileVars, inVars
  <2>2. dataOut' \in {"receive", "off"}
    BY <1>5 DEF WritesRow, DataOutStep
  <2> QED
    BY <2>1, <2>2 DEF StreamsInv
<1>6. CASE ClosesOutput
  BY <1>6 DEF ClosesOutput, DataOutStep, StreamsInv, inFileVars, inVars
<1>7. CASE RequestsExport
  BY <1>7 DEF RequestsExport, TellsDataOut, StreamsInv, inFileVars, outFileVars, inVars
<1>8. CASE SendsWord
  BY <1>8 DEF SendsWord, ExportsWord, StreamsInv, inFileVars, inVars
<1>9. CASE dataIn = "led" /\ DataInStep /\ UNCHANGED fileVars
  BY <1>9 DEF DataInStep, StreamsInv, fileVars, inFileVars, outFileVars, outVars
<1>10. CASE ComputesImage
  BY <1>10, StreamsElsewhere
  DEF ComputesImage, Round, inFileVars, outFileVars, inVars, outVars
<1>11. CASE /\ \/ DistributorStartsTimer \/ BeginRound
               \/ TakesTilt \/ TakesRequest \/ NothingToDo
               \/ StopsTimer \/ RedLed \/ TakesTime \/ TakesLevel \/ ResetLed
            /\ UNCHANGED fileVars
  <2>1. UNCHANGED <<dataIn, dataOut>>
    BY <1>11 DEF DistributorStartsTimer, BeginRound, TakesTilt, TakesRequest,
       NothingToDo, StopsTimer, RedLed, TakesTime, TakesLevel, ResetLed, inVars, outVars
  <2> QED
    BY <1>11, <2>1, StreamsElsewhere DEF fileVars, inFileVars, outFileVars
<1>12. CASE /\ Press \/ ListenerSees \/ ListenerRequests \/ Sample
            /\ UNCHANGED fileVars
  <2>1. UNCHANGED <<dataIn, dataOut>>
    BY <1>12, Zenon DEF Press, ListenerSees, ListenerRequests, Sample, inVars, outVars
  <2> QED
    BY <1>12, <2>1, StreamsElsewhere DEF fileVars, inFileVars, outFileVars
<1>13. CASE ListenerStarts /\ UNCHANGED fileVars
  BY <1>13 DEF ListenerStarts, StreamsInv, fileVars, inFileVars, outFileVars, outVars
<1>14. CASE UNCHANGED <<vars, fileVars>>
  BY <1>14, StreamsElsewhere DEF vars, inVars, outVars, fileVars, inFileVars, outFileVars
<1> QED
  BY <1>1, <1>2, <1>3, <1>4, <1>5, <1>6, <1>7, <1>8, <1>9, <1>10, <1>11,
     <1>12, <1>13, <1>14
  DEF FilesNext, InputStep, OutputStep, DistributorFilesStep

(***************************************************************************)
(* For any input file, any failures and any number of exports, a stream    *)
(* that is read or written is one that fopen returned, and none is left    *)
(* open by an export that did not fail.                                    *)
(***************************************************************************)
THEOREM StreamsTheorem == FilesSpec => []StreamsOpen
<1>1. StreamsInv => StreamsOpen
  BY DEF StreamsInv, StreamsOpen
<1> QED
  BY <1>1, StreamsInit, StreamsStep, PTL DEF FilesSpec

-----------------------------------------------------------------------------
(***************************************************************************)
(* What goes through the files: the image that is loaded, and the one that *)
(* is exported.  Both go by rows, and the row a word is in is told by how  *)
(* many words went before; Before(n) of them before the row of word n.     *)
(***************************************************************************)
Before(n) == IF n % RowWords = 0 THEN n - RowWords ELSE n - (n % RowWords)

\* The word behind n others is in the row that begins behind n - (n % RowWords).
LEMMA RowOf ==
  ASSUME NEW n \in Nat
  PROVE  /\ n % RowWords \in 0 .. RowWords - 1 /\ n - (n % RowWords) \in Nat
         /\ Before(n + 1) = n - (n % RowWords)
         /\ Before(n) \in Int
         /\ Before(n) < 0 <=> n = 0
         /\ (n + 1) % RowWords = IF n % RowWords = RowWords - 1 THEN 0 ELSE (n % RowWords) + 1
<1> DEFINE r == RowWords
           q == n \div r
           k == n % r
<1>1. r \in Nat \ {0}
  BY ControlAssumption
<1>2. n = r * q + k /\ q \in Nat /\ k \in 0 .. r - 1
  BY <1>1
<1>3. r * q \in Nat /\ (q > 0 => r * q >= r)
  BY <1>1, <1>2
<1>4. (n + 1) % r = IF k = r - 1 THEN 0 ELSE k + 1
  <2>1. CASE k = r - 1
    <3>1. n + 1 = r * (q + 1)
      BY <1>1, <1>2, <2>1
    <3>2. (r * (q + 1)) % r = 0
      BY <1>1, <1>2
    <3> QED
      BY <2>1, <3>1, <3>2
  <2>2. CASE k # r - 1
    <3>1. n + 1 = r * q + (k + 1) /\ k + 1 \in 0 .. r - 1
      BY <1>1, <1>2, <2>2
    <3> HIDE DEF q, k
    <3>2. (r * q + (k + 1)) % r = k + 1
      BY <1>1, <1>2, <3>1
    <3> QED
      BY <2>2, <3>1, <3>2
  <2> QED
    BY <2>1, <2>2
<1>5. ASSUME NEW m \in Nat
      PROVE  /\ m % r = 0 => Before(m) = m - r
             /\ m % r # 0 => Before(m) = m - (m % r)
  BY Zenon DEF Before
<1>6. /\ k = 0 => Before(n) = n - r
      /\ k # 0 => Before(n) = n - k
      /\ (n + 1) % r = 0 => Before(n + 1) = n + 1 - r
      /\ (n + 1) % r # 0 => Before(n + 1) = n + 1 - ((n + 1) % r)
  <2>1. n + 1 \in Nat
    OBVIOUS
  <2> HIDE DEF r
  <2>2. /\ n % r = 0 => Before(n) = n - r
        /\ n % r # 0 => Before(n) = n - (n % r)
    BY <1>5, Zenon
  <2>3. /\ (n + 1) % r = 0 => Before(n + 1) = n + 1 - r
        /\ (n + 1) % r # 0 => Before(n + 1) = n + 1 - ((n + 1) % r)
    <3> DEFINE m == n + 1
    <3> HIDE DEF m
    <3>1. /\ m % r = 0 => Before(m) = m - r
          /\ m % r # 0 => Before(m) = m - (m % r)
      BY <1>5, <2>1, Zenon DEF m
    <3> QED
      BY <1>1, <2>1, <3>1 DEF m
  <2> QED
    BY <2>2, <2>3, Zenon
<1>7. n % RowWords = k /\ (n + 1) % RowWords = (n + 1) % r /\ RowWords = r
  OBVIOUS
<1> HIDE DEF q, k, r
<1>8. /\ n - k \in Nat /\ Before(n + 1) = n - k /\ Before(n) \in Int
      /\ Before(n) < 0 <=> n = 0
  <2>1. Before(n + 1) = n - k
    BY <1>1, <1>2, <1>4, <1>6
  <2>2. n - k \in Nat
    BY <1>1, <1>2, <1>3
  <2>3. Before(n) \in Int /\ (Before(n) < 0 <=> n = 0)
    BY <1>1, <1>2, <1>3, <1>6
  <2> QED
    BY <2>1, <2>2, <2>3
<1> QED
  BY <1>2, <1>4, <1>7, <1>8

(***************************************************************************)
(* Loading.  A word is right if it is that of the file, or if the file has *)
(* none, the one above it in the image.                                    *)
(***************************************************************************)
Right(img, j, v) ==
  IF 3 + j <= Len(infile) THEN v = infile[3 + j]
  ELSE IF j > RowWords THEN v = img[j - RowWords] ELSE v = Junk

\* When n words are loaded: what they are, what is in line, and where _INFP is.
Loaded(n) ==
  /\ infp = Upto(infile, 3 + Before(n) + RowWords)
  /\ \A j \in 1 .. n : Right(image, j, image[j])
  /\ \A c \in 1 .. RowWords : IF Before(n) < 0 THEN line[c] = Junk
                              ELSE Right(image, Before(n) + c, line[c])
  /\ \A c \in 1 .. RowWords :
       Before(n) >= 0 /\ Before(n) + c <= n => image[Before(n) + c] = line[c]

Rows == [1 .. RowWords -> Symbols]

LoadInv ==
  /\ infile \in InFiles /\ line \in Rows /\ image \in Images
  /\ dataIn \in {"wait", "led", "open"} =>
       dist = "load" /\ words = 0 /\ line = [c \in 1 .. RowWords |-> Junk]
  /\ dataIn = "send" => dist = "load" /\ (SizeLine(infile) = "size" => Loaded(words))

\* Where a read ends and what it leaves in line.
LEMMA ReadsRow ==
  ASSUME infile \in Seq(STRING), infp \in Nat, NEW n \in Nat, infp = Upto(infile, 3 + n),
         NEW l, NEW c \in 1 .. RowWords
  PROVE  LET got == _readinline(infile, infp, l, RowWords)
         IN  /\ got.fp = Upto(infile, 3 + n + RowWords)
             /\ got.line[c] = IF 3 + n + c <= Len(infile) THEN infile[3 + n + c] ELSE l[c]
<1> DEFINE s == Len(infile)
           upto == Upto(infile, infp + RowWords)
<1>1. s \in Nat /\ RowWords \in Nat \ {0} /\ infp # NULL
  BY ControlAssumption DEF NULL
<1>2. infp = (IF 3 + n < s THEN 3 + n ELSE s)
      /\ upto = (IF infp + RowWords < s THEN infp + RowWords ELSE s)
      /\ Upto(infile, 3 + n + RowWords) = IF 3 + n + RowWords < s THEN 3 + n + RowWords ELSE s
  BY DEF Upto
<1>3. /\ _readinline(infile, infp, l, RowWords).fp = upto
      /\ _readinline(infile, infp, l, RowWords).line[c]
           = IF infp + c <= upto THEN infile[infp + c] ELSE l[c]
  BY <1>1 DEF _readinline
<1>4. infp + c <= upto <=> 3 + n + c <= s
  <2> HIDE DEF s, upto
  <2> QED
    BY <1>1, <1>2
<1>5. 3 + n + c <= s => infp = 3 + n
  <2> HIDE DEF s, upto
  <2> QED
    BY <1>1, <1>2
<1>6. upto = Upto(infile, 3 + n + RowWords)
  <2> HIDE DEF s, upto
  <2> QED
    BY <1>1, <1>2
<1> QED
  BY <1>3, <1>4, <1>5, <1>6

\* Loading a word.
LEMMA LoadsNext ==
  ASSUME LoadInv, TypeOK, StreamsInv, LoadsWord, SizeLine(infile) = "size",
         NEW n \in Nat, n = words
  PROVE  Loaded(n + 1)'
<1> DEFINE k == n % RowWords
           got == IF k = 0 THEN _readinline(infile, infp, line, RowWords)
                           ELSE [line |-> line, fp |-> infp]
<1>1. /\ dataIn = "send" /\ n \in 0 .. ImageWords - 1 /\ infile' = infile
      /\ line' = got.line /\ infp' = got.fp
      /\ image' = [image EXCEPT ![n + 1] = got.line[k + 1]]
  BY DEF LoadsWord, DistributorLoads, TypeOK
<1>2. /\ RowWords \in Nat \ {0} /\ n \in Nat /\ k \in 0 .. RowWords - 1
      /\ n - k \in Nat /\ Before(n + 1) = n - k
      /\ Before(n) = (IF k = 0 THEN n - RowWords ELSE n - k)
      /\ Before(n) \in Int /\ (Before(n) < 0 <=> n = 0)
  <2>1. n \in Nat
    BY <1>1
  <2> QED
    BY <2>1, ControlAssumption, RowOf DEF Before
<1>3. /\ Loaded(n) /\ image \in Images /\ n + 1 \in 1 .. ImageWords /\ k + 1 \in 1 .. RowWords
      /\ infile \in Seq(STRING) /\ infp \in Nat
  <2>1. Loaded(n) /\ image \in Images
    BY <1>1 DEF LoadInv
  <2>2. n + 1 \in 1 .. ImageWords /\ k + 1 \in 1 .. RowWords
    BY <1>1, <1>2, ControlAssumption
  <2>3. infile \in Seq(STRING) /\ infp \in Nat
    BY <1>1 DEF StreamsInv
  <2> QED
    BY <2>1, <2>2, <2>3
<1>4. /\ \A j \in 1 .. n : image'[j] = image[j]
      /\ image'[n + 1] = line'[k + 1]
  <2> HIDE DEF k, got
  <2> QED
    BY <1>1, <1>2, <1>3 DEF Images
<1>5. ASSUME NEW j \in 1 .. n + RowWords, NEW v, Right(image, j, v)
      PROVE  Right(image', j, v)
  <2>1. j > RowWords => j - RowWords \in 1 .. n
    BY <1>2
  <2> QED
    BY <1>1, <1>4, <1>5, <2>1 DEF Right
<1>6. /\ infp' = Upto(infile, 3 + Before(n + 1) + RowWords)
      /\ \A c \in 1 .. RowWords : Right(image', Before(n + 1) + c, line'[c])
      /\ \A c \in 1 .. RowWords : Before(n + 1) + c <= n => image[Before(n + 1) + c] = line'[c]
  <2>1. CASE k # 0
    <3>1. line' = line /\ infp' = infp /\ Before(n) = Before(n + 1) /\ ~(Before(n) < 0)
      BY <1>1, <1>2, <2>1
    <3>2. /\ infp = Upto(infile, 3 + Before(n) + RowWords)
          /\ \A c \in 1 .. RowWords : Right(image, Before(n) + c, line[c])
          /\ \A c \in 1 .. RowWords :
               Before(n) + c <= n => image[Before(n) + c] = line[c]
      BY <1>2, <1>3, <3>1 DEF Loaded
    <3>3. \A c \in 1 .. RowWords : Before(n) + c \in 1 .. n + RowWords
      BY <1>2, <2>1
    <3> HIDE DEF k, got
    <3> QED
      BY <1>5, <3>1, <3>2, <3>3
  <2>2. CASE k = 0
    <3>1. got = _readinline(infile, infp, line, RowWords) /\ Before(n + 1) = n
      BY <1>2, <2>2
    <3>2. infp = Upto(infile, 3 + n)
      <4>1. infp = Upto(infile, 3 + Before(n) + RowWords)
        BY <1>3 DEF Loaded
      <4>2. 3 + Before(n) + RowWords = 3 + n
        BY <1>2, <2>2
      <4> QED
        BY <4>1, <4>2
    <3>3. ASSUME NEW c \in 1 .. RowWords
          PROVE  /\ infp' = Upto(infile, 3 + n + RowWords)
                 /\ line'[c] = IF 3 + n + c <= Len(infile) THEN infile[3 + n + c] ELSE line[c]
      <4> HIDE DEF k, got
      <4> QED
        BY <1>1, <1>2, <1>3, <3>1, <3>2, ReadsRow
    <3>4. ASSUME NEW c \in 1 .. RowWords
          PROVE  Right(image', n + c, line'[c])
      <4>1. CASE 3 + (n + c) <= Len(infile)
        <5>1. 3 + n + c = 3 + (n + c)
          BY <1>2
        <5> QED
          BY <1>1, <3>3, <4>1, <5>1 DEF Right
      <4>2. CASE ~(3 + (n + c) <= Len(infile))
        <5>1. line'[c] = line[c]
          <6>1. 3 + n + c = 3 + (n + c)
            BY <1>2
          <6> QED
            BY <3>3, <4>2, <6>1
        <5>2. CASE n = 0
          <6>1. line[c] = Junk
            BY <1>2, <1>3, <5>2 DEF Loaded
          <6>2. ~(n + c > RowWords)
            BY <5>2, <1>2
          <6> QED
            BY <1>1, <4>2, <5>1, <6>1, <6>2 DEF Right
        <5>3. CASE n # 0
          <6>1. Before(n) = n - RowWords /\ Before(n) >= 0 /\ Before(n) + c <= n
            BY <1>2, <2>2, <5>3
          <6>2. image[Before(n) + c] = line[c]
            BY <1>3, <6>1 DEF Loaded
          <6>3. n + c > RowWords /\ n + c - RowWords = Before(n) + c /\ n + c - RowWords \in 1 .. n
            BY <1>2, <6>1
          <6>4. line[c] = image'[n + c - RowWords]
            BY <1>4, <6>2, <6>3
          <6> DEFINE j == n + c
          <6>5. ~(3 + j <= Len(infile)) /\ j > RowWords /\ line'[c] = image'[j - RowWords]
            BY <1>2, <4>2, <5>1, <6>3, <6>4
          <6> HIDE DEF j
          <6>6. Right(image', j, line'[c])
            BY <6>5, Zenon DEF Right
          <6> QED
            BY <6>6 DEF j
        <5> QED
          BY <5>2, <5>3
      <4> QED
        BY <4>1, <4>2
    <3>5. infp' = Upto(infile, 3 + n + RowWords)
      <4>1. 1 \in 1 .. RowWords
        BY <1>2
      <4> QED
        BY <3>3, <4>1
    <3>6. \A c \in 1 .. RowWords : ~(n + c <= n)
      BY <1>2
    <3> QED
      BY <3>1, <3>4, <3>5, <3>6
  <2> QED
    BY <2>1, <2>2
<1>7. ASSUME NEW j \in 1 .. n + 1
      PROVE  Right(image', j, image'[j])
  <2>1. CASE j <= n
    <3>1. j \in 1 .. n /\ j \in 1 .. n + RowWords
      BY <1>2, <2>1
    <3>2. Right(image, j, image[j]) /\ image'[j] = image[j]
      BY <1>3, <1>4, <3>1 DEF Loaded
    <3> QED
      BY <1>5, <3>1, <3>2
  <2>2. CASE j = n + 1
    <3>1. Right(image', Before(n + 1) + (k + 1), line'[k + 1])
      BY <1>3, <1>6
    <3>2. Before(n + 1) + (k + 1) = j
      BY <1>2, <2>2
    <3> QED
      BY <1>4, <2>2, <3>1, <3>2
  <2> QED
    BY <1>2, <2>1, <2>2
<1>8. ASSUME NEW c \in 1 .. RowWords, Before(n + 1) + c <= n + 1
      PROVE  image'[Before(n + 1) + c] = line'[c]
  <2>1. CASE Before(n + 1) + c = n + 1
    <3>1. c = k + 1
      BY <1>2, <2>1
    <3> QED
      BY <1>4, <2>1, <3>1
  <2>2. CASE Before(n + 1) + c # n + 1
    <3>1. Before(n + 1) + c \in 1 .. n
      BY <1>2, <1>8, <2>2
    <3> QED
      BY <1>4, <1>6, <3>1
  <2> QED
    BY <2>1, <2>2
<1>9. ~(Before(n + 1) < 0)
  BY <1>2
<1> HIDE DEF k, got
<1>10. \A j, v : Right(image, j, v)' <=> Right(image', j, v)
  BY <1>1 DEF Right
<1> QED
  BY <1>1, <1>6, <1>7, <1>8, <1>9, <1>10 DEF Loaded

\* Loading keeps to the words there are.
LEMMA LoadsSymbols ==
  ASSUME LoadInv, TypeOK, StreamsInv, LoadsWord
  PROVE  line' \in Rows /\ image' \in Images
<1> DEFINE k == words % RowWords
           read == _readinline(infile, infp, line, RowWords)
<1>1. /\ words \in 0 .. ImageWords - 1 /\ RowWords \in Nat \ {0} /\ dataIn = "send"
      /\ infile \in InFiles /\ infile \in Seq(STRING) /\ line \in Rows /\ image \in Images
      /\ k = 0 => line' = read.line
      /\ k # 0 => line' = line
      /\ image' = [image EXCEPT ![words + 1] = line'[k + 1]]
  BY ControlAssumption, Zenon DEF LoadsWord, DistributorLoads, TypeOK, LoadInv, StreamsInv
<1>2. line' \in Rows
  <2>1. CASE k # 0
    BY <1>1, <2>1
  <2>2. CASE k = 0
    <3>1. infp \in Nat
      BY <1>1 DEF StreamsInv
    <3>2. line' = [c \in 1 .. RowWords |->
                    IF infp + c <= Upto(infile, infp + RowWords) THEN infile[infp + c] ELSE line[c]]
      BY <1>1, <2>2, <3>1 DEF _readinline, NULL
    <3>3. ASSUME NEW c \in 1 .. RowWords, infp + c <= Upto(infile, infp + RowWords)
          PROVE  infile[infp + c] \in Symbols
      <4>1. Len(infile) \in Nat /\ infp + c <= Len(infile)
        BY <1>1, <3>1, <3>3 DEF Upto
      <4>2. infp + c \in DOMAIN infile
        BY <1>1, <3>1, <4>1
      <4>3. infile[infp + c] \in {infile[i] : i \in DOMAIN infile}
        BY <4>2, Zenon
      <4> QED
        BY <1>1, <4>3, Zenon DEF Symbols
    <3>4. \A c \in 1 .. RowWords : line[c] \in Symbols
      BY <1>1 DEF Rows
    <3> QED
      BY <3>2, <3>3, <3>4 DEF Rows
  <2> QED
    BY <2>1, <2>2
<1>3. line'[k + 1] \in Symbols
  <2>1. k + 1 \in 1 .. RowWords
    BY <1>1
  <2> QED
    BY <1>2, <2>1 DEF Rows
<1> HIDE DEF k
<1> QED
  BY <1>1, <1>2, <1>3 DEF Images

\* Nothing is loaded yet.
LEMMA JunkIsSymbol == Junk \in Symbols
  BY Zenon DEF Symbols

LEMMA LoadInit == FilesInit => LoadInv
<1> SUFFICES ASSUME FilesInit PROVE LoadInv
  OBVIOUS
<1>1. Junk \in Symbols
  BY JunkIsSymbol
<1>2. /\ infile \in InFiles /\ line = [c \in 1 .. RowWords |-> Junk]
      /\ image = [c \in 1 .. ImageWords |-> Junk]
      /\ dataIn = "wait" /\ dist = "load" /\ words = 0
  BY DEF FilesInit, Init
<1>3. line \in Rows /\ image \in Images
  BY <1>1, <1>2 DEF Rows, Images
<1> QED
  BY <1>2, <1>3 DEF LoadInv

\* Steps that leave the input and the image alone.
LEMMA LoadElsewhere ==
  ASSUME LoadInv, UNCHANGED <<infile, infp, line, image, dataIn, words>>,
         dataIn \in {"wait", "led", "open", "send"} => dist' = dist
  PROVE  LoadInv'
<1>1. Loaded(words) => Loaded(words)'
  BY DEF Loaded, Right
<1> QED
  BY <1>1 DEF LoadInv

\* With the file open nothing is loaded, and the next word read is its first.
LEMMA LoadOpened ==
  ASSUME LoadInv, OpensInput
  PROVE  LoadInv'
<1>1. /\ UNCHANGED <<infile, line, image, dist, words>> /\ dataIn = "open"
      /\ dist = "load" /\ words = 0 /\ line = [c \in 1 .. RowWords |-> Junk]
  BY DEF OpensInput, DataInStep, distVars, LoadInv
<1>2. PICK o \in _openinpgm(infile) \cup {[res |-> -1, fp |-> NULL]} :
        infp' = o.fp /\ dataIn' = IF o.res = 0 THEN "send" ELSE "failed"
  BY Zenon DEF OpensInput
<1>3. dataIn' = "send" => infp' = Upto(infile, 3)
  <2>1. CASE o = [res |-> -1, fp |-> NULL]
    BY <1>2, <2>1
  <2>2. CASE o \in {[res |-> 0, fp |-> Upto(infile, 3)] : i \in {SizeLine(infile)} \ {"other size"}}
    <3>1. o = [res |-> 0, fp |-> Upto(infile, 3)]
      BY <2>2, Zenon
    <3> QED
      BY <1>2, <3>1
  <2>3. CASE o \in {[res |-> -1, fp |-> Upto(infile, 2)] : i \in {SizeLine(infile)} \ {"size"}}
    <3>1. o = [res |-> -1, fp |-> Upto(infile, 2)]
      BY <2>3, Zenon
    <3> QED
      BY <1>2, <3>1
  <2> QED
    BY <1>2, <2>1, <2>2, <2>3, Zenon DEF _openinpgm
<1>4. ASSUME dataIn' = "send" PROVE Loaded(words)'
  <2>1. Before(0) \in Int /\ Before(0) < 0 /\ 3 + Before(0) + RowWords = 3 /\ RowWords \in Nat \ {0}
    <3>1. RowWords \in Nat \ {0} /\ 0 % RowWords = 0
      BY ControlAssumption
    <3> QED
      BY <3>1 DEF Before
  <2>2. infp' = Upto(infile', 3 + Before(0) + RowWords)
    BY <1>1, <1>3, <1>4, <2>1
  <2>3. \A c \in 1 .. RowWords : line'[c] = Junk
    BY <1>1
  <2>4. words' = 0
    BY <1>1
  <2>5. \A j \in 1 .. 0 : FALSE
    OBVIOUS
  <2>6. \A c \in 1 .. RowWords : ~(Before(0) >= 0 /\ Before(0) + c <= 0)
    BY <2>1
  <2>7. Loaded(0)'
    BY <2>1, <2>2, <2>3, <2>5, <2>6, Zenon DEF Loaded
  <2> QED
    BY <2>4, <2>7 DEF Loaded
<1> QED
  BY <1>1, <1>2, <1>4 DEF LoadInv

\* One case per action; what loads or reads is above.
LEMMA LoadStep ==
  LoadInv /\ TypeInv /\ StreamsInv /\ [FilesNext]_<<vars, fileVars>> => LoadInv'
<1> SUFFICES ASSUME LoadInv, TypeInv, StreamsInv, [FilesNext]_<<vars, fileVars>>
             PROVE  LoadInv'
  OBVIOUS
<1>1. CASE OpensInput
  BY <1>1, LoadOpened
<1>2. CASE ClosesInput
  <2>1. /\ UNCHANGED <<infile, image>> /\ dataIn' = "done"
        /\ line' = [c \in 1 .. RowWords |-> Junk]
    BY <1>2 DEF ClosesInput, DataInStep
  <2>2. line' \in Rows
    <3>1. Junk \in Symbols
      BY JunkIsSymbol
    <3> QED
      BY <2>1, <3>1 DEF Rows
  <2> QED
    BY <2>1, <2>2 DEF LoadInv
<1>3. CASE LoadsWord
  <2>1. line' \in Rows /\ image' \in Images
    BY <1>3, LoadsSymbols DEF TypeInv
  <2>2. /\ infile' = infile /\ dataIn = "send" /\ dist = "load"
        /\ words \in 0 .. ImageWords - 1 /\ words' = (words + 1) % ImageWords
        /\ words + 1 = ImageWords => dataIn' = "off"
        /\ words + 1 # ImageWords => dist' = dist /\ dataIn' = dataIn
    BY <1>3, Zenon DEF LoadsWord, DistributorLoads, TypeInv, TypeOK
  <2>3. CASE words + 1 = ImageWords
    BY <2>1, <2>2, <2>3 DEF LoadInv
  <2>4. CASE words + 1 # ImageWords
    <3>1. words' = words + 1
      BY <2>2, <2>4, CountUp
    <3>2. words \in Nat
      BY <2>2
    <3>3. SizeLine(infile) = "size" => Loaded(words)'
      <4>1. PICK m \in Nat : m = words
        BY <3>2
      <4>2. SizeLine(infile) = "size" => Loaded(m + 1)'
        BY <1>3, <4>1, LoadsNext DEF TypeInv
      <4> QED
        BY <3>1, <4>1, <4>2
    <3> QED
      BY <2>1, <2>2, <2>4, <3>3 DEF LoadInv
  <2> QED
    BY <2>3, <2>4
<1>4. CASE ComputesImage
  <2>1. /\ UNCHANGED <<infile, line, dataIn>> /\ image' = Evolve[image] /\ dist = "round"
    BY <1>4 DEF ComputesImage, Round, inFileVars, inVars
  <2>2. image' \in Images
    BY <2>1, FilesAssumption DEF LoadInv
  <2> QED
    BY <2>1, <2>2 DEF LoadInv
<1>5. CASE OutputStep
  <2>1. UNCHANGED <<infile, infp, line, image, dataIn, words, dist>>
    BY <1>5 DEF OutputStep, OpensOutput, WritesRow, ClosesOutput, DataOutStep,
                inFileVars, inVars, distVars
  <2> QED
    BY <2>1, LoadElsewhere
<1>6. CASE RequestsExport \/ SendsWord
  <2>1. UNCHANGED <<infile, infp, line, image, dataIn>> /\ dist \in {"tellOut", "export"}
    BY <1>6 DEF RequestsExport, TellsDataOut, SendsWord, ExportsWord, inFileVars, inVars
  <2> QED
    BY <2>1 DEF LoadInv
<1>7. CASE dataIn = "led" /\ DataInStep /\ UNCHANGED fileVars
  <2>1. /\ UNCHANGED <<infile, infp, line, image, words, dist>>
        /\ dataIn = "led" /\ dataIn' = "open"
    BY <1>7 DEF DataInStep, fileVars, inFileVars, distVars
  <2> QED
    BY <2>1 DEF LoadInv
<1>8. CASE /\ \/ DistributorStartsTimer \/ BeginRound
              \/ TakesTilt \/ TakesRequest \/ NothingToDo
              \/ StopsTimer \/ RedLed \/ TakesTime \/ TakesLevel \/ ResetLed
           /\ UNCHANGED fileVars
  <2>1. /\ UNCHANGED <<infile, infp, line, image, dataIn, words>> /\ dist # "load"
    BY <1>8 DEF DistributorStartsTimer, BeginRound, TakesTilt, TakesRequest,
       NothingToDo, StopsTimer, RedLed, TakesTime, TakesLevel, ResetLed,
       inVars, fileVars, inFileVars
  <2> QED
    BY <2>1 DEF LoadInv
<1>9. CASE /\ Press \/ ListenerSees \/ ListenerRequests \/ Sample
           /\ UNCHANGED fileVars
  <2>1. UNCHANGED <<infile, infp, line, image, dataIn, words, dist>>
    BY <1>9, Zenon DEF Press, ListenerSees, ListenerRequests, Sample, inVars, distVars,
       fileVars, inFileVars
  <2> QED
    BY <2>1, LoadElsewhere
<1>10. CASE ListenerStarts /\ UNCHANGED fileVars
  <2>1. /\ UNCHANGED <<infile, infp, line, image, words, dist>>
        /\ dataIn = "wait" /\ dataIn' = "led"
    BY <1>10 DEF ListenerStarts, fileVars, inFileVars, distVars
  <2> QED
    BY <2>1 DEF LoadInv
<1>11. CASE UNCHANGED <<vars, fileVars>>
  <2>1. UNCHANGED <<infile, infp, line, image, dataIn, words, dist>>
    BY <1>11 DEF vars, inVars, distVars, fileVars, inFileVars
  <2> QED
    BY <2>1, LoadElsewhere
<1> QED
  BY <1>1, <1>2, <1>3, <1>4, <1>5, <1>6, <1>7, <1>8, <1>9, <1>10, <1>11
  DEF FilesNext, InputStep, DistributorFilesStep

\* The words of a file, by their place behind the header.
LEMMA DataOf ==
  ASSUME NEW file \in Seq(STRING), NEW j \in Nat \ {0}
  PROVE  /\ j <= Len(Data(file)) <=> 3 + j <= Len(file)
         /\ j <= Len(Data(file)) => Data(file)[j] = file[3 + j]
<1>1. Len(file) \in Nat /\ \A i \in 4 .. Len(file) : file[i] \in STRING
  OBVIOUS
<1>2. /\ Len(Data(file)) = IF 4 <= Len(file) THEN Len(file) - 4 + 1 ELSE 0
      /\ \A i \in 1 .. Len(file) - 4 + 1 : Data(file)[i] = file[4 + i - 1]
  <2>1. 4 \in Int /\ Len(file) \in Int
    BY <1>1
  <2> QED
    BY <1>1, <2>1, SubSeqProperties DEF Data
<1>3. j <= Len(Data(file)) <=> 3 + j <= Len(file)
  BY <1>1, <1>2
<1>4. ASSUME j <= Len(Data(file)) PROVE Data(file)[j] = file[3 + j]
  <2>1. j \in 1 .. Len(file) - 4 + 1 /\ 4 + j - 1 = 3 + j
    BY <1>1, <1>3, <1>4
  <2> QED
    BY <1>2, <2>1
<1> QED
  BY <1>3, <1>4

(***************************************************************************)
(* Whatever is in the input file, and however short it is, what the        *)
(* distributor holds once it has loaded is that file's image, with the     *)
(* words the file does not have repeated from the row above.               *)
(***************************************************************************)
THEOREM LoadTheorem == FilesSpec => ImageIsTheFile
<1>1. ASSUME LoadInv, TypeInv, StreamsInv, [FilesNext]_<<vars, fileVars>>,
             dist = "load", dist' # "load", SizeLine(infile) = "size",
             NEW j \in 1 .. ImageWords
      PROVE  IF j <= Len(Data(infile)) THEN image'[j] = Data(infile)[j]
             ELSE \/ j > RowWords /\ image'[j] = image'[j - RowWords]
                  \/ j <= RowWords /\ image'[j] = Junk
  <2>1. LoadsWord
    BY <1>1 DEF FilesNext, Press, ListenerSees, ListenerRequests, ListenerStarts, Sample,
       InputStep, OpensInput, ClosesInput, DataInStep, OutputStep, OpensOutput, WritesRow,
       ClosesOutput, DataOutStep, DistributorFilesStep, ComputesImage, Round,
       RequestsExport, TellsDataOut, SendsWord, ExportsWord,
       DistributorStartsTimer, BeginRound, TakesTilt, TakesRequest, NothingToDo,
       StopsTimer, RedLed, TakesTime, TakesLevel, ResetLed, vars, distVars
  <2>2. words + 1 = ImageWords /\ words \in 0 .. ImageWords - 1 /\ infile' = infile
    BY <1>1, <2>1 DEF LoadsWord, DistributorLoads, TypeInv, TypeOK
  <2>3. Loaded(ImageWords)'
    <3>1. PICK m \in Nat : m = words
      BY <2>2
    <3>2. Loaded(m + 1)'
      BY <1>1, <2>1, <3>1, LoadsNext DEF TypeInv
    <3> QED
      BY <2>2, <3>1, <3>2
  <2>4. Right(image', j, image'[j])
    BY <2>2, <2>3 DEF Loaded, Right
  <2>5. infile \in Seq(STRING) /\ j \in Nat \ {0}
    BY <1>1, ControlAssumption DEF StreamsInv
  <2>6. /\ j <= Len(Data(infile)) <=> 3 + j <= Len(infile)
        /\ j <= Len(Data(infile)) => Data(infile)[j] = infile[3 + j]
    BY <2>5, DataOf
  <2>7. j > RowWords \/ j <= RowWords
    BY <2>5, ControlAssumption
  <2> QED
    BY <2>4, <2>6, <2>7, Zenon DEF Right
<1>2. LoadInv /\ TypeInv /\ StreamsInv /\ [FilesNext]_<<vars, fileVars>>
        => [dist = "load" /\ dist' # "load" /\ SizeLine(infile) = "size" =>
              \A k \in 1 .. ImageWords :
                IF k <= Len(Data(infile)) THEN image'[k] = Data(infile)[k]
                ELSE \/ k > RowWords /\ image'[k] = image'[k - RowWords]
                     \/ k <= RowWords /\ image'[k] = Junk]_<<vars, fileVars>>
  BY <1>1
<1>3. TypeInv /\ [FilesNext]_<<vars, fileVars>> => TypeInv'
  BY FilesStep, TypeStep
<1>4. FilesInit => TypeInv
  BY FilesInitial, TypeInit
<1>5. FilesInit => StreamsInv
  BY StreamsInit
<1> QED
  BY <1>2, <1>3, <1>4, <1>5, LoadInit, LoadStep, StreamsStep, PTL
  DEF FilesSpec, ImageIsTheFile

-----------------------------------------------------------------------------
(***************************************************************************)
(* Exporting.  The file holds n words of the image that was asked for, and *)
(* dataOut those of its words behind the m-th that are among the first n.  *)
(***************************************************************************)
Filed(n) ==
  /\ outfile \in Seq(Symbols \cup {"P5", "size", "255"}) /\ Len(outfile) = 3 + n
  /\ outfile[1] = "P5" /\ outfile[2] = "size" /\ outfile[3] = "255"
  /\ \A j \in 1 .. n : outfile[3 + j] = exported[j]

InRow(m, n) == \A c \in 1 .. RowWords : m + c <= n => row[c] = exported[m + c]

ExportInv ==
  /\ image \in Images /\ exported \in Images /\ row \in Rows
  /\ dist = "export" => exported = image
  /\ dataOut = "idle" => outfile = <<>> \/ short \/ Filed(ImageWords)
  /\ dataOut = "open" => written = 0
  /\ dataOut = "receive" => short \/ /\ Filed(written - (written % RowWords))
                                     /\ InRow(written - (written % RowWords), written)
  /\ dataOut = "got" => /\ written > 0
                        /\ short \/ (Filed(Before(written)) /\ InRow(Before(written), written))
  /\ dataOut = "off" => short \/ Filed(ImageWords)

\* Nothing is exported yet.
LEMMA ExportInit == FilesInit => ExportInv
<1> SUFFICES ASSUME FilesInit PROVE ExportInv
  OBVIOUS
<1>1. /\ image = [c \in 1 .. ImageWords |-> Junk] /\ exported = image
      /\ row = [c \in 1 .. RowWords |-> Junk]
      /\ dataOut = "idle" /\ dist = "load" /\ outfile = <<>>
  BY DEF FilesInit, Init
<1>2. image \in Images /\ row \in Rows
  BY <1>1, JunkIsSymbol DEF Rows, Images
<1> QED
  BY <1>1, <1>2 DEF ExportInv

\* Steps that leave the export alone.
LEMMA ExportElsewhere ==
  ASSUME ExportInv, UNCHANGED <<outfile, exported, row, short, dataOut, written>>,
         image' \in Images, dist' = "export" => dist = "export" /\ image' = image
  PROVE  ExportInv'
<1>1. ASSUME NEW n, NEW m
      PROVE  (Filed(n) => Filed(n)') /\ (InRow(m, n) => InRow(m, n)')
  BY DEF Filed, InRow
<1> QED
  BY <1>1 DEF ExportInv

\* The file that was opened holds the header and none of the image.
LEMMA ExportOpened ==
  ASSUME ExportInv, TypeOK, OpensOutput
  PROVE  ExportInv'
<1>1. /\ UNCHANGED <<exported, row, image, dist, written>> /\ dataOut = "open" /\ written = 0
      /\ \/ dataOut' = "receive" /\ outfile' = hdr
         \/ dataOut' = "failed"
  BY DEF OpensOutput, DataOutStep, distVars, ExportInv
<1>2. RowWords \in Nat \ {0} /\ 0 - (0 % RowWords) = 0
  <2>1. RowWords \in Nat \ {0}
    BY ControlAssumption
  <2> QED
    BY <2>1
<1>3. ASSUME dataOut' = "receive" PROVE Filed(0)' /\ InRow(0, 0)'
  <2>1. outfile' = <<"P5", "size", "255">>
    BY <1>1, <1>3 DEF hdr
  <2>2. outfile' \in Seq({"P5", "size", "255"})
    BY <2>1
  <2>3. outfile' \in Seq(Symbols \cup {"P5", "size", "255"})
    <3>1. Seq({"P5", "size", "255"}) \subseteq Seq(Symbols \cup {"P5", "size", "255"})
      OBVIOUS
    <3> QED
      BY <2>2, <3>1
  <2>4. Len(outfile') = 3 + 0 /\ \A j \in 1 .. 0 : FALSE
    BY <2>1
  <2>5. outfile'[1] = "P5" /\ outfile'[2] = "size" /\ outfile'[3] = "255"
    BY <2>1
  <2>6. \A c \in 1 .. RowWords : ~(0 + c <= 0)
    BY <1>2
  <2>7. Filed(0)'
    BY <2>3, <2>4, <2>5, Zenon DEF Filed
  <2> QED
    BY <2>6, <2>7 DEF InRow
<1>4. written' - (written' % RowWords) = 0 /\ written' = 0
  BY <1>1, <1>2
<1>5. dataOut' = "receive" => /\ Filed(written - (written % RowWords))'
                              /\ InRow(written - (written % RowWords), written)'
  <2>1. Filed(written - (written % RowWords))' <=> Filed(0)'
    BY <1>4 DEF Filed
  <2>2. InRow(written - (written % RowWords), written)' <=> InRow(0, 0)'
    BY <1>4 DEF InRow
  <2> QED
    BY <1>3, <2>1, <2>2
<1> QED
  BY <1>1, <1>5 DEF ExportInv

\* A word of the image is in its place in the row.
LEMMA ExportSent ==
  ASSUME ExportInv, TypeInv, SendsWord
  PROVE  ExportInv'
<1>1. /\ dist = "export" /\ dataOut = "receive" /\ dataOut' = "got"
      /\ written' = written + 1 /\ written = words /\ words \in 0 .. ImageWords - 1
      /\ row' = [row EXCEPT ![(words % RowWords) + 1] = image[words + 1]]
      /\ UNCHANGED <<outfile, short, image, exported>> /\ exported = image
  BY DEF SendsWord, ExportsWord, TypeInv, TypeOK, WordsInv, ExportInv
<1>2. PICK n \in Nat : n = written
  BY <1>1
<1> DEFINE k == n % RowWords
           m == n - k
<1>3. /\ RowWords \in Nat \ {0} /\ ImageWords \in Nat
      /\ k \in 0 .. RowWords - 1 /\ m \in Nat /\ Before(n + 1) = m
  BY <1>2, RowOf, ControlAssumption
<1>4. n + 1 \in 1 .. ImageWords /\ k + 1 \in 1 .. RowWords /\ m + (k + 1) = n + 1
  BY <1>1, <1>2, <1>3
<1>5. row' \in Rows /\ row'[k + 1] = exported[n + 1]
      /\ \A c \in 1 .. RowWords : c # k + 1 => row'[c] = row[c]
  <2>1. row \in Rows /\ row' = [row EXCEPT ![k + 1] = exported[n + 1]]
    BY <1>1, <1>2 DEF ExportInv
  <2>2. exported[n + 1] \in Symbols
    BY <1>4 DEF ExportInv, Images
  <2> HIDE DEF k
  <2> QED
    BY <1>4, <2>1, <2>2 DEF Rows
<1>6. short \/ (Filed(m) /\ InRow(m, n))
  BY <1>1, <1>2 DEF ExportInv
<1> HIDE DEF k
<1>7. ASSUME InRow(m, n), NEW c \in 1 .. RowWords, m + c <= n + 1
      PROVE  row'[c] = exported[m + c]
  <2>1. CASE c = k + 1
    BY <1>4, <1>5, <2>1
  <2>2. CASE c # k + 1
    <3>1. m + c <= n
      BY <1>3, <1>4, <1>7, <2>2
    <3> QED
      BY <1>5, <1>7, <2>2, <3>1 DEF InRow
  <2> QED
    BY <2>1, <2>2
<1> HIDE DEF m
<1>8. InRow(m, n) => InRow(m, n + 1)'
  BY <1>1, <1>7 DEF InRow
<1>9. Filed(m) => Filed(m)'
  BY <1>1 DEF Filed
<1>10. written' > 0 /\ (short' \/ (Filed(Before(written))' /\ InRow(Before(written), written)'))
  <2>1. written' = n + 1 /\ Before(written') = m
    BY <1>1, <1>2, <1>3
  <2>2. (Filed(m)' => Filed(Before(written))') /\ (InRow(m, n + 1)' => InRow(Before(written), written)')
    BY <2>1 DEF Filed, InRow, Before
  <2> QED
    BY <1>1, <1>2, <1>6, <1>8, <1>9, <2>1, <2>2
<1> QED
  BY <1>1, <1>5, <1>10 DEF ExportInv

\* A row is behind what was in the file.
LEMMA FileGrows ==
  ASSUME ExportInv, NEW m \in Nat, Filed(m), InRow(m, m + RowWords),
         outfile' = outfile \o SubSeq(row, 1, RowWords), exported' = exported
  PROVE  Filed(m + RowWords)'
<1> DEFINE A == Symbols \cup {"P5", "size", "255"}
<1>1. /\ outfile \in Seq(A) /\ Len(outfile) = 3 + m /\ RowWords \in Nat \ {0}
      /\ row \in [1 .. RowWords -> Symbols]
  BY ControlAssumption DEF Filed, ExportInv, Rows
<1>2. row \in Seq(Symbols) /\ Len(row) = RowWords
  BY <1>1
<1>3. SubSeq(row, 1, RowWords) = row
  BY <1>2, SubSeqFull
<1>4. row \in Seq(A)
  BY <1>2
<1> HIDE DEF A
<1>5. /\ outfile' \in Seq(A) /\ Len(outfile') = 3 + m + RowWords
      /\ \A i \in 1 .. 3 + m + RowWords :
           outfile'[i] = IF i <= 3 + m THEN outfile[i] ELSE row[i - (3 + m)]
  <2>1. outfile' = outfile \o row
    BY <1>3
  <2>2. /\ outfile \o row \in Seq(A) /\ Len(outfile \o row) = Len(outfile) + Len(row)
        /\ \A i \in 1 .. Len(outfile) + Len(row) :
             (outfile \o row)[i] = IF i <= Len(outfile) THEN outfile[i] ELSE row[i - Len(outfile)]
    BY <1>1, <1>4, ConcatProperties, Zenon
  <2> QED
    BY <1>1, <1>2, <2>1, <2>2
<1>6. ASSUME NEW j \in 1 .. m + RowWords PROVE outfile'[3 + j] = exported[j]
  <2>1. 3 + j \in 1 .. 3 + m + RowWords
    BY <1>1
  <2>2. CASE j <= m
    <3>1. outfile'[3 + j] = outfile[3 + j] /\ j \in 1 .. m
      BY <1>1, <1>5, <2>1, <2>2
    <3> QED
      BY <3>1 DEF Filed
  <2>3. CASE ~(j <= m)
    <3> DEFINE c == j - m
    <3>1. c \in 1 .. RowWords /\ m + c = j /\ 3 + j - (3 + m) = c /\ ~(3 + j <= 3 + m)
      BY <1>1, <2>3
    <3>2. outfile'[3 + j] = row[3 + j - (3 + m)]
      BY <1>5, <2>1, <3>1
    <3> HIDE DEF c
    <3>3. m + c <= m + RowWords
      BY <1>1, <3>1
    <3> QED
      BY <3>1, <3>2, <3>3 DEF InRow
  <2> QED
    BY <2>2, <2>3
<1>7. outfile'[1] = "P5" /\ outfile'[2] = "size" /\ outfile'[3] = "255"
  BY <1>1, <1>5 DEF Filed
<1>8. Len(outfile') = 3 + (m + RowWords)
  BY <1>1, <1>5
<1> QED
  BY <1>5, <1>6, <1>7, <1>8 DEF Filed, A

\* What is written, and what the thread goes on with.
LEMMA ExportWritten ==
  ASSUME ExportInv, TypeInv, StreamsInv, WritesRow
  PROVE  ExportInv'
<1>1. /\ dataOut = "got" /\ written \in 0 .. ImageWords
      /\ dataOut' = (IF written = ImageWords THEN "off" ELSE "receive")
      /\ UNCHANGED <<written, dist, row, image, exported>>
      /\ outfp # NULL /\ written > 0
      /\ short \/ (Filed(Before(written)) /\ InRow(Before(written), written))
  BY DEF WritesRow, DataOutStep, distVars, TypeInv, TypeOK, StreamsInv, ExportInv
<1>2. /\ RowWords \in Nat \ {0} /\ ImageWords \in Nat
      /\ ImageWords % RowWords = 0
  BY ControlAssumption, FilesAssumption
<1>3. PICK n \in Nat : n = written
  BY <1>1
<1>4. Before(n) \in Nat /\ n - (n % RowWords) \in Nat /\ n % RowWords \in Nat
  <2>1. Before(n) \in Int /\ (Before(n) < 0 <=> n = 0)
    BY RowOf
  <2> QED
    BY <1>1, <1>3, <2>1, RowOf
<1>5. CASE n % RowWords # 0
  <2>1. UNCHANGED <<outfile, short>> /\ Before(n) = n - (n % RowWords) /\ n # ImageWords
    BY <1>2, <1>3, <1>5 DEF WritesRow, Before
  <2>2. dataOut' = "receive" /\ n - (n % RowWords) = written - (written % RowWords)
    BY <1>1, <1>3, <2>1
  <2>3. short' \/ /\ Filed(written - (written % RowWords))'
                  /\ InRow(written - (written % RowWords), written)'
    BY <1>1, <1>3, <2>1, <2>2 DEF Filed, InRow
  <2> QED
    BY <1>1, <2>2, <2>3 DEF ExportInv
<1>6. CASE n % RowWords = 0
  <2>1. Before(n) = n - RowWords /\ n - RowWords \in Nat /\ n = (n - RowWords) + RowWords
    BY <1>2, <1>3, <1>4, <1>6 DEF Before
  <2>2. PICK nb \in IF OpenMayFail THEN {0, RowWords} ELSE {RowWords} :
          /\ outfile' = _writeoutline(outfile, outfp, row, RowWords, nb).file
          /\ short' = (short \/ _writeoutline(outfile, outfp, row, RowWords, nb).res # 0)
    BY <1>3, <1>6, Zenon DEF WritesRow
  <2>3. /\ outfile' = outfile \o SubSeq(row, 1, nb)
        /\ short' = (short \/ (IF nb = RowWords THEN 0 ELSE -1) # 0)
    BY <1>1, <2>2 DEF _writeoutline
  <2>4. short' \/ Filed(n)'
    <3>1. CASE nb # RowWords
      <4>1. (IF nb = RowWords THEN 0 ELSE -1) # 0
        BY <3>1
      <4> QED
        BY <2>3, <4>1, Zenon
    <3>2. CASE nb = RowWords
      <4>1. short \/ (Filed(n - RowWords) /\ InRow(n - RowWords, (n - RowWords) + RowWords))
        BY <1>1, <1>3, <2>1
      <4>2. outfile' = outfile \o SubSeq(row, 1, RowWords) /\ exported' = exported
        BY <1>1, <2>3, <3>2
      <4>3. n - RowWords \in Nat
        BY <2>1
      <4>4. short \/ Filed((n - RowWords) + RowWords)'
        BY <4>1, <4>2, <4>3, FileGrows
      <4>5. short => short'
        BY <2>3, Zenon
      <4> QED
        BY <2>1, <4>4, <4>5
    <3> QED
      BY <3>1, <3>2
  <2>5. ImageWords = written /\ dataOut' = "off" => short' \/ Filed(ImageWords)'
    BY <1>1, <1>3, <2>4
  <2>6. short' \/ /\ Filed(written - (written % RowWords))'
                  /\ InRow(written - (written % RowWords), written)'
    <3>1. written' - (written' % RowWords) = n /\ written' = n
      BY <1>1, <1>3, <1>6
    <3>2. \A c \in 1 .. RowWords : ~(n + c <= n)
      BY <1>2
    <3>3. InRow(written - (written % RowWords), written)'
      BY <3>1, <3>2 DEF InRow
    <3>4. Filed(n)' => Filed(written - (written % RowWords))'
      BY <3>1 DEF Filed
    <3> QED
      BY <2>4, <3>3, <3>4
  <2>7. dataOut' = "off" => ImageWords = written
    BY <1>1
  <2> QED
    BY <1>1, <2>5, <2>6, <2>7 DEF ExportInv
<1> QED
  BY <1>5, <1>6

\* One case per action; what sends or writes is above.
LEMMA ExportStep ==
  /\ ExportInv /\ LoadInv /\ TypeInv /\ StreamsInv /\ [FilesNext]_<<vars, fileVars>>
  => ExportInv'
<1> SUFFICES ASSUME ExportInv, LoadInv, TypeInv, StreamsInv, [FilesNext]_<<vars, fileVars>>
             PROVE  ExportInv'
  OBVIOUS
<1>1. CASE OpensOutput
  BY <1>1, ExportOpened DEF TypeInv
<1>2. CASE WritesRow
  BY <1>2, ExportWritten
<1>3. CASE ClosesOutput
  <2>1. /\ UNCHANGED <<outfile, row, image, exported, dist>>
        /\ dataOut = "off" /\ dataOut' = "idle"
    BY <1>3 DEF ClosesOutput, DataOutStep, distVars
  <2>2. Filed(ImageWords) => Filed(ImageWords)'
    BY <2>1 DEF Filed
  <2>3. short => short'
    BY <1>3, Zenon DEF ClosesOutput
  <2> QED
    BY <2>1, <2>2, <2>3 DEF ExportInv
<1>4. CASE SendsWord
  BY <1>4, ExportSent
<1>5. CASE RequestsExport
  <2>1. /\ UNCHANGED <<row, image>> /\ exported' = image
        /\ dataOut' = "open" /\ written' = 0
    BY <1>5 DEF RequestsExport, TellsDataOut, outFileVars
  <2> QED
    BY <2>1 DEF ExportInv
<1>6. CASE LoadsWord \/ ComputesImage
  <2>1. image' \in Images
    <3>1. CASE LoadsWord
      BY <3>1, LoadsSymbols DEF TypeInv
    <3>2. CASE ComputesImage
      BY <3>2, FilesAssumption DEF ComputesImage, ExportInv
    <3> QED
      BY <1>6, <3>1, <3>2
  <2>2. UNCHANGED <<outfile, exported, row, short, dataOut, written>> /\ dist' # "export"
    BY <1>6 DEF LoadsWord, DistributorLoads, ComputesImage, Round, outFileVars, outVars
  <2> QED
    BY <2>1, <2>2, ExportElsewhere
<1>7. CASE InputStep
  <2>1. UNCHANGED <<outfile, exported, row, short, dataOut, written, image, dist>>
    BY <1>7 DEF InputStep, OpensInput, ClosesInput, DataInStep, fileVars, outFileVars,
                outVars, distVars
  <2> QED
    BY <2>1, ExportElsewhere DEF ExportInv
<1>8. CASE /\ \/ DistributorStartsTimer \/ BeginRound
              \/ TakesTilt \/ TakesRequest \/ NothingToDo
              \/ StopsTimer \/ RedLed \/ TakesTime \/ TakesLevel \/ ResetLed
           /\ UNCHANGED fileVars
  <2>1. /\ UNCHANGED <<outfile, exported, row, short, dataOut, written, image>>
        /\ dist' # "export"
    BY <1>8 DEF DistributorStartsTimer, BeginRound, TakesTilt, TakesRequest,
       NothingToDo, StopsTimer, RedLed, TakesTime, TakesLevel, ResetLed,
       outVars, fileVars, outFileVars
  <2> QED
    BY <2>1, ExportElsewhere DEF ExportInv
<1>9. CASE /\ Press \/ ListenerSees \/ ListenerRequests \/ ListenerStarts \/ Sample
           /\ UNCHANGED fileVars
  <2>1. UNCHANGED <<outfile, exported, row, short, dataOut, written, image, dist>>
    BY <1>9, Zenon DEF Press, ListenerSees, ListenerRequests, ListenerStarts, Sample,
       outVars, distVars, fileVars, outFileVars
  <2> QED
    BY <2>1, ExportElsewhere DEF ExportInv
<1>10. CASE UNCHANGED <<vars, fileVars>>
  <2>1. UNCHANGED <<outfile, exported, row, short, dataOut, written, image, dist>>
    BY <1>10 DEF vars, outVars, distVars, fileVars, outFileVars
  <2> QED
    BY <2>1, ExportElsewhere DEF ExportInv
<1> QED
  BY <1>1, <1>2, <1>3, <1>4, <1>5, <1>6, <1>7, <1>8, <1>9, <1>10
  DEF FilesNext, OutputStep, DistributorFilesStep

\* A file that holds a whole image is read back as that image.
LEMMA ReadsBack ==
  ASSUME exported \in Images, Filed(ImageWords)
  PROVE  /\ outfile = _writepgm(exported)
         /\ _readpgm([j \in 1 .. ImageWords |-> Junk], outfile) = [res |-> 0, x |-> exported]
<1> DEFINE A == Symbols \cup {"P5", "size", "255"}
<1>1. /\ outfile \in Seq(A) /\ Len(outfile) = 3 + ImageWords /\ ImageWords \in Nat
      /\ outfile[1] = "P5" /\ outfile[2] = "size" /\ outfile[3] = "255"
      /\ \A j \in 1 .. ImageWords : outfile[3 + j] = exported[j]
      /\ exported \in [1 .. ImageWords -> Symbols]
  BY ControlAssumption DEF Filed, Images
<1>2. exported \in Seq(A) /\ Len(exported) = ImageWords
  BY <1>1
<1>3. hdr \in Seq(A) /\ Len(hdr) = 3 /\ hdr[1] = "P5" /\ hdr[2] = "size" /\ hdr[3] = "255"
  BY DEF hdr
<1> HIDE DEF A
<1>4. /\ hdr \o exported \in Seq(A) /\ Len(hdr \o exported) = Len(hdr) + Len(exported)
      /\ \A i \in 1 .. Len(hdr) + Len(exported) :
           (hdr \o exported)[i] = IF i <= Len(hdr) THEN hdr[i] ELSE exported[i - Len(hdr)]
  BY <1>2, <1>3, ConcatProperties, Zenon
<1>5. ASSUME NEW i \in 1 .. 3 + ImageWords PROVE outfile[i] = (hdr \o exported)[i]
  <2>1. CASE i <= 3
    <3>1. i = 1 \/ i = 2 \/ i = 3
      BY <1>1, <2>1
    <3>2. (hdr \o exported)[i] = hdr[i]
      BY <1>2, <1>3, <1>4, <2>1
    <3> QED
      BY <1>1, <1>3, <3>1, <3>2
  <2>2. CASE ~(i <= 3)
    <3>1. i - 3 \in 1 .. ImageWords /\ 3 + (i - 3) = i
      BY <1>1, <2>2
    <3>2. (hdr \o exported)[i] = exported[i - 3]
      BY <1>2, <1>3, <1>4, <2>2
    <3>3. outfile[3 + (i - 3)] = exported[i - 3]
      BY <1>1, <3>1
    <3> QED
      BY <3>1, <3>2, <3>3
  <2> QED
    BY <2>1, <2>2
<1>6. outfile = hdr \o exported
  <2>1. Len(hdr \o exported) = Len(outfile)
    BY <1>1, <1>2, <1>3, <1>4
  <2> QED
    BY <1>1, <1>4, <1>5, <2>1, SeqEqual
<1>7. SizeLine(outfile) = "size"
  <2>1. Len(outfile) >= 2
    BY <1>1
  <2> QED
    BY <1>1, <2>1 DEF SizeLine
<1>8. /\ _readpgm([j \in 1 .. ImageWords |-> Junk], outfile).res = 0
      /\ _readpgm([j \in 1 .. ImageWords |-> Junk], outfile)
         = [res |-> 0,
            x |-> [j \in 1 .. ImageWords |-> IF j + 3 <= Len(outfile) THEN outfile[j + 3] ELSE Junk]]
  BY <1>7 DEF _readpgm
<1>9. [j \in 1 .. ImageWords |-> IF j + 3 <= Len(outfile) THEN outfile[j + 3] ELSE Junk] = exported
  <2>1. \A j \in 1 .. ImageWords : j + 3 <= Len(outfile) /\ j + 3 = 3 + j
    BY <1>1
  <2> QED
    BY <1>1, <2>1
<1> QED
  BY <1>6, <1>8, <1>9 DEF _writepgm

(***************************************************************************)
(* However many exports there are and whatever became of the image since,  *)
(* the file of an export of which no write failed is the one that the      *)
(* image at the time of the request, written as a whole, would have given, *)
(* and is read back as that image.                                         *)
(***************************************************************************)
THEOREM ExportTheorem == FilesSpec => []ExportReadable
<1>1. ExportInv => ExportReadable
  BY ReadsBack DEF ExportInv, ExportReadable
<1>2. TypeInv /\ [FilesNext]_<<vars, fileVars>> => TypeInv'
  BY FilesStep, TypeStep
<1>3. FilesInit => TypeInv
  BY FilesInitial, TypeInit
<1> QED
  BY <1>1, <1>2, <1>3, ExportInit, ExportStep, LoadInit, LoadStep, StreamsInit, StreamsStep, PTL
  DEF FilesSpec
=============================================================================
