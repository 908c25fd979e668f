----------------------------- MODULE LifeControl ----------------------------
(***************************************************************************)
(* The threads of Coursework 1 around the workers (main.xc): buttons,      *)
(* image input and output, tilt sensor, timer and LEDs, and what the       *)
(* distributor says to them before, between and after its rounds.          *)
(*                                                                         *)
(* A synchronous channel is a step of both its ends.  showLEDs does        *)
(* nothing but pass a pattern on, so a message to it is a step of the      *)
(* sender.  A round (module LifeFarm) is one step here: no other thread    *)
(* talks to the distributor meanwhile.  Images are counted in words.       *)
(***************************************************************************)
EXTENDS Integers

CONSTANTS
  RowWords,        \* words in a row (IMWD/8)
  ImageWords,      \* words in the image
  ButtonCapacity,  \* values c_buttonExport holds
  SW1Again,        \* may SW1 be pressed after the image was asked for?
  OpenMayFail      \* may _openinpgm and _openoutpgm fail?

ASSUME ControlAssumption ==
  /\ RowWords \in Nat \ {0} /\ ImageWords \in Nat /\ ImageWords >= RowWords
  /\ ButtonCapacity \in Nat \ {0}
  /\ SW1Again \in BOOLEAN /\ OpenMayFail \in BOOLEAN

VARIABLES
  pins,      \* the button port: 15 when no button is pressed
  listener,  \* startButtonListener
  requests,  \* values in c_buttonExport
  dataIn,    \* DataInStream
  dist,      \* distributor
  words,     \* words of the image that went over the channel it loops on
  LEDCount,  \* distributor's LEDCount
  leds,      \* what the LEDs show
  timer,     \* mytimer
  orient,    \* orientation
  x,         \* its last sample of the x axis, against the threshold of 30
  tilted,    \* its variable tilted
  dataOut,   \* DataOutStream
  written    \* words of the image it has received

buttonVars  == <<pins, listener, requests>>
orientVars  == <<orient, x, tilted>>
inVars      == <<dataIn>>
outVars     == <<dataOut, written>>
distVars    == <<dist, words, LEDCount>>
vars == <<buttonVars, orientVars, inVars, outVars, distVars, leds, timer>>

NoButton == 15
SW1 == 14
SW2 == 13
Both == 12

-----------------------------------------------------------------------------
\* The user's fingers.
Press ==
  /\ \E p \in {NoButton, SW1, SW2, Both} \ {pins} :
       /\ p = SW1 => dataIn = "wait" \/ SW1Again
       /\ pins' = p
  /\ UNCHANGED <<listener, requests, orientVars, inVars, outVars, distVars, leds, timer>>

(***************************************************************************)
(* startButtonListener.                                                    *)
(***************************************************************************)
\* mutant: the two buttons are mixed up
ListenerMixesButtons ==
  /\ \/ listener = "up" /\ pins = NoButton /\ listener' = "down"
     \/ /\ listener = "down" /\ pins # NoButton
        /\ listener' = CASE pins = SW1 -> "toDist"
                         [] pins = SW2 -> "toDataIn"
                         [] OTHER      -> "up"
  /\ UNCHANGED <<pins, requests, orientVars, inVars, outVars, distVars, leds, timer>>

ListenerSees ==
  /\ \/ listener = "up" /\ pins = NoButton /\ listener' = "down"
     \/ /\ listener = "down" /\ pins # NoButton
        /\ listener' = CASE pins = SW2 -> "toDist"
                         [] pins = SW1 -> "toDataIn"
                         [] OTHER      -> "up"
  /\ UNCHANGED <<pins, requests, orientVars, inVars, outVars, distVars, leds, timer>>

ListenerRequests ==
  /\ listener = "toDist" /\ requests < ButtonCapacity
  /\ listener' = "up"
  /\ requests' = requests + 1
  /\ UNCHANGED <<pins, orientVars, inVars, outVars, distVars, leds, timer>>

ListenerStarts ==
  /\ listener = "toDataIn" /\ dataIn = "wait"
  /\ listener' = "up"
  /\ dataIn' = "led"
  /\ UNCHANGED <<pins, requests, orientVars, outVars, distVars, leds, timer>>

(***************************************************************************)
(* DataInStream: returns at once if the file cannot be opened.             *)
(***************************************************************************)
DataInStep ==
  /\ \/ dataIn = "led" /\ leds' = 4 /\ dataIn' = "open"
     \/ dataIn = "open" /\ dataIn' = "send" /\ UNCHANGED leds
     \/ dataIn = "open" /\ OpenMayFail /\ dataIn' = "failed" /\ UNCHANGED leds
     \/ dataIn = "off" /\ leds' = 0 /\ dataIn' = "done"
  /\ UNCHANGED <<buttonVars, orientVars, outVars, distVars, timer>>

(***************************************************************************)
(* orientation: one sample, and a message if it crosses the threshold.     *)
(***************************************************************************)
\* mutant: a tilt is told again while the board stays tilted
SampleTellsAgain ==
  /\ orient = "read"
  /\ x' \in {"below", "at", "above"}
  /\ \/ x' = "above" /\ tilted' = TRUE /\ orient' = "tell"
     \/ tilted /\ x' = "below" /\ tilted' = FALSE /\ orient' = "tell"
     \/ x' # "above" /\ ~(tilted /\ x' = "below") /\ UNCHANGED <<orient, tilted>>
  /\ UNCHANGED <<buttonVars, inVars, outVars, distVars, leds, timer>>

Sample ==
  /\ orient = "read"
  /\ x' \in {"below", "at", "above"}
  /\ \/ ~tilted /\ x' = "above" /\ tilted' = TRUE  /\ orient' = "tell"
     \/ tilted  /\ x' = "below" /\ tilted' = FALSE /\ orient' = "tell"
     \/ ~(~tilted /\ x' = "above") /\ ~(tilted /\ x' = "below")
          /\ UNCHANGED <<orient, tilted>>
  /\ UNCHANGED <<buttonVars, inVars, outVars, distVars, leds, timer>>

(***************************************************************************)
(* DataOutStream: opens the file after the request, shows blue with every  *)
(* word of the first row, and turns the LED off after the last.            *)
(***************************************************************************)
DataOutStep ==
  /\ \/ dataOut = "open" /\ dataOut' = "receive" /\ UNCHANGED leds
     \/ dataOut = "open" /\ OpenMayFail /\ dataOut' = "failed" /\ UNCHANGED leds
     \/ /\ dataOut = "got" /\ written <= RowWords
        /\ leds' = 2
        /\ dataOut' = IF written = ImageWords THEN "off" ELSE "receive"
     \/ /\ dataOut = "got" /\ written > RowWords
        /\ dataOut' = IF written = ImageWords THEN "off" ELSE "receive"
        /\ UNCHANGED leds
     \/ dataOut = "off" /\ leds' = 0 /\ dataOut' = "idle"
  /\ UNCHANGED <<written, buttonVars, orientVars, inVars, distVars, timer>>

-----------------------------------------------------------------------------
(***************************************************************************)
(* The distributor.                                                        *)
(***************************************************************************)
DistributorLoads ==
  /\ dist = "load" /\ dataIn = "send"
  /\ words' = (words + 1) % ImageWords
  /\ IF words + 1 = ImageWords THEN dist' = "startTimer" /\ dataIn' = "off"
                               ELSE UNCHANGED <<dist, dataIn>>
  /\ UNCHANGED <<LEDCount, buttonVars, orientVars, outVars, leds, timer>>

\* c_timePause <: 0, first when processing starts, then to go on
DistributorStartsTimer ==
  /\ \/ dist = "startTimer"  /\ timer = "new"     /\ dist' = "beginRound"
     \/ dist = "resumeTimer" /\ timer = "stopped" /\ dist' = "resetLed"
  /\ timer' = "running"
  /\ UNCHANGED <<words, LEDCount, buttonVars, orientVars, inVars, outVars, leds>>

\* mutant: LEDCount is not reduced modulo 2
BeginRoundCountsOn ==
  /\ dist = "beginRound"
  /\ leds' = LEDCount
  /\ LEDCount' = LEDCount + 1
  /\ dist' = "round"
  /\ UNCHANGED <<words, buttonVars, orientVars, inVars, outVars, timer>>

BeginRound ==
  /\ dist = "beginRound"
  /\ leds' = LEDCount
  /\ LEDCount' = (LEDCount + 1) % 2
  /\ dist' = "round"
  /\ UNCHANGED <<words, buttonVars, orientVars, inVars, outVars, timer>>

Round ==
  /\ dist = "round"
  /\ dist' = "select"
  /\ UNCHANGED <<words, LEDCount, buttonVars, orientVars, inVars, outVars, leds, timer>>

\* The select: an arm that is ready, or the default if none is.
TakesTilt ==
  /\ dist = "select" /\ orient = "tell"
  /\ dist' = "stopToPause" /\ orient' = "read"
  /\ UNCHANGED <<words, LEDCount, x, tilted, buttonVars, inVars, outVars, leds, timer>>

TakesRequest ==
  /\ dist = "select" /\ requests > 0
  /\ dist' = "stopToExport" /\ requests' = requests - 1
  /\ UNCHANGED <<words, LEDCount, pins, listener, orientVars, inVars, outVars, leds, timer>>

\* mutant: the default is taken although a request is waiting
NothingForRequest ==
  /\ dist = "select" /\ orient # "tell"
  /\ dist' = "resetLed"
  /\ UNCHANGED <<words, LEDCount, buttonVars, orientVars, inVars, outVars, leds, timer>>

NothingToDo ==
  /\ dist = "select" /\ orient # "tell" /\ requests = 0
  /\ dist' = "resetLed"
  /\ UNCHANGED <<words, LEDCount, buttonVars, orientVars, inVars, outVars, leds, timer>>

\* mutant: an export does not stop the timer
StopsTimerOnPause ==
  /\ \/ dist = "stopToPause"  /\ timer = "running" /\ timer' = "reporting" /\ dist' = "redLed"
     \/ dist = "stopToExport" /\ dist' = "tellOut" /\ UNCHANGED timer
  /\ UNCHANGED <<words, LEDCount, buttonVars, orientVars, inVars, outVars, leds>>

\* c_timePause <: 1
StopsTimer ==
  /\ timer = "running" /\ timer' = "reporting"
  /\ \/ dist = "stopToPause"  /\ dist' = "redLed"
     \/ dist = "stopToExport" /\ dist' = "exportTime"
  /\ UNCHANGED <<words, LEDCount, buttonVars, orientVars, inVars, outVars, leds>>

RedLed ==
  /\ dist = "redLed"
  /\ leds' = 8 + LEDCount
  /\ dist' = "pauseTime"
  /\ UNCHANGED <<words, LEDCount, buttonVars, orientVars, inVars, outVars, timer>>

\* c_timePause :> time, and :> export
TakesTime ==
  /\ timer = "reporting" /\ timer' = "stopped"
  /\ \/ dist = "pauseTime"  /\ dist' = "paused"
     \/ dist = "exportTime" /\ dist' = "tellOut"
  /\ UNCHANGED <<words, LEDCount, buttonVars, orientVars, inVars, outVars, leds>>

\* fromAcc :> pause, the second time
TakesLevel ==
  /\ dist = "paused" /\ orient = "tell"
  /\ dist' = "resumeTimer" /\ orient' = "read"
  /\ UNCHANGED <<words, LEDCount, x, tilted, buttonVars, inVars, outVars, leds, timer>>

TellsDataOut ==
  /\ dist = "tellOut" /\ dataOut = "idle"
  /\ dist' = "export" /\ dataOut' = "open" /\ written' = 0
  /\ UNCHANGED <<words, LEDCount, buttonVars, orientVars, inVars, leds, timer>>

\* mutant: the distributor sends one word less than the image has
ExportsTooLittle ==
  /\ dist = "export" /\ dataOut = "receive"
  /\ written' = written + 1 /\ dataOut' = "got"
  /\ words' = IF words + 2 >= ImageWords THEN 0 ELSE words + 1
  /\ dist' = IF words + 2 >= ImageWords THEN "resumeTimer" ELSE dist
  /\ UNCHANGED <<LEDCount, buttonVars, orientVars, inVars, leds, timer>>

ExportsWord ==
  /\ dist = "export" /\ dataOut = "receive"
  /\ written' = written + 1 /\ dataOut' = "got"
  /\ words' = (words + 1) % ImageWords
  /\ dist' = IF words + 1 = ImageWords THEN "resumeTimer" ELSE dist
  /\ UNCHANGED <<LEDCount, buttonVars, orientVars, inVars, leds, timer>>

ResetLed ==
  /\ dist = "resetLed"
  /\ leds' = LEDCount
  /\ dist' = "beginRound"
  /\ UNCHANGED <<words, LEDCount, buttonVars, orientVars, inVars, outVars, timer>>

DistributorStep ==
  \/ DistributorLoads \/ DistributorStartsTimer
  \/ BeginRound \/ Round
  \/ TakesTilt \/ TakesRequest \/ NothingToDo
  \/ StopsTimer \/ RedLed \/ TakesTime \/ TakesLevel
  \/ TellsDataOut \/ ExportsWord
  \/ ResetLed

-----------------------------------------------------------------------------
Init ==
  /\ pins = NoButton /\ listener = "up" /\ requests = 0
  /\ dataIn = "wait"
  /\ dist = "load" /\ words = 0 /\ LEDCount = 1
  /\ leds = 0
  /\ timer = "new"
  /\ orient = "read" /\ x = "below" /\ tilted = FALSE
  /\ dataOut = "idle" /\ written = 0

Next ==
  \/ Press
  \/ ListenerSees \/ ListenerRequests \/ ListenerStarts
  \/ DataInStep
  \/ Sample
  \/ DataOutStep
  \/ DistributorStep

Spec == Init /\ [][Next]_vars

\* Every thread has a processor; the user and the sensor owe nothing.
FairSpec ==
  /\ Spec
  /\ WF_vars(ListenerSees) /\ WF_vars(ListenerRequests) /\ WF_vars(ListenerStarts)
  /\ WF_vars(DataInStep)
  /\ WF_vars(Sample)
  /\ WF_vars(DataOutStep)
  /\ WF_vars(DistributorStep)

-----------------------------------------------------------------------------
TypeOK ==
  /\ pins \in {NoButton, SW1, SW2, Both}
  /\ listener \in {"up", "down", "toDist", "toDataIn"}
  /\ requests \in 0 .. ButtonCapacity
  /\ dataIn \in {"wait", "led", "open", "failed", "send", "off", "done"}
  /\ dist \in {"load", "startTimer", "beginRound", "round", "select",
               "stopToPause", "redLed", "pauseTime", "paused",
               "stopToExport", "exportTime", "tellOut", "export",
               "resumeTimer", "resetLed"}
  /\ words \in 0 .. ImageWords - 1
  /\ LEDCount \in 0 .. 1
  /\ leds \in {0, 1, 2, 4, 8, 9}
  /\ timer \in {"new", "running", "reporting", "stopped"}
  /\ orient \in {"read", "tell"}
  /\ x \in {"below", "at", "above"}
  /\ tilted \in BOOLEAN
  /\ dataOut \in {"idle", "open", "failed", "receive", "got", "off"}
  /\ written \in 0 .. ImageWords

(***************************************************************************)
(* The elapsed time counts the rounds and nothing else: the timer runs     *)
(* whenever a round is being processed, and stands still while the         *)
(* distributor waits for the board to be level or exports the image.       *)
(***************************************************************************)
TimerFollows ==
  /\ dist \in {"beginRound", "round", "select", "resetLed"} => timer = "running"
  /\ dist \in {"paused", "tellOut", "export"} => timer = "stopped"

(***************************************************************************)
(* The two messages of the sensor never get out of step: the first one the *)
(* distributor takes always says that the board is tilted, the one it      *)
(* takes while it is paused always that it is level again.                 *)
(***************************************************************************)
TiltAndLevelAlternate ==
  [][/\ TakesTilt => tilted
     /\ TakesLevel => ~tilted]_vars

\* An export that was begun and cannot go on: there is no output file.
OutputFailed == dist = "export" /\ dataOut = "failed"

NotLoaded == dist = "load" /\ dataIn \in {"wait", "failed"}

\* The distributor is paused and the last sample does not say level.
HeldTilted == dist = "paused" /\ orient = "read" /\ x # "below"

(***************************************************************************)
(* The rounds go on, whatever the user does with buttons and board: they   *)
(* stop only before there is an image, while the board is tilted, and for  *)
(* good if the output file could not be opened.                            *)
(***************************************************************************)
RoundsGoOn == []<>(dist = "round" \/ NotLoaded \/ HeldTilted \/ OutputFailed)

(***************************************************************************)
(* "if SW2 is pressed, export current image at end of current round": a    *)
(* request leads to an export, unless the board is tilted again and again  *)
(* and the select always takes that.                                       *)
(***************************************************************************)
RequestsServed ==
  \/ (requests > 0) ~> (dist = "export" \/ NotLoaded)
  \/ []<>(dist = "paused")

(***************************************************************************)
(* "Listens for button input from board": the listener comes back to the   *)
(* buttons, unless requests fill c_buttonExport and nobody takes them:     *)
(* there is no image or no output file, or the board is tilted for good or *)
(* again and again.                                                        *)
(***************************************************************************)
KeepsListening ==
  \/ []<>(listener \in {"up", "down"} \/ NotLoaded \/ OutputFailed)
  \/ []<>(dist = "paused")
=============================================================================
