------------------------------- MODULE Dining -------------------------------
(***************************************************************************)
(* The dining philosophers of Coursework 2: the waiter (user/waiter.c)     *)
(* forks the philosophers (user/philosopher.c) and talks to each over      *)
(* channels.  There is one copy of every global variable, so the           *)
(* philosophers share current_status and myChan.                           *)
(*                                                                         *)
(* A timer interrupt may come between any two instructions.  A step reads  *)
(* or writes one global, or makes one call.  Left out: writes to the       *)
(* terminal, the forks of a philosopher, which nothing reads, and myID,    *)
(* which goes only to calls that do not look at it.                        *)
(***************************************************************************)
EXTENDS Channels

CONSTANTS
  N,        \* number of philosophers (16)
  Forks,    \* forks of the waiter (15)
  Waiter,   \* its pid (2)
  MaxForks  \* bound of the model: the waiter counts no further

Philosophers == Waiter + 1 .. Waiter + N
Polled == 1 .. N  \* the channels the waiter looks at

ASSUME DiningAssumption ==
  /\ N \in Nat \ {0} /\ Waiter \in Nat \ {0} /\ Waiter + N <= NumChannels
  /\ MaxForks \in Nat /\ Forks \in 0 .. MaxForks

VARIABLES
  myChan, current_status, \* globals
  wpc, i, forks,          \* the waiter: position, loop counter + 1, forks
  pc, chan                \* the philosophers: position, an argument of a call

globals == <<myChan, current_status>>
waiterVars == <<wpc, i, forks>>
philosopherVars == <<pc, chan>>
vars == <<channels, globals, waiterVars, philosopherVars>>

Init ==
  /\ init_channels
  /\ myChan = 0 /\ current_status = "REQUESTED"
  /\ wpc = "fork" /\ i = 1 /\ forks = Forks
  /\ pc = [p \in Philosophers |-> "none"]
  /\ chan = [p \in Philosophers |-> 0]

-----------------------------------------------------------------------------
(***************************************************************************)
(* The waiter.                                                             *)
(***************************************************************************)
\* The i-th philosopher comes into being; the loop ends after the N-th.
\* mutant: the philosopher does not look for its channel
ForksTooFar ==
  /\ wpc = "fork" /\ wpc' = "create"
  /\ pc' = [pc EXCEPT ![Waiter + i] = "waiting"]
  /\ UNCHANGED <<channels, globals, i, forks, chan>>

WaiterForks ==
  /\ wpc = "fork" /\ wpc' = "create"
  /\ pc' = [pc EXCEPT ![Waiter + i] = "find_chan"]
  /\ UNCHANGED <<channels, globals, i, forks, chan>>

WaiterCreates ==
  /\ wpc = "create"
  /\ create(Waiter, Waiter + i)
  /\ wpc' = IF i < N THEN "fork" ELSE "status"
  /\ i' = IF i < N THEN i + 1 ELSE 1
  /\ UNCHANGED <<globals, forks, philosopherVars>>

\* mutant: a channel ends the sweep
StartsOver == i' = 1 /\ wpc' = "status"

NextChannel == i' = (i % N) + 1 /\ wpc' = "status"

ChecksStatus ==
  /\ wpc = "status"
  /\ IF check_status(i) = "REQUEST" THEN wpc' = "message" /\ UNCHANGED i
                                    ELSE NextChannel
  /\ UNCHANGED <<channels, globals, forks, philosopherVars>>

\* mutant: gives the last fork as two
GivesTheLastFork ==
  /\ wpc = "message"
  /\ check_message(i) = "REQUEST_FORK" /\ forks >= 1
  /\ forks' = forks - 2 /\ wpc' = "give"
  /\ UNCHANGED <<i, channels, globals, philosopherVars>>

\* Decides what to answer, or takes back forks.
ChecksMessage ==
  /\ wpc = "message"
  /\ \/ /\ check_message(i) = "REQUEST_FORK" /\ forks > 1
        /\ forks' = forks - 2 /\ wpc' = "give" /\ UNCHANGED i
     \/ /\ check_message(i) = "REQUEST_FORK" /\ forks <= 1
        /\ wpc' = "deny" /\ UNCHANGED <<forks, i>>
     \/ /\ check_message(i) = "RETURN_FORK"
        /\ forks' = (IF forks + 2 <= MaxForks THEN forks + 2 ELSE forks)
        /\ NextChannel
     \/ /\ check_message(i) \notin {"REQUEST_FORK", "RETURN_FORK"}
        /\ NextChannel /\ UNCHANGED forks
  /\ UNCHANGED <<channels, globals, philosopherVars>>

Replies ==
  /\ \/ wpc = "give" /\ send("GIVE_FORK", i, "REPLY")
     \/ wpc = "deny" /\ send("DENY_FORK", i, "REPLY")
  /\ NextChannel
  /\ UNCHANGED <<globals, forks, philosopherVars>>

WaiterStep ==
  \/ WaiterForks \/ WaiterCreates
  \/ ChecksStatus \/ ChecksMessage \/ Replies

-----------------------------------------------------------------------------
(***************************************************************************)
(* A philosopher.                                                          *)
(***************************************************************************)
Goes(self, from, to) == pc[self] = from /\ pc' = [pc EXCEPT ![self] = to]

FindsChan(self) ==
  /\ Goes(self, "find_chan", "waiting")
  /\ myChan' = find_chan(self)
  /\ UNCHANGED <<channels, current_status, chan, waiterVars>>

\* current_status = ...; at each of the places where it is assigned
Assigns(self) ==
  /\ \/ Goes(self, "waiting", "loop")   /\ current_status' = "WAITING"
     \/ Goes(self, "requested", "loop") /\ current_status' = "REQUESTED"
     \/ Goes(self, "eating", "loop")    /\ current_status' = "EATING"
  /\ UNCHANGED <<channels, myChan, chan, waiterVars>>

Looks(self) ==
  /\ \/ current_status = "WAITING"   /\ Goes(self, "loop", "load request")
     \/ current_status = "EATING"    /\ Goes(self, "loop", "load return")
     \/ current_status = "REQUESTED" /\ Goes(self, "loop", "status")
  /\ UNCHANGED <<channels, globals, chan, waiterVars>>

\* mutant: each philosopher has a myChan of its own
LoadsItsOwn(self) ==
  /\ \/ Goes(self, "load request", "request")
     \/ Goes(self, "load return", "return")
  /\ chan' = [chan EXCEPT ![self] = find_chan(self)]
  /\ UNCHANGED <<channels, globals, waiterVars>>

Loads(self) ==
  /\ \/ Goes(self, "load request", "request")
     \/ Goes(self, "load return", "return")
  /\ chan' = [chan EXCEPT ![self] = myChan]
  /\ UNCHANGED <<channels, globals, waiterVars>>

Requests(self) ==
  /\ Goes(self, "request", "requested")
  /\ send("REQUEST_FORK", chan[self], "REQUEST")
  /\ chan' = [chan EXCEPT ![self] = 0]
  /\ UNCHANGED <<globals, waiterVars>>

ReturnsForks(self) ==
  /\ Goes(self, "return", "waiting")
  /\ send("RETURN_FORK", chan[self], "REQUEST")
  /\ chan' = [chan EXCEPT ![self] = 0]
  /\ UNCHANGED <<globals, waiterVars>>

ChecksReply(self) ==
  /\ \/ Goes(self, "status", "message") /\ check_status(myChan) = "REPLY"
     \/ Goes(self, "status", "loop")    /\ check_status(myChan) # "REPLY"
  /\ UNCHANGED <<channels, globals, chan, waiterVars>>

ReadsReply(self) ==
  /\ \/ Goes(self, "message", "eating")  /\ check_message(myChan) = "GIVE_FORK"
     \/ Goes(self, "message", "waiting") /\ check_message(myChan) = "DENY_FORK"
     \/ /\ Goes(self, "message", "loop")
        /\ check_message(myChan) \notin {"GIVE_FORK", "DENY_FORK"}
  /\ UNCHANGED <<channels, globals, chan, waiterVars>>

PhilosopherStep(self) ==
  \/ FindsChan(self) \/ Assigns(self) \/ Looks(self) \/ Loads(self)
  \/ Requests(self) \/ ReturnsForks(self) \/ ChecksReply(self) \/ ReadsReply(self)

-----------------------------------------------------------------------------
Next == WaiterStep \/ \E self \in Philosophers : PhilosopherStep(self)

\* The scheduler lets every process run again and again.
Spec ==
  /\ Init /\ [][Next]_vars
  /\ WF_vars(WaiterStep)
  /\ \A self \in Philosophers : WF_vars(PhilosopherStep(self))

-----------------------------------------------------------------------------
TypeOK ==
  /\ channels \in [Channel -> [status : Statuses, message : Messages]]
  /\ myChan \in Philosophers \cup {0}
  /\ current_status \in {"REQUESTED", "EATING", "WAITING"}
  /\ wpc \in {"fork", "create", "status", "message", "give", "deny"}
  /\ i \in Polled /\ forks \in 0 .. MaxForks
  /\ pc \in [Philosophers -> {"none", "find_chan", "waiting", "loop", "load request",
                              "request", "requested", "load return", "return", "status",
                              "message", "eating"}]
  /\ chan \in [Philosophers -> Philosophers \cup {0}]

(***************************************************************************)
(* send() does not look at the number of the channel it is given           *)
(* (hilevel.c, case 0x0A); what a philosopher gives it, out of a variable  *)
(* that starts at 0 and that every philosopher assigns, is a channel.      *)
(***************************************************************************)
SendsInTable == \A p \in Philosophers : pc[p] \in {"request", "return"} => chan[p] \in Channel

(***************************************************************************)
(* A philosopher is forked before its channel is created (waiter.c), so it *)
(* may send first.  Its request stays until the waiter replies on that     *)
(* channel: no create takes it away.                                       *)
(***************************************************************************)
RequestsStay ==
  [][\A c \in Channel :
       channels[c].status = "REQUEST" /\ channels'[c].status # "REQUEST"
         => c = i /\ wpc \in {"give", "deny"}]_vars

(***************************************************************************)
(* Whatever the waiter looks at, it does not overlook: a request in the    *)
(* status and in the message that its calls return does not stay for good. *)
(***************************************************************************)
Seen == check_status(i) = "REQUEST" /\ check_message(i) = "REQUEST_FORK"
RequestsAnswered == Seen ~> ~Seen

(***************************************************************************)
(* Philosophers share myChan: in the end all of them speak on the channel  *)
(* of the one that came last.                                              *)
(***************************************************************************)
OneChannel ==
  <>[](\A p, q \in Philosophers : chan[p] # 0 /\ chan[q] # 0 => chan[p] = chan[q])

(***************************************************************************)
(* "The waiter will reply to some of these requests by granting the        *)
(* philosophers forks.  This only happens once" (marksheet.txt): there is  *)
(* an end to the giving of forks.                                          *)
(***************************************************************************)
GivingEnds == <>[](wpc # "give")
=============================================================================
