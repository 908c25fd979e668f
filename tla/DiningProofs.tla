---------------------------- MODULE DiningProofs ----------------------------
(***************************************************************************)
(* The channels between waiter and philosophers, for any number of         *)
(* philosophers, channels and forks and any schedule: messages go to       *)
(* channels that exist, a request waits for its reply, and what the dining *)
(* comes to cannot be left again.                                          *)
(***************************************************************************)
EXTENDS Dining, TLAPS

Begun == {"waiting", "loop", "load request", "request", "requested", "load return",
          "return", "status", "message", "eating"}

\* What the philosophers share and hold are numbers of channels.
NumbersOK ==
  \A p \in Philosophers :
    /\ pc[p] \in Begun => myChan \in Philosophers
    /\ pc[p] \in {"request", "return"} => chan[p] \in Philosophers

IInv == TypeOK /\ NumbersOK

-----------------------------------------------------------------------------
\* The constants.

LEMMA Pids ==
  /\ N \in Nat \ {0} /\ Waiter \in Nat \ {0} /\ Waiter + N <= NumChannels
  /\ Philosophers \subseteq Channel
  /\ \A n \in Polled : Waiter + n \in Philosophers /\ n \in Channel
  BY DiningAssumption, ChannelAssumption DEF Philosophers, Channel, Polled

\* What the calls do to the channels.

LEMMA CreateStep ==
  ASSUME TypeOK, NEW s, NEW d, create(s, d)
  PROVE  /\ channels' \in [Channel -> [status : Statuses, message : Messages]]
         /\ \A c \in Channel : channels[c].status = "REQUEST" => channels'[c] = channels[c]
  BY DEF TypeOK, create, Free, Statuses, Messages

LEMMA SendStep ==
  ASSUME TypeOK, NEW m \in Messages, NEW x, NEW q \in Statuses, send(m, x, q)
  PROVE  /\ channels' \in [Channel -> [status : Statuses, message : Messages]]
         /\ \A c \in Channel : c # x => channels'[c] = channels[c]
         /\ x \in Channel => channels'[x].status = q
  BY DEF TypeOK, send

LEMMA NextChannelStep ==
  ASSUME TypeOK, NextChannel
  PROVE  i' \in Polled /\ wpc' = "status"
<1>1. i \in 1 .. N /\ N \in Nat \ {0}
  BY Pids DEF TypeOK, Polled
<1>2. (i % N) + 1 \in 1 .. N
  BY <1>1
<1> QED
  BY <1>2 DEF NextChannel, Polled

-----------------------------------------------------------------------------
LEMMA WaiterStepIInv == IInv /\ WaiterStep => IInv'
<1> SUFFICES ASSUME IInv, WaiterStep PROVE IInv'
  OBVIOUS
<1> USE DEF IInv
<1>1. CASE WaiterForks
  <2>1. Waiter + i \in Philosophers
    BY Pids DEF TypeOK
  <2>2. NumbersOK'
    BY <1>1, <2>1 DEF WaiterForks, NumbersOK, TypeOK, globals, Begun
  <2>3. UNCHANGED <<channels, globals, i, forks, chan>> /\ wpc' = "create"
    BY <1>1 DEF WaiterForks
  <2>4. \A S : pc \in [Philosophers -> S] /\ "find_chan" \in S => pc' \in [Philosophers -> S]
    BY <1>1, <2>1 DEF WaiterForks
  <2>5. TypeOK'
    BY <2>3, <2>4 DEF TypeOK, globals
  <2> QED
    BY <2>2, <2>5
<1>2. CASE WaiterCreates
  <2>1. channels' \in [Channel -> [status : Statuses, message : Messages]]
    BY <1>2, CreateStep DEF WaiterCreates
  <2>2. i' \in Polled /\ wpc' \in {"fork", "status"}
    <3>1. N \in Nat \ {0} /\ i \in 1 .. N
      BY Pids DEF TypeOK, Polled
    <3>2. i' = (IF i < N THEN i + 1 ELSE 1) /\ wpc' = IF i < N THEN "fork" ELSE "status"
      BY <1>2 DEF WaiterCreates
    <3> QED
      BY <3>1, <3>2 DEF Polled
  <2> QED
    BY <1>2, <2>1, <2>2 DEF WaiterCreates, TypeOK, NumbersOK, globals, philosopherVars
<1>3. CASE ChecksStatus
  <2>1. i' \in Polled /\ wpc' \in {"message", "status"}
    BY <1>3, NextChannelStep DEF ChecksStatus, TypeOK
  <2>2. UNCHANGED <<channels, globals, forks, philosopherVars>>
    BY <1>3 DEF ChecksStatus
  <2> QED
    BY <2>1, <2>2 DEF TypeOK, NumbersOK, globals, philosopherVars
<1>4. CASE ChecksMessage
  <2>1. i' \in Polled /\ wpc' \in {"give", "deny", "status"}
    BY <1>4, NextChannelStep DEF ChecksMessage, TypeOK
  <2>2. forks' \in 0 .. MaxForks
    <3>1. MaxForks \in Nat /\ forks \in 0 .. MaxForks
      BY DiningAssumption DEF TypeOK
    <3>2. \/ forks > 1 /\ forks' = forks - 2
          \/ forks' = IF forks + 2 <= MaxForks THEN forks + 2 ELSE forks
          \/ forks' = forks
      BY <1>4 DEF ChecksMessage
    <3> QED
      BY <3>1, <3>2
  <2> QED
    BY <1>4, <2>1, <2>2 DEF ChecksMessage, TypeOK, NumbersOK, globals, philosopherVars
<1>5. CASE Replies
  <2>1. i' \in Polled /\ wpc' = "status"
    BY <1>5, NextChannelStep DEF Replies
  <2>2. channels' \in [Channel -> [status : Statuses, message : Messages]]
    BY <1>5, SendStep DEF Replies, Messages, Statuses
  <2> QED
    BY <1>5, <2>1, <2>2 DEF Replies, TypeOK, NumbersOK, globals, philosopherVars
<1> QED
  BY <1>1, <1>2, <1>3, <1>4, <1>5 DEF WaiterStep

LEMMA PhilosopherStepIInv ==
  ASSUME IInv, NEW self \in Philosophers, PhilosopherStep(self)
  PROVE  IInv'
<1> USE DEF IInv
<1>1. CASE FindsChan(self)
  <2>1. myChan' = self
    BY <1>1 DEF FindsChan, find_chan
  <2> QED
    BY <1>1, <2>1 DEF FindsChan, Goes, TypeOK, NumbersOK, waiterVars, Begun
<1>2. CASE Assigns(self)
  BY <1>2 DEF Assigns, Goes, TypeOK, NumbersOK, waiterVars, Begun
<1>3. CASE Looks(self)
  BY <1>3 DEF Looks, Goes, TypeOK, NumbersOK, globals, waiterVars, Begun
<1>4. CASE Loads(self)
  BY <1>4 DEF Loads, Goes, TypeOK, NumbersOK, globals, waiterVars, Begun
<1>5. CASE Requests(self) \/ ReturnsForks(self)
  <2>1. channels' \in [Channel -> [status : Statuses, message : Messages]]
    BY <1>5, SendStep DEF Requests, ReturnsForks, Messages, Statuses
  <2> QED
    BY <1>5, <2>1 DEF Requests, ReturnsForks, Goes, TypeOK, NumbersOK, globals, waiterVars, Begun
<1>6. CASE ChecksReply(self) \/ ReadsReply(self)
  BY <1>6 DEF ChecksReply, ReadsReply, Goes, TypeOK, NumbersOK, globals, waiterVars, Begun
<1> QED
  BY <1>1, <1>2, <1>3, <1>4, <1>5, <1>6 DEF PhilosopherStep

LEMMA InitIInv == Init => IInv
<1> SUFFICES ASSUME Init PROVE IInv
  OBVIOUS
<1>1. 1 \in Polled
  BY Pids DEF Polled
<1> QED
  BY <1>1, DiningAssumption DEF Init, init_channels, IInv, TypeOK, NumbersOK, Statuses,
     Messages, Begun

LEMMA NextIInv == IInv /\ [Next]_vars => IInv'
<1> SUFFICES ASSUME IInv, [Next]_vars PROVE IInv'
  OBVIOUS
<1>1. CASE UNCHANGED vars
  BY <1>1 DEF vars, globals, waiterVars, philosopherVars, IInv, TypeOK, NumbersOK
<1> QED
  BY <1>1, WaiterStepIInv, PhilosopherStepIInv DEF Next

LEMMA Invariance == Spec => []IInv
  BY InitIInv, NextIInv, PTL DEF Spec

-----------------------------------------------------------------------------
(***************************************************************************)
(* Type correctness: whatever the schedule, statuses and messages are the  *)
(* ones waiter.c and philosopher.c know, the waiter polls channels that it *)
(* created, and neither it nor a philosopher is at a place the code has    *)
(* not.                                                                    *)
(***************************************************************************)
THEOREM TypeTheorem == Spec => []TypeOK
<1>1. IInv => TypeOK
  BY DEF IInv
<1> QED
  BY <1>1, Invariance, PTL

(***************************************************************************)
(* Every message of a philosopher goes to a channel of the table, although *)
(* the kernel checks nothing and the number comes from a shared variable.  *)
(***************************************************************************)
THEOREM SendsInTableTheorem == Spec => []SendsInTable
<1>1. IInv => SendsInTable
  BY Pids DEF IInv, NumbersOK, SendsInTable
<1> QED
  BY <1>1, Invariance, PTL

(***************************************************************************)
(* A request is taken off its channel only by the waiter's reply on that   *)
(* channel: neither another philosopher nor a create takes it away.        *)
(***************************************************************************)
THEOREM RequestsStayTheorem == Spec => RequestsStay
<1> DEFINE Stays ==
      \A c \in Channel :
        channels[c].status = "REQUEST" /\ channels'[c].status # "REQUEST"
          => c = i /\ wpc \in {"give", "deny"}
<1>1. ASSUME IInv, [Next]_vars PROVE Stays
  <2>1. CASE UNCHANGED channels
    BY <2>1
  <2>2. CASE WaiterCreates
    BY <1>1, <2>2, CreateStep DEF IInv, WaiterCreates
  <2>3. CASE Replies
    BY <1>1, <2>3, SendStep DEF IInv, Replies, Messages, Statuses
  <2>4. ASSUME NEW self \in Philosophers, Requests(self) \/ ReturnsForks(self) PROVE Stays
    BY <1>1, <2>4, SendStep DEF IInv, Requests, ReturnsForks, Messages, Statuses
  <2>5. CASE WaiterForks \/ ChecksStatus \/ ChecksMessage
    BY <2>1, <2>5 DEF WaiterForks, ChecksStatus, ChecksMessage
  <2>6. ASSUME NEW self \in Philosophers,
               FindsChan(self) \/ Assigns(self) \/ Looks(self) \/ Loads(self)
                 \/ ChecksReply(self) \/ ReadsReply(self)
        PROVE  UNCHANGED channels
    BY <2>6 DEF FindsChan, Assigns, Looks, Loads, ChecksReply, ReadsReply
  <2>7. CASE UNCHANGED vars
    BY <2>1, <2>7 DEF vars
  <2> HIDE DEF Stays
  <2> QED
    BY <1>1, <2>1, <2>2, <2>3, <2>4, <2>5, <2>6, <2>7 DEF Next, WaiterStep, PhilosopherStep
<1> HIDE DEF Stays
<1>2. IInv /\ [Next]_vars => [Stays]_vars
  BY <1>1
<1>3. Spec => [][Stays]_vars
  BY <1>2, Invariance, PTL DEF Spec
<1> QED
  BY <1>3 DEF RequestsStay, Stays
-----------------------------------------------------------------------------
(***************************************************************************)
(* What the dining comes to.                                               *)
(***************************************************************************)
\* Every philosopher has been forked and has been through find_chan, c is what
\* the last of them left in myChan, and nobody holds an older channel.
Settled(c) ==
  /\ wpc \notin {"fork", "create"}
  /\ \A p \in Philosophers : pc[p] \in Begun /\ chan[p] \in {0, c}
  /\ myChan = c

LEMMA SettledStays ==
  ASSUME NEW c, IInv, Settled(c), [Next]_vars
  PROVE  Settled(c)'
<1> USE DEF Settled
<1>1. CASE WaiterStep
  <2>1. UNCHANGED philosopherVars /\ UNCHANGED globals
    BY <1>1 DEF WaiterStep, WaiterForks, WaiterCreates, ChecksStatus, ChecksMessage, Replies
  <2>2. wpc' \notin {"fork", "create"}
    BY <1>1 DEF WaiterStep, WaiterForks, WaiterCreates, ChecksStatus, ChecksMessage,
       Replies, NextChannel
  <2> QED
    BY <2>1, <2>2 DEF philosopherVars, globals
<1>2. ASSUME NEW self \in Philosophers, PhilosopherStep(self) PROVE Settled(c)'
  <2>1. UNCHANGED wpc
    BY <1>2 DEF PhilosopherStep, FindsChan, Assigns, Looks, Loads, Requests, ReturnsForks,
       ChecksReply, ReadsReply, waiterVars
  <2>2. \E l \in Begun : pc' = [pc EXCEPT ![self] = l]
    BY <1>2 DEF PhilosopherStep, FindsChan, Assigns, Looks, Loads, Requests, ReturnsForks,
       ChecksReply, ReadsReply, Goes, Begun
  <2>3. UNCHANGED myChan
    BY <1>2 DEF PhilosopherStep, FindsChan, Assigns, Looks, Loads, Requests, ReturnsForks,
       ChecksReply, ReadsReply, Goes, Begun, globals
  <2>4. \/ UNCHANGED chan
        \/ \E d \in {0, c} : chan' = [chan EXCEPT ![self] = d]
    BY <1>2 DEF PhilosopherStep, FindsChan, Assigns, Looks, Loads, Requests, ReturnsForks,
       ChecksReply, ReadsReply
  <2>5. \A p \in Philosophers : pc'[p] \in Begun /\ chan'[p] \in {0, c}
    BY <2>2, <2>4 DEF IInv, TypeOK
  <2> QED
    BY <2>1, <2>3, <2>5
<1>3. CASE UNCHANGED vars
  BY <1>3 DEF vars, globals, waiterVars, philosopherVars
<1> QED
  BY <1>1, <1>2, <1>3 DEF Next

(***************************************************************************)
(* What OneChannel promises stays so once it is reached: when every        *)
(* philosopher has begun and nobody holds an older channel, all of them    *)
(* speak on one channel for ever (philosopher.c, the global myChan).       *)
(***************************************************************************)
THEOREM OneChannelStays ==
  ASSUME NEW CONSTANT c
  PROVE  Spec => [](Settled(c) =>
           [](\A p, q \in Philosophers : chan[p] # 0 /\ chan[q] # 0 => chan[p] = chan[q]))
<1> DEFINE Agreed == \A p, q \in Philosophers : chan[p] # 0 /\ chan[q] # 0 => chan[p] = chan[q]
<1>1. Settled(c) => Agreed
  BY DEF Settled
<1>2. IInv /\ Settled(c) /\ [Next]_vars => Settled(c)'
  BY SettledStays
<1> HIDE DEF Agreed
<1>3. Spec => [](Settled(c) => []Agreed)
  BY <1>1, <1>2, Invariance, PTL DEF Spec
<1> QED
  BY <1>3 DEF Agreed

\* The waiter looks for a request and sees none.
SeesNone(c) == Settled(c) /\ wpc = "status" /\ check_status(i) # "REQUEST"

LEMMA SeesNoneStays ==
  ASSUME NEW c, c # SYS_CHECKSTATUS, IInv, SeesNone(c), [Next]_vars
  PROVE  SeesNone(c)'
<1>1. Settled(c)'
  BY SettledStays DEF SeesNone
<1>2. CASE WaiterStep
  <2>1. wpc' = "status" /\ UNCHANGED channels
    BY <1>2 DEF SeesNone, WaiterStep, WaiterForks, WaiterCreates, ChecksStatus,
       ChecksMessage, Replies, NextChannel
  <2> QED
    BY <1>1, <2>1 DEF SeesNone, check_status
<1>3. ASSUME NEW self \in Philosophers, PhilosopherStep(self)
      PROVE  wpc' = "status" /\ check_status(i)' # "REQUEST"
  <2>1. UNCHANGED wpc
    BY <1>3 DEF PhilosopherStep, FindsChan, Assigns, Looks, Loads, Requests, ReturnsForks,
       ChecksReply, ReadsReply, waiterVars
  <2>2. \/ UNCHANGED channels
        \/ /\ pc[self] \in {"request", "return"}
           /\ \E m \in Messages : send(m, chan[self], "REQUEST")
    BY <1>3 DEF PhilosopherStep, FindsChan, Assigns, Looks, Loads, Requests, ReturnsForks,
       ChecksReply, ReadsReply, Goes, Messages
  <2>3. pc[self] \in {"request", "return"} => chan[self] = c
    <3>1. 0 \notin Philosophers
      BY Pids DEF Philosophers
    <3> QED
      BY <3>1 DEF SeesNone, Settled, IInv, NumbersOK
  <2>4. channels'[SYS_CHECKSTATUS] = channels[SYS_CHECKSTATUS]
    BY <2>2, <2>3, SendStep, ChannelAssumption DEF IInv, Statuses
  <2> QED
    BY <2>1, <2>4 DEF SeesNone, check_status
<1>4. CASE UNCHANGED vars
  BY <1>1, <1>4 DEF vars, waiterVars, SeesNone, check_status
<1> QED
  BY <1>1, <1>2, <1>3, <1>4 DEF Next, SeesNone

(***************************************************************************)
(* Why it happens "only once" (marksheet.txt): the waiter's check_status   *)
(* always looks at the channel with the number of the call (libc.c).  If   *)
(* the philosophers have come to speak on another one, then as soon as the *)
(* waiter sees no request there it never takes another.                    *)
(***************************************************************************)
THEOREM GivingOver ==
  ASSUME NEW CONSTANT c, c # SYS_CHECKSTATUS
  PROVE  Spec => [](SeesNone(c) => [](wpc \notin {"give", "deny"} /\ ~Seen))
<1>1. SeesNone(c) => wpc \notin {"give", "deny"} /\ ~Seen
  BY DEF SeesNone, Seen
<1>2. IInv /\ SeesNone(c) /\ [Next]_vars => SeesNone(c)'
  BY SeesNoneStays
<1> QED
  BY <1>1, <1>2, Invariance, PTL DEF Spec
=============================================================================
