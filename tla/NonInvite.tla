------------------------------ MODULE NonInvite -----------------------------
(***************************************************************************)
(* A request other than INVITE between two osip stacks: the client         *)
(* transaction NICT, its retransmissions and time limits, the server       *)
(* transaction NIST, and the application that answers, as SipClient does   *)
(* an OPTIONS.  Each transaction is a table of states and events (nict_fsm *)
(* and nist_fsm); an event without a row is discarded.                     *)
(*                                                                         *)
(* Time is in whole units, a part of T1.  What the stacks do at once takes *)
(* none, and a timer fires at its time; the answering application takes as *)
(* long as it likes.  A datagram that was sent arrives for `Delay' units,  *)
(* any number of times or never.                                           *)
(***************************************************************************)
EXTENDS Integers

CONSTANTS
    Answer,  \* the final responses an application gives
    T1,      \* DEFAULT_T1: 500 ms
    T2,      \* DEFAULT_T2: 4 s
    T4,      \* DEFAULT_T4: 5 s
    Life,    \* timers F and J: 64 * T1
    Delay    \* how long a datagram may take

\* a copy is gone before the next one is sent: what osip takes T1 for
ASSUME TimeAssumption ==
    /\ {T1, T2, T4, Life} \subseteq Nat \ {0} /\ Delay \in Nat
    /\ Delay < T1 /\ T1 <= T2 /\ T1 < Life
    /\ Answer \cap {"none", "1xx", "request", "idle", "waiting", "timeout", "error"} = {}

\* osip.h: T2 is 8 * T1, F and J are 8 * T2
ASSUME RatioAssumption ==
    T2 \in {k * T1 : k \in 2..T2} /\ Life \in {k * T2 : k \in 1..Life}

VARIABLES
    nict,      \* state of the client transaction
    timerE,    \* timer_e_length, and what is left until timer_e_start
    timerF,    \* what is left of the client's time
    timerK,    \* and of the time it absorbs late responses
    outcome,   \* what its application was told
    nist,      \* state of the server transaction; none: unknown to osip
    response,  \* last_response of the server transaction
    fifo,      \* the response waiting in its fifo
    timerJ,    \* what is left of the time it absorbs late requests
    user,      \* the application of the server
    given,     \* history: the final responses it gave
    wire       \* how long what was sent may still arrive; -1: not

clientVars == <<nict, timerE, timerF, timerK, outcome>>
serverVars == <<nist, response, fifo, timerJ, user, given>>
vars       == <<clientVars, serverVars, wire>>

Response == Answer \cup {"1xx"}
Message  == Response \cup {"request"}

Waiting == nict \in {"trying", "proceeding"}

TypeOK ==
    /\ nict \in {"none", "pretrying", "trying", "proceeding", "completed", "terminated"}
    /\ timerE \in [length: 0..T2, left: 0..T2]
    /\ timerF \in 0..Life
    /\ timerK \in 0..T4
    /\ outcome \in Answer \cup {"none", "timeout", "error"}
    /\ nist \in {"none", "trying", "proceeding", "completed"}
    /\ response \in Response \cup {"none"}
    /\ fifo \in Response \cup {"none"}
    /\ timerJ \in 0..Life
    /\ user \in {"unasked", "asked", "answered", "lost"}
    /\ given \subseteq Answer
    /\ wire \in [Message -> -1..Delay]

Init ==
    /\ nict = "none"
    /\ timerE = [length |-> T1, left |-> 0]
    /\ timerF = Life
    /\ timerK = T4
    /\ outcome = "none"
    /\ nist = "none"
    /\ response = "none"
    /\ fifo = "none"
    /\ timerJ = Life
    /\ user = "unasked"
    /\ given = {}
    /\ wire = [m \in Message |-> -1]

Sends(m)   == wire' = [wire EXCEPT ![m] = Delay]
Arrives(m) == wire[m] >= 0

Starts(length) == timerE' = [length |-> length, left |-> length]

-----------------------------------------------------------------------------
(* The client transaction *)

\* osip_transaction_init: timer F runs from here
Submit ==
    /\ nict = "none"
    /\ nict' = "pretrying"
    /\ UNCHANGED <<timerE, timerF, timerK, outcome, serverVars, wire>>

\* a timer that nobody looks at any more is left out: it reads 0
Stopped == timerE' = [length |-> 0, left |-> 0] /\ timerF' = 0

Ends(o) == nict' = "terminated" /\ outcome' = o /\ Stopped

SndRequest ==
    /\ nict = "pretrying"
    /\ \/ nict' = "trying" /\ Starts(timerE.length) /\ Sends("request")
          /\ UNCHANGED <<timerF, outcome>>
       \/ Ends("error") /\ UNCHANGED wire
    /\ UNCHANGED <<timerK, serverVars>>

\* mistake: the first resending comes too soon
LengthHalf == IF nict = "proceeding" THEN T2 ELSE T1 \div 2

\* how long to wait after this resending, by the age of the transaction
Length ==
    LET age     == Life - timerF
        wanted  == IF age < T1 THEN T1
                   ELSE IF age < 2 * T1 THEN 2 * T1
                   ELSE IF age < 4 * T1 THEN 4 * T1
                   ELSE 2 * timerE.length
    IN IF nict = "proceeding" \/ wanted > T2 THEN T2 ELSE wanted

\* timer F is looked at before timer E
TimeoutE ==
    /\ Waiting /\ timerE.left = 0 /\ timerF > 0
    /\ \/ Starts(Length) /\ Sends("request") /\ UNCHANGED <<nict, timerF, outcome>>
       \/ Ends("error") /\ UNCHANGED wire
    /\ UNCHANGED <<timerK, serverVars>>

\* mistake: no end before a provisional response
TimeoutFProceeding ==
    /\ nict = "proceeding" /\ timerF = 0
    /\ Ends("timeout")
    /\ UNCHANGED <<timerK, serverVars, wire>>

TimeoutF ==
    /\ Waiting /\ timerF = 0
    /\ Ends("timeout")
    /\ UNCHANGED <<timerK, serverVars, wire>>

Rcv1xx ==
    /\ Waiting /\ Arrives("1xx")
    /\ nict' = "proceeding"
    /\ Starts(T2)
    /\ UNCHANGED <<timerF, timerK, outcome, serverVars, wire>>

\* last_response is taken and the application is told
Rcv23456xx(a) ==
    /\ Waiting /\ Arrives(a)
    /\ nict' = "completed"
    /\ outcome' = a
    /\ timerK' = T4
    /\ Stopped
    /\ UNCHANGED <<serverVars, wire>>

TimeoutK ==
    /\ nict = "completed" /\ timerK = 0
    /\ nict' = "terminated"
    /\ UNCHANGED <<timerE, timerF, timerK, outcome, serverVars, wire>>

Nict ==
    \/ SndRequest \/ TimeoutE \/ TimeoutF \/ TimeoutK \/ Rcv1xx
    \/ \E a \in Answer : Rcv23456xx(a)

-----------------------------------------------------------------------------
(* The server transaction *)

\* nist_handle_transport_error: osip forgets the transaction, a response that
\* waits in its fifo is not sent
Lost == nist' = "none" /\ user' = "lost" /\ fifo' = "none"

\* a request no transaction is known for makes one, and the application is asked
RcvRequest ==
    /\ nist = "none" /\ Arrives("request")
    /\ nist' = "trying"
    /\ response' = "none"
    /\ user' = "asked"
    /\ UNCHANGED <<fifo, timerJ, given, clientVars, wire>>

\* a request that comes again is answered as before, if it was
RcvRequestAgain ==
    /\ nist \in {"proceeding", "completed"} /\ Arrives("request")
    /\ \/ Sends(response) /\ UNCHANGED <<nist, user, fifo>>
       \/ Lost /\ UNCHANGED wire
    /\ UNCHANGED <<response, timerJ, given, clientVars>>

Snd1xx ==
    /\ nist \in {"trying", "proceeding"} /\ fifo = "1xx"
    /\ response' = "1xx"
    /\ \/ nist' = "proceeding" /\ fifo' = "none" /\ Sends("1xx") /\ UNCHANGED user
       \/ Lost /\ UNCHANGED wire
    /\ UNCHANGED <<timerJ, given, clientVars>>

\* mistake: timer J is no longer than timer E
Snd23456xxShort ==
    /\ nist \in {"trying", "proceeding"} /\ fifo \in Answer
    /\ response' = fifo
    /\ timerJ' = T2
    /\ \/ nist' = "completed" /\ fifo' = "none" /\ Sends(fifo) /\ UNCHANGED user
       \/ Lost /\ UNCHANGED wire
    /\ UNCHANGED <<given, clientVars>>

Snd23456xx ==
    /\ nist \in {"trying", "proceeding"} /\ fifo \in Answer
    /\ response' = fifo
    /\ timerJ' = Life
    /\ \/ nist' = "completed" /\ fifo' = "none" /\ Sends(fifo) /\ UNCHANGED user
       \/ Lost /\ UNCHANGED wire
    /\ UNCHANGED <<given, clientVars>>

TimeoutJ ==
    /\ nist = "completed" /\ timerJ = 0
    /\ nist' = "none"
    /\ UNCHANGED <<response, fifo, timerJ, user, given, clientVars, wire>>

\* eXosip frees what was not answered within 180 s.  Timing assumption: by then
\* the client is over and no copy of its request is on the way.
ReleaseUnanswered ==
    /\ nist \in {"trying", "proceeding"} /\ fifo = "none"
    /\ nict = "terminated" /\ ~Arrives("request")
    /\ nist' = "none"
    /\ UNCHANGED <<response, fifo, timerJ, user, given, clientVars, wire>>

Nist == RcvRequest \/ RcvRequestAgain \/ Snd1xx \/ Snd23456xx \/ TimeoutJ

-----------------------------------------------------------------------------
(* The application of the server: eXosip_message_send_answer under the lock *)

\* osip_transaction_add_event; the stack thread is woken and executes it
Provisional ==
    /\ user = "asked" /\ nist # "none" /\ fifo = "none"
    /\ fifo' = "1xx"
    /\ UNCHANGED <<nist, response, timerJ, user, given, clientVars, wire>>

SendAnswer(a) ==
    /\ user = "asked" /\ nist # "none" /\ fifo = "none"
    /\ fifo' = a
    /\ user' = "answered"
    /\ given' = given \cup {a}
    /\ UNCHANGED <<nist, response, timerJ, clientVars, wire>>

User == Provisional \/ \E a \in Answer : SendAnswer(a)

-----------------------------------------------------------------------------

\* what happens at once
Pending ==
    \/ nict = "pretrying" \/ fifo # "none"
    \/ Waiting /\ (timerE.left = 0 \/ timerF = 0)
    \/ nict = "completed" /\ timerK = 0
    \/ nist = "completed" /\ timerJ = 0

Less(left, runs) == IF runs /\ left > 0 THEN left - 1 ELSE left

Tick ==
    /\ ~Pending
    /\ timerE' = [timerE EXCEPT !.left = Less(@, Waiting)]
    /\ timerF' = Less(timerF, Waiting)
    /\ timerK' = Less(timerK, nict = "completed")
    /\ timerJ' = Less(timerJ, nist = "completed")
    /\ wire' = [m \in Message |-> IF Arrives(m) THEN wire[m] - 1 ELSE -1]
    /\ UNCHANGED <<nict, outcome, nist, response, fifo, user, given>>

Next == Submit \/ Nict \/ Nist \/ ReleaseUnanswered \/ User \/ Tick

\* Both stacks execute what is due, and the clock goes on however much arrives
\* at one time.  Of the network and the answering application nothing is assumed.
Fairness ==
    /\ WF_vars(SndRequest \/ TimeoutE \/ TimeoutF \/ TimeoutK)
    /\ WF_vars(Snd1xx \/ Snd23456xx \/ TimeoutJ)
    /\ SF_vars(Tick)

Safety == Init /\ [][Next]_vars

Spec == Safety /\ Fairness

-----------------------------------------------------------------------------
(* Properties *)

Client ==
    IF outcome # "none" THEN outcome ELSE IF nict = "none" THEN "idle" ELSE "waiting"

E == INSTANCE Exchange WITH client <- Client, server <- user, given <- given

\* The two tables and their timers do what a transaction promises: one outcome
\* for the client, which is an answer of the server or a failure and comes for
\* certain; the server asked once, unless an answer of its own cannot be sent.
ImplementsExchange == E!Spec

\* When the server transaction has gone with its timer J, no copy of the request
\* can arrive any more: timers F and J are of one length, and timer E resends for
\* the last time so long before F that a provisional response, which starts it
\* anew, does not bring the copy past J.  (osip.h: F and J are 64 * T1.)
ServerOutlivesCopies ==
    nist = "none" /\ user = "answered" =>
        ~Arrives("request") /\ (Waiting => timerF = 0)

\* At most one copy of the request is on the way: every resending comes after the
\* copy before it is gone, whatever provisional responses do to timer E.
OneCopyOnTheWay ==
    [][TimeoutE => ~Arrives("request")]_vars
=============================================================================
