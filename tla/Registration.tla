---------------------------- MODULE Registration ----------------------------
(***************************************************************************)
(* How the worker stays registered: the REGISTER transaction, run by the   *)
(* stack thread of eXosip, and eXosip_automatic_action, called by the      *)
(* event thread of SipClient (ProcessEvent) between two events.            *)
(* eXosip_automatic_action takes no lock, so the two threads meet in       *)
(* eXosip_reg_t.  A response is seen in two steps, as nict_rcv_23456xx     *)
(* does them: last_response is set, then the callback runs and the         *)
(* transaction is completed.  REGISTRATION_SUCCESS and _FAILURE, which     *)
(* SipClient only logs, are left out.                                      *)
(*                                                                         *)
(* Time is in whole units.  What the program does at once takes none: the  *)
(* clock waits for the stack thread, and for a registrar that is up; for   *)
(* the event thread, which may be waiting for a camera, it waits only when *)
(* that is MaxLate behind.                                                 *)
(***************************************************************************)
EXTENDS Integers

CONSTANTS
    Expire,         \* sip.expiry, at least 30 once registered: 3600 by default
    RetryAfter,     \* TRANSACTION_TIMEOUT_RETRY: 120 s
    RefreshAfter,   \* a registration is refreshed after 900 s in any case
    Tenth,          \* ... and when that part of its period is left: 10
    Margin,         \* ... and 6 s before its end in any case
    Slack,          \* a grant less than 15 s short is taken for what was asked
    TimerF,         \* a transaction with no final response: 32 s
    LoopGuard,      \* no two changes of the contact within 60 s
    MaxRetry,       \* retries on 401, 407, 423 and 606 until a 2xx: 3
    MaxFailover,    \* limit of r_retryfailover: 60
    NonceLife,      \* the registrar: how long it takes a nonce
    Grants,         \* the registrar: the times it limits a binding to
    MinExpires,     \* the registrar: what it does not go below (423)
    MaxMapping,     \* bound: changes of the address the registrar sees
    MaxLate         \* bound: how late the event thread may be

ASSUME RegistrationAssumption ==
    /\ {Expire, RetryAfter, RefreshAfter, Tenth, TimerF, MinExpires} \subseteq Nat \ {0}
    /\ {Margin, Slack, LoopGuard, MaxRetry, MaxFailover, NonceLife, MaxMapping,
        MaxLate} \subseteq Nat
    /\ Grants \subseteq Nat \ {0} /\ Grants # {}
    /\ MaxFailover < RetryAfter /\ TimerF <= RetryAfter

VARIABLES
    reg,      \* eXosip_reg_t: r_reg_period, r_reg_expire, r_retry,
              \* r_retryfailover, registration_step, r_last_deletion
    tr,       \* state of r_last_tr; "lost": r_last_tr is NULL again
    last,     \* last_response of r_last_tr
    age,      \* now - birth_time of r_last_tr
    request,  \* orig_request of r_last_tr
    pc,       \* where the event thread is in eXosip_automatic_action
    wire,     \* what is on its way to or from the registrar
    bound,    \* the registrar: what is left of each contact's binding
    nonce,    \* age of the newest nonce the client got
    mapping,  \* the address the registrar sees the client at; 0 is local
    learnt,   \* the address the last response told
    up,       \* the registrar is reached, answers, and refuses nothing valid
    late      \* how long eXosip_automatic_action is overdue

vars == <<reg, tr, last, age, request, pc, wire, bound, nonce, mapping,
          learnt, up, late>>

eventVars    == <<pc, late>>
networkVars  == <<bound, mapping, up>>

Contact == 0..MaxMapping
Step    == {"DELETIONREQUIRED", "DELETIONPROCEEDING", "MASQUERADINGREQUIRED",
            "MASQUERADINGPROCEEDING", "DONE"}
Final   == {"2xx", "401", "423", "423bare", "606", "other"}
Time    == Nat \ {0}

Reply == [code: Final, expires: Nat, listed: Nat, seen: Contact]

TypeOK ==
    /\ reg \in [period: Time, expire: Time, retry: 0..MaxRetry,
                failover: 0..MaxFailover, step: Step, deletion: 0..LoopGuard + 2]
    /\ tr \in {"none", "pretrying", "trying", "proceeding", "answered", "over", "lost"}
    /\ last \in Final \cup {"none", "1xx"}
    /\ age \in Nat
    /\ request \in [contact: Contact, remove: BOOLEAN, auth: BOOLEAN, expires: Time]
    /\ pc \in {"idle", "send", "credentials", "count", "delete", "undelete",
              "masquerade", "unmasquerade", "forget"}
    /\ wire \in [kind: {"none", "request"}] \cup [kind: {"reply"}, is: Reply]
    /\ bound \in [Contact -> Nat]
    /\ nonce \in 0..NonceLife + 1
    /\ mapping \in Contact
    /\ learnt \in Contact
    /\ up \in BOOLEAN
    /\ late \in 0..MaxLate

Nothing == [kind |-> "none"]

Least(a, b)    == IF a < b THEN a ELSE b
Greatest(a, b) == IF a < b THEN b ELSE a

Init ==
    /\ reg = [period |-> Expire, expire |-> Expire, retry |-> 0, failover |-> 0,
              step |-> "MASQUERADINGPROCEEDING", deletion |-> 0]
    /\ tr = "none"
    /\ last = "none"
    /\ age = 0
    /\ request = [contact |-> 0, remove |-> FALSE, auth |-> FALSE, expires |-> Expire]
    /\ pc = "idle"
    /\ wire = Nothing
    /\ bound = [c \in Contact |-> 0]
    /\ nonce = NonceLife + 1
    /\ mapping \in Contact
    /\ learnt = 0
    /\ up \in BOOLEAN
    /\ late = 0

-----------------------------------------------------------------------------
(* Sending a REGISTER *)

\* registerUa, by the main thread: the first request carries the configured address
RegisterUa ==
    /\ tr = "none"
    /\ tr' = "pretrying"
    /\ age' = 0
    /\ UNCHANGED <<reg, last, request, wire, nonce, learnt, eventVars, networkVars>>

\* what eXosip_automatic_action does last for a registration, in every pass
Forgotten(r) == [r EXCEPT !.deletion = IF @ > LoopGuard + 1 THEN 0 ELSE @]

\* r_last_tr leaves eXosip_reg_t before a 423 is looked at, and is not put back
BuildFails ==
    /\ last = "423bare"
    /\ tr' = "lost"
    /\ UNCHANGED <<reg, last, age, request>>

\* mistake: the contact keeps its expires=0
BuildKeepsExpires ==
    /\ last # "423bare"
    /\ LET expire == IF last = "423" THEN MinExpires ELSE reg.expire
           masquerade == reg.step = "MASQUERADINGPROCEEDING"
       IN /\ reg' = [reg EXCEPT !.expire = expire,
                                !.period = IF last = "423" THEN MinExpires ELSE @,
                                !.step = IF masquerade THEN "DONE" ELSE @]
          /\ request' = [contact |-> IF masquerade THEN learnt ELSE request.contact,
                         remove  |-> reg.step = "DELETIONPROCEEDING" \/ request.remove,
                         auth    |-> last # "none",
                         expires |-> expire]
    /\ tr' = "pretrying"
    /\ last' = "none"
    /\ age' = 0

\* the request before this one, with what its response asks for
Build ==
    /\ last # "423bare"
    /\ LET expire == IF last = "423" THEN MinExpires ELSE reg.expire
           masquerade == reg.step = "MASQUERADINGPROCEEDING"
       IN /\ reg' = [reg EXCEPT !.expire = expire,
                                !.period = IF last = "423" THEN MinExpires ELSE @,
                                !.step = IF masquerade THEN "DONE" ELSE @]
          /\ request' = [contact |-> IF masquerade THEN learnt ELSE request.contact,
                         remove  |-> \/ reg.step = "DELETIONPROCEEDING"
                                     \/ request.remove /\ ~masquerade,
                         auth    |-> last # "none",
                         expires |-> expire]
    /\ tr' = "pretrying"
    /\ last' = "none"
    /\ age' = 0

SendRegister == tr = "over" /\ (Build \/ BuildFails)

-----------------------------------------------------------------------------
(* The event thread: eXosip_automatic_action *)

\* mistake: the last of the three times counts
RefreshLast ==
    /\ age > RefreshAfter
    /\ age > reg.period - (reg.period \div Tenth)
    /\ age > reg.period - Margin

RefreshDue ==
    \/ age > RefreshAfter
    \/ age > reg.period - (reg.period \div Tenth)
    \/ age > reg.period - Margin

\* mistake: off by one
RetryEarly == age >= RetryAfter /\ last # "2xx"

RetryDue == age > RetryAfter /\ last # "2xx"

CredentialsDue == age < RetryAfter /\ last \in {"401", "423", "423bare", "606"}

\* what this pass is about to do: the first of its conditions that holds
Rule ==
    IF RefreshDue \/ RetryDue THEN "send"
    ELSE IF CredentialsDue THEN IF reg.retry < MaxRetry THEN "credentials" ELSE "idle"
    ELSE IF last # "2xx" THEN "idle"
    ELSE IF reg.step = "DELETIONREQUIRED" THEN "delete"
    ELSE IF reg.step = "MASQUERADINGREQUIRED" THEN "masquerade"
    ELSE "idle"

StackOwned == <<wire, nonce, learnt>>

\* delete and masquerade announce their step, then send
Decide ==
    /\ pc = "idle" /\ tr \notin {"none", "lost"}
    /\ Rule # "idle"
    /\ pc' = Rule
    /\ reg' = [reg EXCEPT !.step = IF Rule = "delete" THEN "DELETIONPROCEEDING"
                                   ELSE IF Rule = "masquerade" THEN "MASQUERADINGPROCEEDING"
                                   ELSE @]
    /\ UNCHANGED <<tr, last, age, request, late, StackOwned, networkVars>>

Attempt ==
    /\ pc \in {"send", "credentials", "delete", "masquerade"}
    /\ SendRegister
    /\ pc' = IF pc = "credentials" THEN "count" ELSE "forget"
    /\ late' = 0
    /\ UNCHANGED <<StackOwned, networkVars>>

\* OSIP_WRONG_STATE
AttemptRefused ==
    /\ pc \in {"send", "credentials", "delete", "masquerade"}
    /\ tr # "over"
    /\ pc' = CASE pc = "send"        -> "forget"
               [] pc = "credentials" -> "count"
               [] pc = "delete"      -> "undelete"
               [] pc = "masquerade"  -> "unmasquerade"
    /\ UNCHANGED <<reg, tr, last, age, request, late, StackOwned, networkVars>>

\* a refused attempt is counted too, and a step that was not sent is put back
Conclude ==
    /\ pc \in {"count", "undelete", "unmasquerade"}
    /\ pc' = "forget"
    /\ reg' = CASE pc = "count"        -> [reg EXCEPT !.retry = @ + 1]
                [] pc = "undelete"     -> [reg EXCEPT !.step = "DELETIONREQUIRED"]
                [] pc = "unmasquerade" -> [reg EXCEPT !.step = "MASQUERADINGREQUIRED"]
    /\ UNCHANGED <<tr, last, age, request, late, StackOwned, networkVars>>

Forget ==
    /\ \/ pc = "forget"
       \/ pc = "idle" /\ tr \notin {"none", "lost"} /\ Rule = "idle" /\ Forgotten(reg) # reg
    /\ pc' = "idle"
    /\ reg' = Forgotten(reg)
    /\ UNCHANGED <<tr, last, age, request, late, StackOwned, networkVars>>

AutomaticAction == Decide \/ Attempt \/ AttemptRefused \/ Conclude \/ Forget

-----------------------------------------------------------------------------
(* The stack thread: the client transaction *)

JrOwned == <<pc, late, networkVars, request>>

NictSnd ==
    /\ tr = "pretrying"
    /\ tr' = "trying"
    /\ wire' = [kind |-> "request"]
    /\ UNCHANGED <<reg, last, age, nonce, learnt, JrOwned>>

\* the first sending or a resending fails in the socket: the next attempt comes
\* r_retryfailover seconds after RetryAfter would have passed
TransportError ==
    /\ tr \in {"pretrying", "trying", "proceeding"} /\ ~up
    /\ tr' = "over"
    /\ LET failover == Least(reg.failover + 1, MaxFailover)
       IN /\ reg' = [reg EXCEPT !.failover = failover]
          /\ age' = RetryAfter - failover
    /\ wire' = Nothing
    /\ UNCHANGED <<last, nonce, learnt, JrOwned>>

Rcv1xx ==
    /\ tr \in {"trying", "proceeding"} /\ wire.kind = "request"
    /\ tr' = "proceeding"
    /\ last' = "1xx"
    /\ UNCHANGED <<reg, age, wire, nonce, learnt, JrOwned>>

\* udp_tl_learn_port_from_via, then the first half of nict_rcv_23456xx
RcvFinal ==
    /\ tr \in {"trying", "proceeding"} /\ wire.kind = "reply"
    /\ tr' = "answered"
    /\ last' = wire.is.code
    /\ learnt' = wire.is.seen
    /\ nonce' = IF wire.is.code = "401" THEN 0 ELSE nonce
    /\ UNCHANGED <<reg, age, wire, JrOwned>>

\* a contact that is not where the registrar saw the request come from is to go
ContactIsModified(r) ==
    IF r.deletion = 0 /\ request.contact # wire.is.seen
    THEN [r EXCEPT !.step = "DELETIONREQUIRED", !.deletion = 1]
    ELSE r

PastMasquerading(r) == r.step \in {"MASQUERADINGPROCEEDING", "DONE"}

\* the Expires header may shorten the period, the listed contacts change it either way
Shortened(period, expires) == IF expires > 0 /\ expires < period - Slack THEN expires ELSE period
Listed(period, expires)    == IF expires > period THEN expires ELSE Shortened(period, expires)

\* mistake: what was asked for is taken for what was granted
GrantedIgnored(r) == r

Granted(r) ==
    IF r.step = "DELETIONPROCEEDING" THEN r
    ELSE [r EXCEPT !.period = Listed(Shortened(@, wire.is.expires), wire.is.listed)]

Deleted(r) ==
    IF r.step = "DELETIONPROCEEDING" THEN [r EXCEPT !.step = "MASQUERADINGREQUIRED"] ELSE r

Checked(r) == IF PastMasquerading(r) THEN ContactIsModified(r) ELSE r

Callback ==
    /\ tr = "answered"
    /\ tr' = "over"
    /\ reg' = IF last = "2xx"
              THEN [Checked(Deleted(Granted(reg))) EXCEPT !.retry = 0, !.failover = 0]
              ELSE Checked(reg)
    /\ wire' = Nothing
    /\ UNCHANGED <<last, age, nonce, learnt, JrOwned>>

TimeoutF ==
    /\ tr \in {"trying", "proceeding"} /\ age >= TimerF
    /\ tr' = "over"
    /\ wire' = Nothing
    /\ UNCHANGED <<reg, last, age, nonce, learnt, JrOwned>>

Stack == NictSnd \/ TransportError \/ Rcv1xx \/ RcvFinal \/ Callback \/ TimeoutF

-----------------------------------------------------------------------------
(* The registrar, the network and the clock *)

ClientOwned == <<reg, tr, last, age, request, pc, nonce, learnt, late, mapping, up>>

\* a response lists all contacts of the client; the longest one is what counts
Answer(code, expires) ==
    \E longest \in Contact :
       /\ \A c \in Contact : bound'[c] <= bound'[longest]
       /\ wire' = [kind |-> "reply",
                   is   |-> [code |-> code, expires |-> expires, seen |-> mapping,
                             listed |-> bound'[longest]]]

\* what of a request with valid credentials the registrar takes
Accept ==
    \/ /\ request.remove
       /\ bound' = [bound EXCEPT ![request.contact] = 0]
       /\ Answer("2xx", 0)
    \/ /\ ~request.remove /\ request.expires < MinExpires
       /\ UNCHANGED bound
       /\ \E code \in {"423", "423bare"} : Answer(code, 0)
    \/ /\ ~request.remove /\ request.expires >= MinExpires
       /\ \E limit \in Grants :
             LET granted == Least(limit, request.expires)
             IN /\ bound' = [bound EXCEPT ![request.contact] = granted]
                /\ Answer("2xx", granted)

Registrar ==
    /\ wire.kind = "request"
    /\ \/ /\ request.auth /\ nonce <= NonceLife
          /\ Accept
       \/ /\ ~(request.auth /\ nonce <= NonceLife)
          /\ UNCHANGED bound
          /\ Answer("401", 0)
       \/ /\ ~up
          /\ UNCHANGED bound
          /\ \E code \in {"606", "other"} : Answer(code, 0)
    /\ UNCHANGED ClientOwned

UpOrDown ==
    /\ up' = ~up
    /\ UNCHANGED <<reg, tr, last, age, request, pc, wire, bound, nonce, mapping, learnt, late>>

\* a NAT gives the client another address
Remap ==
    /\ mapping < MaxMapping
    /\ mapping' = mapping + 1
    /\ UNCHANGED <<reg, tr, last, age, request, pc, wire, bound, nonce, learnt, up, late>>

Due == tr = "over" /\ Rule # "idle"

Tick ==
    /\ tr \in {"trying", "proceeding", "over", "lost"} /\ pc = "idle"
    /\ tr \in {"trying", "proceeding"} => age < TimerF
    /\ up => wire = Nothing
    /\ IF Due THEN late < MaxLate /\ late' = late + 1 ELSE late' = late
    /\ age' = IF tr = "lost" THEN age ELSE age + 1
    /\ nonce' = Least(nonce + 1, NonceLife + 1)
    /\ bound' = [c \in Contact |-> IF bound[c] = 0 THEN 0 ELSE bound[c] - 1]
    /\ reg' = [reg EXCEPT !.deletion = IF @ = 0 THEN 0 ELSE Least(@ + 1, LoopGuard + 2)]
    /\ UNCHANGED <<tr, last, request, pc, wire, mapping, learnt, up>>

Next == RegisterUa \/ AutomaticAction \/ Stack \/ Registrar \/ UpOrDown \/ Remap \/ Tick

Fairness ==
    /\ WF_vars(RegisterUa)
    /\ WF_vars(AutomaticAction)
    /\ WF_vars(Stack)
    /\ WF_vars(Tick)
    /\ WF_vars(up /\ Registrar)

Safety == Init /\ [][Next]_vars

Spec == Init /\ [][Next]_vars /\ Fairness

-----------------------------------------------------------------------------
(* Properties *)

\* the last REGISTER put a binding in place, and nothing is to be done about it
AtRest ==
    /\ tr = "over" /\ last = "2xx" /\ pc = "idle"
    /\ reg.step = "DONE" /\ ~request.remove

\* The age of a registration with this period behind which a pass refreshes it, and
\* the one at which it is refreshed at the latest: its 2xx may come after that age.
Planned(period)     == Least(RefreshAfter, Least(period - Margin, period - (period \div Tenth)))
RefreshedBy(period) == Greatest(Planned(period) + 1, TimerF) + MaxLate

OtherContactBound == \E c \in Contact \ {request.contact} : bound[c] > 0

\* A registration that rests does not end if what the refresh keeps in reserve, the
\* tenth, the margin or what is behind RefreshAfter, is more than the slack by which
\* r_reg_period may exceed the grant and what a late pass takes of it.  (60 s granted
\* as 48 end before the refresh; a longer contact of another address may also set the
\* period.)
NoIdleLapse ==
    AtRest /\ ~OtherContactBound /\ RefreshedBy(reg.period) + Slack < reg.period
        => bound[request.contact] > 0

\* r_reg_period, from which the refresh is planned, is not longer than what the
\* registrar granted by more than the slack, although every response changes it,
\* also one from before the contact changed.  When a contact of an earlier address
\* is still bound, the longest of the times counts, and this does not hold.
PeriodHonest ==
    AtRest /\ ~OtherContactBound
        => reg.period <= age + bound[request.contact] + Slack

\* r_retry and r_retryfailover do space the attempts: neither a network that fails
\* at once nor a challenge after the last retry is followed by another REGISTER
\* before RetryAfter has gone by; unless the period is so short that a refresh is due
\* before that.
RetriesSpaced ==
    [][ /\ tr = "over" /\ tr' = "pretrying"
        /\ RetryAfter <= Planned(reg.period)
        /\ \/ last = "none" /\ reg.failover > 0
           \/ last \in {"401", "606"} /\ reg.retry >= MaxRetry
        => age > RetryAfter ]_vars

\* The contact that is not the client's is deleted before the right one is registered.
DeletedFirst == reg.step = "MASQUERADINGREQUIRED" => bound[request.contact] = 0

Registered == bound[mapping] > 0

\* What a refresh keeps in reserve is enough for another attempt after RetryAfter.
ReserveForRetry ==
    RefreshedBy(reg.period) + Slack + RetryAfter + 1 + MaxLate < reg.period

\* Once the registrar stays up the client gets registered under the address it is
\* seen at, again and again, and stays so while the period is long enough for a
\* refresh that comes to nothing, as one does whose challenge is handled between two
\* steps of the other thread; but for a 423 that does not say what would do.
StaysRegistered ==
    <>[]up => \/ <>[](ReserveForRetry => Registered) /\ []<>Registered
              \/ <>(tr = "lost")
=============================================================================
