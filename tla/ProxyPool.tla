----------------------------- MODULE ProxyPool ------------------------------
(***************************************************************************)
(* The media half of a call (src/CallSession.cpp): the pool s_proxyMap of  *)
(* RTSP players that all calls share, the reaper every player is given,    *)
(* and the RTP senders a call attaches to its camera's source.             *)
(*                                                                         *)
(* Threads: the SIP thread runs Init, GetLocalSdp, Start and Stop of all   *)
(* sessions, one at a time; the reapers run on the pollers of the players. *)
(* A reaper reads the reader count and erases in two steps, so that the    *)
(* SIP thread can come between.  One access to s_proxyMap is one step: the *)
(* code takes no lock, what a torn access would do is not modelled.        *)
(*                                                                         *)
(* A session makes at most one player: the player is named after it.       *)
(***************************************************************************)
EXTENDS Integers, FiniteSets

CONSTANTS
    Session,   \* the calls
    Phone,     \* the called numbers, one camera each
    Port,      \* the UDP ports the system hands out
    HasUrl,    \* the numbers with a sip_proxy.<number> entry in the ini file
    None       \* no player

ASSUME PoolAssumption ==
    /\ HasUrl \subseteq Phone
    /\ Port \subseteq Nat \ {0}
    /\ None \notin Session

Kind == {"audio", "video"}

VARIABLES
    session,   \* the CallSession objects and how far the SIP thread is with each
    player,    \* the PlayerProxy each session made
    proxyMap,  \* s_proxyMap
    reaper,    \* the delayed task each player was given
    senders,   \* RTP senders attached to a source, by ssrc
    recv       \* ports with a <port>_recv source

vars == <<session, player, proxyMap, reaper, senders, recv>>

Phase == {"none", "insert", "arm", "wait", "mapped", "closed", "failed"}

TypeOK ==
    /\ session \in [Session -> [phase : Phase, phone : Phone, port : [Kind -> Port \cup {0}]]]
    /\ player \in [Session -> {"none", "connecting", "online", "failed", "gone"}]
    /\ proxyMap \in [Phone -> Session \cup {None}]
    /\ reaper \in [Session -> {"none", "armed", "due", "erasing", "stopped"}]
    /\ senders \subseteq [player : Session, ssrc : Port]
    /\ recv \subseteq Port

Init ==
    /\ session \in [Session -> [phase : {"none"}, phone : Phone, port : {[k \in Kind |-> 0]}]]
    /\ player = [s \in Session |-> "none"]
    /\ proxyMap = [n \in Phone |-> None]
    /\ reaper = [s \in Session |-> "none"]
    /\ senders = {}
    /\ recv = {}

\* the player whose source MediaSource::find returns for a number: at most one
Source(n) == {p \in Session : player[p] = "online" /\ session[p].phone = n}

\* the SIP thread is between two events
Idle == \A s \in Session : session[s].phase \notin {"insert", "arm", "wait"}

To(s, phase) == session' = [session EXCEPT ![s].phase = phase]

\* the task of p will run again
Pending(p) == reaper[p] \in {"armed", "due", "erasing"}

PortsOf(s) == {session[s].port[k] : k \in Kind} \ {0}

\* the last reference to these players goes, their sources with them
Destroy(gone) ==
    /\ player' = [p \in Session |-> IF p \in gone THEN "gone" ELSE player[p]]
    /\ senders' = {x \in senders : x.player \notin gone}

-----------------------------------------------------------------------------
(* CallSession::Init, on the SIP thread *)

\* allocUdpPort binds, reads the port and closes: any port no sender is bound
\* to may come out, one given to another session included.  0 stands for a
\* medium that was not offered, or could not be given a port.
AllocUdpPort == (Port \ {x.ssrc : x \in senders}) \cup {0}

\* the offer does not parse, holds no medium, or the number has no stream url
InitFails(s) ==
    /\ session[s].phase = "none" /\ Idle
    /\ To(s, "failed")
    /\ UNCHANGED <<player, proxyMap, reaper, senders, recv>>

InitFinds(s) ==
    /\ session[s].phase = "none" /\ Idle
    /\ \E ports \in [Kind -> AllocUdpPort] :
          /\ \E k \in Kind : ports[k] # 0
          /\ session' = [session EXCEPT ![s].port = ports, ![s].phase = "wait"]
    /\ Source(session[s].phone) # {}
    /\ UNCHANGED <<player, proxyMap, reaper, senders, recv>>

InitPlays(s) ==
    /\ session[s].phase = "none" /\ Idle
    /\ \E ports \in [Kind -> AllocUdpPort] :
          /\ \E k \in Kind : ports[k] # 0
          /\ session' = [session EXCEPT ![s].port = ports, ![s].phase = "insert"]
    /\ Source(session[s].phone) = {}
    /\ session[s].phone \in HasUrl
    /\ player' = [player EXCEPT ![s] = "connecting"]
    /\ UNCHANGED <<proxyMap, reaper, senders, recv>>

\* s_proxyMap[number] = player: the player that was there is released
InitInserts(s) ==
    /\ session[s].phase = "insert"
    /\ Destroy({proxyMap[session[s].phone]} \cap Session)
    /\ proxyMap' = [proxyMap EXCEPT ![session[s].phone] = s]
    /\ To(s, "arm")
    /\ UNCHANGED <<reaper, recv>>

\* mistake: the reaper is queued only when the number had no player before
InitArmsFirst(s) ==
    /\ session[s].phase = "arm"
    /\ reaper' = IF \E q \in Session \ {s} : session[q].phone = session[s].phone /\ Pending(q)
                 THEN reaper ELSE [reaper EXCEPT ![s] = "armed"]
    /\ Destroy({s} \ {proxyMap[session[s].phone]})
    /\ To(s, "wait")
    /\ UNCHANGED <<proxyMap, recv>>

\* the reaper is queued; the local reference to the player goes with Init's frame
InitArms(s) ==
    /\ session[s].phase = "arm"
    /\ reaper' = [reaper EXCEPT ![s] = "armed"]
    /\ Destroy({s} \ {proxyMap[session[s].phone]})
    /\ To(s, "wait")
    /\ UNCHANGED <<proxyMap, recv>>

-----------------------------------------------------------------------------
(* the other operations of the SIP thread *)

\* GetLocalSdp saw the source: the call is answered and the session kept
Answered(s) ==
    /\ session[s].phase = "wait"
    /\ Source(session[s].phone) # {}
    /\ To(s, "mapped")
    /\ UNCHANGED <<player, proxyMap, reaper, senders, recv>>

\* GetLocalSdp gave up: the session is dropped, its player stays in the pool
NotAnswered(s) ==
    /\ session[s].phase = "wait"
    /\ Source(session[s].phone) = {}
    /\ To(s, "failed")
    /\ UNCHANGED <<player, proxyMap, reaper, senders, recv>>

\* startSendRtp for every medium with a local port, keyed by that port; with
\* no source nothing is started and Start returns true all the same
Start(s) ==
    /\ session[s].phase = "mapped" /\ Idle
    /\ senders' = senders \cup [player : Source(session[s].phone), ssrc : PortsOf(s)]
    /\ recv' = IF Source(session[s].phone) = {} THEN recv
               ELSE recv \cup ({session[s].port["audio"]} \ {0})
    /\ UNCHANGED <<session, player, proxyMap, reaper>>

\* mistake: only the video sender is stopped
StopVideo(s) ==
    /\ session[s].phase = "mapped" /\ Idle
    /\ senders' = {x \in senders : x.player \notin Source(session[s].phone)
                                  \/ x.ssrc # session[s].port["video"]}
    /\ recv' = IF Source(session[s].phone) = {} THEN recv ELSE recv \ PortsOf(s)
    /\ To(s, "closed")
    /\ UNCHANGED <<player, proxyMap, reaper>>

\* mistake: stopSendRtp("") stops every sender of the source
StopAll(s) ==
    /\ session[s].phase = "mapped" /\ Idle
    /\ senders' = {x \in senders : x.player \notin Source(session[s].phone)}
    /\ recv' = IF Source(session[s].phone) = {} THEN recv ELSE recv \ PortsOf(s)
    /\ To(s, "closed")
    /\ UNCHANGED <<player, proxyMap, reaper>>

\* with no source Stop returns before the recv sources are closed
Stop(s) ==
    /\ session[s].phase = "mapped" /\ Idle
    /\ senders' = {x \in senders : x.player \notin Source(session[s].phone) \/ x.ssrc \notin PortsOf(s)}
    /\ recv' = IF Source(session[s].phone) = {} THEN recv ELSE recv \ PortsOf(s)
    /\ To(s, "closed")
    /\ UNCHANGED <<player, proxyMap, reaper>>

-----------------------------------------------------------------------------
(* the reaper of player p; returning true repeats the task, false ends it *)

\* mistake: the task is not repeated once it has found readers (return false for true)
GraceOverOnce(p) ==
    /\ reaper[p] = "armed"
    /\ reaper' = [reaper EXCEPT ![p] =
           IF \E x \in senders : x.player \in Source(session[p].phone) THEN "stopped" ELSE "due"]
    /\ UNCHANGED <<session, player, proxyMap, senders, recv>>

GraceOver(p) ==
    /\ reaper[p] = "armed"
    /\ reaper' = [reaper EXCEPT ![p] = "due"]
    /\ UNCHANGED <<session, player, proxyMap, senders, recv>>

\* the number has an entry, any, and a source without readers
ReaperChecks(p) ==
    /\ reaper[p] = "due"
    /\ proxyMap[session[p].phone] # None
    /\ Source(session[p].phone) # {}
    /\ \A x \in senders : x.player \notin Source(session[p].phone)
    /\ reaper' = [reaper EXCEPT ![p] = "erasing"]
    /\ UNCHANGED <<session, player, proxyMap, senders, recv>>

\* the entry is erased by its number; Init still holds the player it inserts
ReaperErases(p) ==
    LET n == session[p].phone
    IN  /\ reaper[p] = "erasing"
        /\ proxyMap' = [proxyMap EXCEPT ![n] = None]
        /\ Destroy({q \in {proxyMap[n]} \cap Session : session[q].phase # "arm"})
        /\ reaper' = [reaper EXCEPT ![p] = "stopped"]
        /\ UNCHANGED <<session, recv>>

-----------------------------------------------------------------------------
(* the cameras and ZLMediaKit *)

\* a source is registered under its number only if there is none yet
PlayerOnline(p) ==
    /\ player[p] = "connecting"
    /\ Source(session[p].phone) = {}
    /\ player' = [player EXCEPT ![p] = "online"]
    /\ UNCHANGED <<session, proxyMap, reaper, senders, recv>>

PlayerFails(p) ==
    /\ player[p] = "connecting"
    /\ player' = [player EXCEPT ![p] = "failed"]
    /\ UNCHANGED <<session, proxyMap, reaper, senders, recv>>

\* the stream breaks: the source goes with its senders, the player tries again
PlayerDrops(p) ==
    /\ player[p] = "online"
    /\ player' = [player EXCEPT ![p] = "connecting"]
    /\ senders' = {x \in senders : x.player # p}
    /\ UNCHANGED <<session, proxyMap, reaper, recv>>

\* nothing more arrives on a recv source
RecvTimeout ==
    /\ recv # {}
    /\ \E port \in recv : recv' = recv \ {port}
    /\ UNCHANGED <<session, player, proxyMap, reaper, senders>>

-----------------------------------------------------------------------------

SipThread(s) ==
    \/ InitFails(s) \/ InitFinds(s) \/ InitPlays(s) \/ InitInserts(s) \/ InitArms(s)
    \/ Answered(s) \/ NotAnswered(s) \/ Start(s) \/ Stop(s)

Poller(p) == GraceOver(p) \/ ReaperChecks(p) \/ ReaperErases(p)

Media(p) == PlayerOnline(p) \/ PlayerFails(p) \/ PlayerDrops(p)

Next == RecvTimeout \/ \E s \in Session : SipThread(s) \/ Poller(s) \/ Media(s)

\* timers expire and delayed tasks run, and Init comes to its end: once it has
\* made a player nothing in it blocks.  Nothing is assumed of peers or cameras.
Fairness == \A s \in Session : WF_vars(Poller(s)) /\ WF_vars(InitInserts(s) \/ InitArms(s))

Spec == Init /\ [][Next]_vars /\ Fairness

-----------------------------------------------------------------------------
(* Properties *)

\* Every camera connection the process holds is one of the pool, under its own
\* number, and the reaper it was given is still pending: whatever calls,
\* replaced entries and old reapers did meanwhile, no pull runs that nothing
\* would ever look at again.  (CallSession.cpp:58-70, across calls.)
EveryPullWatched ==
    \A p \in Session :
        player[p] \in {"connecting", "online", "failed"} =>
            \/ session[p].phase \in {"insert", "arm"}
            \/ proxyMap[session[p].phone] = p /\ Pending(p)

\* RTP flows only for calls that are up: a sender belongs to a source that is
\* registered and to a session still in g_sessionMap, under one of its ports.
\* Stop finds the senders by number and port although the player may have been
\* lost, replaced or reaped since Start, and ports may collide.
SendersOwned ==
    \A x \in senders :
        /\ player[x.player] = "online"
        /\ \E s \in Session : /\ session[s].phase = "mapped"
                              /\ session[s].phone = session[x.player].phone
                              /\ x.ssrc \in PortsOf(s)

\* A call loses its RTP to a hang-up of a call with the same port on the same
\* camera, its own in the first place, or with its source: no other call's
\* Init, Start or Stop takes it away.
MediaLostOnlyWithCause ==
    [][\A x \in senders \ senders' :
          \/ player'[x.player] # "online"
          \/ \E s \in Session : /\ session[s].phase = "mapped" /\ session'[s].phase = "closed"
                                /\ session[s].phone = session[x.player].phone
                                /\ x.ssrc \in PortsOf(s)]_vars

\* A camera nobody watches is let go: a pool entry whose source has no reader
\* does not stay, unless the source breaks or a reader comes.
IdleStreamReaped ==
    \A p \in Session :
        /\ proxyMap[session[p].phone] = p /\ player[p] = "online"
        /\ \A x \in senders : x.player # p
        ~> \/ proxyMap[session[p].phone] # p
           \/ player[p] # "online"
           \/ \E x \in senders : x.player = p
=============================================================================
