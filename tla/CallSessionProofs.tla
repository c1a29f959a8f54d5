-------------------------- MODULE CallSessionProofs --------------------------
(***************************************************************************)
(* What CallSession.cpp does, for any number of calls, cameras and ports   *)
(* and any deadline.  ProxyPool: the types, that every camera connection   *)
(* is watched by a reaper, that RTP flows only for calls that are up, and  *)
(* what takes it from them.  SdpWait: the types, that the task is over     *)
(* when the event thread goes on, and that an SDP made in time is          *)
(* complete.                                                               *)
(***************************************************************************)
EXTENDS ProxyPool, SdpWait, TLAPS

\* What EveryPullWatched needs to be inductive.  An entry of the pool names a
\* player of that number whose session is past the insertion, and a session
\* that has not begun has no player.
EntriesOwn ==
    \A n \in Phone : proxyMap[n] # None =>
        /\ session[proxyMap[n]].phone = n
        /\ session[proxyMap[n]].phase \notin {"none", "insert"}

NoPlayerYet ==
    \A s \in Session : session[s].phase = "none" => player[s] = "none"

PullInv == TypeOK /\ EntriesOwn /\ NoPlayerYet /\ EveryPullWatched

-----------------------------------------------------------------------------

\* The variables keep their types whatever the calls, the reapers and the
\* cameras do.
THEOREM PoolTypeOK == Spec => []TypeOK
<1>1. Init => TypeOK
  BY PoolAssumption DEF Init, TypeOK, Phase
<1>2. TypeOK /\ [Next]_vars => TypeOK'
  <2> SUFFICES ASSUME TypeOK, [Next]_vars PROVE TypeOK'
    OBVIOUS
  <2> USE PoolAssumption DEF TypeOK, Phase
  <2>1. ASSUME NEW s \in Session, InitFails(s) PROVE TypeOK'
    BY <2>1 DEF InitFails, To
  <2>2. ASSUME NEW s \in Session, InitFinds(s) PROVE TypeOK'
    BY <2>2 DEF InitFinds, AllocUdpPort
  <2>3. ASSUME NEW s \in Session, InitPlays(s) PROVE TypeOK'
    BY <2>3 DEF InitPlays, AllocUdpPort
  <2>4. ASSUME NEW s \in Session, InitInserts(s) PROVE TypeOK'
    BY <2>4 DEF InitInserts, To, Destroy
  <2>5. ASSUME NEW s \in Session, InitArms(s) PROVE TypeOK'
    BY <2>5 DEF InitArms, To, Destroy
  <2>6. ASSUME NEW s \in Session, Answered(s) PROVE TypeOK'
    BY <2>6 DEF Answered, To
  <2>14. ASSUME NEW s \in Session, NotAnswered(s) PROVE TypeOK'
    BY <2>14 DEF NotAnswered, To
  <2>7. ASSUME NEW s \in Session, Start(s) PROVE TypeOK'
    <3>1. PortsOf(s) \subseteq Port /\ {session[s].port["audio"]} \ {0} \subseteq Port
      BY DEF PortsOf, Kind
    <3>2. Source(session[s].phone) \subseteq Session
      BY DEF Source
    <3>3. senders' \subseteq [player : Session, ssrc : Port]
      BY <2>7, <3>1, <3>2 DEF Start
    <3>4. recv' \subseteq Port
      BY <2>7, <3>1 DEF Start
    <3>5. QED
      BY <2>7, <3>3, <3>4 DEF Start
  <2>8. ASSUME NEW s \in Session, Stop(s) PROVE TypeOK'
    BY <2>8 DEF Stop, To
  <2>9. ASSUME NEW p \in Session, Poller(p) PROVE TypeOK'
    BY <2>9 DEF Poller, GraceOver, ReaperChecks, ReaperErases, Destroy
  <2>10. ASSUME NEW p \in Session, Media(p) PROVE TypeOK'
    BY <2>10 DEF Media, PlayerOnline, PlayerFails, PlayerDrops
  <2>11. CASE RecvTimeout
    BY <2>11 DEF RecvTimeout
  <2>12. CASE UNCHANGED vars
    BY <2>12 DEF vars
  <2>13. QED
    BY <2>1, <2>2, <2>3, <2>4, <2>5, <2>6, <2>14, <2>7, <2>8, <2>9, <2>10, <2>11, <2>12
       DEF Next, SipThread
<1>3. QED
  BY <1>1, <1>2, PTL DEF Spec

-----------------------------------------------------------------------------

\* What a change of phase leaves alone.
LEMMA ToFacts ==
    ASSUME TypeOK, NEW s \in Session, NEW phase \in Phase, To(s, phase)
    PROVE  /\ session'[s].phase = phase
           /\ \A r \in Session \ {s} : session'[r] = session[r]
           /\ \A r \in Session : session'[r].phone = session[r].phone /\ session'[r].port = session[r].port
BY DEF TypeOK, To

LEMMA PullInvInit == Init => PullInv
<1> SUFFICES ASSUME Init PROVE PullInv
  OBVIOUS
<1>1. TypeOK
  BY PoolAssumption DEF Init, TypeOK, Phase
<1>2. QED
  BY <1>1 DEF Init, PullInv, EntriesOwn, NoPlayerYet, EveryPullWatched

LEMMA PullInvNext == PullInv /\ TypeOK' /\ [Next]_vars => PullInv'
<1> SUFFICES ASSUME PullInv, TypeOK', [Next]_vars
             PROVE  EntriesOwn' /\ NoPlayerYet' /\ EveryPullWatched'
  BY DEF PullInv
<1> USE PoolAssumption
    DEF PullInv, TypeOK, Phase, EntriesOwn, NoPlayerYet, EveryPullWatched, Pending
<1>1. ASSUME NEW s \in Session, InitFails(s)
      PROVE  EntriesOwn' /\ NoPlayerYet' /\ EveryPullWatched'
  BY <1>1 DEF InitFails, To
<1>2. ASSUME NEW s \in Session, InitFinds(s)
      PROVE  EntriesOwn' /\ NoPlayerYet' /\ EveryPullWatched'
  BY <1>2 DEF InitFinds
<1>3. ASSUME NEW s \in Session, InitPlays(s)
      PROVE  EntriesOwn' /\ NoPlayerYet' /\ EveryPullWatched'
  BY <1>3 DEF InitPlays
<1>4. ASSUME NEW s \in Session, InitInserts(s)
      PROVE  EntriesOwn' /\ NoPlayerYet' /\ EveryPullWatched'
  BY <1>4 DEF InitInserts, To, Destroy
<1>5. ASSUME NEW s \in Session, InitArms(s)
      PROVE  EntriesOwn' /\ NoPlayerYet' /\ EveryPullWatched'
  BY <1>5 DEF InitArms, To, Destroy
<1>6. ASSUME NEW s \in Session, Answered(s) \/ NotAnswered(s)
      PROVE  EntriesOwn' /\ NoPlayerYet' /\ EveryPullWatched'
  <2>1. PICK phase \in {"mapped", "failed"} : To(s, phase)
    BY <1>6 DEF Answered, NotAnswered
  <2>2. session[s].phase = "wait" /\ UNCHANGED <<player, proxyMap, reaper>>
    BY <1>6 DEF Answered, NotAnswered
  <2>3. /\ session'[s].phase = phase
        /\ \A r \in Session \ {s} : session'[r].phase = session[r].phase
        /\ \A r \in Session : session'[r].phone = session[r].phone
    BY <2>1, ToFacts
  <2>4. EntriesOwn'
    BY <2>2, <2>3
  <2>5. NoPlayerYet'
    BY <2>2, <2>3
  <2>6. EveryPullWatched'
    <3>1. \A r \in Session : session[r].phase \in {"insert", "arm"} <=> session'[r].phase \in {"insert", "arm"}
      BY <2>2, <2>3
    <3>2. \A r \in Session : (Pending(r) <=> Pending(r)') /\ player'[r] = player[r]
      BY <2>2
    <3>3. \A r \in Session : proxyMap'[session'[r].phone] = proxyMap[session[r].phone]
      BY <2>2, <2>3
    <3>4. QED
      BY <3>1, <3>2, <3>3
  <2>7. QED
    BY <2>4, <2>5, <2>6
<1>7. ASSUME NEW s \in Session, Start(s)
      PROVE  EntriesOwn' /\ NoPlayerYet' /\ EveryPullWatched'
  BY <1>7 DEF Start
<1>8. ASSUME NEW s \in Session, Stop(s)
      PROVE  EntriesOwn' /\ NoPlayerYet' /\ EveryPullWatched'
  BY <1>8 DEF Stop, To
<1>9. ASSUME NEW p \in Session, GraceOver(p) \/ ReaperChecks(p)
      PROVE  EntriesOwn' /\ NoPlayerYet' /\ EveryPullWatched'
  BY <1>9 DEF GraceOver, ReaperChecks
<1>10. ASSUME NEW p \in Session, ReaperErases(p)
       PROVE  EntriesOwn' /\ NoPlayerYet' /\ EveryPullWatched'
  BY <1>10 DEF ReaperErases, Destroy
<1>11. ASSUME NEW p \in Session, Media(p)
       PROVE  EntriesOwn' /\ NoPlayerYet' /\ EveryPullWatched'
  BY <1>11 DEF Media, PlayerOnline, PlayerFails, PlayerDrops
<1>12. CASE RecvTimeout
  BY <1>12 DEF RecvTimeout
<1>13. CASE UNCHANGED vars
  BY <1>13 DEF vars
<1>14. QED
  BY <1>1, <1>2, <1>3, <1>4, <1>5, <1>6, <1>7, <1>8, <1>9, <1>10, <1>11, <1>12, <1>13
     DEF Next, SipThread, Poller

\* CallSession.cpp:58-70: whatever calls, replaced entries and leftover reapers
\* do, every camera connection the process holds is in the pool with a reaper
\* of its own still pending.
THEOREM PullsWatched == Spec => []EveryPullWatched
<1>1. PullInv => EveryPullWatched
  BY DEF PullInv
<1>2. QED
  BY <1>1, PoolTypeOK, PullInvInit, PullInvNext, PTL DEF Spec

-----------------------------------------------------------------------------

\* A step that adds no sender, keeps the sources of those it leaves, and keeps
\* the calls that are up with their numbers and ports.
LEMMA SendersKept ==
    ASSUME TypeOK, SendersOwned,
           \A x \in senders' : x \in senders /\ player'[x.player] = "online",
           \A s \in Session : session'[s].phone = session[s].phone,
           \A s \in Session : session[s].phase = "mapped" =>
               session'[s].phase = "mapped" /\ session'[s].port = session[s].port
    PROVE  SendersOwned'
<1> SUFFICES ASSUME NEW x \in senders'
             PROVE  /\ player'[x.player] = "online"
                    /\ \E s \in Session : /\ session'[s].phase = "mapped"
                                          /\ session'[s].phone = session'[x.player].phone
                                          /\ x.ssrc \in PortsOf(s)'
  BY DEF SendersOwned
<1>1. PICK s \in Session : /\ session[s].phase = "mapped"
                           /\ session[s].phone = session[x.player].phone
                           /\ x.ssrc \in PortsOf(s)
  BY DEF SendersOwned
<1>2. x.player \in Session
  BY DEF TypeOK
<1>3. x.ssrc \in PortsOf(s)'
  BY <1>1 DEF PortsOf
<1>4. QED
  BY <1>1, <1>2, <1>3

LEMMA SendersOwnedNext == TypeOK /\ SendersOwned /\ [Next]_vars => SendersOwned'
<1> SUFFICES ASSUME TypeOK, SendersOwned, [Next]_vars PROVE SendersOwned'
  OBVIOUS
<1>0. \A x \in senders : x.player \in Session /\ player[x.player] = "online"
  BY DEF TypeOK, SendersOwned
<1>1. ASSUME NEW s \in Session, InitFails(s) PROVE SendersOwned'
  BY <1>0, <1>1, SendersKept, ToFacts DEF InitFails, Phase
<1>2. ASSUME NEW s \in Session, InitFinds(s) PROVE SendersOwned'
  BY <1>0, <1>2, SendersKept DEF InitFinds, TypeOK
<1>3. ASSUME NEW s \in Session, InitPlays(s) PROVE SendersOwned'
  <2>1. senders' = senders /\ session[s].phase # "mapped"
    BY <1>3 DEF InitPlays
  <2>2. ASSUME NEW x \in senders PROVE player'[x.player] = "online"
    <3>1. x.player \in Session /\ player[x.player] = "online"
      BY <1>0, <2>2
    <3>2. QED
      BY <1>3, <3>1 DEF InitPlays, TypeOK
  <2>3. QED
    BY <1>3, <2>1, <2>2, SendersKept DEF InitPlays, TypeOK
<1>4. ASSUME NEW s \in Session, InitInserts(s) PROVE SendersOwned'
  BY <1>0, <1>4, SendersKept, ToFacts DEF InitInserts, Destroy, Phase
<1>5. ASSUME NEW s \in Session, InitArms(s) PROVE SendersOwned'
  BY <1>0, <1>5, SendersKept, ToFacts DEF InitArms, Destroy, Phase
<1>6. ASSUME NEW s \in Session, Answered(s) \/ NotAnswered(s) PROVE SendersOwned'
  BY <1>0, <1>6, SendersKept, ToFacts DEF Answered, NotAnswered, Phase
<1>7. ASSUME NEW s \in Session, Start(s) PROVE SendersOwned'
  <2> SUFFICES ASSUME NEW x \in senders'
               PROVE  /\ player[x.player] = "online"
                      /\ \E r \in Session : /\ session[r].phase = "mapped"
                                            /\ session[r].phone = session[x.player].phone
                                            /\ x.ssrc \in PortsOf(r)
    BY <1>7 DEF Start, SendersOwned, PortsOf
  <2>1. CASE x \in senders
    BY <2>1 DEF SendersOwned
  <2>2. CASE x \in [player : Source(session[s].phone), ssrc : PortsOf(s)]
    BY <1>7, <2>2 DEF Start, Source
  <2>3. QED
    BY <1>7, <2>1, <2>2 DEF Start
<1>8. ASSUME NEW s \in Session, Stop(s) PROVE SendersOwned'
  <2> SUFFICES ASSUME NEW x \in senders'
               PROVE  /\ player'[x.player] = "online"
                      /\ \E r \in Session : /\ session'[r].phase = "mapped"
                                            /\ session'[r].phone = session'[x.player].phone
                                            /\ x.ssrc \in PortsOf(r)'
    BY DEF SendersOwned
  <2>1. /\ x \in senders
        /\ x.player \notin Source(session[s].phone) \/ x.ssrc \notin PortsOf(s)
    BY <1>8 DEF Stop
  <2>2. PICK r \in Session : /\ session[r].phase = "mapped"
                             /\ session[r].phone = session[x.player].phone
                             /\ x.ssrc \in PortsOf(r)
    BY <2>1 DEF SendersOwned
  <2>3. r # s
    BY <1>0, <2>1, <2>2 DEF Source
  <2>4. To(s, "closed") /\ player' = player
    BY <1>8 DEF Stop
  <2>5. session'[r] = session[r] /\ session'[x.player].phone = session[x.player].phone
    BY <1>0, <2>1, <2>3, <2>4, ToFacts DEF Phase
  <2>6. QED
    BY <1>0, <2>1, <2>2, <2>4, <2>5 DEF PortsOf
<1>9. ASSUME NEW p \in Session, Poller(p) PROVE SendersOwned'
  <2>1. CASE GraceOver(p) \/ ReaperChecks(p)
    BY <1>0, <2>1, SendersKept DEF GraceOver, ReaperChecks
  <2>2. CASE ReaperErases(p)
    BY <1>0, <2>2, SendersKept DEF ReaperErases, Destroy
  <2>3. QED
    BY <1>9, <2>1, <2>2 DEF Poller
<1>10. ASSUME NEW p \in Session, Media(p) PROVE SendersOwned'
  <2>1. CASE PlayerOnline(p) \/ PlayerFails(p)
    BY <1>0, <2>1, SendersKept DEF PlayerOnline, PlayerFails, TypeOK
  <2>2. CASE PlayerDrops(p)
    BY <1>0, <2>2, SendersKept DEF PlayerDrops, TypeOK
  <2>3. QED
    BY <1>10, <2>1, <2>2 DEF Media
<1>11. CASE RecvTimeout
  BY <1>0, <1>11, SendersKept DEF RecvTimeout
<1>12. CASE UNCHANGED vars
  BY <1>0, <1>12, SendersKept DEF vars
<1>13. QED
  BY <1>1, <1>2, <1>3, <1>4, <1>5, <1>6, <1>7, <1>8, <1>9, <1>10, <1>11, <1>12
     DEF Next, SipThread

\* CallSession.cpp:212-278: every RTP sender belongs to a registered source and
\* to a session still in g_sessionMap, although the player may have been lost,
\* replaced or reaped between Start and Stop and ports may collide.
THEOREM MediaOwned == Spec => []SendersOwned
<1>1. Init => SendersOwned
  BY DEF Init, SendersOwned
<1>2. QED
  BY <1>1, PoolTypeOK, SendersOwnedNext, PTL DEF Spec

-----------------------------------------------------------------------------

\* A sender a step takes away lost its source, or its port was hung up.
LEMMA LossHasCause ==
  ASSUME TypeOK, SendersOwned, [Next]_vars, NEW x \in senders \ senders'
  PROVE  \/ player'[x.player] # "online"
         \/ \E s \in Session : /\ session[s].phase = "mapped" /\ session'[s].phase = "closed"
                               /\ session[s].phone = session[x.player].phone
                               /\ x.ssrc \in PortsOf(s)
<1>0. x.player \in Session /\ player[x.player] = "online"
  BY DEF TypeOK, SendersOwned
\* a player that is destroyed is online no more
<1>1. ASSUME NEW gone, Destroy(gone) PROVE player'[x.player] # "online"
  BY <1>0, <1>1 DEF Destroy
<1>2. ASSUME NEW s \in Session, InitInserts(s) PROVE player'[x.player] # "online"
  BY <1>1, <1>2 DEF InitInserts
<1>3. ASSUME NEW s \in Session, InitArms(s) PROVE player'[x.player] # "online"
  BY <1>1, <1>3 DEF InitArms
<1>4. ASSUME NEW p \in Session, ReaperErases(p) PROVE player'[x.player] # "online"
  BY <1>1, <1>4 DEF ReaperErases
<1>5. ASSUME NEW p \in Session, PlayerDrops(p) PROVE player'[x.player] # "online"
  BY <1>0, <1>5 DEF PlayerDrops, TypeOK
<1>6. ASSUME NEW s \in Session, Stop(s)
      PROVE  /\ session[s].phase = "mapped" /\ session'[s].phase = "closed"
             /\ session[s].phone = session[x.player].phone
             /\ x.ssrc \in PortsOf(s)
  <2>1. x.player \in Source(session[s].phone) /\ x.ssrc \in PortsOf(s)
    BY <1>6 DEF Stop
  <2>2. session[s].phase = "mapped" /\ session'[s].phase = "closed"
    BY <1>6, ToFacts DEF Stop, Phase
  <2> QED
    BY <2>1, <2>2 DEF Source
<1>7. ASSUME NEW s \in Session,
             \/ InitFails(s) \/ InitFinds(s) \/ InitPlays(s) \/ Answered(s) \/ NotAnswered(s)
             \/ Start(s) \/ GraceOver(s) \/ ReaperChecks(s) \/ PlayerOnline(s) \/ PlayerFails(s)
      PROVE  FALSE
  BY <1>7
  DEF InitFails, InitFinds, InitPlays, Answered, NotAnswered, Start, GraceOver, ReaperChecks,
      PlayerOnline, PlayerFails
<1>8. ~RecvTimeout /\ ~UNCHANGED vars
  BY DEF RecvTimeout, vars
<1> QED
  BY <1>2, <1>3, <1>4, <1>5, <1>6, <1>7, <1>8 DEF Next, SipThread, Poller, Media

\* CallSession.cpp:212-278: no call's Init, Start or Stop takes the RTP of another
\* call away but through its port on the same camera, or its source.
THEOREM LossIsCaused == Spec => MediaLostOnlyWithCause
<1>1. TypeOK /\ SendersOwned /\ [Next]_vars =>
        [\A x \in senders \ senders' :
          \/ player'[x.player] # "online"
          \/ \E s \in Session : /\ session[s].phase = "mapped" /\ session'[s].phase = "closed"
                                /\ session[s].phone = session[x.player].phone
                                /\ x.ssrc \in PortsOf(s)]_vars
  BY LossHasCause
<1> QED
  BY <1>1, PoolTypeOK, MediaOwned, PTL DEF Spec, MediaLostOnlyWithCause

-----------------------------------------------------------------------------
(* The wait of GetLocalSdp *)

\* The variables keep their types, and a run that looks at tracks holds a source.
THEOREM WaitTypes == WaitSafety => []WaitTypeOK
<1>1. WaitInit => WaitTypeOK
  BY SdpWaitAssumption DEF WaitInit, WaitTypeOK, Medium, SourceId
<1>2. WaitTypeOK /\ [WaitNext]_waitVars => WaitTypeOK'
  <2> SUFFICES ASSUME WaitTypeOK, [WaitNext]_waitVars PROVE WaitTypeOK'
    OBVIOUS
  <2> USE SdpWaitAssumption DEF WaitTypeOK, Goes, SourceId
  <2>1. CASE SourceAppears
    BY <2>1 DEF SourceAppears
  <2>2. CASE SourceGoes
    BY <2>2 DEF SourceGoes
  <2>3. CASE TrackAdvances
    BY <2>3 DEF TrackAdvances
  <2>4. CASE Tick
    BY <2>4 DEF Tick, Early
  <2>5. CASE Find
    BY <2>5 DEF Find
  <2>6. CASE LookFor("video", "audio") \/ LookFor("audio", "ready")
    BY <2>6 DEF LookFor
  <2>7. CASE CheckReady \/ GenSdp \/ Post \/ Return
    BY <2>7 DEF CheckReady, GenSdp, Post, Return
  <2>8. CASE SemWait
    BY <2>8 DEF SemWait
  <2>9. CASE UNCHANGED waitVars
    BY <2>9 DEF waitVars
  <2>10. QED
    BY <2>1, <2>2, <2>3, <2>4, <2>5, <2>6, <2>7, <2>8, <2>9 DEF WaitNext, Player, Task
<1>3. QED
  BY <1>1, <1>2, PTL DEF WaitSafety

-----------------------------------------------------------------------------

\* The semaphore is posted when nothing is left of the task but its return.
Over == sem = 1 \/ caller = "back" => task \in {"return", "gone"}

\* Once the event thread is back in ProcessEvent, the task that refers to the
\* frame of GetLocalSdp touches nothing of it, whatever the deadline.
THEOREM TaskEndsWithWait == WaitSafety => []NoRunAfterReturn
<1>1. WaitInit => Over
  BY DEF WaitInit, Over
<1>2. WaitTypeOK /\ Over /\ [WaitNext]_waitVars => Over'
  <2> SUFFICES ASSUME WaitTypeOK, Over, [WaitNext]_waitVars PROVE Over'
    OBVIOUS
  <2> USE DEF Over, Goes
  <2>1. CASE Player \/ Tick
    BY <2>1 DEF Player, SourceAppears, SourceGoes, TrackAdvances, Tick
  <2>2. CASE Find
    BY <2>2 DEF Find
  <2>3. CASE LookFor("video", "audio") \/ LookFor("audio", "ready")
    BY <2>3 DEF LookFor
  <2>4. CASE CheckReady \/ GenSdp \/ Post \/ Return
    BY <2>4 DEF CheckReady, GenSdp, Post, Return
  <2>5. CASE SemWait
    BY <2>5 DEF SemWait
  <2>6. CASE UNCHANGED waitVars
    BY <2>6 DEF waitVars
  <2>7. QED
    BY <2>1, <2>2, <2>3, <2>4, <2>5, <2>6 DEF WaitNext, Task
<1>3. Over => NoRunAfterReturn
  BY DEF Over, NoRunAfterReturn
<1>4. QED
  BY <1>1, <1>2, <1>3, WaitTypes, PTL DEF WaitSafety

-----------------------------------------------------------------------------

Has(media) == media \in wanted => tracks[src][media] # "none"

IsReady(media) == media \in wanted => tracks[src][media] = "ready"

\* What a run of the task has made sure of by the time it is at a step, as long
\* as it is early.
Ensured ==
    /\ sdp = "made" => src # 0 /\ task \in {"post", "return", "gone"}
    /\ Early =>
          /\ task = "audio" => Has("video")
          /\ task = "ready" => \A media \in Medium : Has(media)
          /\ task = "gen" \/ sdp = "made" => \A media \in Medium : IsReady(media)

\* A track that was announced, or is ready, stays so.
LEMMA TracksStay ==
    ASSUME WaitTypeOK, Player \/ Tick
    PROVE  /\ src' = src /\ task' = task /\ sdp' = sdp /\ wanted' = wanted
           /\ Early' => Early
           /\ src # 0 => \A media \in Medium : /\ Has(media) => Has(media)'
                                               /\ IsReady(media) => IsReady(media)'
<1>1. CASE SourceAppears \/ SourceGoes \/ Tick
  BY <1>1, SdpWaitAssumption DEF SourceAppears, SourceGoes, Tick, Early, WaitTypeOK, Has, IsReady
<1>2. CASE TrackAdvances
  <2>1. src' = src /\ task' = task /\ sdp' = sdp /\ wanted' = wanted /\ (Early' => Early)
    BY <1>2 DEF TrackAdvances, Early
  <2>2. ASSUME NEW media \in Medium, src \in SourceId
        PROVE  /\ tracks[src][media] # "none" => tracks'[src][media] # "none"
               /\ tracks[src][media] = "ready" => tracks'[src][media] = "ready"
    <3>1. PICK m \in Medium, to \in {"added", "ready"} :
             /\ tracks' = [tracks EXCEPT ![current][m] = to]
             /\ tracks[current][m] = "ready" => to = "ready"
             /\ to = "added" => tracks[current][m] = "none"
             /\ tracks[current][m] # "ready"
      BY <1>2 DEF TrackAdvances
    <3>2. CASE src = current /\ m = media
      BY <3>1, <3>2, <2>2 DEF WaitTypeOK
    <3>3. CASE src # current \/ m # media
      BY <3>1, <3>3, <2>2 DEF WaitTypeOK
    <3>4. QED
      BY <3>2, <3>3
  <2>3. src # 0 => src \in SourceId
    BY SdpWaitAssumption DEF WaitTypeOK, SourceId
  <2>4. QED
    BY <2>1, <2>2, <2>3 DEF Has, IsReady
<1>3. QED
  BY <1>1, <1>2 DEF Player

\* An SDP made before the deadline has ready tracks for all that was offered, of
\* one source, however many sources come and go while the task looks.
THEOREM CompleteInTime == WaitSafety => []CompleteOrLate
<1>1. WaitInit => Ensured
  BY DEF WaitInit, Ensured
<1>2. WaitTypeOK /\ Ensured /\ [WaitNext]_waitVars => Ensured'
  <2> SUFFICES ASSUME WaitTypeOK, Ensured, [WaitNext]_waitVars PROVE Ensured'
    OBVIOUS
  <2>1. CASE Player \/ Tick
    <3>1. /\ src' = src /\ task' = task /\ sdp' = sdp /\ (Early' => Early)
          /\ src # 0 => \A media \in Medium : /\ Has(media) => Has(media)'
                                              /\ IsReady(media) => IsReady(media)'
      BY <2>1, TracksStay
    <3>2. \/ src # 0
          \/ task \notin {"audio", "ready", "gen"} /\ sdp # "made"
      BY DEF WaitTypeOK, Ensured
    <3>3. QED
      BY <3>1, <3>2 DEF Ensured, Medium
  <2>2. CASE Find
    BY <2>2 DEF Find, Goes, Ensured, Early
  <2>3. CASE LookFor("video", "audio")
    BY <2>3 DEF LookFor, Goes, Ensured, Early, Missing, Has, IsReady
  <2>4. CASE LookFor("audio", "ready")
    BY <2>4 DEF LookFor, Goes, Ensured, Early, Missing, Has, IsReady, Medium
  <2>5. CASE CheckReady
    <3>1. ASSUME NEW media \in Medium, tracks[src][media] # "added", Has(media)
          PROVE  IsReady(media)
      BY <2>5, <3>1 DEF CheckReady, WaitTypeOK, SourceId, Has, IsReady
    <3>2. QED
      BY <2>5, <3>1 DEF CheckReady, Goes, Ensured, Early, Has, IsReady
  <2>6. CASE GenSdp
    BY <2>6 DEF GenSdp, Goes, Ensured, Early, IsReady, WaitTypeOK
  <2>7. CASE Post \/ Return
    BY <2>7 DEF Post, Return, Goes, Ensured, Early, IsReady
  <2>8. CASE SemWait \/ UNCHANGED waitVars
    BY <2>8 DEF SemWait, waitVars, Ensured, Early, Has, IsReady
  <2>9. QED
    BY <2>1, <2>2, <2>3, <2>4, <2>5, <2>6, <2>7, <2>8 DEF WaitNext, Task
<1>3. WaitTypeOK /\ Ensured => CompleteOrLate
  BY DEF WaitTypeOK, Ensured, CompleteOrLate, IsReady
<1>4. QED
  BY <1>1, <1>2, <1>3, WaitTypes, PTL DEF WaitSafety
=============================================================================
