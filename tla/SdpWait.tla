------------------------------- MODULE SdpWait -------------------------------
(***************************************************************************)
(* How CallSession::GetLocalSdp waits for the camera: the event thread     *)
(* blocks on a semaphore while a delayed task on a poller thread looks,    *)
(* again and again, whether the source and its tracks are there.  The task *)
(* holds the caller's frame by reference (`[&]'), so it must not run once  *)
(* the caller is back.                                                     *)
(*                                                                         *)
(* The source appears, gets its tracks and goes away again on the threads  *)
(* of the player, in between any two reads of the task.                    *)
(***************************************************************************)
EXTENDS Naturals

CONSTANTS
    Deadline,    \* time until waitEnd: 10 s in the code
    MaxSource    \* bound: how many times the source appears

ASSUME SdpWaitAssumption == Deadline \in Nat \ {0} /\ MaxSource \in Nat

VARIABLES
    now,         \* time since the call, no more is counted after waitEnd
    wanted,      \* the media of the offer, those with a local port
    tracks,      \* the tracks of each source that ever appeared
    current,     \* the source MediaSource::find finds, or 0
    task,        \* where the task is: "idle" between two runs
    src,         \* the source this run of the task holds, or 0
    sdp,         \* m_localSdpStr
    sem,         \* the semaphore
    caller       \* the event thread

waitVars == <<now, wanted, tracks, current, task, src, sdp, sem, caller>>

Medium   == {"audio", "video"}
SourceId == 1..MaxSource

WaitTypeOK ==
    /\ now \in 0..Deadline
    /\ wanted \in SUBSET Medium \ {{}}
    /\ tracks \in [SourceId -> [Medium -> {"none", "added", "ready"}]]
    /\ current \in 0..MaxSource
    /\ task \in {"idle", "video", "audio", "ready", "gen", "post", "return", "gone"}
    /\ src \in 0..MaxSource
    /\ task \in {"video", "audio", "ready", "gen"} => src # 0
    /\ sdp \in {"empty", "made"}
    /\ sem \in {0, 1}
    /\ caller \in {"waits", "back"}

\* CallSession::Init fails when neither media was offered
WaitInit ==
    /\ now = 0
    /\ wanted \in SUBSET Medium \ {{}}
    /\ tracks = [s \in SourceId |-> [media \in Medium |-> "none"]]
    /\ current = 0
    /\ task = "idle"
    /\ src = 0
    /\ sdp = "empty"
    /\ sem = 0
    /\ caller = "waits"

Early == now < Deadline

-----------------------------------------------------------------------------
(* The player and the clock *)

\* a new source takes the place of the one that went away
SourceAppears ==
    /\ current = 0
    /\ \E s \in SourceId :
          /\ \A t \in s..MaxSource : tracks[t] = [media \in Medium |-> "none"] /\ src # t
          /\ current' = s
    /\ UNCHANGED <<now, wanted, tracks, task, src, sdp, sem, caller>>

SourceGoes ==
    /\ current # 0
    /\ current' = 0
    /\ UNCHANGED <<now, wanted, tracks, task, src, sdp, sem, caller>>

TrackAdvances ==
    /\ current # 0
    /\ \E media \in Medium :
          \/ /\ tracks[current][media] = "none"
             /\ tracks' = [tracks EXCEPT ![current][media] = "added"]
          \/ /\ tracks[current][media] = "added"
             /\ tracks' = [tracks EXCEPT ![current][media] = "ready"]
    /\ UNCHANGED <<now, wanted, current, task, src, sdp, sem, caller>>

Tick ==
    /\ Early
    /\ now' = now + 1
    /\ UNCHANGED <<wanted, tracks, current, task, src, sdp, sem, caller>>

-----------------------------------------------------------------------------
(* The task *)

\* what this run of the task does next, or "idle": it is to be run again
Goes(step) == task' = step

\* mistake: only a source that is there is waited for up to waitEnd
FindForever ==
    /\ task = "idle"
    /\ src' = current
    /\ IF current = 0 THEN Goes("idle") ELSE Goes("video")
    /\ UNCHANGED <<now, wanted, tracks, current, sdp, sem, caller>>

Find ==
    /\ task = "idle"
    /\ src' = current
    /\ IF current # 0 THEN Goes("video")
       ELSE IF Early THEN Goes("idle") ELSE Goes("post")
    /\ UNCHANGED <<now, wanted, tracks, current, sdp, sem, caller>>

\* mistake: an audio track is not waited for
MissingVideoOnly(media) == media = "video" /\ media \in wanted /\ tracks[src][media] = "none"

\* the camera has not announced a track of an offered media
Missing(media) == media \in wanted /\ tracks[src][media] = "none"

LookFor(media, next) ==
    /\ task = media
    /\ IF Missing(media) /\ Early THEN Goes("idle") ELSE Goes(next)
    /\ UNCHANGED <<now, wanted, tracks, current, src, sdp, sem, caller>>

CheckReady ==
    /\ task = "ready"
    /\ IF (\E media \in Medium : tracks[src][media] = "added") /\ Early
         THEN Goes("idle") ELSE Goes("gen")
    /\ UNCHANGED <<now, wanted, tracks, current, src, sdp, sem, caller>>

GenSdp ==
    /\ task = "gen"
    /\ sdp' = "made"
    /\ Goes("post")
    /\ UNCHANGED <<now, wanted, tracks, current, src, sem, caller>>

Post ==
    /\ task = "post"
    /\ sem' = 1
    /\ Goes("return")
    /\ UNCHANGED <<now, wanted, tracks, current, src, sdp, caller>>

\* mistake: the task asks to be run again
ReturnTrue ==
    /\ task = "return"
    /\ Goes("idle")
    /\ UNCHANGED <<now, wanted, tracks, current, src, sdp, sem, caller>>

\* the task returns false, the poller drops it
Return ==
    /\ task = "return"
    /\ Goes("gone")
    /\ UNCHANGED <<now, wanted, tracks, current, src, sdp, sem, caller>>

Task ==
    \/ Find \/ LookFor("video", "audio") \/ LookFor("audio", "ready")
    \/ CheckReady \/ GenSdp \/ Post \/ Return

-----------------------------------------------------------------------------

\* the event thread goes on, and GetLocalSdp's frame is gone
SemWait ==
    /\ caller = "waits" /\ sem = 1
    /\ sem' = 0
    /\ caller' = "back"
    /\ UNCHANGED <<now, wanted, tracks, current, task, src, sdp>>

Player == SourceAppears \/ SourceGoes \/ TrackAdvances

WaitNext == Player \/ Tick \/ Task \/ SemWait

WaitSafety == WaitInit /\ [][WaitNext]_waitVars

\* time passes, the poller and the event thread run; nothing is assumed of the
\* camera
WaitSpec == WaitSafety /\ WF_waitVars(Tick) /\ WF_waitVars(Task) /\ WF_waitVars(SemWait)

-----------------------------------------------------------------------------

\* Once the event thread has left GetLocalSdp, the task does nothing any more
\* but return: what it refers to is gone.
NoRunAfterReturn == caller = "back" => task \in {"return", "gone"}

\* Before the deadline an SDP is only made of tracks that are all there and
\* ready, those of one source, however the camera comes and goes meanwhile.
CompleteOrLate ==
    sdp = "made" /\ Early => \A media \in wanted : tracks[src][media] = "ready"

\* The event thread, on which every other call waits too, gets away in the end
\* whatever the camera does.
EventThreadGoesOn == <>(caller = "back")
=============================================================================
