------------------------------- MODULE LocalSdp ------------------------------
(***************************************************************************)
(* The answer to an offer: genSdp in CallSession::GetLocalSdp, which walks *)
(* over the tracks of the camera and keeps, from track to track, what its  *)
(* helper getSdpLine found last.                                           *)
(*                                                                         *)
(* An SDP is the sequence of its lines: m= with its media, a=rtpmap with a *)
(* codec and its payload type, a=fmtp with a payload type, a= with a       *)
(* direction, and others.  Any of them may have the name of a codec in its *)
(* text, on its own (s=opus) or within a longer one (PCMA-WB).             *)
(*                                                                         *)
(* Left out: the words of a direction, "fmtp:" and a number within a line  *)
(* that is about something else.                                           *)
(***************************************************************************)
EXTENDS Integers, SequencesExt

CONSTANTS
    Offers,    \* the remote SDPs
    Cameras,   \* sequences of tracks: media, codec and their own SDP
    Garbage    \* what `int pt' may hold before anything is assigned to it

Media     == {"audio", "video"}
Direction == {"sendrecv", "sendonly", "recvonly"}

\* a direction that is an empty string
Unset == "unset"

\* a line with the names of codecs that occur in its text, and a track of a camera
SdpLine ==
    {line \in [is : STRING, of : STRING, names : SUBSET STRING, pt : Int] :
        line.is = "rtpmap" => line.pt \in Nat}
TrackOf == [media : Media, codec : STRING, sdp : Seq(SdpLine)]

ASSUME SdpAssumption ==
    Offers \subseteq Seq(SdpLine) /\ Cameras \subseteq Seq(TrackOf) /\ Garbage \subseteq Int

\* The SDP of a track of ZLMediaKit has no direction.
ASSUME CameraAssumption ==
    \A tracks \in Cameras : \A n \in DOMAIN tracks :
        \A line \in DOMAIN tracks[n].sdp : tracks[n].sdp[line].is # "dir"

VARIABLES
    offer,     \* m_remoteSdpStr
    ports,     \* the media with a local port: those Init found in the parsed offer
    camera,    \* src->getTracks()
    next,      \* the track genSdp comes to next
    recv,      \* the parameters recvRemoteAudio and recvRemoteVideo
    found,     \* pt, rtpmapLine and fmtpLine
    dir,       \* audioTransportType and videoTransportType
    sendPt,    \* m_sendAudioPt and m_sendVideoPt
    answer     \* the m= sections written so far, each with its track

vars == <<offer, ports, camera, next, recv, found, dir, sendPt, answer>>

Line(is, of, names, pt) == [is |-> is, of |-> of, names |-> names, pt |-> pt]
NoLine                  == Line("none", "none", {}, 0)
Lines(sdp)              == {sdp[i] : i \in DOMAIN sdp}

TypeOK ==
    /\ ports \subseteq Media
    /\ next \in 1..(Len(camera) + 1)
    /\ recv \in [Media -> BOOLEAN]
    /\ found.rtpmap \in Lines(offer) \cup {NoLine}
                       \cup UNION {Lines(camera[n].sdp) : n \in 1..(next - 1)}
    /\ found.fmtp = NoLine \/ found.fmtp.is = "fmtp"
    /\ dir \in [Media -> Direction \cup {Unset}]
    /\ sendPt \in [Media -> Int]
    /\ \A i \in DOMAIN answer :
          /\ answer[i].media \in Media
          /\ answer[i].dir \in Direction
          /\ answer[i].rtpmap # NoLine

Init ==
    /\ offer \in Offers
    /\ ports = {}
    /\ camera = <<>>
    /\ next = 1
    /\ recv = [media \in Media |-> FALSE]
    /\ found = [pt |-> 0, rtpmap |-> NoLine, fmtp |-> NoLine]
    /\ dir = [media \in Media |-> Unset]
    /\ sendPt = [audio |-> 0, video |-> 99]
    /\ answer = <<>>

\* Init has come to its end and the camera is there: genSdp begins
Begin(offered) ==
    /\ camera = <<>>
    /\ ports' = offered
    /\ camera' \in Cameras
    /\ recv' \in [Media -> BOOLEAN]
    /\ \E pt \in Garbage : found' = [found EXCEPT !.pt = pt]
    /\ UNCHANGED <<offer, next, dir, sendPt, answer>>

-----------------------------------------------------------------------------
(* getSdpLine *)

\* the digits of pt begin those of `other': "fmtp:9" is found in "fmtp:96"
Begins(pt, other) == \E k \in {1, 10, 100} : other \div k = pt /\ (pt = 0 => other = 0)

\* of the first n lines those that name the codec, whatever they are about
Naming(sdp, codec, n) == {i \in 1..n : codec \in sdp[i].names}

\* those sscanf reads a payload type from
Mapping(sdp, codec, n) == {i \in Naming(sdp, codec, n) : sdp[i].is = "rtpmap"}

\* the last line of a set, or the one before it was looked for
LastOf(sdp, lines, before) == IF lines = {} THEN before ELSE sdp[Max(lines)]

\* mistake: the payload type is not read again once there is one
KnownOnce(sdp, codec, n, before) ==
    LET mapped == Mapping(sdp, codec, n)
    IN  IF mapped = {} THEN before ELSE sdp[Min(mapped)].pt

\* pt once n lines were looked at: it keeps what it had if none is an rtpmap
Known(sdp, codec, n, before) ==
    LET mapped == Mapping(sdp, codec, n)
    IN  IF mapped = {} THEN before ELSE sdp[Max(mapped)].pt

\* the fmtp lines of the payload type known when they are looked at
Fitting(sdp, codec, before) ==
    {i \in DOMAIN sdp : sdp[i].is = "fmtp" /\ Begins(Known(sdp, codec, i, before), sdp[i].pt)}

\* the last line that names the codec wins, and the last fmtp line that fits
Search(sdp, codec, state) ==
    [pt     |-> Known(sdp, codec, Len(sdp), state.pt),
     rtpmap |-> LastOf(sdp, Naming(sdp, codec, Len(sdp)), state.rtpmap),
     fmtp   |-> LastOf(sdp, Fitting(sdp, codec, state.pt), state.fmtp)]

\* mistake: the first direction of the SDP
DirectionAnywhere(sdp, media) ==
    {j \in DOMAIN sdp : sdp[j].is = "dir" /\ sdp[j].of \in Direction}

\* the directions anywhere below an m= line of the media
DirectionBelow(sdp, media) ==
    {j \in DOMAIN sdp :
        /\ sdp[j].is = "dir" /\ sdp[j].of \in Direction
        /\ \E i \in 1..j : sdp[i].is = "m" /\ sdp[i].of = media}

\* the first of them counts, else what was known before, else sendrecv
Directions(sdp, before) ==
    [media \in Media |->
        LET below == DirectionBelow(sdp, media)
        IN  IF below # {} THEN sdp[Min(below)].of
            ELSE IF before[media] = Unset THEN "sendrecv" ELSE before[media]]

-----------------------------------------------------------------------------
(* genSdp *)

Track == camera[next]

\* an offered media has a local port, whatever its codecs are
HasPort(media) == media \in ports

\* mistake: no video port, no answer
NoRoomForAny(media) == ~HasPort("video")

\* only video asks for its port
NoRoom(media) == media = "video" /\ ~HasPort("video")

\* mistake: the check of the rtpmap line is forgotten
AnswersAll(remote) == TRUE

Answers(remote) == remote.rtpmap # NoLine

Mirrored == [sendrecv |-> "sendrecv", sendonly |-> "recvonly", recvonly |-> "sendonly"]

\* the fmtp line of the camera goes out under the payload type of the offer
Renumbered(own, remote) ==
    IF own.fmtp # NoLine /\ own.fmtp.pt = own.pt
      THEN [own.fmtp EXCEPT !.pt = remote.pt] ELSE own.fmtp

\* a section is written, and what it says is what will be sent
Write(media, remote, fmtp, directions) ==
    /\ sendPt' = [sendPt EXCEPT ![media] = remote.pt]
    /\ answer' = Append(answer,
          [media |-> media, port |-> HasPort(media), track |-> Track,
           pt |-> remote.pt, rtpmap |-> remote.rtpmap, fmtp |-> fmtp,
           dir |-> IF recv[media] THEN Mirrored[directions[media]] ELSE "sendonly"])

SkipTrack ==
    /\ next <= Len(camera) /\ NoRoom(Track.media)
    /\ next' = next + 1
    /\ UNCHANGED <<offer, ports, camera, recv, found, dir, sendPt, answer>>

\* after its rtpmap line the camera's own SDP is searched, into the same place
VideoTrack ==
    /\ next <= Len(camera) /\ Track.media = "video" /\ ~NoRoom("video")
    /\ next' = next + 1
    /\ LET remote == Search(offer, Track.codec, found)
           own    == Search(Track.sdp, Track.codec, remote)
           fmtp   == Renumbered(own, remote)
       IN  IF Answers(remote)
             THEN /\ found' = [own EXCEPT !.fmtp = fmtp]
                  /\ dir' = Directions(Track.sdp, Directions(offer, dir))
                  /\ Write("video", remote, fmtp, dir')
             ELSE /\ found' = remote
                  /\ dir' = Directions(offer, dir)
                  /\ UNCHANGED <<sendPt, answer>>
    /\ UNCHANGED <<offer, ports, camera, recv>>

\* no fmtp line
AudioTrack ==
    /\ next <= Len(camera) /\ Track.media = "audio" /\ ~NoRoom("audio")
    /\ next' = next + 1
    /\ LET remote == Search(offer, Track.codec, found)
       IN  /\ found' = remote
           /\ dir' = Directions(offer, dir)
           /\ IF Answers(remote) THEN Write("audio", remote, NoLine, dir')
              ELSE UNCHANGED <<sendPt, answer>>
    /\ UNCHANGED <<offer, ports, camera, recv>>

Next == SkipTrack \/ VideoTrack \/ AudioTrack

-----------------------------------------------------------------------------

\* the rtpmap lines of the offer that name the codec
Offered(codec) == {line \in Lines(offer) : line.is = "rtpmap" /\ codec \in line.names}

\* Every track of the camera whose codec and media were offered is answered.
OfferedIsAnswered ==
    \A n \in 1..(next - 1) :
        HasPort(camera[n].media) /\ Offered(camera[n].codec) # {} =>
            \E i \in DOMAIN answer : answer[i].track = camera[n]

\* the m= line of the first section of the media
FirstSection(i, media) ==
    /\ offer[i].is = "m" /\ offer[i].of = media
    /\ \A k \in 1..(i - 1) : offer[k].is # "m" \/ offer[k].of # media

\* the direction the offer states within this section
Stated(media) ==
    {offer[j].of : j \in {j \in DOMAIN offer :
        /\ offer[j].is = "dir" /\ offer[j].of \in Direction
        /\ \E i \in 1..j : /\ FirstSection(i, media)
                           /\ \A k \in (i + 1)..j : offer[k].is # "m"}}

\* A section the caller gave a direction is answered by the direction opposite
\* to it.  (One without a direction is answered by that of the next section.)
DirectionMirrored ==
    \A i \in DOMAIN answer :
        recv[answer[i].media] /\ Stated(answer[i].media) # {} =>
            \E d \in Stated(answer[i].media) : answer[i].dir = Mirrored[d]
=============================================================================
