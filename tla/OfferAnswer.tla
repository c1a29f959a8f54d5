------------------------------ MODULE OfferAnswer -----------------------------
(***************************************************************************)
(* What becomes of the body of an INVITE: CallSession::Init parses it and  *)
(* decides by what was parsed (SdpParse), and GetLocalSdp answers by what  *)
(* it finds in the same body searched as a text (LocalSdp).                *)
(***************************************************************************)
EXTENDS LocalSdp

VARIABLES
    rest, step, sdp,   \* of sdp_message_parse, sdp is m_remoteSdp
    fate               \* of the call

P == INSTANCE SdpParse WITH text <- offer

parseVars == <<rest, step, sdp>>
callVars  == <<vars, parseVars, fate>>

CallTypeOK ==
    /\ TypeOK
    /\ rest \in Seq(Lines(offer))
    /\ step \in DOMAIN P!Calls \cup {"end", "error"}
    /\ sdp \in Seq([P!Field -> Seq(Lines(offer))])
    /\ fate \in {"parsing", "refused", "thrown", "answering"}

CallInit ==
    /\ Init
    /\ P!Init
    /\ fate = "parsing"

Parses ==
    /\ P!Next
    /\ UNCHANGED <<vars, fate>>

\* eXosip_get_audio_media, eXosip_get_video_media: the first section of a media
Sections(media) == {n \in P!Medias : sdp[n].m[1].of = media}
FirstOf(media)  == sdp[Min(Sections(media))].m[1]
Present         == {media \in Media : Sections(media) # {}}

\* stoi of a port that is none, or a c= line that only the sections have
Throws ==
    \/ \E media \in Present : FirstOf(media).pt < 0
    \/ Present # {} /\ sdp[1].c = <<>>

InitRefuses ==
    /\ fate = "parsing"
    /\ P!Rejected \/ (P!Accepted /\ Present = {})
    /\ fate' = "refused"
    /\ UNCHANGED <<vars, parseVars>>

\* an exception nobody catches, or a null pointer: the worker is gone
InitThrows ==
    /\ fate = "parsing"
    /\ P!Accepted /\ Throws
    /\ fate' = "thrown"
    /\ UNCHANGED <<vars, parseVars>>

InitGoesOn ==
    /\ fate = "parsing"
    /\ P!Accepted /\ Present # {} /\ ~Throws
    /\ fate' = "answering"
    /\ Begin(Present)
    /\ UNCHANGED parseVars

GenSdp ==
    /\ fate = "answering"
    /\ Next
    /\ UNCHANGED <<parseVars, fate>>

CallNext == Parses \/ InitRefuses \/ InitThrows \/ InitGoesOn \/ GenSdp

Spec == CallInit /\ [][CallNext]_callVars

-----------------------------------------------------------------------------
(* Properties *)

\* What the parser has done when Init looks at it
AcceptsGrammar      == fate = "parsing" => P!AcceptsGrammar
PrintsWhatWasParsed == fate = "parsing" => P!PrintsWhatWasParsed

\* the attributes the parser has kept
Parsed == UNION {Lines(sdp[n].a) : n \in DOMAIN sdp}

\* the body has lines behind the end of its SDP, which the parser did not read
GoesOn == Len(rest) > 1

\* A section repeats a line of the offer that names the codec, under the payload type
\* of an rtpmap line that does: of the line it repeats, if this is one.
FollowsOffer(section, lines) ==
    LET codec == section.track.codec
    IN  /\ section.rtpmap \in Lines(offer) /\ codec \in section.rtpmap.names
        /\ \E line \in Offered(codec) : line \in lines /\ line.pt = section.pt
        /\ section.rtpmap.is = "rtpmap" => section.pt = section.rtpmap.pt

\* A section for a codec that an rtpmap line of the offer names has its payload type
\* from such a line, and from one the parser has kept unless the body goes on behind
\* the SDP; the last section of a media tells what is sent.  Lines that only name the
\* codec do not change that, nor does the camera's own SDP, which is searched in
\* between and has payload types of its own.
AnsweredAsOffered ==
    \A i \in DOMAIN answer :
        /\ Offered(answer[i].track.codec) # {} =>
               FollowsOffer(answer[i], IF GoesOn THEN Lines(offer) ELSE Parsed)
        /\ (\A j \in DOMAIN answer : j > i => answer[j].media # answer[i].media)
           => sendPt[answer[i].media] = answer[i].pt
=============================================================================
