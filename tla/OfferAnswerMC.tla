---------------------------- MODULE OfferAnswerMC -----------------------------
(* Offers of one or two sections, with and without lines that have the name of *)
(* a codec by the way, cameras of one or two tracks, and texts that are about  *)
(* the parser only.                                                            *)
EXTENDS OfferAnswer

m(media)       == Line("m", media, {}, 5000)
map(codec, pt) == Line("rtpmap", codec, {codec}, pt)
fmtp(pt)       == Line("fmtp", "", {}, pt)
attr(d)        == Line("dir", d, {}, 0)
other(l)       == Line(l, "", {}, 0)
junk           == other("junk")
empty         == other("empty")

Attributes == {<<>>, <<attr("sendonly")>>, <<attr("recvonly")>>, <<attr("inactive")>>}

AudioSections ==
    {<<m("audio")>> \o codecs \o d :
        codecs \in {<<>>, <<map("PCMA", 8)>>, <<map("PCMU", 0), map("PCMA", 8)>>,
                    <<map("opus", 9), fmtp(9)>>},
        d \in Attributes}

VideoSections ==
    {<<m("video")>> \o codecs \o d :
        codecs \in {<<map("H265", 98)>>, <<map("H264", 97), fmtp(97)>>,
                    <<fmtp(99), map("H264", 97), map("H264", 99), fmtp(97)>>},
        d \in Attributes}

Header   == <<other("v"), other("o"), other("s"), other("c"), other("t")>>
NoC      == SelectSeq(Header, LAMBDA line : line.is # "c")
NoNumber == Line("m", "audio", {}, -1)

Answerable ==
    AudioSections \cup VideoSections
    \cup {a \o v : a \in AudioSections, v \in VideoSections}
    \cup {v \o a : a \in AudioSections, v \in VideoSections}

\* with an empty line before the last section, with c= in the section only, with a
\* port that is none
Odd == {Header \o a \o <<empty>> \o v : a \in AudioSections, v \in VideoSections}
       \cup {NoC \o <<m("video"), other("c"), map("H264", 97)>>, Header \o <<NoNumber>>}

\* s=opus, a=label:opus, a=fmtp:9 opus, a=rtpmap:105 PCMA-WB
named(l, codec)    == Line(l, "", {codec}, 0)
fmtpOf(codec, pt)  == Line("fmtp", "", {codec}, pt)
longer(codec, pt)  == Line("rtpmap", "longer", {codec, "longer"}, pt)

ByTheWay ==
    {[n \in DOMAIN Header |-> IF Header[n].is = "s" THEN s ELSE Header[n]] \o a \o v :
        s \in {named("s", codec) : codec \in {"opus", "PCMA", "H264"}} \cup {other("s")},
        a \in {<<m("audio")>> \o codecs :
                 codecs \in {<<map("PCMA", 8)>>, <<map("PCMU", 0), named("a", "opus")>>,
                            <<map("opus", 9), fmtpOf("opus", 9)>>,
                            <<longer("PCMA", 105), map("PCMA", 8), named("a", "PCMA")>>,
                            <<map("PCMA", 8), longer("PCMA", 105)>>}},
        v \in {<<m("video")>> \o codecs :
                 codecs \in {<<map("H265", 98)>>, <<longer("H264", 98), fmtp(98)>>,
                            <<fmtpOf("H264", 97), map("H264", 97), map("VP8", 96)>>,
                            <<map("H264", 99), fmtpOf("H264", 99), named("junk", "H264")>>}}}

-----------------------------------------------------------------------------
(* The parser.  The lines of a text are numbered, the media is one the program *)
(* does not answer.                                                             *)

Numbered(letters) == [n \in DOMAIN letters |-> Line(letters[n], "text", {}, n)]

Long  == Numbered(<<"v", "o", "s", "i", "u", "e", "p", "c", "b", "t", "r", "t", "r", "z",
                    "k", "a", "m", "i", "c", "c", "b", "k", "a", "m", "a">>)
Short == Numbered(<<"v", "s", "o", "i", "c", "t", "r", "a", "a", "m", "i", "b", "a", "m">>)

Stray ==
    {junk, empty} \cup {Line(l, "text", {}, 99) : l \in P!Field \cup {"r", "y"}}

Spoilt(s)     == {[s EXCEPT ![n].of = "bad"] : n \in DOMAIN s}
Swapped(s)    == {[s EXCEPT ![i] = s[j], ![j] = s[i]] : i, j \in DOMAIN s}
Inserted(s, lines) == {InsertAt(s, n, line) : n \in 1..(Len(s) + 1), line \in lines}
Removed(s)    == {RemoveAt(s, n) : n \in DOMAIN s}
Chosen(s)     == {SelectSeq(s, LAMBDA line : line.pt \in keep) : keep \in SUBSET DOMAIN s}

Edits(s) == Spoilt(s) \cup Swapped(s) \cup Inserted(s, Stray) \cup Removed(s)

Texts ==
    Edits(Long) \cup Edits(Short)
    \cup UNION {Inserted(s, {junk, empty}) : s \in Inserted(Short, {junk, empty})}
    \cup UNION {Edits(s) : s \in Removed(Short)}
    \cup Chosen(Short)

MCOffers == {Header \o sections : sections \in Answerable} \cup Odd \cup ByTheWay \cup Texts

-----------------------------------------------------------------------------

\* the camera's own SDP is about the one track, without a direction
Tracked(media, codec, pt, more) ==
    [media |-> media, codec |-> codec, sdp |-> <<m(media), map(codec, pt)>> \o more]

Videos == {Tracked("video", "H264", 96, <<fmtp(96)>>), Tracked("video", "H264", 96, <<>>),
           Tracked("video", "H265", 96, <<fmtp(96)>>)}
Audios == {Tracked("audio", "PCMA", 8, <<>>), Tracked("audio", "opus", 111, <<>>)}

MCCameras ==
    {<<t>> : t \in Videos \cup Audios}
    \cup {<<v, a>> : v \in Videos, a \in Audios}
    \cup {<<a, v>> : v \in Videos, a \in Audios}
=============================================================================
