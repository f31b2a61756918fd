------------------------------- MODULE Codecs -------------------------------
(***************************************************************************)
(* Codec negotiation: sip_client/codecs.py, over the fields of an SDP body *)
(* that sip_message.py parses.  A codec in use is its name and its payload *)
(* type, static or not; an SDP body is the payload types it offers, the    *)
(* one it gives to each codec we know and to telephone-event (-1: none).   *)
(***************************************************************************)
EXTENDS Integers, Sequences

Names == {"G722", "PCMU", "PCMA"}

Static == [n \in Names |-> CASE n = "PCMU" -> 0 [] n = "PCMA" -> 8 [] n = "G722" -> 9]

\* PRESETS: the orders a user can select.
Presets == {<<"G722", "PCMU", "PCMA">>, <<"PCMU", "PCMA", "G722">>,
            <<"PCMA", "PCMU", "G722">>, <<"PCMU", "PCMA">>, <<"PCMA", "PCMU">>}

Supported == <<"G722", "PCMU", "PCMA">>

PayloadTypes == 0..127

ComfortNoise == 13

Codec == [name : Names, pt : PayloadTypes]

\* None: no codec fits.
NoCodec == [name |-> "none", pt |-> -1]

As(n) == [name |-> n, pt |-> Static[n]]

Allowed(order) == {order[i] : i \in 1..Len(order)}

\* What parse_sdp() can return: it enters the payload type of an rtpmap, and the
\* static one of each codec that the m= line lists, among those offered.
WellParsed(sdp) ==
    /\ sdp.pts \subseteq PayloadTypes
    /\ \A n \in Names : sdp.named[n] # -1 => sdp.named[n] \in sdp.pts
    /\ sdp.event # -1 => sdp.event \in sdp.pts
-----------------------------------------------------------------------------
\* fallback()
FallbackCodec(order) == As(IF order = Supported THEN "PCMU" ELSE order[1])

\* has_audio_offer()
HasAudioOffer(sdp) ==
    \/ \E n \in Names : sdp.named[n] # -1
    \/ sdp.pts \ {sdp.event, ComfortNoise} # {}

\* The first of the names S in the order.
FirstOf(order, S) ==
    order[CHOOSE i \in 1..Len(order) :
            order[i] \in S /\ \A j \in 1..(i - 1) : order[j] \notin S]

ListedIn(sdp) == {n \in Names : Static[n] \in sdp.pts}
NamedIn(sdp) == {n \in Names : sdp.named[n] # -1}

\* choose(): static payload types first, then codecs named by an rtpmap.
Choose(sdp, order) ==
    IF Allowed(order) \cap ListedIn(sdp) # {} THEN As(FirstOf(order, ListedIn(sdp)))
    ELSE IF Allowed(order) \cap NamedIn(sdp) # {}
    THEN LET n == FirstOf(order, NamedIn(sdp)) IN [name |-> n, pt |-> sdp.named[n]]
    ELSE IF HasAudioOffer(sdp) THEN NoCodec
    ELSE FallbackCodec(order)

\* Mutant: a dynamic payload type is matched by its number, too.
KeepByNumber(current, sdp, order) ==
    IF current.name \notin Allowed(order) THEN Choose(sdp, order)
    ELSE IF current.pt \in sdp.pts THEN current
    ELSE IF current.name \in NamedIn(sdp)
    THEN [current EXCEPT !.pt = sdp.named[current.name]]
    ELSE IF sdp.pts = {} /\ NamedIn(sdp) = {} THEN current
    ELSE Choose(sdp, order)

\* keep_or_choose(): the codec in use stays when it is allowed and still offered,
\* a dynamic one by its name, or when nothing at all is offered.
KeepOrChoose(current, sdp, order) ==
    IF current.name \notin Allowed(order) THEN Choose(sdp, order)
    ELSE IF current.pt < 96 /\ current.pt \in sdp.pts THEN current
    ELSE IF current.name \in NamedIn(sdp)
    THEN [current EXCEPT !.pt = sdp.named[current.name]]
    ELSE IF sdp.pts = {} /\ NamedIn(sdp) = {} THEN current
    ELSE Choose(sdp, order)
-----------------------------------------------------------------------------
\* An allowed codec under a payload type that was offered, unless no audio was.
ListedAndAllowed(c, sdp, order) ==
    c.name \in Allowed(order) /\ (HasAudioOffer(sdp) => c.pt \in sdp.pts)

\* What either must return: that payload type is the codec's own, by its number or
\* by an rtpmap of this body.
Acceptable(c, sdp, order) ==
    /\ ListedAndAllowed(c, sdp, order)
    /\ HasAudioOffer(sdp) => c.pt \in {Static[c.name], sdp.named[c.name]}

\* A payload type below 96 that an rtpmap gave to a codec with another number.
Unassigned(c) == c.pt < 96 /\ c.pt # Static[c.name]
=============================================================================
