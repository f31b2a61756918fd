-------------------------- MODULE RtpSession_proof --------------------------
(***************************************************************************)
(* Proofs about RtpSession for every value of its constants: what choose() *)
(* and keep_or_choose() return, the codec in use, the receive watchdog,    *)
(* the latch, the keys heard and what is sent.  They touch different       *)
(* variables, so each has an invariant of its own.                         *)
(***************************************************************************)
EXTENDS RtpSession, TLAPS

\* RTP is on only in a call that is up.
WatchInv ==
    /\ {txOn, expects, watchdog} \subseteq BOOLEAN
    /\ call \in {"none", "early", "up"} /\ socket \in {"none", "current", "left", "closing"}
    /\ socket = "current" => call = "up"
    /\ WatchdogGuardsCall

CodecInv ==
    /\ scenario \in Scenarios /\ order \in Presets /\ codec \in Codec
    /\ AnswerIsAcceptable

Packet == [addr : Addrs \cup {"sdp", "nat"}, ssrc : {1, 2}, seq : Int]

Peer == [at : {"sdp", "nat"}, seq : Int, alive : BOOLEAN]

Remembered == [addr : Addrs \cup {"sdp", "nat", "none"}, ssrc : 0..2, seq : Int,
               count : 0..(LearnCount - 1)]

\* The last packets of s are those that c counts: of one address and stream, and in
\* sequence.
EndsInRun(s, c) ==
    /\ c.count <= Len(s)
    /\ \A i \in 1..Len(s) :
          i > Len(s) - c.count => s[i].addr = c.addr /\ s[i].ssrc = c.ssrc
    /\ \A i \in 1..(Len(s) - 1) :
          i > Len(s) - c.count => Follows(s[i].seq, s[i + 1].seq)
    /\ c.count > 0 => s[Len(s)].seq = c.seq

LatchInv ==
    /\ recent \in Seq(Packet) /\ cand \in Remembered
    /\ peer \in Peer
    /\ Len(recent) <= LearnCount /\ EndsInRun(recent, cand)

Key == [ts : Nat \ {0}, mark : BOOLEAN]

Budget == [deals : Int, moves : Int, strays : Int, odd : Int, presses : Int, ticks : Int,
           digits : Int]

\* Keys pressed so far.
Made == scenario.presses - left.presses

\* Packets arrive in the order of the presses, and the one with the marker before the
\* others of its press; one of a press that arrived already is of the press heard last.
InOrder ==
    \A i \in 1..Len(net) :
       /\ \A p \in arrived : p <= net[i].ts /\ (p = net[i].ts /\ Open => p = rxTs)
       /\ net[i].mark => net[i].ts \notin arrived
       /\ \A j \in 1..Len(net) :
             i < j => net[i].ts <= net[j].ts /\ (net[j].mark => net[i].ts < net[j].ts)

HeardOnce == \A p \in 1..scenario.presses : heard[p] = IF p \in arrived THEN 1 ELSE 0

KeyInv ==
    /\ scenario \in Scenarios /\ left \in Budget
    /\ Made \in 0..scenario.presses
    /\ net \in Seq(Key) /\ \A i \in 1..Len(net) : net[i].ts <= Made
    /\ arrived \subseteq 1..Made /\ rxTs \in arrived \cup {0}
    /\ heard \in [1..scenario.presses -> Nat]
    /\ mangled \/ (InOrder /\ HeardOnce)

\* Whatever is sent next has the timestamp of tx: an event keeps it, and what was sent
\* last is before it, or of the same event.
SendInv ==
    /\ txOn \in BOOLEAN /\ paused \in Nat
    /\ tx \in [ts : Nat, buffer : Nat, queue : Nat]
    /\ tone \in [active : BOOLEAN, ts : Nat, dur : Nat, ends : Nat]
    /\ out \in [kind : {"none", "audio", "event"}, ts : Nat, dur : Nat, end : BOOLEAN]
    /\ tone.active => txOn /\ tone.ts = tx.ts
    /\ out # Nothing => out.kind # "none" /\ out.ts <= tx.ts
    /\ out.kind = "audio" => out.ts < tx.ts
    /\ out.end => out.ts + out.dur < tx.ts
-----------------------------------------------------------------------------
(* Choosing a codec, for every SDP body that parse_sdp() can produce and every order *)
(* that a user can select.                                                           *)

\* The search of choose() finds a name that is both allowed and wanted.
LEMMA FirstOfFinds ==
    ASSUME NEW prefs \in Presets, NEW S, Allowed(prefs) \cap S # {}
    PROVE  FirstOf(prefs, S) \in Allowed(prefs) \cap S
<1>. DEFINE Found(i) == /\ i \in 1..Len(prefs) /\ prefs[i] \in S
                        /\ \A j \in 1..(i - 1) : prefs[j] \notin S
<1>1. \/ Len(prefs) = 2
      \/ Len(prefs) = 3
  BY DEF Presets, Supported
<1>2. PICK k \in 1..Len(prefs) : prefs[k] \in S
  BY DEF Allowed
<1>3. \E i \in 1..Len(prefs) : Found(i)
  <2>1. CASE prefs[1] \in S
    BY <1>1, <2>1
  <2>2. CASE prefs[1] \notin S /\ prefs[2] \in S
    BY <1>1, <2>2
  <2>3. CASE prefs[1] \notin S /\ prefs[2] \notin S
    <3>1. k = 3 /\ Len(prefs) = 3
      BY <1>1, <1>2, <2>3
    <3>. QED  BY <1>2, <2>3, <3>1
  <2>. QED  BY <2>1, <2>2, <2>3
<1>. DEFINE i == CHOOSE i \in 1..Len(prefs) :
                    prefs[i] \in S /\ \A j \in 1..(i - 1) : prefs[j] \notin S
<1>4. i \in 1..Len(prefs) /\ prefs[i] \in S
  BY <1>3
<1>. QED  BY <1>4 DEF FirstOf, Allowed

\* The fallback is a codec that is allowed.
LEMMA FallbackAllowed ==
    ASSUME NEW prefs \in Presets
    PROVE  FallbackCodec(prefs).name \in Allowed(prefs)
<1>1. CASE prefs = Supported
  <2>1. prefs[2] = "PCMU" /\ Len(prefs) = 3
    BY <1>1 DEF Supported
  <2>. QED  BY <1>1, <2>1 DEF FallbackCodec, As, Allowed
<1>2. CASE prefs # Supported
  <2>1. 1 \in 1..Len(prefs)
    BY DEF Presets, Supported
  <2>. QED  BY <1>2, <2>1 DEF FallbackCodec, As, Allowed
<1>. QED  BY <1>1, <1>2

\* choose() answers nothing, or a codec that the user allows under a payload type
\* that the body offers and that is this codec's, by its number or by an rtpmap of the
\* body; without audio in the body, one that is allowed.
THEOREM ChooseAcceptable ==
    ASSUME NEW prefs \in Presets, NEW sdp, WellParsed(sdp)
    PROVE  Choose(sdp, prefs) = NoCodec \/ Acceptable(Choose(sdp, prefs), sdp, prefs)
<1>1. CASE Allowed(prefs) \cap ListedIn(sdp) # {}
  <2>. DEFINE n == FirstOf(prefs, ListedIn(sdp))
  <2>1. n \in Allowed(prefs) \cap ListedIn(sdp)
    BY <1>1, FirstOfFinds
  <2>2. As(n).name = n /\ As(n).pt = Static[n]
    BY DEF As
  <2>. HIDE DEF n
  <2>3. Choose(sdp, prefs) = As(n)
    BY <1>1 DEF Choose, n
  <2>4. Static[n] \in sdp.pts
    BY <2>1 DEF ListedIn
  <2>. QED  BY <2>1, <2>2, <2>3, <2>4 DEF Acceptable, ListedAndAllowed
<1>2. CASE Allowed(prefs) \cap ListedIn(sdp) = {} /\ Allowed(prefs) \cap NamedIn(sdp) # {}
  <2>. DEFINE n == FirstOf(prefs, NamedIn(sdp))
  <2>1. n \in Allowed(prefs) \cap NamedIn(sdp)
    BY <1>2, FirstOfFinds
  <2>. HIDE DEF n
  <2>2. Choose(sdp, prefs) = [name |-> n, pt |-> sdp.named[n]]
    BY <1>2 DEF Choose, n
  <2>3. sdp.named[n] \in sdp.pts
    BY <2>1 DEF NamedIn, WellParsed
  <2>. QED  BY <2>1, <2>2, <2>3 DEF Acceptable, ListedAndAllowed
<1>3. CASE /\ Allowed(prefs) \cap ListedIn(sdp) = {}
           /\ Allowed(prefs) \cap NamedIn(sdp) = {}
  BY <1>3, FallbackAllowed DEF Choose, Acceptable, ListedAndAllowed
<1>. QED  BY <1>1, <1>2, <1>3

LEMMA FallbackIsCodec ==
    ASSUME NEW prefs \in Presets
    PROVE  FallbackCodec(prefs) \in Codec
<1>1. \A n \in Names : As(n) \in Codec
  BY DEF As, Codec, Static, Names, PayloadTypes
<1>2. "PCMU" \in Names /\ prefs[1] \in Names
  BY DEF Presets, Names
<1>. QED  BY <1>1, <1>2 DEF FallbackCodec

\* What either returns is a codec that RTP can carry, unless it is nothing.
LEMMA ChooseReturnsCodec ==
    ASSUME NEW prefs \in Presets, NEW sdp, WellParsed(sdp)
    PROVE  Choose(sdp, prefs) \in Codec \cup {NoCodec}
<1>1. \A n \in Names : As(n) \in Codec
  BY DEF As, Codec, Static, Names, PayloadTypes
<1>2. Allowed(prefs) \subseteq Names
  BY DEF Allowed, Presets, Names
<1>3. FallbackCodec(prefs) \in Codec
  BY FallbackIsCodec
<1>4. ASSUME Allowed(prefs) \cap ListedIn(sdp) # {}
      PROVE  FirstOf(prefs, ListedIn(sdp)) \in Names
  BY <1>2, <1>4, FirstOfFinds
<1>5. ASSUME Allowed(prefs) \cap NamedIn(sdp) # {}
      PROVE  [name |-> FirstOf(prefs, NamedIn(sdp)),
              pt |-> sdp.named[FirstOf(prefs, NamedIn(sdp))]] \in Codec
  <2>1. FirstOf(prefs, NamedIn(sdp)) \in Names \cap NamedIn(sdp)
    BY <1>2, <1>5, FirstOfFinds
  <2>2. sdp.named[FirstOf(prefs, NamedIn(sdp))] \in PayloadTypes
    BY <2>1 DEF NamedIn, WellParsed
  <2>. QED  BY <2>1, <2>2 DEF Codec
<1>. QED  BY <1>1, <1>3, <1>4, <1>5 DEF Choose

LEMMA KeepOrChooseReturnsCodec ==
    ASSUME NEW prefs \in Presets, NEW sdp, WellParsed(sdp), NEW current \in Codec
    PROVE  KeepOrChoose(current, sdp, prefs) \in Codec \cup {NoCodec}
<1>1. ASSUME current.name \in NamedIn(sdp)
      PROVE  [current EXCEPT !.pt = sdp.named[current.name]] \in Codec
  <2>1. sdp.named[current.name] \in PayloadTypes
    BY <1>1 DEF NamedIn, WellParsed
  <2>. QED  BY <2>1 DEF Codec
<1>. QED  BY <1>1, ChooseReturnsCodec DEF KeepOrChoose

\* keep_or_choose(), from any codec in use, returns nothing or what choose() may, except
\* that it keeps by its number a codec whose payload type is neither static nor dynamic.
THEOREM KeepOrChooseAcceptable ==
    ASSUME NEW prefs \in Presets, NEW sdp, WellParsed(sdp),
           NEW current \in Codec
    PROVE  \/ KeepOrChoose(current, sdp, prefs) = NoCodec
           \/ Acceptable(KeepOrChoose(current, sdp, prefs), sdp, prefs)
           \/ /\ KeepOrChoose(current, sdp, prefs) = current /\ Unassigned(current)
              /\ ListedAndAllowed(current, sdp, prefs)
<1>1. CASE KeepOrChoose(current, sdp, prefs) = Choose(sdp, prefs)
  BY <1>1, ChooseAcceptable
<1>2. CASE /\ current.name \in Allowed(prefs) /\ current.pt \in sdp.pts
           /\ current.pt < 96 /\ KeepOrChoose(current, sdp, prefs) = current
  BY <1>2 DEF Acceptable, ListedAndAllowed, Unassigned
<1>3. CASE /\ current.name \in Allowed(prefs) /\ current.name \in NamedIn(sdp)
           /\ KeepOrChoose(current, sdp, prefs)
                = [current EXCEPT !.pt = sdp.named[current.name]]
  <2>1. sdp.named[current.name] \in sdp.pts
    BY <1>3 DEF NamedIn, WellParsed
  <2>2. [current EXCEPT !.pt = sdp.named[current.name]]
          = [name |-> current.name, pt |-> sdp.named[current.name]]
    BY DEF Codec
  <2>. QED  BY <1>3, <2>1, <2>2 DEF Acceptable, ListedAndAllowed
<1>4. CASE /\ current.name \in Allowed(prefs) /\ sdp.pts = {} /\ NamedIn(sdp) = {}
           /\ KeepOrChoose(current, sdp, prefs) = current
  BY <1>4 DEF Acceptable, ListedAndAllowed, HasAudioOffer, NamedIn
<1>. QED  BY <1>1, <1>2, <1>3, <1>4 DEF KeepOrChoose
-----------------------------------------------------------------------------
(* The watchdog. *)

LEMMA WatchInit == RtpInit => WatchInv
BY DEF RtpInit, WatchInv, WatchdogGuardsCall, Open

\* Packets arm it again, and what we send leaves it alone.
LEMMA PacketsKeepWatch ==
    ASSUME WatchInv, UNCHANGED <<call, txOn, expects, socket>>,
           watchdog' = watchdog \/ (Open /\ watchdog' = Rearmed(txOn, expects))
    PROVE  WatchInv'
BY DEF WatchInv, WatchdogGuardsCall, Open, Rearmed

LEMMA WatchStep == WatchInv /\ [RtpNext]_rtpVars => WatchInv'
<1>. SUFFICES ASSUME WatchInv, [RtpNext]_rtpVars PROVE WatchInv'
  OBVIOUS
<1>. USE DEF sdpVars, latchVars, keyVars, txVars, envVars
<1>1. CASE BeginCall
  BY <1>1 DEF BeginCall, WatchInv, WatchdogGuardsCall, Open
<1>2. CASE Connect
  BY <1>2 DEF Connect, WatchInv, WatchdogGuardsCall, Open
<1>3. CASE RtpStarts
  BY <1>3 DEF RtpStarts, WatchInv, WatchdogGuardsCall, Open, Rearmed
<1>4. CASE CallOver
  BY <1>4 DEF CallOver, WatchInv, WatchdogGuardsCall, Open
<1>5. CASE RtpStopping
  BY <1>5 DEF RtpStopping, WatchInv, WatchdogGuardsCall
<1>12. CASE RtpStops
  BY <1>12 DEF RtpStops, WatchInv, WatchdogGuardsCall
<1>13. CASE WatchdogLapses
  BY <1>13 DEF WatchdogLapses, WatchInv, WatchdogGuardsCall, Open
<1>6. ASSUME NEW sdp \in scenario.offers, Offered(sdp) PROVE WatchInv'
  <2>1. /\ txOn' \in BOOLEAN /\ expects' \in BOOLEAN
        /\ watchdog' = WatchdogAfter(txOn', expects')
        /\ UNCHANGED <<call, socket>>
    BY <1>6 DEF Offered
  <2>. QED  BY <2>1 DEF WatchInv, WatchdogGuardsCall, Open, WatchdogAfter
<1>7. CASE PeerSends \/ PeerSendsOddly \/ PeerKeepsAlive
  BY <1>7, PacketsKeepWatch DEF PeerSends, PeerSendsOddly, PeerPacket, PeerKeepsAlive
<1>8. ASSUME NEW addr \in Addrs, NEW ssrc \in {1, 2}, NEW seq \in 0..(SeqMod - 1),
             StrayPacket(addr, ssrc, seq)
      PROVE  WatchInv'
  BY <1>8, PacketsKeepWatch DEF StrayPacket
<1>9. CASE EventArrives \/ EventDoubled \/ EventOvertakes
  BY <1>9, PacketsKeepWatch DEF EventArrives, EventDoubled, EventOvertakes, EventReceived
<1>10. CASE PeerMoves \/ PeerDies \/ PeerPresses \/ EventLost \/ Push \/ QueueDigit \/ Frame
  BY <1>10, PacketsKeepWatch
     DEF PeerMoves, PeerDies, PeerPresses, EventLost, Push, QueueDigit, Frame
<1>11. CASE UNCHANGED rtpVars
  BY <1>11, PacketsKeepWatch DEF rtpVars
<1>. QED
  BY <1>1, <1>2, <1>3, <1>4, <1>5, <1>6, <1>7, <1>8, <1>9, <1>10, <1>11,
     <1>12, <1>13
     DEF RtpNext, EndCall, WatchdogFires

\* Silence of a peer that should send is timed, that of one on hold or of one that only
\* listens is not, in whatever order hold, direction, start, hangup and packets come.
THEOREM WatchdogAsDue == RtpSpec => []WatchdogGuardsCall
<1>1. WatchInv => WatchdogGuardsCall
  BY DEF WatchInv
<1>. QED  BY <1>1, WatchInit, WatchStep, PTL DEF RtpSpec
-----------------------------------------------------------------------------
(* The codec. *)

LEMMA CodecInit == RtpInit => CodecInv
<1>. SUFFICES ASSUME RtpInit PROVE CodecInv
  OBVIOUS
<1>1. scenario \in Scenarios /\ order \in Presets
  BY RtpAssumption DEF RtpAssumption, RtpInit
<1>. QED  BY <1>1, FallbackIsCodec DEF RtpInit, CodecInv, AnswerIsAcceptable

\* Only SDP and the beginning of a call change the codec.
LEMMA CodecStep == CodecInv /\ [RtpNext]_rtpVars => CodecInv'
<1>. SUFFICES ASSUME CodecInv, [RtpNext]_rtpVars PROVE CodecInv'
  OBVIOUS
<1>. USE DEF sdpVars, envVars, Spends
<1>1. CASE BeginCall
  BY <1>1, FallbackIsCodec DEF BeginCall, CodecInv, AnswerIsAcceptable
<1>2. ASSUME NEW sdp \in scenario.offers, Offered(sdp) PROVE CodecInv'
  <2>1. WellParsed(sdp)
    BY RtpAssumption DEF RtpAssumption, CodecInv
  <2>2. /\ Settles(sdp) \in Codec \cup {NoCodec}
        /\ \/ Settles(sdp) = NoCodec \/ Acceptable(Settles(sdp), sdp, order)
           \/ Unassigned(Settles(sdp)) /\ ListedAndAllowed(Settles(sdp), sdp, order)
    BY <2>1, ChooseAcceptable, KeepOrChooseAcceptable, ChooseReturnsCodec,
       KeepOrChooseReturnsCodec DEF Settles, CodecInv
  <2>3. /\ codec' = Settles(sdp) /\ Settles(sdp) # NoCodec /\ offer' = sdp
        /\ UNCHANGED <<order, scenario>>
    BY <1>2 DEF Offered
  <2>. QED  BY <2>2, <2>3 DEF CodecInv, AnswerIsAcceptable
<1>3. ASSUME UNCHANGED <<codec, negotiated, offer, order, scenario>> PROVE CodecInv'
  BY <1>3 DEF CodecInv, AnswerIsAcceptable
<1>4. CASE \/ Connect \/ RtpStarts \/ EndCall \/ RtpStopping \/ RtpStops \/ WatchdogFires
           \/ WatchdogLapses
  BY <1>3, <1>4 DEF Connect, RtpStarts, EndCall, CallOver, RtpStopping, RtpStops,
     WatchdogFires, WatchdogLapses
<1>5. CASE \/ PeerSends \/ PeerSendsOddly \/ PeerKeepsAlive \/ PeerMoves \/ PeerDies
           \/ \E addr \in Addrs, ssrc \in {1, 2}, seq \in 0..(SeqMod - 1) :
                 StrayPacket(addr, ssrc, seq)
  BY <1>3, <1>5 DEF PeerSends, PeerSendsOddly, PeerPacket, PeerKeepsAlive, PeerMoves,
     PeerDies, StrayPacket
<1>6. CASE PeerPresses \/ EventArrives \/ EventDoubled \/ EventOvertakes \/ EventLost
  BY <1>3, <1>6 DEF PeerPresses, EventArrives, EventDoubled, EventOvertakes, EventReceived,
     EventLost
<1>7. CASE Push \/ QueueDigit \/ Frame \/ UNCHANGED rtpVars
  BY <1>3, <1>7 DEF Push, QueueDigit, Frame, rtpVars
<1>. QED  BY <1>1, <1>2, <1>4, <1>5, <1>6, <1>7 DEF RtpNext

\* After any number of offers and answers, the codec in use is one that the user
\* allows and that the peer listed in the SDP accepted last, under a payload type that
\* is this codec's there (_apply_remote_sdp(), choose(), keep_or_choose()).
THEOREM CodecAcceptable == RtpSpec => []AnswerIsAcceptable
<1>1. CodecInv => AnswerIsAcceptable
  BY DEF CodecInv
<1>. QED  BY <1>1, CodecInit, CodecStep, PTL DEF RtpSpec
-----------------------------------------------------------------------------
(* The latch. *)

\* What is concluded from the packets looked at last.
RunOf(s, addr) ==
    /\ Len(s) = LearnCount
    /\ \A i \in 1..LearnCount : s[i].addr = addr /\ s[i].ssrc = s[1].ssrc
    /\ \A i \in 1..(LearnCount - 1) : Follows(s[i].seq, s[i + 1].seq)

LEMMA LatchInit == RtpInit => LatchInv
<1>. SUFFICES ASSUME RtpInit PROVE LatchInv
  OBVIOUS
<1>1. cand \in Remembered /\ cand.count = 0
  BY RtpAssumption DEF RtpAssumption, RtpInit, NoCand, Remembered
<1>2. recent = <<>> /\ recent \in Seq(Packet) /\ Len(recent) = 0
  BY DEF RtpInit
<1>3. peer \in Peer
  BY DEF RtpInit, Peer
<1>. QED
  BY <1>1, <1>2, <1>3, RtpAssumption DEF RtpAssumption, LatchInv, EndsInRun

\* The candidate after one more packet counts the end of the packets.
LEMMA CandidateCounts ==
    ASSUME LatchInv, NEW addr \in Addrs \cup {"sdp", "nat"}, NEW ssrc \in {1, 2}, NEW seq \in Int
    PROVE  LET all == Append(recent, [addr |-> addr, ssrc |-> ssrc, seq |-> seq])
               c == Candidate(addr, ssrc, seq)
           IN  /\ all \in Seq(Packet) /\ Len(all) = Len(recent) + 1
               /\ c \in [addr : {addr}, ssrc : {ssrc}, seq : {seq}, count : 1..LearnCount]
               /\ EndsInRun(all, c)
<1>. DEFINE pkt == [addr |-> addr, ssrc |-> ssrc, seq |-> seq]
            all == Append(recent, pkt)
            c == Candidate(addr, ssrc, seq)
            n == Len(recent)
<1>1. pkt \in Packet
  BY DEF Packet
<1>2. /\ all \in Seq(Packet) /\ Len(all) = n + 1 /\ n \in Nat
      /\ \A i \in 1..n : all[i] = recent[i]
      /\ all[n + 1] = pkt
  BY <1>1 DEF LatchInv
<1>3. c \in [addr : {addr}, ssrc : {ssrc}, seq : {seq}, count : 1..LearnCount]
  <2>1. /\ cand \in Remembered /\ LearnCount \in Nat \ {0}
    BY RtpAssumption DEF RtpAssumption, LatchInv
  <2>2. CASE cand.addr = addr /\ cand.ssrc = ssrc /\ Follows(cand.seq, seq)
    <3>1. c = [cand EXCEPT !.seq = seq, !.count = @ + 1]
      BY <2>2 DEF Candidate
    <3>2. c = [addr |-> addr, ssrc |-> ssrc, seq |-> seq, count |-> cand.count + 1]
      BY <2>1, <2>2, <3>1 DEF Remembered
    <3>3. cand.count + 1 \in 1..LearnCount
      BY <2>1 DEF Remembered
    <3>. QED  BY <3>2, <3>3
  <2>3. CASE ~(cand.addr = addr /\ cand.ssrc = ssrc /\ Follows(cand.seq, seq))
    BY <2>1, <2>3 DEF Candidate
  <2>. QED  BY <2>2, <2>3
<1>4. CASE cand.addr = addr /\ cand.ssrc = ssrc /\ Follows(cand.seq, seq)
  <2>1. /\ c.addr = addr /\ c.ssrc = ssrc /\ c.seq = seq /\ c.count = cand.count + 1
        /\ cand.count \in Nat
    BY <1>4, RtpAssumption DEF RtpAssumption, Candidate, LatchInv, Remembered
  <2>2. EndsInRun(recent, cand)
    BY DEF LatchInv
  <2>3. c.count <= n + 1
    BY <1>2, <2>1, <2>2 DEF EndsInRun
  <2>4. ASSUME NEW i \in 1..(n + 1), i > n - cand.count
        PROVE  all[i].addr = addr /\ all[i].ssrc = ssrc
    BY <1>2, <1>4, <2>1, <2>2, <2>4 DEF EndsInRun
  <2>5. ASSUME NEW i \in 1..n, i > n - cand.count
        PROVE  Follows(all[i].seq, all[i + 1].seq)
    <3>1. CASE i < n
      BY <1>2, <2>1, <2>2, <2>5, <3>1 DEF EndsInRun
    <3>2. CASE i = n
      <4>1. cand.count > 0 /\ recent[n].seq = cand.seq
        BY <2>1, <2>2, <2>5, <3>2 DEF EndsInRun
      <4>. QED  BY <1>2, <1>4, <3>2, <4>1
    <3>. QED  BY <1>2, <3>1, <3>2
  <2>. HIDE DEF all, c, n
  <2>6. \A i \in 1..Len(all) :
           i > Len(all) - c.count => all[i].addr = c.addr /\ all[i].ssrc = c.ssrc
    BY <1>2, <2>1, <2>4
  <2>7. \A i \in 1..(Len(all) - 1) :
           i > Len(all) - c.count => Follows(all[i].seq, all[i + 1].seq)
    BY <1>2, <2>1, <2>5
  <2>8. all[Len(all)].seq = c.seq
    BY <1>2, <2>1
  <2>9. EndsInRun(all, c)
    BY <1>2, <2>3, <2>6, <2>7, <2>8 DEF EndsInRun
  <2>. QED  BY <1>2, <1>3, <2>9 DEF all, c, n
<1>5. CASE ~(cand.addr = addr /\ cand.ssrc = ssrc /\ Follows(cand.seq, seq))
  <2>1. c = [addr |-> addr, ssrc |-> ssrc, seq |-> seq, count |-> 1]
    BY <1>5 DEF Candidate
  <2>. HIDE DEF all, c, n
  <2>2. EndsInRun(all, c)
    BY <1>2, <2>1 DEF EndsInRun
  <2>. QED  BY <1>2, <1>3, <2>2 DEF all, c, n
<1>. QED  BY <1>4, <1>5

\* _maybe_latch() keeps the invariant, and moves what we send only for a run.
LEMMA LatchMoves ==
    ASSUME LatchInv, NEW addr \in Addrs \cup {"sdp", "nat"}, NEW ssrc \in {1, 2}, NEW seq \in Int,
           MaybeLatch(addr, ssrc, seq), peer' \in Peer
    PROVE  LatchInv' /\ (remote' # remote => RunOf(recent', remote'))
<1>. DEFINE all == Append(recent, [addr |-> addr, ssrc |-> ssrc, seq |-> seq])
            c == Candidate(addr, ssrc, seq)
<1>1. /\ all \in Seq(Packet) /\ Len(all) = Len(recent) + 1
      /\ c \in [addr : {addr}, ssrc : {ssrc}, seq : {seq}, count : 1..LearnCount]
      /\ EndsInRun(all, c)
  BY CandidateCounts
<1>2. /\ recent' = IF Len(all) > LearnCount THEN Tail(all) ELSE all
      /\ \/ cand' = NoCand /\ remote' = remote
         \/ c.count < LearnCount /\ cand' = c /\ remote' = remote
         \/ ~(c.count < LearnCount) /\ remote' = addr /\ cand' = NoCand
  BY DEF MaybeLatch
<1>3. /\ recent \in Seq(Packet) /\ Len(recent) \in Nat /\ Len(recent) <= LearnCount
      /\ LearnCount \in Nat \ {0}
  BY RtpAssumption DEF RtpAssumption, LatchInv
<1>. HIDE DEF all, c
<1>4. /\ recent' \in Seq(Packet) /\ Len(recent') <= LearnCount /\ EndsInRun(recent', c)
      /\ Len(recent') \in Nat
  <2>1. CASE Len(all) <= LearnCount
    BY <1>1, <1>2, <1>3, <2>1
  <2>2. CASE Len(all) > LearnCount
    <3>1. /\ recent' = Tail(all) /\ recent' \in Seq(Packet) /\ Len(recent') = Len(all) - 1
          /\ Len(all) = LearnCount + 1
          /\ \A i \in 1..Len(recent') : recent'[i] = all[i + 1]
      BY <1>1, <1>2, <1>3, <2>2
    <3>2. c.count \in 1..LearnCount
      BY <1>1
    <3>3. \A i \in 1..Len(recent') :
             i > Len(recent') - c.count
               => recent'[i].addr = c.addr /\ recent'[i].ssrc = c.ssrc
      BY <1>1, <1>3, <3>1, <3>2 DEF EndsInRun
    <3>4. \A i \in 1..(Len(recent') - 1) :
             i > Len(recent') - c.count => Follows(recent'[i].seq, recent'[i + 1].seq)
      <4>. SUFFICES ASSUME NEW i \in 1..(Len(recent') - 1), i > Len(recent') - c.count
                    PROVE  Follows(recent'[i].seq, recent'[i + 1].seq)
        OBVIOUS
      <4>1. i + 1 \in 1..(Len(all) - 1) /\ i + 1 > Len(all) - c.count
        BY <1>3, <3>1, <3>2
      <4>2. Follows(all[i + 1].seq, all[(i + 1) + 1].seq)
        BY <1>1, <4>1 DEF EndsInRun
      <4>3. recent'[i] = all[i + 1] /\ recent'[i + 1] = all[(i + 1) + 1]
        BY <1>3, <3>1
      <4>. QED  BY <4>2, <4>3
    <3>5. recent'[Len(recent')].seq = c.seq
      BY <1>1, <1>3, <3>1, <3>2 DEF EndsInRun
    <3>6. c.count <= Len(recent')
      BY <1>3, <3>1, <3>2
    <3>7. EndsInRun(recent', c)
      BY <3>3, <3>4, <3>5, <3>6 DEF EndsInRun
    <3>. QED  BY <1>3, <3>1, <3>7
  <2>. QED  BY <1>1, <1>3, <2>1, <2>2
<1>5. LatchInv'
  <2>1. CASE cand' = NoCand
    <3>1. cand' \in Remembered /\ cand'.count = 0
      BY <1>3, <2>1 DEF NoCand, Remembered
    <3>2. EndsInRun(recent', cand')
      BY <1>4, <3>1 DEF EndsInRun
    <3>. QED  BY <1>4, <3>1, <3>2 DEF LatchInv
  <2>2. CASE c.count < LearnCount /\ cand' = c
    <3>1. cand' \in Remembered
      BY <1>1, <1>3, <2>2 DEF Remembered
    <3>. QED  BY <1>4, <2>2, <3>1 DEF LatchInv
  <2>. QED  BY <1>2, <2>1, <2>2
<1>6. ASSUME remote' # remote PROVE RunOf(recent', remote')
  <2>1. c.count = LearnCount /\ remote' = addr /\ c.addr = addr
    BY <1>1, <1>2, <1>3, <1>6
  <2>2. Len(recent') = LearnCount
    BY <1>3, <1>4, <2>1 DEF EndsInRun
  <2>. QED  BY <1>3, <1>4, <2>1, <2>2 DEF EndsInRun, RunOf
<1>. QED  BY <1>5, <1>6

\* A step leaves the latch alone, starts it again, or is a packet that it looks at.
LEMMA LatchStep ==
    LatchInv /\ [RtpNext]_rtpVars
      => /\ LatchInv'
         /\ \/ remote' = remote \/ endpoint' # endpoint \/ socket' # socket
            \/ RunOf(recent', remote')
<1>. SUFFICES ASSUME LatchInv, [RtpNext]_rtpVars
              PROVE  /\ LatchInv'
                     /\ \/ remote' = remote \/ endpoint' # endpoint \/ socket' # socket
                        \/ RunOf(recent', remote')
  OBVIOUS
<1>. USE DEF latchVars, envVars
<1>1. ASSUME UNCHANGED <<recent, cand, remote>>, peer' \in Peer
      PROVE  LatchInv' /\ remote' = remote
  BY <1>1 DEF LatchInv
<1>2. ASSUME RetargetsTo(remote'), peer' = peer PROVE LatchInv'
  <2>1. cand' \in Remembered /\ cand'.count = 0
    BY <1>2, RtpAssumption DEF RtpAssumption, RetargetsTo, NoCand, Remembered
  <2>2. recent' = <<>> /\ recent' \in Seq(Packet) /\ Len(recent') = 0
    BY <1>2 DEF RetargetsTo
  <2>. QED
    BY <1>2, <2>1, <2>2, RtpAssumption DEF RtpAssumption, LatchInv, EndsInRun
<1>3. peer \in Peer
  BY DEF LatchInv
<1>4. ASSUME NEW sdp \in scenario.offers, Offered(sdp)
      PROVE  LatchInv' /\ (remote' = remote \/ endpoint' # endpoint)
  <2>. DEFINE there == IF sdp.zero \/ sdp.at = "none" THEN endpoint ELSE sdp.at
  <2>1. /\ endpoint' = there /\ peer' = peer
        /\ IF Open /\ there # endpoint THEN RetargetsTo(there)
           ELSE UNCHANGED latchVars
    BY <1>4 DEF Offered
  <2>2. CASE UNCHANGED latchVars
    BY <1>1, <1>3, <2>1, <2>2
  <2>3. CASE RetargetsTo(there) /\ there # endpoint
    BY <1>2, <2>1, <2>3 DEF RetargetsTo
  <2>. QED  BY <2>1, <2>2, <2>3
<1>5. CASE RtpStarts
  <2>1. RetargetsTo(remote') /\ peer' = peer /\ socket' # socket
    BY <1>5 DEF RtpStarts, RetargetsTo
  <2>. QED  BY <1>2, <2>1
<1>6. CASE \/ BeginCall \/ Connect \/ EndCall \/ RtpStopping \/ RtpStops \/ WatchdogFires
           \/ WatchdogLapses
  BY <1>1, <1>3, <1>6 DEF BeginCall, Connect, EndCall, CallOver, RtpStopping, RtpStops,
     WatchdogFires, WatchdogLapses
<1>7. ASSUME NEW d \in Int
      PROVE  /\ (peer.seq + d) % SeqMod \in Int
             /\ [peer EXCEPT !.seq = (peer.seq + d) % SeqMod] \in Peer
  <2>1. (peer.seq + d) % SeqMod \in Int
    BY <1>3, RtpAssumption DEF RtpAssumption, Peer
  <2>. QED  BY <1>3, <2>1 DEF Peer
<1>8. peer.at \in Addrs \cup {"sdp", "nat"}
  BY <1>3 DEF Peer
<1>9. ASSUME NEW d \in Int, PeerPacket(d)
      PROVE  LatchInv' /\ (remote' = remote \/ RunOf(recent', remote'))
  <2>1. /\ MaybeLatch(peer.at, 1, (peer.seq + d) % SeqMod)
        /\ peer' = [peer EXCEPT !.seq = (peer.seq + d) % SeqMod]
    BY <1>9 DEF PeerPacket
  <2>2. peer' \in Peer
    BY <1>7, <2>1
  <2>. QED  BY <1>7, <1>8, <2>1, <2>2, LatchMoves
<1>10. CASE PeerSends \/ PeerSendsOddly
  <2>1. {0, 1, SeqGap + 1, SeqMod - 1} \subseteq Int
    BY RtpAssumption DEF RtpAssumption
  <2>. QED  BY <1>9, <1>10, <2>1 DEF PeerSends, PeerSendsOddly
<1>11. ASSUME NEW pkt, EventReceived(pkt)
       PROVE  LatchInv' /\ (remote' = remote \/ RunOf(recent', remote'))
  <2>1. /\ MaybeLatch(peer.at, 1, (peer.seq + 1) % SeqMod)
        /\ peer' = [peer EXCEPT !.seq = (peer.seq + 1) % SeqMod]
    BY <1>11 DEF EventReceived
  <2>2. /\ (peer.seq + 1) % SeqMod \in Int
        /\ [peer EXCEPT !.seq = (peer.seq + 1) % SeqMod] \in Peer
    <3>1. (peer.seq + 1) % SeqMod \in Int
      BY <1>3, RtpAssumption DEF RtpAssumption, Peer
    <3>. QED  BY <1>3, <3>1 DEF Peer
  <2>3. peer' \in Peer
    BY <2>1, <2>2
  <2>. QED  BY <1>8, <2>1, <2>2, <2>3, LatchMoves
<1>12. CASE EventArrives \/ EventDoubled \/ EventOvertakes
  BY <1>11, <1>12 DEF EventArrives, EventDoubled, EventOvertakes
<1>13. ASSUME NEW addr \in Addrs, NEW ssrc \in {1, 2}, NEW seq \in 0..(SeqMod - 1),
              StrayPacket(addr, ssrc, seq)
       PROVE  LatchInv' /\ (remote' = remote \/ RunOf(recent', remote'))
  <2>1. seq \in Int /\ peer' = peer /\ MaybeLatch(addr, ssrc, seq)
    BY <1>13, RtpAssumption DEF RtpAssumption, StrayPacket
  <2>. QED  BY <1>3, <2>1, LatchMoves
<1>14. CASE PeerKeepsAlive \/ EventLost \/ Push \/ QueueDigit \/ Frame \/ PeerPresses
  BY <1>1, <1>3, <1>14
     DEF PeerKeepsAlive, EventLost, Push, QueueDigit, Frame, PeerPresses
<1>15. CASE PeerMoves \/ PeerDies
  <2>1. /\ UNCHANGED <<recent, cand, remote>>
        /\ peer' = [peer EXCEPT !.at = "nat"] \/ peer' = [peer EXCEPT !.alive = FALSE]
    BY <1>15 DEF PeerMoves, PeerDies
  <2>2. peer' \in Peer
    BY <1>3, <2>1 DEF Peer
  <2>. QED  BY <1>1, <2>1, <2>2
<1>16. CASE UNCHANGED rtpVars
  BY <1>1, <1>3, <1>16 DEF rtpVars
<1>. QED
  BY <1>4, <1>5, <1>6, <1>10, <1>12, <1>13, <1>14, <1>15, <1>16 DEF RtpNext

\* What we send goes elsewhere only after LearnCount packets in a row from there, of
\* one stream and in sequence, unless SDP says so or RTP starts.
THEOREM LatchLearns == RtpSpec => LatchNeedsRun
<1>. DEFINE Moves == (remote' # remote /\ endpoint' = endpoint /\ socket' = socket /\ Open)
                       => RunOf(recent', remote')
<1>1. LatchInv /\ [RtpNext]_rtpVars => LatchInv' /\ [Moves]_rtpVars
  BY LatchStep
<1>2. RtpSpec => [][Moves]_rtpVars
  BY <1>1, LatchInit, PTL DEF RtpSpec
<1>3. Moves <=> ((remote' # remote /\ endpoint' = endpoint /\ socket' = socket /\ Open)
        => /\ Len(recent') = LearnCount
           /\ \A i \in 1..LearnCount :
                recent'[i].addr = remote' /\ recent'[i].ssrc = recent'[1].ssrc
           /\ \A i \in 1..(LearnCount - 1) : Follows(recent'[i].seq, recent'[i + 1].seq))
  BY DEF RunOf
<1>. QED  BY <1>2, <1>3, PTL DEF LatchNeedsRun
-----------------------------------------------------------------------------
(* Keys. *)

\* Sequences that are listed and joined.
LEMMA Listed ==
    ASSUME NEW S, NEW n \in Nat, NEW f \in [1..n -> S]
    PROVE  f \in Seq(S) /\ Len(f) = n
OBVIOUS

LEMMA Joined ==
    ASSUME NEW S, NEW s \in Seq(S), NEW t \in Seq(S)
    PROVE  /\ s \o t \in Seq(S) /\ Len(s \o t) = Len(s) + Len(t) /\ Len(s) \in Nat
           /\ \A i \in 1..Len(s) : (s \o t)[i] = s[i]
           /\ \A i \in 1..Len(t) : (s \o t)[Len(s) + i] = t[i]
OBVIOUS

LEMMA KeyStart == RtpInit => KeyInv
<1>. SUFFICES ASSUME RtpInit PROVE KeyInv
  OBVIOUS
<1>1. /\ scenario \in Scenarios /\ net = <<>> /\ arrived = {} /\ rxTs = 0
      /\ {scenario.deals, scenario.moves, scenario.strays, scenario.odd, scenario.presses,
          scenario.ticks, scenario.digits} \subseteq Nat
      /\ left = [deals |-> scenario.deals, moves |-> scenario.moves,
                 strays |-> scenario.strays, odd |-> scenario.odd,
                 presses |-> scenario.presses, ticks |-> scenario.ticks,
                 digits |-> scenario.digits]
      /\ heard = [p \in 1..scenario.presses |-> 0]
  BY RtpAssumption DEF RtpAssumption, RtpInit
<1>2. left \in Budget /\ Made = 0
  BY <1>1 DEF Budget, Made
<1>3. InOrder /\ HeardOnce
  BY <1>1 DEF InOrder, HeardOnce
<1>. QED  BY <1>1, <1>2, <1>3 DEF KeyInv

\* A step of something else.
LEMMA KeysKept ==
    ASSUME KeyInv, UNCHANGED <<scenario, rxTs, net, heard, arrived, mangled>>,
           left' \in Budget, left'.presses = left.presses, Open' => Open
    PROVE  KeyInv'
BY DEF KeyInv, InOrder, HeardOnce, Made

LEMMA Spent ==
    ASSUME left \in Budget,
           NEW what \in {"deals", "moves", "strays", "odd", "presses", "ticks", "digits"},
           Spends(what)
    PROVE  /\ left' \in Budget /\ scenario' = scenario
           /\ left'.presses = IF what = "presses" THEN left.presses - 1 ELSE left.presses
           /\ what = "presses" => left.presses > 0
<1>1. left' = [left EXCEPT ![what] = @ - 1] /\ left[what] > 0 /\ scenario' = scenario
  BY DEF Spends
<1>. QED  BY <1>1 DEF Budget

LEMMA CallsKeepKeys ==
    ASSUME KeyInv,
           \/ BeginCall \/ Connect \/ RtpStarts \/ EndCall \/ RtpStopping \/ RtpStops
           \/ WatchdogFires \/ WatchdogLapses
    PROVE  KeyInv'
<1>. USE DEF keyVars, envVars
<1>1. CASE BeginCall \/ Connect \/ WatchdogLapses
  BY <1>1, KeysKept DEF BeginCall, Connect, WatchdogLapses, KeyInv, Open
<1>2. CASE EndCall \/ WatchdogFires
  <2>1. CallOver
    BY <1>2 DEF EndCall, WatchdogFires
  <2>. QED  BY <2>1, KeysKept DEF CallOver, KeyInv, Open
<1>5. CASE RtpStopping
  BY <1>5, KeysKept DEF RtpStopping, KeyInv, Open
<1>3. CASE RtpStops
  <2>1. /\ UNCHANGED <<scenario, left, net, heard, arrived, mangled>> /\ rxTs' = 0 /\ ~Open'
    BY <1>3 DEF RtpStops, Open
  <2>. QED  BY <2>1 DEF KeyInv, InOrder, HeardOnce, Made
<1>4. CASE RtpStarts
  <2>1. /\ UNCHANGED <<scenario, left, net, heard, arrived>> /\ rxTs' = 0
        /\ ~mangled' => ~mangled /\ \A i \in 1..Len(net) : net[i].ts \notin arrived
    BY <1>4 DEF RtpStarts
  <2>. QED  BY <2>1 DEF KeyInv, InOrder, HeardOnce, Made
<1>. QED  BY <1>1, <1>2, <1>3, <1>4, <1>5

LEMMA OthersKeepKeys ==
    ASSUME KeyInv,
           \/ \E sdp \in scenario.offers : Offered(sdp)
           \/ PeerSends \/ PeerSendsOddly \/ PeerKeepsAlive \/ PeerMoves \/ PeerDies
           \/ \E addr \in Addrs, ssrc \in {1, 2}, seq \in 0..(SeqMod - 1) :
                 StrayPacket(addr, ssrc, seq)
           \/ Push \/ QueueDigit \/ Frame
    PROVE  KeyInv'
<1>. USE DEF keyVars, envVars
<1>1. UNCHANGED <<rxTs, net, heard, arrived, mangled, socket>>
  BY DEF Offered, PeerSends, PeerSendsOddly, PeerPacket, PeerKeepsAlive, PeerMoves, PeerDies,
     StrayPacket, Push, QueueDigit, Frame
<1>2. \/ UNCHANGED <<scenario, left>>
      \/ Spends("deals") \/ Spends("odd") \/ Spends("moves") \/ Spends("strays")
      \/ Spends("digits") \/ Spends("ticks")
  BY DEF Offered, PeerSends, PeerSendsOddly, PeerKeepsAlive, PeerMoves, PeerDies,
     StrayPacket, Push, QueueDigit, Frame
<1>3. left \in Budget
  BY DEF KeyInv
<1>4. /\ left' \in Budget /\ left'.presses = left.presses /\ scenario' = scenario
  <2>1. CASE UNCHANGED <<scenario, left>>
    BY <1>3, <2>1
  <2>2. ASSUME NEW what \in {"deals", "moves", "strays", "odd", "ticks", "digits"}, Spends(what)
        PROVE  /\ left' \in Budget /\ left'.presses = left.presses /\ scenario' = scenario
    BY <1>3, <2>2, Spent
  <2>. QED  BY <1>2, <2>1, <2>2
<1>. QED  BY <1>1, <1>4, KeysKept DEF Open

\* A press puts its packets behind those of the presses before.
LEMMA PressKeepsKeys == KeyInv /\ PeerPresses => KeyInv'
<1>. SUFFICES ASSUME KeyInv, PeerPresses PROVE KeyInv'
  OBVIOUS
<1>. DEFINE press == scenario.presses - left.presses + 1
            new == [i \in 1..PressPackets |-> [ts |-> press, mark |-> scenario.marks /\ i = 1]]
<1>1. /\ left \in Budget /\ left.presses \in Int /\ scenario.presses \in Nat
      /\ net \in Seq(Key) /\ Made \in 0..scenario.presses
      /\ PressPackets \in Nat \ {0}
  BY RtpAssumption DEF RtpAssumption, KeyInv, Budget
<1>2. /\ net' = net \o new /\ Spends("presses")
      /\ UNCHANGED <<rxTs, heard, arrived, mangled, socket>>
  BY DEF PeerPresses
<1>3. /\ left' \in Budget /\ left'.presses = left.presses - 1 /\ left.presses > 0
      /\ scenario' = scenario
  BY <1>1, <1>2, Spent
<1>4. Made' = press /\ press = Made + 1 /\ Made' \in 0..scenario'.presses
  BY <1>1, <1>3 DEF Made
<1>5. new \in Seq(Key) /\ Len(new) = PressPackets
      /\ \A i \in 1..PressPackets : new[i].ts = press /\ (new[i].mark => i = 1)
  <2>1. press \in Nat \ {0}
    BY <1>1, <1>4
  <2>2. \A i \in 1..PressPackets : (scenario.marks /\ i = 1) \in BOOLEAN
    OBVIOUS
  <2>3. \A i \in 1..PressPackets : [ts |-> press, mark |-> scenario.marks /\ i = 1] \in Key
    BY <2>1, <2>2 DEF Key
  <2>4. new \in [1..PressPackets -> Key]
    BY <2>3
  <2>5. new \in Seq(Key) /\ Len(new) = PressPackets
    BY <1>1, <2>4, Listed
  <2>6. \A i \in 1..PressPackets : new[i].ts = press /\ (new[i].mark => i = 1)
    OBVIOUS
  <2>. QED  BY <2>5, <2>6
<1>. HIDE DEF new
<1>6. /\ net' \in Seq(Key) /\ Len(net') = Len(net) + PressPackets /\ Len(net) \in Nat
      /\ \A i \in 1..Len(net) : net'[i] = net[i]
      /\ \A i \in 1..PressPackets : net'[Len(net) + i] = new[i]
  <2>1. /\ net \o new \in Seq(Key) /\ Len(net \o new) = Len(net) + Len(new) /\ Len(net) \in Nat
        /\ \A i \in 1..Len(net) : (net \o new)[i] = net[i]
        /\ \A i \in 1..Len(new) : (net \o new)[Len(net) + i] = new[i]
    <3>1. net \in Seq(Key) /\ new \in Seq(Key)
      BY <1>1, <1>5
    <3>. QED  BY <3>1, Joined
  <2>. QED  BY <1>2, <1>5, <2>1
<1>7. ASSUME NEW i \in 1..Len(net'), i \notin 1..Len(net)
      PROVE  net'[i].ts = press /\ (net'[i].mark => i = Len(net) + 1)
  <2>1. i - Len(net) \in 1..PressPackets /\ i = Len(net) + (i - Len(net))
    BY <1>1, <1>6, <1>7
  <2>2. net'[i] = new[i - Len(net)]
    BY <1>6, <2>1
  <2>. QED  BY <1>5, <1>6, <2>1, <2>2
<1>8. /\ \A i \in 1..Len(net) : net[i].ts \in Nat /\ net[i].ts <= Made
      /\ arrived \subseteq 1..Made
  <2>1. \A i \in 1..Len(net) : net[i] \in Key
    BY <1>1
  <2>. QED  BY <2>1 DEF KeyInv, Key
<1>9. ASSUME NEW i \in 1..Len(net') PROVE net'[i].ts <= Made'
  <2>1. CASE i \in 1..Len(net)
    BY <1>1, <1>4, <1>6, <1>8, <2>1
  <2>2. CASE i \notin 1..Len(net)
    BY <1>1, <1>4, <1>7, <2>2
  <2>. QED  BY <2>1, <2>2
<1>10. ASSUME InOrder PROVE InOrder'
  <2>1. ASSUME NEW i \in 1..Len(net')
        PROVE  /\ \A p \in arrived' : p <= net'[i].ts /\ (p = net'[i].ts /\ Open' => p = rxTs')
               /\ net'[i].mark => net'[i].ts \notin arrived'
    <3>1. CASE i \in 1..Len(net)
      BY <1>2, <1>6, <1>10, <3>1 DEF InOrder, Open
    <3>2. CASE i \notin 1..Len(net)
      BY <1>1, <1>2, <1>4, <1>7, <1>8, <3>2
    <3>. QED  BY <3>1, <3>2
  <2>2. ASSUME NEW i \in 1..Len(net'), NEW j \in 1..Len(net'), i < j
        PROVE  net'[i].ts <= net'[j].ts /\ (net'[j].mark => net'[i].ts < net'[j].ts)
    <3>1. CASE j \in 1..Len(net)
      BY <1>6, <1>10, <2>2, <3>1 DEF InOrder
    <3>2. CASE i \in 1..Len(net) /\ j \notin 1..Len(net)
      BY <1>1, <1>4, <1>6, <1>7, <1>8, <3>2
    <3>3. CASE i \notin 1..Len(net)
      <4>1. j \notin 1..Len(net) /\ j # Len(net) + 1
        BY <1>6, <2>2, <3>3
      <4>. QED  BY <1>1, <1>4, <1>7, <3>3, <4>1
    <3>. QED  BY <3>1, <3>2, <3>3
  <2>. QED  BY <2>1, <2>2 DEF InOrder
<1>. QED
  BY <1>1, <1>2, <1>3, <1>4, <1>6, <1>8, <1>9, <1>10 DEF KeyInv, HeardOnce

\* A packet of a press is heard if it is the first of it that arrives.
LEMMA PacketHeard ==
    ASSUME KeyInv, NEW n \in 1..Len(net), EventReceived(net[n])
    PROVE  /\ scenario' = scenario /\ left' = left /\ UNCHANGED socket
           /\ arrived' = arrived \cup {net[n].ts} /\ arrived' \subseteq 1..Made
           /\ heard' \in [1..scenario.presses -> Nat]
           /\ rxTs' \in arrived' \cup {0}
           /\ ~mangled /\ (net[n].ts \in arrived => ~net[n].mark) /\ Open =>
                rxTs' = net[n].ts /\ HeardOnce'
<1>. DEFINE pkt == net[n]
<1>1. pkt \in Key /\ pkt.ts <= Made /\ Made \in 0..scenario.presses
  BY DEF KeyInv
<1>2. pkt.ts \in Nat \ {0} /\ pkt.ts \in 1..Made /\ pkt.ts \in 1..scenario.presses
      /\ scenario.presses \in Nat
  BY <1>1, RtpAssumption DEF RtpAssumption, KeyInv, Key
<1>3. /\ scenario' = scenario /\ left' = left /\ UNCHANGED socket /\ Open
      /\ arrived' = arrived \cup {pkt.ts}
      /\ IF pkt.mark \/ pkt.ts # rxTs
         THEN rxTs' = pkt.ts /\ heard' = [heard EXCEPT ![pkt.ts] = @ + 1]
         ELSE UNCHANGED <<rxTs, heard>>
  BY DEF EventReceived, NewPress
<1>. HIDE DEF pkt
<1>4. arrived' \subseteq 1..Made
  BY <1>2, <1>3 DEF KeyInv
<1>5. heard' \in [1..scenario.presses -> Nat]
  BY <1>2, <1>3 DEF KeyInv
<1>6. rxTs' \in arrived' \cup {0}
  BY <1>3 DEF KeyInv
<1>7. ASSUME ~mangled, pkt.ts \in arrived => ~pkt.mark
      PROVE  rxTs' = pkt.ts /\ HeardOnce'
  <2>1. /\ HeardOnce /\ (pkt.ts \in arrived => pkt.ts = rxTs)
        /\ (pkt.ts \notin arrived => pkt.ts # rxTs)
    BY <1>2, <1>3, <1>7 DEF KeyInv, InOrder, pkt
  <2>2. CASE pkt.ts \in arrived
    BY <1>3, <1>7, <2>1, <2>2 DEF HeardOnce
  <2>3. CASE pkt.ts \notin arrived
    <3>1. /\ rxTs' = pkt.ts
          /\ \A p \in 1..scenario.presses :
                heard'[p] = IF p = pkt.ts THEN heard[p] + 1 ELSE heard[p]
      BY <1>2, <1>3, <2>1, <2>3 DEF KeyInv
    <3>. QED  BY <1>2, <1>3, <2>1, <2>3, <3>1 DEF HeardOnce
  <2>. QED  BY <2>2, <2>3
<1>. QED  BY <1>3, <1>4, <1>5, <1>6, <1>7 DEF pkt

LEMMA EventKeepsKeys ==
    ASSUME KeyInv, EventArrives \/ EventDoubled \/ EventOvertakes \/ EventLost
    PROVE  KeyInv'
<1>1. /\ net \in Seq(Key) /\ left \in Budget /\ scenario \in Scenarios
      /\ Made \in 0..scenario.presses
      /\ \A i \in 1..Len(net) : net[i].ts <= Made
  BY DEF KeyInv
<1>2. \A i \in 1..Len(net) : net[i] \in Key /\ net[i].ts \in Nat
  <2>1. \A i \in 1..Len(net) : net[i] \in Key
    BY <1>1
  <2>. QED  BY <2>1 DEF Key
<1>3. ASSUME net # <<>>
      PROVE  /\ 1 \in 1..Len(net) /\ Head(net) = net[1]
             /\ Tail(net) \in Seq(Key) /\ Len(Tail(net)) = Len(net) - 1
             /\ \A i \in 1..Len(Tail(net)) : i + 1 \in 1..Len(net) /\ Tail(net)[i] = net[i + 1]
  BY <1>1, <1>3
<1>4. CASE EventLost
  <2>1. /\ net # <<>> /\ net' = Tail(net)
        /\ UNCHANGED <<rxTs, heard, arrived, mangled, socket, scenario, left>>
    BY <1>4 DEF EventLost, envVars
  <2>2. InOrder => InOrder'
    BY <1>1, <1>3, <2>1 DEF InOrder, Open
  <2>. QED  BY <1>1, <1>3, <2>1, <2>2 DEF KeyInv, HeardOnce, Made
<1>5. CASE EventArrives
  <2>1. net # <<>> /\ EventReceived(net[1]) /\ net' = Tail(net) /\ mangled' = mangled
    BY <1>3, <1>5 DEF EventArrives
  <2>2. /\ scenario' = scenario /\ left' = left /\ UNCHANGED socket
        /\ arrived' = arrived \cup {net[1].ts} /\ arrived' \subseteq 1..Made
        /\ heard' \in [1..scenario.presses -> Nat]
        /\ rxTs' \in arrived' \cup {0}
        /\ ~mangled => rxTs' = net[1].ts /\ HeardOnce'
    <3>1. Open /\ 1 \in 1..Len(net)
      BY <1>3, <2>1 DEF EventReceived
    <3>2. ~mangled => (net[1].ts \in arrived => ~net[1].mark)
      BY <3>1 DEF KeyInv, InOrder
    <3>. QED  BY <2>1, <3>1, <3>2, PacketHeard
  <2>3. ASSUME ~mangled PROVE InOrder'
    <3>1. ASSUME NEW i \in 1..Len(net')
          PROVE  /\ i + 1 \in 1..Len(net) /\ net'[i] = net[i + 1] /\ 1 < i + 1
                 /\ net[1].ts <= net[i + 1].ts
                 /\ net[i + 1].mark => net[1].ts < net[i + 1].ts
      <4>1. i + 1 \in 1..Len(net) /\ net'[i] = net[i + 1] /\ 1 < i + 1 /\ 1 \in 1..Len(net)
        BY <1>3, <2>1
      <4>. QED  BY <2>3, <4>1 DEF KeyInv, InOrder
    <3>2. ASSUME NEW i \in 1..Len(net'), NEW p \in arrived'
          PROVE  p <= net'[i].ts /\ (p = net'[i].ts => p = rxTs')
      <4>1. CASE p = net[1].ts
        BY <2>2, <2>3, <3>1, <4>1
      <4>2. CASE p \in arrived
        <5>1. p <= net[1].ts /\ p <= net[i + 1].ts /\ 1 \in 1..Len(net)
          BY <1>3, <2>1, <2>3, <3>1, <4>2 DEF KeyInv, InOrder
        <5>2. p \in Int /\ net[1].ts \in Nat /\ net[i + 1].ts \in Nat
          BY <1>2, <2>2, <3>1, <4>2, <5>1
        <5>. QED  BY <2>2, <2>3, <3>1, <5>1, <5>2
      <4>. QED  BY <2>2, <4>1, <4>2
    <3>3. ASSUME NEW i \in 1..Len(net'), net'[i].mark PROVE net'[i].ts \notin arrived'
      <4>1. net[i + 1].ts \notin arrived
        BY <2>3, <3>1, <3>3 DEF KeyInv, InOrder
      <4>. QED  BY <1>2, <1>3, <2>1, <2>2, <3>1, <3>3, <4>1
    <3>4. ASSUME NEW i \in 1..Len(net'), NEW j \in 1..Len(net'), i < j
          PROVE  net'[i].ts <= net'[j].ts /\ (net'[j].mark => net'[i].ts < net'[j].ts)
      <4>1. i + 1 < j + 1
        BY <3>4
      <4>. QED  BY <2>3, <3>1, <4>1 DEF KeyInv, InOrder
    <3>. QED  BY <3>2, <3>3, <3>4 DEF InOrder
  <2>. QED  BY <1>1, <1>3, <2>1, <2>2, <2>3 DEF KeyInv, Made
<1>6. CASE EventDoubled
  <2>1. /\ net # <<>> /\ EventReceived(net[1]) /\ net' = net
        /\ ~mangled' => ~mangled /\ ~net[1].mark
    BY <1>3, <1>6, Zenon DEF EventDoubled
  <2>2. Open /\ 1 \in 1..Len(net)
    BY <1>3, <2>1 DEF EventReceived
  <2>3. /\ scenario' = scenario /\ left' = left /\ UNCHANGED socket
        /\ arrived' = arrived \cup {net[1].ts} /\ arrived' \subseteq 1..Made
        /\ heard' \in [1..scenario.presses -> Nat]
        /\ rxTs' \in arrived' \cup {0}
        /\ ~mangled' => rxTs' = net[1].ts /\ HeardOnce'
    BY <2>1, <2>2, PacketHeard
  <2>4. ASSUME ~mangled' PROVE InOrder'
    <3>0. InOrder /\ ~net[1].mark
      BY <2>1, <2>4 DEF KeyInv
    <3>1. ASSUME NEW i \in 1..Len(net)
          PROVE  /\ net[1].ts <= net[i].ts
                 /\ net[i].mark => net[1].ts < net[i].ts
      <4>1. CASE i = 1
        BY <1>2, <3>0, <4>1
      <4>2. CASE 1 < i
        BY <2>2, <3>0, <4>2 DEF InOrder
      <4>. QED  BY <4>1, <4>2
    <3>2. ASSUME NEW i \in 1..Len(net), NEW p \in arrived'
          PROVE  p <= net[i].ts /\ (p = net[i].ts => p = rxTs')
      <4>1. CASE p = net[1].ts
        BY <2>3, <2>4, <3>1, <4>1
      <4>2. CASE p \in arrived
        <5>1. p <= net[1].ts /\ p <= net[i].ts
          BY <2>2, <3>0, <4>2 DEF InOrder
        <5>2. p \in Int /\ net[1].ts \in Nat /\ net[i].ts \in Nat
          BY <1>2, <2>2, <2>3, <4>2
        <5>. QED  BY <2>3, <2>4, <3>1, <5>1, <5>2
      <4>. QED  BY <2>3, <4>1, <4>2
    <3>3. ASSUME NEW i \in 1..Len(net), net[i].mark PROVE net[i].ts \notin arrived'
      <4>1. net[i].ts \notin arrived
        BY <3>0, <3>3 DEF InOrder
      <4>. QED  BY <1>2, <2>2, <2>3, <3>1, <3>3, <4>1
    <3>. QED  BY <2>1, <3>0, <3>2, <3>3 DEF InOrder
  <2>. QED  BY <1>1, <2>1, <2>3, <2>4 DEF KeyInv, Made
<1>7. CASE EventOvertakes
  <2>1. /\ Len(net) > 1 /\ EventReceived(net[2]) /\ net' = <<Head(net)>> \o Tail(Tail(net))
        /\ ~mangled' => ~mangled /\ net[1].ts = net[2].ts /\ ~net[1].mark
    BY <1>7, Zenon DEF EventOvertakes
  <2>2. Open /\ 1 \in 1..Len(net) /\ 2 \in 1..Len(net)
    BY <1>1, <2>1 DEF EventReceived
  <2>3. /\ net' \in Seq(Key) /\ Len(net') = Len(net) - 1 /\ net'[1] = net[1]
        /\ \A i \in 2..Len(net') : net'[i] = net[i + 1] /\ i + 1 \in 1..Len(net)
    <3>. DEFINE rest == Tail(Tail(net))
    <3>1. /\ Tail(net) \in Seq(Key) /\ Len(Tail(net)) = Len(net) - 1 /\ Head(net) = net[1]
          /\ Len(net) \in Nat /\ Tail(net) # <<>>
          /\ \A i \in 1..Len(Tail(net)) : Tail(net)[i] = net[i + 1]
      <4>1. Len(net) \in Nat /\ net # <<>> /\ Head(net) = net[1]
        BY <1>1, <2>1
      <4>2. /\ Tail(net) \in Seq(Key) /\ Len(Tail(net)) = Len(net) - 1
            /\ \A i \in 1..Len(Tail(net)) : Tail(net)[i] = net[i + 1]
        BY <1>3, <4>1
      <4>3. Tail(net) # <<>>
        <5>1. Len(Tail(net)) # 0
          BY <2>1, <4>1, <4>2
        <5>2. Len(<<>>) = 0
          OBVIOUS
        <5>. QED  BY <5>1, <5>2, Zenon
      <4>. QED  BY <4>1, <4>2, <4>3
    <3>2. /\ rest \in Seq(Key) /\ Len(rest) = Len(net) - 2
          /\ \A i \in 1..Len(rest) : rest[i] = Tail(net)[i + 1] /\ i + 1 \in 1..Len(Tail(net))
      BY <3>1
    <3>3. <<Head(net)>> \in Seq(Key) /\ Len(<<Head(net)>>) = 1 /\ <<Head(net)>>[1] = net[1]
      BY <1>2, <2>2, <3>1
    <3>. HIDE DEF rest
    <3>4. /\ net' \in Seq(Key) /\ Len(net') = 1 + Len(rest)
          /\ \A i \in 1..1 : net'[i] = <<Head(net)>>[i]
          /\ \A i \in 1..Len(rest) : net'[1 + i] = rest[i]
      <4>1. net' = <<Head(net)>> \o rest
        BY <2>1 DEF rest
      <4>. HIDE DEF rest
      <4>. QED  BY <3>2, <3>3, <4>1, Joined
    <3>5. ASSUME NEW i \in 2..Len(net') PROVE net'[i] = net[i + 1] /\ i + 1 \in 1..Len(net)
      <4>1. i - 1 \in 1..Len(rest) /\ 1 + (i - 1) = i /\ (i - 1) + 1 = i
        BY <3>1, <3>2, <3>4
      <4>2. net'[i] = rest[i - 1] /\ rest[i - 1] = Tail(net)[i] /\ i \in 1..Len(Tail(net))
        BY <3>2, <3>4, <4>1
      <4>. QED  BY <3>1, <4>2
    <3>. QED  BY <3>1, <3>2, <3>3, <3>4, <3>5
  <2>4. ~mangled' => InOrder /\ ~net[1].mark /\ ~net[2].mark /\ net[1].ts = net[2].ts
    <3>1. net[2].mark /\ InOrder => net[1].ts < net[2].ts
      BY <2>2 DEF InOrder
    <3>. QED  BY <1>2, <2>1, <2>2, <3>1 DEF KeyInv
  <2>5. /\ scenario' = scenario /\ left' = left /\ UNCHANGED socket
        /\ arrived' = arrived \cup {net[2].ts} /\ arrived' \subseteq 1..Made
        /\ heard' \in [1..scenario.presses -> Nat]
        /\ rxTs' \in arrived' \cup {0}
        /\ ~mangled' => rxTs' = net[2].ts /\ HeardOnce'
    BY <2>1, <2>2, <2>4, PacketHeard
  <2>6. ASSUME ~mangled' PROVE InOrder'
    <3>. DEFINE at(i) == IF i = 1 THEN 1 ELSE i + 1
    <3>1. ASSUME NEW i \in 1..Len(net')
          PROVE  /\ at(i) \in 1..Len(net) /\ net'[i] = net[at(i)]
                 /\ net[1].ts <= net[at(i)].ts
                 /\ net[at(i)].mark => net[1].ts < net[at(i)].ts
      <4>1. CASE i = 1
        BY <1>2, <2>2, <2>3, <2>4, <2>6, <4>1
      <4>2. CASE i # 1
        <5>1. i \in 2..Len(net') /\ at(i) = i + 1 /\ 1 < at(i)
          BY <4>2
        <5>2. at(i) \in 1..Len(net) /\ net'[i] = net[at(i)]
          BY <2>3, <5>1
        <5>. QED  BY <2>2, <2>4, <2>6, <5>1, <5>2 DEF InOrder
      <4>. QED  BY <4>1, <4>2
    <3>2. ASSUME NEW i \in 1..Len(net'), NEW p \in arrived'
          PROVE  p <= net'[i].ts /\ (p = net'[i].ts => p = rxTs')
      <4>1. CASE p = net[2].ts
        BY <2>4, <2>5, <2>6, <3>1, <4>1
      <4>2. CASE p \in arrived
        <5>1. p <= net[1].ts /\ p <= net[at(i)].ts
          BY <2>2, <2>4, <2>6, <3>1, <4>2 DEF InOrder
        <5>2. p \in Int /\ net[1].ts \in Nat /\ net[at(i)].ts \in Nat
          BY <1>2, <2>2, <2>5, <3>1, <4>2
        <5>. QED  BY <2>4, <2>5, <2>6, <3>1, <5>1, <5>2
      <4>. QED  BY <2>5, <4>1, <4>2
    <3>3. ASSUME NEW i \in 1..Len(net'), net'[i].mark PROVE net'[i].ts \notin arrived'
      <4>1. net[at(i)].ts \notin arrived
        BY <2>4, <2>6, <3>1, <3>3 DEF InOrder
      <4>. QED  BY <1>2, <2>2, <2>4, <2>5, <2>6, <3>1, <3>3, <4>1
    <3>4. ASSUME NEW i \in 1..Len(net'), NEW j \in 1..Len(net'), i < j
          PROVE  net'[i].ts <= net'[j].ts /\ (net'[j].mark => net'[i].ts < net'[j].ts)
      <4>1. at(i) < at(j)
        BY <3>4
      <4>. QED  BY <2>4, <2>6, <3>1, <4>1 DEF InOrder
    <3>. QED  BY <3>2, <3>3, <3>4 DEF InOrder
  <2>7. \A i \in 1..Len(net') : net'[i].ts <= Made
    <3>1. \A i \in 1..Len(net') : i = 1 \/ i \in 2..Len(net')
      OBVIOUS
    <3>. QED  BY <1>1, <2>2, <2>3, <3>1
  <2>. QED  BY <1>1, <2>1, <2>3, <2>5, <2>6, <2>7 DEF KeyInv, Made
<1>. QED  BY <1>4, <1>5, <1>6, <1>7

LEMMA KeyStep == KeyInv /\ [RtpNext]_rtpVars => KeyInv'
<1>. SUFFICES ASSUME KeyInv, [RtpNext]_rtpVars PROVE KeyInv'
  OBVIOUS
<1>1. CASE UNCHANGED rtpVars
  BY <1>1, KeysKept DEF rtpVars, keyVars, envVars, KeyInv, Open
<1>2. CASE RtpNext
  BY <1>2, CallsKeepKeys, OthersKeepKeys, PressKeepsKeys, EventKeepsKeys DEF RtpNext
<1>. QED  BY <1>1, <1>2

\* Each key press that got through is one digit, whatever was lost, doubled or overtaken,
\* with and without the marker bit (_receive_impl()), but for what mangled says.
THEOREM PressesHeardOnce == RtpSpec => []OneDigitPerPress
<1>1. KeyInv => OneDigitPerPress
  BY DEF KeyInv, HeardOnce, OneDigitPerPress
<1>. QED  BY <1>1, KeyStart, KeyStep, PTL DEF RtpSpec
-----------------------------------------------------------------------------
(* What we send. *)

\* What SentInOrder says of a step.
StepInOrder ==
    /\ socket = socket' => tx'.ts >= tx.ts
    /\ (out' # out /\ out # Nothing /\ out' # Nothing)
       => /\ out'.ts >= out.ts
          /\ out.end /\ out'.ts # out.ts => out'.ts > out.ts + out.dur
          /\ out.kind = "audio" => out'.ts > out.ts

\* The sender's state after it sent, was paused or changed its codec.
LEMMA TxBecomes ==
    ASSUME tx \in [ts : Nat, buffer : Nat, queue : Nat], NEW n \in Nat, NEW m \in Nat,
           NEW k \in Nat,
           \/ tx' = [tx EXCEPT !.ts = n, !.buffer = m]
           \/ tx' = [tx EXCEPT !.queue = k, !.ts = n]
           \/ tx' = [tx EXCEPT !.buffer = m, !.queue = k] /\ n = tx.ts
    PROVE  tx' \in [ts : Nat, buffer : Nat, queue : Nat] /\ tx'.ts = n
OBVIOUS

LEMMA SendStart == RtpInit => SendInv
BY DEF RtpInit, SendInv, NoTone, Nothing

\* A step that sends nothing.
LEMMA SendsNothing ==
    ASSUME SendInv, out' = out,
           txOn' \in BOOLEAN, paused' \in Nat, tx' \in [ts : Nat, buffer : Nat, queue : Nat],
           tx'.ts >= tx.ts,
           tone' = NoTone \/ (tone' = tone /\ tx'.ts = tx.ts /\ (txOn => txOn'))
    PROVE  SendInv' /\ StepInOrder
<1>1. tone' \in [active : BOOLEAN, ts : Nat, dur : Nat, ends : Nat]
  <2>1. NoTone \in [active : BOOLEAN, ts : Nat, dur : Nat, ends : Nat]
    BY DEF NoTone
  <2>. QED  BY <2>1 DEF SendInv
<1>2. tone'.active => txOn' /\ tone'.ts = tx'.ts
  <2>1. CASE tone' = NoTone
    BY <2>1 DEF NoTone
  <2>2. CASE tone' = tone /\ tx'.ts = tx.ts /\ (txOn => txOn')
    BY <2>2 DEF SendInv
  <2>. QED  BY <2>1, <2>2
<1>3. /\ out.ts \in Nat /\ out.dur \in Nat /\ tx.ts \in Nat /\ tx'.ts \in Nat
      /\ out # Nothing => out.kind # "none" /\ out.ts <= tx.ts
      /\ out.kind = "audio" => out.ts < tx.ts
      /\ out.end => out.ts + out.dur < tx.ts
  BY DEF SendInv
<1>4. /\ out' # Nothing => out'.kind # "none" /\ out'.ts <= tx'.ts
      /\ out'.kind = "audio" => out'.ts < tx'.ts
      /\ out'.end => out'.ts + out'.dur < tx'.ts
  BY <1>3
<1>5. StepInOrder
  BY DEF StepInOrder
<1>. QED  BY <1>1, <1>2, <1>4, <1>5 DEF SendInv

LEMMA SendStep == SendInv /\ [RtpNext]_rtpVars => SendInv' /\ [StepInOrder]_rtpVars
<1>. SUFFICES ASSUME SendInv, [RtpNext]_rtpVars PROVE SendInv' /\ StepInOrder
  OBVIOUS
<1>. USE DEF sdpVars, txVars
<1>0. tx \in [ts : Nat, buffer : Nat, queue : Nat] /\ tx.ts \in Nat
  BY DEF SendInv
<1>1. /\ txOn \in BOOLEAN /\ paused \in Nat
      /\ tx \in [ts : Nat, buffer : Nat, queue : Nat]
      /\ tone \in [active : BOOLEAN, ts : Nat, dur : Nat, ends : Nat]
      /\ out \in [kind : {"none", "audio", "event"}, ts : Nat, dur : Nat, end : BOOLEAN]
      /\ tone.active => txOn /\ tone.ts = tx.ts
      /\ BufferMax \in Nat
  BY RtpAssumption DEF RtpAssumption, SendInv
<1>2. ASSUME tx' = [tx EXCEPT !.buffer = 0, !.queue = 0]
       PROVE  tx' \in [ts : Nat, buffer : Nat, queue : Nat] /\ tx'.ts >= tx.ts
  <2>1. tx' \in [ts : Nat, buffer : Nat, queue : Nat] /\ tx'.ts = tx.ts
    BY <1>0, <1>2
  <2>. QED  BY <1>0, <2>1
<1>3. ASSUME UNCHANGED <<txOn, txVars>> PROVE SendInv' /\ StepInOrder
  BY <1>1, <1>3, SendsNothing
<1>4. CASE BeginCall \/ CallOver
  <2>1. UNCHANGED <<tx, tone, out>> /\ txOn' = TRUE /\ paused' = 0
    BY <1>4 DEF BeginCall, CallOver
  <2>2. tx'.ts = tx.ts /\ tx'.ts >= tx.ts
    BY <1>1, <2>1
  <2>. QED  BY <1>1, <2>1, <2>2, SendsNothing
<1>5. CASE RtpStarts
  <2>1. /\ socket = "none" /\ socket' = "current" /\ out' = Nothing /\ tone' = NoTone
        /\ tx' = [ts |-> 0, buffer |-> 0, queue |-> 0] /\ UNCHANGED <<txOn, paused>>
    BY <1>5 DEF RtpStarts
  <2>. QED  BY <1>1, <2>1 DEF SendInv, StepInOrder, NoTone, Nothing
<1>6. CASE RtpStops
  <2>1. /\ tx' = [tx EXCEPT !.buffer = 0, !.queue = 0] /\ tone' = NoTone
        /\ UNCHANGED <<txOn, paused, out>>
    BY <1>6 DEF RtpStops, Quiet
  <2>2. tx' \in [ts : Nat, buffer : Nat, queue : Nat] /\ tx'.ts >= tx.ts
    BY <1>0, <1>2, <2>1
  <2>. QED  BY <1>1, <2>1, <2>2, SendsNothing
<1>7. ASSUME NEW sdp \in scenario.offers, Offered(sdp) PROVE SendInv' /\ StepInOrder
  <2>1. out' = out /\ txOn' \in BOOLEAN
    BY <1>7 DEF Offered
  <2>2. CASE txOn /\ ~txOn'
    <3>1. /\ tx' = [tx EXCEPT !.buffer = 0, !.queue = 0] /\ tone' = NoTone /\ paused' = 0
      BY <1>7, <2>2 DEF Offered, PausesTx, Quiet
    <3>2. tx' \in [ts : Nat, buffer : Nat, queue : Nat] /\ tx'.ts >= tx.ts
      BY <1>0, <1>2, <3>1
    <3>. QED  BY <1>1, <2>1, <3>1, <3>2, SendsNothing
  <2>3. CASE ~txOn /\ txOn'
    <3>1. PICK n \in CaughtUp : tx' = [tx EXCEPT !.ts = @ + n]
      BY <1>7, <2>3 DEF Offered, ResumesTx
    <3>2. paused' = 0 /\ tone' = tone
      BY <1>7, <2>3 DEF Offered, ResumesTx
    <3>3. n \in Nat
      BY <1>1, <3>1 DEF CaughtUp
    <3>4. /\ tx' \in [ts : Nat, buffer : Nat, queue : Nat] /\ tx'.ts >= tx.ts /\ ~tone.active
      BY <1>1, <2>3, <3>1, <3>3
    <3>. QED  BY <1>1, <2>1, <3>2, <3>4 DEF SendInv, StepInOrder
  <2>4. CASE txOn' = txOn
    <3>1. /\ UNCHANGED <<tone, paused>>
          /\ \E n \in {0, tx.buffer} : tx' = [tx EXCEPT !.buffer = n]
      BY <1>1, <1>7, <2>1, <2>4 DEF Offered
    <3>. QED  BY <1>1, <2>1, <2>4, <3>1, SendsNothing
  <2>. QED  BY <1>1, <2>1, <2>2, <2>3, <2>4
<1>8. CASE Push \/ QueueDigit
  <2>1. /\ UNCHANGED <<txOn, paused, tone, out>>
        /\ tx' \in [ts : Nat, buffer : Nat, queue : Nat] /\ tx'.ts = tx.ts
    BY <1>1, <1>8 DEF Push, QueueDigit
  <2>. QED  BY <1>1, <2>1, SendsNothing
<1>9. CASE Frame
  <2>1. UNCHANGED <<txOn, socket>>
    BY <1>9 DEF Frame
  <2>2. CASE SendsAudio
    <3>1. /\ ~tone.active /\ UNCHANGED <<tone, paused>>
          /\ out' = [kind |-> "audio", ts |-> tx.ts, dur |-> 0, end |-> FALSE]
          /\ tx' = [tx EXCEPT !.ts = @ + 1, !.buffer = IF @ = 0 THEN 0 ELSE @ - 1]
      BY <2>2 DEF SendsAudio
    <3>2. tx' \in [ts : Nat, buffer : Nat, queue : Nat] /\ tx'.ts = tx.ts + 1
      <4>. DEFINE n == IF tx.buffer = 0 THEN 0 ELSE tx.buffer - 1
      <4>1. n \in Nat /\ tx.ts + 1 \in Nat
        BY <1>0
      <4>2. tx' = [tx EXCEPT !.ts = tx.ts + 1, !.buffer = n]
        BY <3>1
      <4>. HIDE DEF n
      <4>. QED  BY <1>0, <4>1, <4>2, TxBecomes
    <3>. QED  BY <1>1, <2>1, <3>1, <3>2 DEF SendInv, StepInOrder, Nothing
  <2>3. CASE SendsTone /\ txOn
    <3>. DEFINE fresh == ~tone.active
                t == IF fresh THEN [active |-> TRUE, ts |-> tx.ts, dur |-> 0, ends |-> 0]
                     ELSE tone
                ending == t.dur >= ToneFrames
                last == ending /\ t.ends + 1 >= EndPackets
    <3>1. /\ tone.active \/ tx.queue > 0
          /\ out' = [kind |-> "event", ts |-> t.ts, dur |-> t.dur, end |-> last]
          /\ tone' = IF last THEN NoTone
                     ELSE IF ending THEN [t EXCEPT !.ends = @ + 1] ELSE [t EXCEPT !.dur = @ + 1]
          /\ tx' = [tx EXCEPT !.queue = IF fresh THEN @ - 1 ELSE @,
                              !.ts = IF last THEN t.ts + t.dur + 1 ELSE @]
          /\ paused' = paused
      BY <2>3 DEF SendsTone
    <3>2. /\ t \in [active : BOOLEAN, ts : Nat, dur : Nat, ends : Nat]
          /\ t.active /\ t.ts = tx.ts /\ last \in BOOLEAN
      BY <1>1
    <3>. HIDE DEF t, ending, last
    <3>3. /\ tx' \in [ts : Nat, buffer : Nat, queue : Nat]
          /\ tx'.ts = IF last THEN t.ts + t.dur + 1 ELSE tx.ts
      <4>1. (IF fresh THEN tx.queue - 1 ELSE tx.queue) \in Nat
        BY <1>1, <3>1
      <4>2. (IF last THEN t.ts + t.dur + 1 ELSE tx.ts) \in Nat
        BY <1>1, <3>2
      <4>3. tx' = [tx EXCEPT !.queue = IF fresh THEN tx.queue - 1 ELSE tx.queue,
                             !.ts = IF last THEN t.ts + t.dur + 1 ELSE tx.ts]
        BY <3>1
      <4>. QED  BY <1>0, <4>1, <4>2, <4>3, TxBecomes
    <3>4. /\ tone' \in [active : BOOLEAN, ts : Nat, dur : Nat, ends : Nat]
          /\ tone'.active => ~last /\ tone'.ts = tx.ts
      BY <1>1, <3>1, <3>2 DEF NoTone
    <3>5. /\ out' \in [kind : {"none", "audio", "event"}, ts : Nat, dur : Nat, end : BOOLEAN]
          /\ out'.kind = "event" /\ out'.ts = tx.ts /\ out'.dur = t.dur /\ out'.end = last
      BY <3>1, <3>2
    <3>6. SendInv'
      BY <1>1, <2>1, <2>3, <3>1, <3>2, <3>3, <3>4, <3>5 DEF SendInv
    <3>7. StepInOrder
      BY <1>1, <3>2, <3>3, <3>5 DEF SendInv, StepInOrder
    <3>. QED  BY <3>6, <3>7
  <2>4. CASE Skips
    BY <1>1, <2>1, <2>4, SendsNothing DEF Skips
  <2>. QED  BY <1>9, <2>2, <2>3, <2>4 DEF Frame
<1>10. CASE \/ RtpStopping \/ WatchdogLapses \/ Connect
            \/ PeerSends \/ PeerSendsOddly \/ PeerKeepsAlive \/ PeerMoves \/ PeerDies
            \/ \E addr \in Addrs, ssrc \in {1, 2}, seq \in 0..(SeqMod - 1) :
                  StrayPacket(addr, ssrc, seq)
  BY <1>3, <1>10 DEF RtpStopping, WatchdogLapses, Connect, PeerSends, PeerSendsOddly,
     PeerPacket, PeerKeepsAlive, PeerMoves, PeerDies, StrayPacket
<1>11. CASE PeerPresses \/ EventArrives \/ EventDoubled \/ EventOvertakes \/ EventLost
  BY <1>3, <1>11 DEF PeerPresses, EventArrives, EventDoubled, EventOvertakes, EventReceived,
     EventLost
<1>12. CASE UNCHANGED rtpVars
  BY <1>3, <1>12 DEF rtpVars
<1>. QED
  BY <1>4, <1>5, <1>6, <1>7, <1>8, <1>9, <1>10, <1>11, <1>12
     DEF RtpNext, EndCall, WatchdogFires

\* RTP time never runs backwards, neither that of the sender nor that of what it sent,
\* and audio goes on after an event and not within it, through hold, resumption,
\* renegotiation and the digits of send_dtmf() (_sender(), _clear_dtmf_tx()).
THEOREM SendsInOrder == RtpSpec => SentInOrder
BY SendStart, SendStep, PTL DEF RtpSpec, SentInOrder, StepInOrder
=============================================================================
