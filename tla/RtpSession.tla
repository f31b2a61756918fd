----------------------------- MODULE RtpSession -----------------------------
(***************************************************************************)
(* The RTP session of a call (sip_client/rtp_session.py) and the SDP that  *)
(* steers it (_apply_remote_sdp() of SipClient): codec, hold, who sends,   *)
(* the receive watchdog, the symmetric latch, telephone-events both ways.  *)
(*                                                                         *)
(* Time is counted in frames of 20 ms where the sender runs; elsewhere an  *)
(* armed timer may fire at any later moment.  RTP timestamps count frames, *)
(* from 0 for each call.  Left out: samples, SSRC of what we send, traces  *)
(* and counters, and digits that are none.                                 *)
(***************************************************************************)
EXTENDS Codecs, FiniteSets

CONSTANTS
    Addrs,        \* where RTP may come from
    LearnCount,   \* _LATCH_LEARN_COUNT
    SeqMod,       \* sequence numbers (the code: 2^16)
    SeqGap,       \* _LATCH_SEQ_GAP_MAX
    ToneFrames,   \* _DTMF_TONE_SAMPLES, in frames
    EndPackets,   \* _DTMF_END_PACKETS
    BufferMax,    \* _tx_buffer_max, in frames
    PressPackets, \* how many packets the peer makes of a key press
    Scenarios     \* what the environment may do; one is chosen at the start:
                  \* orders, offers: codec orders and SDP bodies
                  \* deals, moves, strays, odd, presses, ticks, digits: how
                  \* many offers, address changes of the peer, packets of
                  \* others, late or lost packets, keys, frames, digits
                  \* mortal, marks: the peer may die, sets the marker bit

ASSUME RtpAssumption ==
    /\ LearnCount \in Nat \ {0} /\ SeqMod \in Nat \ {0} /\ SeqGap \in 1..(SeqMod - 1)
    /\ {ToneFrames, EndPackets, BufferMax, PressPackets} \subseteq Nat \ {0}
    /\ \A s \in Scenarios :
         /\ s.orders \subseteq Presets /\ \A sdp \in s.offers : WellParsed(sdp)
         /\ {s.deals, s.moves, s.strays, s.odd, s.presses, s.ticks, s.digits} \subseteq Nat

VARIABLES
    call,        \* "none", "early", "up" (answering or in_call)
    order,       \* _codec_order
    codec,       \* _codec of SipClient, and of the session once it runs
    negotiated,  \* _sdp_negotiated
    offer,       \* history: the SDP body accepted last
    endpoint,    \* _remote_rtp_ip, _remote_rtp_port
    events,      \* dtmf_pt is known: telephone-event was negotiated
    txOn,        \* tx_enabled; always the opposite of _on_hold
    expects,     \* expect_rx
    socket,      \* _transport: "none", "current", "left" by the call before, and
                 \* "closing": stop() awaits its sender, packets still come in
    watchdog,    \* _media_timeout_handle is set
    remote,      \* _remote
    cand,        \* _latch_candidate, _latch_ssrc, _latch_seq, _latch_count
    rxTs,        \* _rx_dtmf_timestamp; a key press is named by it
    tx,          \* _timestamp, frames in _tx_buffer, digits in _dtmf_queue
    tone,        \* _dtmf_active, _dtmf_timestamp, _dtmf_duration, _dtmf_end_packets
    paused,      \* frames since _tx_paused_at
    peer,        \* where the peer sends from, its sequence number, whether it lives
    net,         \* event packets of the peer under way
    heard,       \* history: how often on_dtmf() was called for each press
    arrived,     \* history: presses of which a packet arrived
    mangled,     \* history: the network doubled or overtook a packet that counts, or
                 \* delayed one beyond the start of RTP for the next call
    recent,      \* history: the last LearnCount packets the latch looked at
    out,         \* history: the last packet we sent
    scenario, left   \* the environment's choice, and what is left of it

sdpVars == <<order, codec, negotiated, offer, endpoint, events, txOn, expects>>
latchVars == <<remote, cand, recent>>
keyVars == <<rxTs, net, heard, arrived, mangled>>
txVars == <<tx, tone, paused, out>>
envVars == <<peer, scenario, left>>
rtpVars == <<call, sdpVars, socket, watchdog, latchVars, keyVars, txVars, envVars>>

NoCand == [addr |-> "none", ssrc |-> 0, seq |-> 0, count |-> 0]
NoTone == [active |-> FALSE, ts |-> 0, dur |-> 0, ends |-> 0]
Nothing == [kind |-> "none", ts |-> 0, dur |-> 0, end |-> FALSE]
NoOffer == [pts |-> {}, named |-> [n \in Names |-> -1], event |-> -1,
            dir |-> "sendrecv", zero |-> FALSE, at |-> "none", valid |-> FALSE]

RtpInit ==
    /\ scenario \in Scenarios
    /\ left = [deals |-> scenario.deals, moves |-> scenario.moves, strays |-> scenario.strays,
               odd |-> scenario.odd, presses |-> scenario.presses, ticks |-> scenario.ticks,
               digits |-> scenario.digits]
    /\ order \in scenario.orders
    /\ call = "none" /\ codec = FallbackCodec(order) /\ negotiated = FALSE
    /\ offer = NoOffer /\ endpoint = "none" /\ events = FALSE
    /\ txOn = TRUE /\ expects = TRUE
    /\ socket = "none" /\ watchdog = FALSE
    /\ remote = "none" /\ cand = NoCand /\ recent = <<>>
    /\ rxTs = 0 /\ net = <<>> /\ heard = [p \in 1..scenario.presses |-> 0]
    /\ arrived = {} /\ mangled = FALSE
    /\ tx = [ts |-> 0, buffer |-> 0, queue |-> 0] /\ tone = NoTone /\ paused = 0
    /\ out = Nothing
    /\ peer = [at |-> "sdp", seq |-> 0, alive |-> TRUE]

Spends(what) ==
    /\ left[what] > 0
    /\ left' = [left EXCEPT ![what] = @ - 1]
    /\ UNCHANGED scenario
-----------------------------------------------------------------------------
(* The call and its SDP. *)

\* Also _media_active: from start() to the end of stop(), whichever call is on.
Open == socket # "none"

\* _note_rx(): the watchdog starts again, if it may.
Rearmed(sending, expecting) == sending /\ expecting

Quiet == tx' = [tx EXCEPT !.buffer = 0, !.queue = 0] /\ tone' = NoTone

\* _begin_dialog_media()
BeginCall ==
    /\ call = "none"
    /\ call' = "early"
    /\ codec' = FallbackCodec(order) /\ negotiated' = FALSE /\ events' = FALSE
    /\ endpoint' = "none" /\ offer' = NoOffer
    /\ txOn' = TRUE /\ expects' = TRUE /\ paused' = 0
    /\ watchdog' = (watchdog \/ (~expects /\ Open))
    /\ UNCHANGED <<order, socket, latchVars, keyVars, tx, tone, out, envVars>>

IsHold(sdp) == sdp.zero \/ sdp.dir \in {"sendonly", "inactive"}

\* _answer_direction() is sendonly: the peer only listens.
PeerListens(sdp) == ~sdp.zero /\ sdp.dir = "recvonly"

\* The codec an offer settles; NoCodec: it is refused and nothing changes.
Settles(sdp) == IF negotiated THEN KeepOrChoose(codec, sdp, order) ELSE Choose(sdp, order)

\* How much of a pause the timestamp makes up for: whole frames, by the clock.
CaughtUp == {n \in {paused - 1, paused} : n >= 0}

\* Mutant: hold leaves an event half sent.
PausedOnly == tx' = [tx EXCEPT !.buffer = 0] /\ paused' = 0 /\ UNCHANGED tone

\* set_tx_enabled(False)
PausesTx == Quiet /\ paused' = 0

\* set_tx_enabled(True)
ResumesTx ==
    /\ \E n \in CaughtUp : tx' = [tx EXCEPT !.ts = @ + n]
    /\ paused' = 0
    /\ UNCHANGED tone

\* Mutant: the watchdog of a call that is resumed is left to the next packet.
WatchdogKept(sending, expecting) == watchdog /\ sending /\ expecting

\* The watchdog after set_tx_enabled() and then set_expect_rx().
WatchdogAfter(sending, expecting) ==
    /\ sending /\ expecting
    /\ watchdog \/ (Open /\ (~txOn \/ ~expects))

\* set_remote(): a new address, and the latch learns from scratch.
RetargetsTo(addr) == remote' = addr /\ cand' = NoCand /\ recent' = <<>>

\* _apply_remote_sdp() of an offer or answer that has an allowed codec.
Offered(sdp) ==
    LET c == Settles(sdp)
        rateChanges == ("G722" \in {c.name, codec.name}) /\ c.name # codec.name
        there == IF sdp.zero \/ sdp.at = "none" THEN endpoint ELSE sdp.at
    IN
    /\ call # "none" /\ Spends("deals")
    /\ c # NoCodec
    /\ codec' = c /\ offer' = sdp /\ endpoint' = there
    /\ IF sdp.valid THEN negotiated' = TRUE /\ events' = (sdp.event # -1)
       ELSE UNCHANGED <<negotiated, events>>
    /\ txOn' = ~IsHold(sdp) /\ expects' = ~PeerListens(sdp)
    /\ CASE txOn /\ ~txOn' -> PausesTx
         [] ~txOn /\ txOn' -> ResumesTx
         [] OTHER -> /\ tx' = [tx EXCEPT !.buffer = IF rateChanges THEN 0 ELSE @]
                     /\ UNCHANGED <<tone, paused>>
    /\ watchdog' = WatchdogAfter(txOn', expects')
    /\ IF Open /\ there # endpoint THEN RetargetsTo(there) ELSE UNCHANGED latchVars
    /\ UNCHANGED <<call, order, socket, keyVars, out, peer>>

Connect ==
    /\ call = "early"
    /\ call' = "up"
    /\ UNCHANGED <<sdpVars, socket, watchdog, latchVars, keyVars, txVars, envVars>>

\* RtpSession.start(), by _start_media()
RtpStarts ==
    /\ call = "up" /\ socket = "none" /\ endpoint # "none"
    /\ socket' = "current"
    /\ watchdog' = Rearmed(txOn, expects)
    /\ RetargetsTo(endpoint)
    /\ rxTs' = 0
    /\ mangled' = (mangled \/ \E i \in 1..Len(net) : net[i].ts \in arrived)
    /\ tx' = [ts |-> 0, buffer |-> 0, queue |-> 0] /\ tone' = NoTone
    /\ out' = Nothing
    /\ UNCHANGED <<call, sdpVars, net, heard, arrived, paused, envVars>>

CallOver ==
    /\ call' = "none"
    /\ txOn' = TRUE /\ paused' = 0
    /\ watchdog' = FALSE
    /\ socket' = IF socket = "current" THEN "left" ELSE socket
    /\ UNCHANGED <<order, codec, negotiated, offer, endpoint, events, expects, latchVars,
                   keyVars, tx, tone, out, envVars>>

\* _end_call(): RTP is stopped by a task of its own.
EndCall == call # "none" /\ CallOver

\* RtpSession.stop(), until it awaits the end of the sender it cancelled.
RtpStopping ==
    /\ socket = "left"
    /\ socket' = "closing" /\ watchdog' = FALSE
    /\ UNCHANGED <<call, sdpVars, latchVars, keyVars, txVars, envVars>>

\* The rest of stop().  A watchdog that a packet, or the SDP of the next call, armed
\* meanwhile is left running.
RtpStops ==
    /\ socket = "closing"
    /\ socket' = "none"
    /\ rxTs' = 0
    /\ Quiet
    /\ UNCHANGED <<call, sdpVars, watchdog, latchVars, net, heard, arrived, mangled, paused,
                   out, envVars>>

\* _fire_media_timeout() without a transport.
WatchdogLapses ==
    /\ watchdog /\ ~Open
    /\ watchdog' = FALSE
    /\ UNCHANGED <<call, sdpVars, socket, latchVars, keyVars, txVars, envVars>>

\* _fire_media_timeout() and _on_media_timeout(): the call is hung up.  The 30 s
\* outlast the task that stops the RTP of the call before.
WatchdogFires ==
    /\ watchdog /\ socket = "current" /\ call = "up"
    /\ txOn /\ expects
    /\ ~peer.alive
    /\ CallOver
-----------------------------------------------------------------------------
(* Receiving. *)

Follows(prev, seq) == (seq - prev) % SeqMod \in 1..SeqGap

\* Mutant: one packet is enough to follow.
CountsFrom(addr, ssrc, seq) == [addr |-> addr, ssrc |-> ssrc, seq |-> seq, count |-> LearnCount]

\* The candidate after a packet from an address that is not the remote one.
Candidate(addr, ssrc, seq) ==
    IF cand.addr = addr /\ cand.ssrc = ssrc /\ Follows(cand.seq, seq)
    THEN [cand EXCEPT !.seq = seq, !.count = @ + 1]
    ELSE [addr |-> addr, ssrc |-> ssrc, seq |-> seq, count |-> 1]

\* The packet is of the peer we do not send to.
Elsewhere(addr) == addr # remote

\* _maybe_latch()
MaybeLatch(addr, ssrc, seq) ==
    LET c == Candidate(addr, ssrc, seq)
        all == Append(recent, [addr |-> addr, ssrc |-> ssrc, seq |-> seq])
    IN
    /\ recent' = IF Len(all) > LearnCount THEN Tail(all) ELSE all
    /\ IF ~Elsewhere(addr) THEN cand' = NoCand /\ UNCHANGED remote
       ELSE IF c.count < LearnCount THEN cand' = c /\ UNCHANGED remote
       ELSE remote' = addr /\ cand' = NoCand

\* Audio of the peer, d further in its sequence.  Where nothing takes it off the
\* address we send to, it does what PeerKeepsAlive does, and is left to that.
PeerPacket(d) ==
    LET seq == (peer.seq + d) % SeqMod IN
    /\ Open /\ peer.alive /\ scenario.moves > 0
    /\ peer' = [peer EXCEPT !.seq = seq]
    /\ watchdog' = Rearmed(txOn, expects)
    /\ MaybeLatch(peer.at, 1, seq)
    /\ UNCHANGED <<call, sdpVars, socket, keyVars, txVars>>

PeerSends == PeerPacket(1) /\ UNCHANGED <<scenario, left>>

\* Some were lost, or one is late.
PeerSendsOddly == \E d \in {0, SeqGap + 1, SeqMod - 1} : PeerPacket(d) /\ Spends("odd")

\* Comfort noise and unknown payload types count for the watchdog only.
PeerKeepsAlive ==
    /\ Open /\ peer.alive
    /\ watchdog' = Rearmed(txOn, expects)
    /\ UNCHANGED <<call, sdpVars, socket, latchVars, keyVars, txVars, envVars>>

\* Anybody else's packet.
StrayPacket(addr, ssrc, seq) ==
    /\ Open /\ Spends("strays")
    /\ watchdog' = Rearmed(txOn, expects)
    /\ MaybeLatch(addr, ssrc, seq)
    /\ UNCHANGED <<call, sdpVars, socket, keyVars, txVars, peer>>

\* The NAT in front of the peer gives it another address.
PeerMoves ==
    /\ Spends("moves") /\ call = "up" /\ peer.at # "nat"
    /\ peer' = [peer EXCEPT !.at = "nat"]
    /\ UNCHANGED <<call, sdpVars, socket, watchdog, latchVars, keyVars, txVars>>

\* The peer is gone without a BYE.
PeerDies ==
    /\ scenario.mortal /\ peer.alive
    /\ peer' = [peer EXCEPT !.alive = FALSE]
    /\ UNCHANGED <<call, sdpVars, socket, watchdog, latchVars, keyVars, txVars, scenario, left>>

\* A key: its packets share a timestamp, and the first one may carry the marker.
PeerPresses ==
    LET press == scenario.presses - left.presses + 1 IN
    /\ socket = "current" /\ peer.alive /\ Spends("presses")
    /\ net' = net \o [i \in 1..PressPackets |-> [ts |-> press, mark |-> scenario.marks /\ i = 1]]
    /\ UNCHANGED <<call, sdpVars, socket, watchdog, latchVars, rxTs, heard, arrived, mangled,
                   txVars, peer>>

\* Mutant: only the marker bit tells a press.
NewPressIfMarked(pkt) == pkt.mark

NewPress(pkt) == pkt.mark \/ pkt.ts # rxTs

\* _receive_impl() of a telephone-event
EventReceived(pkt) ==
    /\ Open
    /\ peer' = [peer EXCEPT !.seq = (@ + 1) % SeqMod]
    /\ watchdog' = Rearmed(txOn, expects)
    /\ MaybeLatch(peer.at, 1, (peer.seq + 1) % SeqMod)
    /\ IF NewPress(pkt) THEN rxTs' = pkt.ts /\ heard' = [heard EXCEPT ![pkt.ts] = @ + 1]
       ELSE UNCHANGED <<rxTs, heard>>
    /\ arrived' = arrived \cup {pkt.ts}
    /\ UNCHANGED <<call, sdpVars, socket, txVars, scenario, left>>

EventArrives == net # <<>> /\ EventReceived(Head(net)) /\ net' = Tail(net) /\ UNCHANGED mangled

EventDoubled ==
    /\ net # <<>> /\ EventReceived(Head(net)) /\ heard[Head(net).ts] < 2
    /\ mangled' = (mangled \/ Head(net).mark)
    /\ UNCHANGED net

\* The second overtakes the first.  It matters if they are of two presses, or if
\* the one with the marker comes late.
EventOvertakes ==
    /\ Len(net) > 1 /\ EventReceived(net[2])
    /\ net' = <<Head(net)>> \o Tail(Tail(net))
    /\ mangled' = (mangled \/ net[1].ts # net[2].ts \/ net[1].mark)

EventLost ==
    /\ net # <<>>
    /\ net' = Tail(net)
    /\ UNCHANGED <<call, sdpVars, socket, watchdog, latchVars, rxTs, heard, arrived, mangled,
                   txVars, envVars>>
-----------------------------------------------------------------------------
(* Sending: one turn of _sender() is a frame. *)

\* push_tx_audio() drops the oldest audio when there is too much.
Push ==
    /\ Open /\ txOn /\ scenario.digits > 0
    /\ tx' = [tx EXCEPT !.buffer = IF @ = BufferMax THEN @ ELSE @ + 1]
    /\ UNCHANGED <<call, sdpVars, socket, watchdog, latchVars, keyVars, tone, paused, out, envVars>>

\* queue_dtmf(), which send_dtmf() of SipClient calls within a call.
QueueDigit ==
    /\ call = "up" /\ events /\ Spends("digits")
    /\ tx' = [tx EXCEPT !.queue = @ + 1]
    /\ UNCHANGED <<call, sdpVars, socket, watchdog, latchVars, keyVars, tone, paused, out, peer>>

\* _send_audio_packet(), of queued audio or of silence.
SendsAudio ==
    /\ ~tone.active /\ tx.queue = 0
    /\ out' = [kind |-> "audio", ts |-> tx.ts, dur |-> 0, end |-> FALSE]
    /\ tx' = [tx EXCEPT !.ts = @ + 1, !.buffer = IF @ = 0 THEN 0 ELSE @ - 1]
    /\ UNCHANGED <<tone, paused>>

\* _send_dtmf_packet()
SendsTone ==
    LET fresh == ~tone.active
        t == IF fresh THEN [active |-> TRUE, ts |-> tx.ts, dur |-> 0, ends |-> 0] ELSE tone
        ending == t.dur >= ToneFrames
        last == ending /\ t.ends + 1 >= EndPackets
    IN
    /\ tone.active \/ tx.queue > 0
    /\ out' = [kind |-> "event", ts |-> t.ts, dur |-> t.dur, end |-> last]
    /\ tone' = IF last THEN NoTone
               ELSE IF ending THEN [t EXCEPT !.ends = @ + 1] ELSE [t EXCEPT !.dur = @ + 1]
    /\ tx' = [tx EXCEPT !.queue = IF fresh THEN @ - 1 ELSE @,
                        !.ts = IF last THEN t.ts + t.dur + 1 ELSE @]
    /\ UNCHANGED paused

\* The sender has nothing to do while it is paused.
Skips == paused' = paused + 1 /\ UNCHANGED <<tx, tone, out>>

Frame ==
    /\ socket \in {"current", "left"} /\ Spends("ticks")
    /\ IF txOn THEN SendsAudio \/ SendsTone ELSE Skips
    /\ UNCHANGED <<call, sdpVars, socket, watchdog, latchVars, keyVars, peer>>

RtpNext ==
    \/ BeginCall \/ Connect \/ RtpStarts \/ EndCall \/ RtpStopping \/ RtpStops
    \/ WatchdogFires \/ WatchdogLapses
    \/ \E sdp \in scenario.offers : Offered(sdp)
    \/ PeerSends \/ PeerSendsOddly \/ PeerKeepsAlive \/ PeerMoves \/ PeerDies
    \/ \E addr \in Addrs, ssrc \in {1, 2}, seq \in 0..(SeqMod - 1) : StrayPacket(addr, ssrc, seq)
    \/ PeerPresses \/ EventArrives \/ EventDoubled \/ EventOvertakes \/ EventLost
    \/ Push \/ QueueDigit \/ Frame

RtpSpec == RtpInit /\ [][RtpNext]_rtpVars
-----------------------------------------------------------------------------
\* Of a call whose peer should send, silence is timed; of one on hold or to a
\* peer that only listens, it is not, so that no announcement is cut off
\* (set_tx_enabled(), set_expect_rx(), clear_tx_pause(), in whatever order hold,
\* direction, start, hangup and packets come).  It may outlive its RTP, where a packet
\* came while stop() awaited the sender (304-321): without a transport it lapses.
WatchdogGuardsCall ==
    /\ call = "up" /\ socket = "current" /\ txOn /\ expects => watchdog
    /\ watchdog => txOn /\ expects

\* What we send goes elsewhere only after LearnCount packets in a row from there,
\* of one stream and in sequence: "a single datagram must not pin TX"
\* (_maybe_latch()).
LatchNeedsRun ==
    [][ (remote' # remote /\ endpoint' = endpoint /\ socket' = socket /\ Open)
        => /\ Len(recent') = LearnCount
           /\ \A i \in 1..LearnCount :
                recent'[i].addr = remote' /\ recent'[i].ssrc = recent'[1].ssrc
           /\ \A i \in 1..(LearnCount - 1) : Follows(recent'[i].seq, recent'[i + 1].seq)
      ]_rtpVars

\* Each key press that got through is one digit, whatever was lost or doubled,
\* with and without the marker bit (_receive_impl()).  A doubled packet with the
\* marker, packets of two presses in the wrong order, or those of a press that the
\* call before had heard (start() forgets it) count as a press more.
OneDigitPerPress ==
    mangled \/ \A p \in DOMAIN heard : heard[p] = IF p \in arrived THEN 1 ELSE 0

\* RTP time never runs backwards, neither that of the sender nor that of what it
\* sent, and audio goes on after an event and not within it (_clear_dtmf_tx(): "so
\* a later resume cannot rewind RTP time").
SentInOrder ==
    [][ /\ socket = socket' => tx'.ts >= tx.ts
        /\ (out' # out /\ out # Nothing /\ out' # Nothing)
           => /\ out'.ts >= out.ts
              /\ out.end /\ out'.ts # out.ts => out'.ts > out.ts + out.dur
              /\ out.kind = "audio" => out'.ts > out.ts
      ]_rtpVars

\* The codec in use is one that the user allows and that the peer listed in the
\* SDP accepted last, and the payload type is the one it gave to that codec (choose(),
\* keep_or_choose()).  One that is neither static nor dynamic is kept by its number.
AnswerIsAcceptable ==
    negotiated => \/ Acceptable(codec, offer, order)
                  \/ Unassigned(codec) /\ ListedAndAllowed(codec, offer, order)
=============================================================================
