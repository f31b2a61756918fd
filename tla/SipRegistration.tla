-------------------------- MODULE SipRegistration --------------------------
(***************************************************************************)
(* The registration loop of SipClient (sip_client/sip_client.py): start(), *)
(* stop(), the REGISTER transaction with its challenge, its back-off and   *)
(* its re-registration on an observed address, the one register timer, and *)
(* the _reconnect() task that rebuilds the socket.                         *)
(*                                                                         *)
(* Time is abstract: an armed timer may fire at any later moment, and      *)
(* regTimer keeps the number of seconds it was armed for (0: not armed).   *)
(* The network is UDP: an answer may be lost (never taken), late, or taken *)
(* twice.  A task that was created runs before the loop reads the socket   *)
(* or fires a timer again, but tasks woken in the same turn may run first. *)
(* The CSeq of an answer is kept as far as the code looks at it: it is     *)
(* that of the latest REGISTER ("current") or of an earlier one.           *)
(* The call half of the client is CallLayer here, an action that may do    *)
(* anything the call half can do to the shared state; SipClient composes   *)
(* this module with the real one.                                          *)
(***************************************************************************)
EXTENDS SipState, Integers

CONSTANTS
    RetryMin,          \* REGISTER_RETRY_MIN
    RetryMax,          \* REGISTER_RETRY_MAX
    AuthRetryMax,      \* REGISTER_AUTH_RETRY_MAX
    ConfiguredExpires, \* SipConfig.register_expiration
    MinExpires,        \* the Min-Expires values a registrar may demand; 0: none
    Addresses,         \* source addresses the server may see us at
    LocalAddress,      \* the locally probed address
    UseObserved,       \* SipConfig.use_observed_address
    AuthFailureBound   \* where the model stops counting rejections; 0:
                       \* they are not counted

ASSUME RegistrationAssumption ==
    /\ RetryMin \in Nat \ {0}
    /\ RetryMax \in Nat /\ RetryMin <= RetryMax
    /\ AuthRetryMax \in Nat /\ RetryMax <= AuthRetryMax
    /\ ConfiguredExpires \in Nat
    /\ MinExpires \subseteq Nat /\ 0 \in MinExpires
    /\ LocalAddress \in Addresses
    /\ UseObserved \in BOOLEAN
    /\ AuthFailureBound \in Nat

ResponseWindow == 5    \* seconds a REGISTER may stay unanswered
RetrySoon == 10        \* after a socket that could not be opened
CallDeferral == 30     \* after a tick that found a call
AttemptLimit == 3      \* unanswered REGISTERs before the socket is rebuilt

VARIABLES
    stopped,       \* stop() has returned
    startup,       \* the start task is inside its _open_socket()
    spawned,       \* _reconnect() tasks created and not yet running
    opening,       \* _reconnect() tasks inside their _open_socket()
    regTimer,      \* _register_handle: seconds it was armed for, 0 when None
    regPending,    \* _reg_pending
    regAttempts,   \* _reg_attempts
    regSent,       \* REGISTERs sent on this socket: 0, 1 or 2 (two or more)
    regAuthTried,  \* _register_auth_tried
    backoff,       \* _register_backoff
    authFailures,  \* _register_auth_failures, counted to AuthFailureBound
    expires,       \* config.register_expiration, which a 423 raises
    observed,      \* _observed_ip/_observed_port, LocalAddress when unset
    contactSent    \* _reg_contact_sent

lifeVars == <<closing, stopped, startup>>
taskVars == <<spawned, opening>>
txnVars == <<regPending, regAttempts, regSent, regAuthTried, contactSent>>
policyVars == <<backoff, authFailures, expires>>
regVars == <<lifeVars, taskVars, regTimer, txnVars, policyVars, observed>>
vars == <<sharedVars, regVars>>

Codes == {100, 200, 401, 403, 423, 500}
AuthCodes == {401, 403}            \* REGISTER_AUTH_CODES; 407 is as 401

\* An answer of the registrar.  seen is the address its Via reports us at.
RegisterResponses ==
    {m \in [current : BOOLEAN, code : Codes, seen : Addresses,
            minExpires : MinExpires] : m.code # 423 => m.minExpires = 0}

Smaller(a, b) == IF a <= b THEN a ELSE b
Larger(a, b) == IF a >= b THEN a ELSE b

TypeOK ==
    /\ SharedTypeOK
    /\ stopped \in BOOLEAN /\ startup \in BOOLEAN
    /\ spawned \in Nat /\ opening \in Nat
    /\ regTimer \in Nat
    /\ regPending \in BOOLEAN /\ regAuthTried \in BOOLEAN
    /\ regAttempts \in 0..(AttemptLimit - 1)
    /\ regSent \in 0..2
    /\ backoff \in RetryMin..AuthRetryMax
    /\ authFailures \in 0..AuthFailureBound
    /\ expires \in Nat
    /\ observed \in Addresses /\ contactSent \in Addresses
-----------------------------------------------------------------------------
(* Building blocks *)

Advertised(seen) == IF UseObserved THEN seen ELSE LocalAddress

\* _send_raw(_build_register()): one more REGISTER is on the wire.
SendRegister(seen) ==
    /\ regSent' = Smaller(regSent + 1, 2)
    /\ contactSent' = Advertised(seen)

\* _do_register() entered in line state s, knowing the address `seen'.
DoRegister(s, seen) ==
    /\ SendRegister(seen)
    /\ regAuthTried' = FALSE
    /\ regPending' = TRUE
    /\ state' = IF s = "registered" THEN s ELSE "registering"
    /\ regTimer' = ResponseWindow

\* Mutant: rejections slow the loop down no more than other failures.
Doubled(auth) == Smaller(2 * backoff, IF auth THEN AuthRetryMax ELSE RetryMax)

\* The wait after the next one: a wrong password is retried ever more rarely.
LongerBackoff(auth) == IF auth THEN Smaller(3 * backoff, AuthRetryMax)
                               ELSE Smaller(2 * backoff, RetryMax)

\* Mutant: the line state is not downgraded.
KeptState == state

\* Mutant: the line state is downgraded under a call too.
ClobberedState == "registering"

\* A refused line is not registered any more; a call goes on.
DowngradedState == IF state = "registered" THEN "registering" ELSE state

\* _retry_after_register_failure(): the next wait, and a longer one after it.
RetryAfterFailure(auth) ==
    /\ regTimer' = backoff
    /\ backoff' = LongerBackoff(auth)
    /\ authFailures' = IF auth THEN Smaller(authFailures + 1, AuthFailureBound)
                               ELSE authFailures
    /\ registered' = FALSE
    /\ regAttempts' = 0
    /\ regPending' = FALSE
    /\ state' = DowngradedState
    /\ UNCHANGED <<regSent, regAuthTried, contactSent, expires>>
-----------------------------------------------------------------------------
(* Life cycle *)

Init ==
    /\ SharedInit
    /\ stopped = FALSE
    /\ startup = TRUE                 \* the start task waits in _open_socket()
    /\ spawned = 0 /\ opening = 0
    /\ regTimer = 0
    /\ regPending = FALSE /\ regAttempts = 0 /\ regSent = 0
    /\ regAuthTried = FALSE
    /\ backoff = RetryMin /\ authFailures = 0
    /\ expires = ConfiguredExpires
    /\ observed = LocalAddress /\ contactSent = LocalAddress

\* start() goes on after _open_socket().
StartOpened ==
    /\ startup
    /\ startup' = FALSE
    /\ sock' = "open"
    /\ observed' = LocalAddress
    /\ DoRegister(state, LocalAddress)
    /\ UNCHANGED <<registered, closing, stopped, taskVars,
                   regAttempts, policyVars>>

\* Mutant: a socket that could not be opened is not tried again.
GivesUp == regTimer' = 0

\* The socket could not be opened.
TryLater == regTimer' = RetrySoon

StartFailed ==
    /\ startup
    /\ startup' = FALSE
    /\ observed' = LocalAddress
    /\ TryLater
    /\ UNCHANGED <<sharedVars, closing, stopped, taskVars, txnVars,
                   policyVars>>

\* stop() up to its first await.  The start task was cancelled before, by
\* _async_stop_client() or, at shutdown, by Home Assistant itself.
StopBegins ==
    /\ ~closing
    /\ closing' = TRUE
    /\ startup' = FALSE
    /\ regTimer' = 0
    /\ UNCHANGED <<sharedVars, stopped, taskVars, txnVars, policyVars, observed>>

\* Mutant: stop() does not wait for the background tasks.
TasksLeft == UNCHANGED taskVars

\* _drain_tasks()
TasksDrained == spawned' = 0 /\ opening' = 0

\* stop() after _drain_tasks(), which has waited for or cancelled every
\* background task.
StopEnds ==
    /\ closing /\ ~stopped
    /\ stopped' = TRUE
    /\ TasksDrained
    /\ sock' = "none"
    /\ state' = "idle"
    /\ regSent' = 0
    /\ UNCHANGED <<registered, closing, startup, regTimer, regPending, regAttempts,
                   regAuthTried, contactSent, policyVars, observed>>
-----------------------------------------------------------------------------
(* The register timer and the reconnect task *)

\* _register_timer() with _closing set.
TimerAfterStop ==
    /\ regTimer # 0 /\ closing
    /\ regTimer' = 0
    /\ UNCHANGED <<sharedVars, lifeVars, taskVars, txnVars, policyVars, observed>>

\* Mutant: a tick that found a call does not look again.
Forget == regTimer' = 0

\* A tick that found a call looks again later.
Defer == regTimer' = CallDeferral

\* _register_tick() in a dialog: look again later.
TickInCall ==
    /\ regTimer # 0 /\ ~closing
    /\ state \in DialogStates
    /\ Defer
    /\ UNCHANGED <<sharedVars, lifeVars, taskVars, txnVars, policyVars, observed>>

Unanswered == regPending \/ state = "registering"

\* Another REGISTER before the socket is rebuilt.
MayTryAgain == regAttempts + 1 < AttemptLimit

\* _register_tick() without an answer: send again ...
TickResends ==
    /\ regTimer # 0 /\ ~closing
    /\ state \notin DialogStates
    /\ Unanswered /\ MayTryAgain
    /\ regAttempts' = regAttempts + 1
    /\ DoRegister(state, observed)
    /\ UNCHANGED <<registered, sock, lifeVars, taskVars, policyVars, observed>>

\* Mutant: the timer goes on beside the reconnect task.
SpawnsAndTicks == spawned' = spawned + 1 /\ regTimer' = ResponseWindow

\* The reconnect task takes over from the timer.
SpawnReconnect == spawned' = spawned + 1 /\ regTimer' = 0

\* ... and rebuild the socket at the third time, or when there is none.
TickReconnects ==
    /\ regTimer # 0 /\ ~closing
    /\ state \notin DialogStates
    /\ \/ Unanswered /\ ~MayTryAgain /\ regAttempts' = 0
       \/ ~Unanswered /\ state = "idle" /\ regAttempts' = regAttempts
    /\ SpawnReconnect
    /\ UNCHANGED <<sharedVars, lifeVars, opening, regPending, regSent,
                   regAuthTried, contactSent, policyVars, observed>>

\* _register_tick() of a live registration: the periodic refresh.
TickRefreshes ==
    /\ regTimer # 0 /\ ~closing
    /\ ~Unanswered /\ state = "registered"
    /\ DoRegister(state, observed)
    /\ UNCHANGED <<registered, sock, lifeVars, taskVars, regAttempts,
                   policyVars, observed>>

\* Mutant: a call that began meanwhile keeps its state, not its socket.
KeepsCall ==
    /\ registered' = FALSE
    /\ state' = IF state \in DialogStates THEN state ELSE "idle"

\* The line without a socket.
LineDown == registered' = FALSE /\ state' = "idle"

\* _reconnect() from its first line to the await in _open_socket().
ReconnectBegins ==
    /\ spawned > 0 /\ ~closing
    /\ spawned' = spawned - 1
    /\ opening' = opening + 1
    /\ regTimer' = 0
    /\ LineDown
    /\ regPending' = FALSE
    /\ sock' = "none"
    /\ regSent' = 0
    /\ observed' = LocalAddress
    /\ UNCHANGED <<lifeVars, regAttempts, regAuthTried, contactSent, policyVars>>

\* _reconnect() finds _closing set.
ReconnectAbandoned ==
    /\ spawned > 0 /\ closing
    /\ spawned' = spawned - 1
    /\ UNCHANGED <<sharedVars, lifeVars, opening, regTimer, txnVars, policyVars,
                   observed>>

\* _reconnect() after _open_socket().  _closing is not looked at again.
ReconnectOpened ==
    /\ opening > 0
    /\ opening' = opening - 1
    /\ sock' = "open"
    /\ regAttempts' = 0
    /\ DoRegister(state, observed)
    /\ UNCHANGED <<registered, lifeVars, spawned, policyVars, observed>>

ReconnectFailed ==
    /\ opening > 0
    /\ opening' = opening - 1
    /\ TryLater
    /\ UNCHANGED <<sharedVars, lifeVars, spawned, txnVars, policyVars, observed>>
-----------------------------------------------------------------------------
(* _handle_register_response(m), by its early returns *)

\* The answer m may arrive: it was sent to a REGISTER of this socket.
Arrives(m) ==
    /\ sock = "open" /\ spawned = 0
    /\ regSent > (IF m.current THEN 0 ELSE 1)

\* The answer is to the latest REGISTER; _check_observed_address() runs.
Current(m) ==
    /\ Arrives(m) /\ m.current
    /\ observed' = m.seen
    /\ UNCHANGED <<sock, lifeVars, taskVars>>

StaleResponse(m) ==
    /\ Arrives(m) /\ ~m.current
    /\ UNCHANGED vars

ProvisionalResponse(m) ==
    /\ Current(m) /\ m.code = 100
    /\ UNCHANGED <<state, registered, regTimer, txnVars, policyVars>>

Challenged(m) ==
    /\ Current(m) /\ m.code = 401 /\ ~regAuthTried
    /\ regAuthTried' = TRUE
    /\ SendRegister(m.seen)
    /\ UNCHANGED <<state, registered, regTimer, regPending, regAttempts, policyVars>>

\* 423 that asks for more than we offered: raise Expires and ask again.
IntervalRaised(m) ==
    /\ Current(m) /\ m.code = 423 /\ m.minExpires > expires
    /\ expires' = m.minExpires
    /\ DoRegister(state, m.seen)
    /\ UNCHANGED <<registered, regAttempts, backoff, authFailures>>

IntervalRefused(m) ==
    /\ Current(m) /\ m.code = 423 /\ m.minExpires <= expires
    /\ RetryAfterFailure(FALSE)

RegisterRefused(m) ==
    /\ Current(m)
    /\ m.code \in {401, 403, 500}
    /\ m.code = 401 => regAuthTried
    /\ RetryAfterFailure(m.code \in AuthCodes)

\* Mutant: success sets the line to registered whatever it was.
Upgraded == "registered"

\* A line that waited for this answer is registered; a call goes on.
UpgradedState == IF state = "registering" THEN "registered" ELSE state

\* 200: the binding is live; if the server saw us elsewhere than our Contact
\* said, register again with the address it saw.
RegisterAccepted(m) ==
    /\ Current(m) /\ m.code = 200
    /\ registered' = TRUE
    /\ regAttempts' = 0
    /\ backoff' = RetryMin
    /\ authFailures' = 0
    /\ expires' = expires
    /\ LET s == UpgradedState
           moved == /\ UseObserved
                    /\ Advertised(m.seen) # contactSent
                    /\ s = "registered"
       IN  \/ moved /\ DoRegister(s, m.seen)
           \/ /\ ~moved
              /\ state' = s
              /\ regPending' = FALSE
              /\ regTimer' = Larger(expires \div 2, 30)
              /\ UNCHANGED <<regSent, regAuthTried, contactSent>>

HandleRegisterResponse(m) ==
    \/ StaleResponse(m)
    \/ ProvisionalResponse(m)
    \/ Challenged(m)
    \/ IntervalRaised(m)
    \/ IntervalRefused(m)
    \/ RegisterRefused(m)
    \/ RegisterAccepted(m)
-----------------------------------------------------------------------------
(* The call half, as registration sees it: a call begins, moves, or ends and *)
(* leaves the line at rest; answers to INVITE also report the seen address,  *)
(* in any state of the line.                                                 *)
CallLayer ==
    /\ sock = "open"
    /\ state' \in DialogStates \cup {Resting, state}
    /\ observed' \in Addresses
    /\ UNCHANGED <<registered, sock, lifeVars, taskVars, regTimer, txnVars,
                   policyVars>>

RegistrationStep ==
    \/ StartOpened \/ StartFailed
    \/ TimerAfterStop \/ TickInCall \/ TickResends \/ TickReconnects
    \/ TickRefreshes
    \/ ReconnectBegins \/ ReconnectAbandoned \/ ReconnectOpened \/ ReconnectFailed
    \/ \E m \in RegisterResponses : HandleRegisterResponse(m)

Next == CallLayer \/ StopBegins \/ StopEnds \/ RegistrationStep

Spec == Init /\ [][Next]_vars

\* What the environment and the event loop owe us for liveness: the loop runs
\* timers and tasks; a socket that can be opened again and again is opened in
\* the end; a registrar that is asked again and again accepts in the end, and
\* does so while a REGISTER is waiting for its answer.
Fairness ==
    /\ WF_vars(StartOpened \/ StartFailed)
    /\ WF_vars(TickInCall \/ TickResends \/ TickReconnects \/ TickRefreshes)
    /\ WF_vars(ReconnectBegins)
    /\ WF_vars(ReconnectOpened \/ ReconnectFailed)
    /\ SF_vars(ReconnectOpened)
    /\ SF_vars(regPending /\ \E m \in RegisterResponses : RegisterAccepted(m))

FairSpec == Spec /\ Fairness
-----------------------------------------------------------------------------
(* Properties *)

AsNumber(b) == IF b THEN 1 ELSE 0

\* What can take the registration loop further: the start task, a reconnect
\* task, or the armed register timer.
Drivers == AsNumber(startup) + spawned + opening + AsNumber(regTimer # 0)

\* The loop never forks: _reconnect() is never running twice, nor beside the
\* start task or an armed register timer (_register_tick, _reconnect).
OneDriver == Drivers <= 1

\* The loop never dies: until stop() there is always something that will run
\* next, whatever answer, error or call came in between (the promise of
\* _register_timer: "the registration loop keeps ticking").
LoopAlive == ~closing => Drivers >= 1

\* The state shown to the user is not better than the truth: the line is
\* "registered" only while the registrar accepted our latest registration
\* (_end_call, _retry_after_register_failure, _reconnect).
StatusHonest == state = "registered" => registered

\* A client that calls itself registered can be reached: the socket whose
\* address it registered is open until stop() closes it (_reconnect, stop).
BindingHasSocket == registered /\ ~stopped => sock = "open"

\* Nothing of the client is left after stop(): no socket, and no task that
\* could open one again (_async_stop_client, stop, _drain_tasks).
StoppedIsClosed ==
    stopped => sock = "none" /\ ~startup /\ spawned + opening = 0

\* Power3[n] is 3^n, defined so that the prover can reason about it.
Power3[n \in Nat] == IF n = 0 THEN 1 ELSE 3 * Power3[n - 1]

\* A wrong password cannot hammer the registrar: after n rejections since the
\* last success the next wait is at least RetryMin * 3^n, up to RetryMax,
\* whatever other failures came in between (_retry_after_register_failure).
RejectionsSlowDown == backoff >= Smaller(RetryMin * Power3[authFailures], RetryMax)

\* As long as the client is not stopped and calls do not go on for ever, it is
\* registered again and again, whatever fails on the way (_register_timer:
\* "can never get permanently stuck unregistered").
Recovers ==
    [](~closing) /\ <>[](state \notin DialogStates) => []<>registered
=============================================================================
