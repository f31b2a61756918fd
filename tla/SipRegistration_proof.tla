----------------------- MODULE SipRegistration_proof -----------------------
(***************************************************************************)
(* Proofs about SipRegistration for every value of its constants.  TypeOK  *)
(* is inductive.  The others are not: that the loop never forks when an    *)
(* answer arms the register timer needs to know that an open socket        *)
(* excludes every task that is still opening one, and that start() has     *)
(* returned.  LoopInv adds this.                                           *)
(***************************************************************************)
EXTENDS SipRegistration, TLAPS, WellFoundedInduction

\* Why an answer finds no other driver: whoever opens a socket has done so
\* before an answer can come, and stop() leaves nobody who could.
SocketExcludesOpeners ==
    /\ sock = "open" => ~startup /\ opening = 0 /\ ~stopped
    /\ stopped => closing
    /\ startup => ~closing

LoopInv ==
    /\ TypeOK
    /\ OneDriver
    /\ LoopAlive
    /\ StatusHonest
    /\ BindingHasSocket
    /\ StoppedIsClosed
    /\ SocketExcludesOpeners
-----------------------------------------------------------------------------
\* The back-off stays in its range whichever kind of failure stretches it
\* (_retry_after_register_failure).
LEMMA BackoffInRange ==
    ASSUME NEW b \in RetryMin..AuthRetryMax
    PROVE  /\ Smaller(3 * b, AuthRetryMax) \in RetryMin..AuthRetryMax
           /\ Smaller(2 * b, RetryMax) \in RetryMin..AuthRetryMax
           /\ b \in Nat \ {0}
BY RegistrationAssumption DEF RegistrationAssumption, Smaller

\* The refresh of a live registration is never due at once
\* (_handle_register_response).
LEMMA RefreshLater ==
    ASSUME NEW e \in Nat
    PROVE  Larger(e \div 2, 30) \in Nat \ {0}
<1>1. e \div 2 \in Nat
  BY SMT
<1>. QED  BY <1>1 DEF Larger

\* RetryAfterFailure keeps the types.
LEMMA RetryTypes ==
    ASSUME TypeOK, NEW auth \in BOOLEAN, RetryAfterFailure(auth)
    PROVE  /\ regTimer' \in Nat \ {0}
           /\ backoff' \in RetryMin..AuthRetryMax
           /\ authFailures' \in 0..AuthFailureBound
           /\ registered' = FALSE
           /\ regAttempts' \in 0..(AttemptLimit - 1)
           /\ regPending' \in BOOLEAN
           /\ state' \in LineStates
           /\ state' # "registered"
<1>. USE DEF RetryAfterFailure, LongerBackoff, DowngradedState, TypeOK, SharedTypeOK
<1>1. regTimer' \in Nat \ {0} /\ backoff' \in RetryMin..AuthRetryMax
  BY BackoffInRange
<1>2. authFailures' \in 0..AuthFailureBound
  BY RegistrationAssumption DEF RegistrationAssumption, Smaller
<1>3. regAttempts' \in 0..(AttemptLimit - 1)
  BY DEF AttemptLimit
<1>4. state' \in LineStates /\ state' # "registered"
  BY DEF LineStates, DialogStates
<1>. QED  BY <1>1, <1>2, <1>3, <1>4

\* DoRegister keeps the types, and the loop ticking.
LEMMA RegisterTypes ==
    ASSUME TypeOK, NEW s \in LineStates, NEW seen \in Addresses, DoRegister(s, seen)
    PROVE  /\ regTimer' \in Nat \ {0}
           /\ regSent' \in 0..2
           /\ contactSent' \in Addresses
           /\ regAuthTried' \in BOOLEAN /\ regPending' \in BOOLEAN
           /\ state' \in LineStates
           /\ state' = "registered" => s = "registered"
<1>. USE DEF DoRegister, SendRegister
<1>1. regTimer' \in Nat \ {0}
  BY DEF ResponseWindow
<1>2. regSent' \in 0..2
  BY DEF TypeOK, Smaller
<1>3. contactSent' \in Addresses
  BY RegistrationAssumption DEF RegistrationAssumption, Advertised
<1>4. regAuthTried' \in BOOLEAN /\ regPending' \in BOOLEAN
  OBVIOUS
<1>5. state' \in LineStates /\ (state' = "registered" => s = "registered")
  BY DEF LineStates
<1>. QED  BY <1>1, <1>2, <1>3, <1>4, <1>5

LEMMA TypeInit == Init => TypeOK
<1>. SUFFICES ASSUME Init PROVE TypeOK
  OBVIOUS
<1>. USE DEF Init, SharedInit
<1>1. SharedTypeOK
  BY DEF SharedTypeOK, LineStates
<1>2. /\ stopped \in BOOLEAN /\ startup \in BOOLEAN
      /\ regPending \in BOOLEAN /\ regAuthTried \in BOOLEAN
  OBVIOUS
<1>3. /\ spawned \in Nat /\ opening \in Nat /\ regTimer \in Nat
      /\ regAttempts \in 0..(AttemptLimit - 1)
      /\ regSent \in 0..2
  BY DEF AttemptLimit
<1>4. /\ backoff \in RetryMin..AuthRetryMax
      /\ authFailures \in 0..AuthFailureBound
      /\ expires \in Nat
      /\ observed \in Addresses /\ contactSent \in Addresses
  BY RegistrationAssumption DEF RegistrationAssumption
<1>. QED  BY <1>1, <1>2, <1>3, <1>4 DEF TypeOK

\* An answer keeps the types, and an arming answer leaves the timer armed.
LEMMA ResponseTypes ==
    ASSUME TypeOK, NEW m \in RegisterResponses, HandleRegisterResponse(m)
    PROVE  /\ TypeOK'
           /\ UNCHANGED <<sock, lifeVars, taskVars>>
           /\ regTimer' # 0 \/ UNCHANGED regTimer
           /\ sock = "open" /\ spawned = 0
           /\ StatusHonest => StatusHonest'
<1>. DEFINE Goal ==
       /\ TypeOK'
       /\ UNCHANGED <<sock, lifeVars, taskVars>>
       /\ regTimer' # 0 \/ UNCHANGED regTimer
       /\ sock = "open" /\ spawned = 0
       /\ StatusHonest => StatusHonest'
<1>m. m.seen \in Addresses /\ m.minExpires \in Nat
  BY RegistrationAssumption DEF RegistrationAssumption, RegisterResponses
<1>f. /\ sock = "open" /\ spawned = 0
  BY DEF HandleRegisterResponse, StaleResponse, ProvisionalResponse, Challenged,
         IntervalRaised, IntervalRefused, RegisterRefused, RegisterAccepted,
         Current, Arrives
<1>1. CASE StaleResponse(m)
  BY <1>1, <1>f DEF StaleResponse, vars, regVars, sharedVars, lifeVars, taskVars,
     txnVars, policyVars, TypeOK, SharedTypeOK,
     StatusHonest
<1>c. ASSUME Current(m)
      PROVE  /\ observed' \in Addresses
             /\ UNCHANGED <<sock, lifeVars, taskVars>>
             /\ sock' \in {"none", "open"} /\ closing' \in BOOLEAN
             /\ stopped' \in BOOLEAN /\ startup' \in BOOLEAN
             /\ spawned' \in Nat /\ opening' \in Nat
  BY <1>c, <1>m DEF Current, lifeVars, taskVars, TypeOK, SharedTypeOK, StatusHonest
<1>2. CASE ProvisionalResponse(m)
  <2>1. Current(m) /\ UNCHANGED <<state, registered, regTimer, txnVars, policyVars>>
    BY <1>2 DEF ProvisionalResponse
  <2>. QED  BY <2>1, <1>c, <1>f DEF txnVars, policyVars, TypeOK, SharedTypeOK,
     StatusHonest
<1>3. CASE Challenged(m)
  <2>1. /\ Current(m) /\ regAuthTried' = TRUE
        /\ UNCHANGED <<state, registered, regTimer, regPending, regAttempts, policyVars>>
    BY <1>3 DEF Challenged
  <2>2. regSent' \in 0..2
    BY <1>3 DEF Challenged, SendRegister, Smaller, TypeOK
  <2>3. contactSent' \in Addresses
    BY <1>3, <1>m, RegistrationAssumption
       DEF RegistrationAssumption, Challenged, SendRegister, Advertised
  <2>. QED  BY <2>1, <2>2, <2>3, <1>c, <1>f DEF policyVars, TypeOK, SharedTypeOK, StatusHonest
<1>4. CASE IntervalRaised(m)
  <2>1. /\ Current(m) /\ DoRegister(state, m.seen)
        /\ expires' = m.minExpires
        /\ UNCHANGED <<registered, regAttempts, backoff, authFailures>>
    BY <1>4 DEF IntervalRaised
  <2>2. /\ regTimer' \in Nat \ {0}
        /\ regSent' \in 0..2
        /\ contactSent' \in Addresses
        /\ regAuthTried' \in BOOLEAN /\ regPending' \in BOOLEAN
        /\ state' \in LineStates
        /\ state' = "registered" => state = "registered"
    BY <2>1, <1>m, RegisterTypes DEF TypeOK, SharedTypeOK, StatusHonest
  <2>. QED  BY <2>1, <2>2, <1>c, <1>f, <1>m DEF TypeOK, SharedTypeOK, StatusHonest
<1>5. ASSUME Current(m), NEW auth \in BOOLEAN, RetryAfterFailure(auth)
      PROVE  Goal
  <2>1. UNCHANGED <<regSent, regAuthTried, contactSent, expires>>
    BY <1>5 DEF RetryAfterFailure
  <2>2. /\ regTimer' \in Nat \ {0}
        /\ backoff' \in RetryMin..AuthRetryMax
        /\ authFailures' \in 0..AuthFailureBound
        /\ registered' \in BOOLEAN
        /\ regAttempts' \in 0..(AttemptLimit - 1)
        /\ regPending' \in BOOLEAN
        /\ state' \in LineStates
        /\ state' # "registered"
    BY <1>5, RetryTypes
  <2>. QED  BY <2>1, <2>2, <1>5, <1>c, <1>f DEF TypeOK, SharedTypeOK, StatusHonest
<1>6. CASE IntervalRefused(m)
  BY <1>6, <1>5 DEF IntervalRefused
<1>7. CASE RegisterRefused(m)
  <2>1. (m.code \in AuthCodes) \in BOOLEAN
    OBVIOUS
  <2>. QED  BY <1>7, <1>5, <2>1 DEF RegisterRefused
<1>8. CASE RegisterAccepted(m)
  <2>. DEFINE s == UpgradedState
              moved == /\ UseObserved
                       /\ Advertised(m.seen) # contactSent
                       /\ s = "registered"
  <2>s. s \in LineStates
    BY DEF UpgradedState, TypeOK, SharedTypeOK, LineStates
  <2>1. /\ Current(m)
        /\ registered' = TRUE /\ regAttempts' = 0
        /\ backoff' = RetryMin /\ authFailures' = 0 /\ expires' = expires
        /\ \/ moved /\ DoRegister(s, m.seen)
           \/ /\ ~moved
              /\ state' = s
              /\ regPending' = FALSE
              /\ regTimer' = Larger(expires \div 2, 30)
              /\ UNCHANGED <<regSent, regAuthTried, contactSent>>
    BY <1>8 DEF RegisterAccepted
  <2>2. /\ regTimer' \in Nat \ {0}
        /\ regSent' \in 0..2
        /\ contactSent' \in Addresses
        /\ regAuthTried' \in BOOLEAN /\ regPending' \in BOOLEAN
        /\ state' \in LineStates
    <3>1. CASE moved /\ DoRegister(s, m.seen)
      <4>. HIDE DEF s
      <4>. QED  BY <3>1, <2>s, <1>m, RegisterTypes
    <3>2. CASE ~moved
      <4>. HIDE DEF moved, s
      <4>1. /\ state' = s /\ regPending' = FALSE
            /\ regTimer' = Larger(expires \div 2, 30)
            /\ UNCHANGED <<regSent, regAuthTried, contactSent>>
        BY <3>2, <2>1
      <4>2. regTimer' \in Nat \ {0}
        BY <4>1, RefreshLater DEF TypeOK
      <4>. QED  BY <4>1, <4>2, <2>s DEF TypeOK
    <3>. QED  BY <2>1, <3>1, <3>2
  <2>3. /\ regAttempts' \in 0..(AttemptLimit - 1)
        /\ backoff' \in RetryMin..AuthRetryMax
        /\ authFailures' \in 0..AuthFailureBound
        /\ expires' \in Nat
    BY <2>1, RegistrationAssumption
       DEF RegistrationAssumption, AttemptLimit, TypeOK
  <2>. QED  BY <2>1, <2>2, <2>3, <1>c, <1>f DEF TypeOK, SharedTypeOK, StatusHonest
<1>. QED
  BY <1>1, <1>2, <1>3, <1>4, <1>6, <1>7, <1>8 DEF HandleRegisterResponse
-----------------------------------------------------------------------------
\* The invariant holds at first: the start task is the one driver.
LEMMA LoopInit == Init => LoopInv
<1>. SUFFICES ASSUME Init PROVE LoopInv
  OBVIOUS
<1>1. TypeOK
  BY TypeInit
<1>. QED
  BY <1>1 DEF Init, SharedInit, LoopInv, OneDriver, LoopAlive, Drivers, AsNumber,
     StatusHonest, BindingHasSocket, StoppedIsClosed, SocketExcludesOpeners

\* Every step keeps the invariant.
LEMMA LoopStep == LoopInv /\ [Next]_vars => LoopInv'
<1>. SUFFICES ASSUME LoopInv, [Next]_vars PROVE LoopInv'
  OBVIOUS
<1>. USE DEF LoopInv, OneDriver, LoopAlive, Drivers, AsNumber, StatusHonest,
             BindingHasSocket, StoppedIsClosed, SocketExcludesOpeners
<1>. USE DEF sharedVars, lifeVars, taskVars, txnVars, policyVars
<1>. USE DEF TryLater, Defer, MayTryAgain, SpawnReconnect, LineDown, TasksDrained
<1>r. ASSUME NEW s \in LineStates, NEW seen \in Addresses, DoRegister(s, seen)
      PROVE  /\ regTimer' \in Nat \ {0}
             /\ regSent' \in 0..2
             /\ contactSent' \in Addresses
             /\ regAuthTried' \in BOOLEAN /\ regPending' \in BOOLEAN
             /\ state' \in LineStates
             /\ state' = "registered" => s = "registered"
  BY <1>r, RegisterTypes
<1>t. /\ state \in LineStates /\ observed \in Addresses
      /\ LocalAddress \in Addresses
      /\ spawned \in Nat /\ opening \in Nat /\ regTimer \in Nat
  BY RegistrationAssumption DEF RegistrationAssumption, TypeOK, SharedTypeOK
<1>1. CASE StartOpened
  <2>1. DoRegister(state, LocalAddress)
    BY <1>1 DEF StartOpened
  <2>2. TypeOK'
    BY <1>1, <2>1, <1>r, <1>t DEF StartOpened, TypeOK, SharedTypeOK
  <2>. QED  BY <2>1, <2>2, <1>1, <1>r, <1>t DEF StartOpened
<1>2. CASE StartFailed
  <2>1. TypeOK'
    BY <1>2, <1>t DEF StartFailed, TypeOK, SharedTypeOK, RetrySoon
  <2>. QED  BY <2>1, <1>2, <1>t DEF StartFailed, RetrySoon
<1>3. CASE TimerAfterStop
  <2>1. TypeOK'
    BY <1>3, <1>t DEF TimerAfterStop, TypeOK, SharedTypeOK
  <2>. QED  BY <2>1, <1>3, <1>t DEF TimerAfterStop
<1>4. CASE TickInCall
  <2>1. TypeOK'
    BY <1>4, <1>t DEF TickInCall, TypeOK, SharedTypeOK, CallDeferral
  <2>. QED  BY <2>1, <1>4, <1>t DEF TickInCall, CallDeferral
<1>5. CASE TickResends
  <2>1. DoRegister(state, observed)
    BY <1>5 DEF TickResends
  <2>2. TypeOK'
    BY <1>5, <2>1, <1>r, <1>t DEF TickResends, TypeOK, SharedTypeOK, AttemptLimit
  <2>. QED  BY <2>1, <2>2, <1>5, <1>r, <1>t DEF TickResends, AttemptLimit
<1>6. CASE TickReconnects
  <2>1. TypeOK'
    BY <1>6, <1>t DEF TickReconnects, TypeOK, SharedTypeOK, AttemptLimit
  <2>. QED  BY <2>1, <1>6, <1>t DEF TickReconnects, AttemptLimit
<1>7. CASE TickRefreshes
  <2>1. DoRegister(state, observed)
    BY <1>7 DEF TickRefreshes
  <2>2. TypeOK'
    BY <1>7, <2>1, <1>r, <1>t DEF TickRefreshes, TypeOK, SharedTypeOK
  <2>. QED  BY <2>1, <2>2, <1>7, <1>r, <1>t DEF TickRefreshes
<1>8. CASE ReconnectBegins
  <2>b. regPending' \in BOOLEAN /\ registered' \in BOOLEAN
    BY <1>8 DEF ReconnectBegins
  <2>i. state' \in LineStates /\ sock' \in {"none", "open"}
    BY <1>8 DEF ReconnectBegins, LineStates
  <2>n. /\ spawned' \in Nat /\ opening' \in Nat /\ regTimer' \in Nat
        /\ regSent' \in 0..2 /\ observed' \in Addresses
    BY <1>8, <1>t DEF ReconnectBegins
  <2>1. TypeOK'
    BY <1>8, <2>b, <2>i, <2>n DEF ReconnectBegins, TypeOK, SharedTypeOK
  <2>. QED  BY <2>1, <1>8, <1>t DEF ReconnectBegins, LineStates
<1>9. CASE ReconnectAbandoned
  <2>1. TypeOK'
    BY <1>9, <1>t DEF ReconnectAbandoned, TypeOK, SharedTypeOK
  <2>. QED  BY <2>1, <1>9, <1>t DEF ReconnectAbandoned
<1>10. CASE ReconnectOpened
  <2>1. DoRegister(state, observed)
    BY <1>10 DEF ReconnectOpened
  <2>2. TypeOK'
    BY <1>10, <2>1, <1>r, <1>t DEF ReconnectOpened, TypeOK, SharedTypeOK, AttemptLimit
  <2>. QED  BY <2>1, <2>2, <1>10, <1>r, <1>t DEF ReconnectOpened, AttemptLimit
<1>11. CASE ReconnectFailed
  <2>1. TypeOK'
    BY <1>11, <1>t DEF ReconnectFailed, TypeOK, SharedTypeOK, RetrySoon
  <2>. QED  BY <2>1, <1>11, <1>t DEF ReconnectFailed, RetrySoon
<1>12. ASSUME NEW m \in RegisterResponses, HandleRegisterResponse(m)
       PROVE  LoopInv'
  <2>1. /\ TypeOK'
        /\ UNCHANGED <<sock, lifeVars, taskVars>>
        /\ regTimer' # 0 \/ UNCHANGED regTimer
        /\ sock = "open" /\ spawned = 0
        /\ StatusHonest => StatusHonest'
    BY <1>12, ResponseTypes
  <2>. QED  BY <2>1, <1>t DEF TypeOK
<1>13. CASE StopBegins
  <2>1. TypeOK'
    BY <1>13, <1>t DEF StopBegins, TypeOK, SharedTypeOK
  <2>. QED  BY <2>1, <1>13, <1>t DEF StopBegins
<1>14. CASE StopEnds
  <2>1. TypeOK'
    BY <1>14, <1>t DEF StopEnds, TypeOK, SharedTypeOK, LineStates
  <2>. QED  BY <2>1, <1>14, <1>t DEF StopEnds, LineStates
<1>15. CASE CallLayer
  <2>1. state' \in LineStates
    BY <1>15, <1>t DEF CallLayer, Resting, LineStates
  <2>2. TypeOK'
    BY <1>15, <2>1 DEF CallLayer, TypeOK, SharedTypeOK
  <2>. QED  BY <1>15, <2>2 DEF CallLayer, Resting, DialogStates
<1>16. CASE UNCHANGED vars
  <2>1. TypeOK'
    BY <1>16 DEF vars, regVars, TypeOK, SharedTypeOK
  <2>. QED  BY <1>16, <2>1 DEF vars, regVars
<1>. QED
  BY <1>1, <1>2, <1>3, <1>4, <1>5, <1>6, <1>7, <1>8, <1>9, <1>10, <1>11, <1>12,
     <1>13, <1>14, <1>15, <1>16 DEF Next, RegistrationStep

\* LoopInv holds in every reachable state.
THEOREM LoopInvariant == Spec => []LoopInv
BY LoopInit, LoopStep, PTL DEF Spec
-----------------------------------------------------------------------------
(* The wait between attempts grows with every rejection. *)

\* A set of numbers has a least one: induction, for one set.
LEMMA LeastNumber ==
    ASSUME NEW T, T \subseteq Nat, T # {}
    PROVE  \E x \in T : \A y \in T : x <= y
<1>. DEFINE R == OpToRel(<, Nat)
<1>1. IsWellFoundedOn(R, Nat)
  BY NatLessThanWellFounded
<1>2. \A x, y \in Nat : y < x => <<y, x>> \in R
  BY DEF OpToRel
<1>. HIDE DEF R
<1>3. PICK x \in T : \A y \in T : ~ (<<y, x>> \in R)
  BY <1>1, WFMin
<1>4. \A y \in T : x \in Nat /\ y \in Nat /\ ~(y < x)
  BY <1>2, <1>3
<1>5. \A y \in T : x <= y
  BY <1>4
<1>. QED  BY <1>5

\* g is Power3 up to n.
Powers(g, n) == g \in [0..n -> Nat] /\ g[0] = 1 /\ \A i \in 1..n : g[i] = 3 * g[i - 1]

\* There is such a g for every n, or for a least n there would be none; and of any
\* two the shorter begins the longer.
LEMMA PowersExist == \A n \in Nat : \E g : Powers(g, n)
<1>. DEFINE T == {n \in Nat : ~\E g : Powers(g, n)}
<1>. SUFFICES ASSUME T # {} PROVE FALSE
  OBVIOUS
<1>1. PICK n \in T : \A m \in T : n <= m
  BY LeastNumber
<1>2. n \in Nat /\ \A g : ~Powers(g, n)
  OBVIOUS
<1>3. CASE n = 0
  <2>. DEFINE g == [i \in 0..0 |-> 1]
  <2>1. Powers(g, 0)
    BY DEF Powers
  <2>. QED  BY <1>2, <1>3, <2>1
<1>4. CASE n # 0
  <2>1. n - 1 \in Nat /\ n - 1 \notin T
    BY <1>1, <1>2, <1>4
  <2>2. PICK h : Powers(h, n - 1)
    BY <2>1
  <2>. DEFINE g == [i \in 0..n |-> IF i = n THEN 3 * h[n - 1] ELSE h[i]]
  <2>3. h \in [0..(n - 1) -> Nat] /\ h[0] = 1 /\ \A i \in 1..(n - 1) : h[i] = 3 * h[i - 1]
    BY <2>2 DEF Powers
  <2>4. h[n - 1] \in Nat /\ 3 * h[n - 1] \in Nat
    BY <2>1, <2>3
  <2>5. \A i \in 0..n : i # n => i \in 0..(n - 1) /\ g[i] = h[i]
    BY <1>2
  <2>6. g \in [0..n -> Nat]
    BY <2>3, <2>4, <2>5
  <2>7. g[0] = 1 /\ g[n] = 3 * h[n - 1]
    BY <1>2, <1>4, <2>3
  <2>8. ASSUME NEW i \in 1..n PROVE g[i] = 3 * g[i - 1]
    <3>1. i - 1 \in 0..n /\ i - 1 # n
      BY <1>2
    <3>2. g[i - 1] = h[i - 1]
      BY <2>5, <3>1
    <3>3. CASE i = n
      BY <2>7, <3>2, <3>3
    <3>4. CASE i # n
      <4>1. i \in 1..(n - 1) /\ i \in 0..n
        BY <1>2, <3>4
      <4>. QED  BY <2>3, <2>5, <3>2, <3>4, <4>1
    <3>. QED  BY <3>3, <3>4
  <2>. HIDE DEF g
  <2>9. Powers(g, n)
    BY <2>6, <2>7, <2>8 DEF Powers
  <2>. QED  BY <1>2, <2>9
<1>. QED  BY <1>3, <1>4

LEMMA PowersAgree ==
    ASSUME NEW m \in Nat, NEW n \in Nat, NEW g, NEW h, Powers(g, m), Powers(h, n)
    PROVE  \A i \in 0..m : i <= n => g[i] = h[i]
<1>. DEFINE T == {i \in 0..m : i <= n /\ g[i] # h[i]}
<1>. SUFFICES ASSUME T # {} PROVE FALSE
  OBVIOUS
<1>1. T \subseteq Nat
  OBVIOUS
<1>2. PICK i \in T : \A j \in T : i <= j
  BY <1>1, LeastNumber
<1>3. i \in 0..m /\ i <= n /\ g[i] # h[i] /\ i # 0
  BY DEF Powers
<1>4. i - 1 \in 0..m /\ i - 1 <= n /\ i - 1 \notin T
  BY <1>2, <1>3
<1>5. g[i - 1] = h[i - 1]
  BY <1>4
<1>6. i \in 1..m /\ i \in 1..n
  BY <1>3
<1>7. g[i] = 3 * g[i - 1] /\ h[i] = 3 * h[i - 1]
  BY <1>6 DEF Powers
<1>. QED  BY <1>3, <1>5, <1>7

\* So the recursive definition of Power3 defines a function, with values in Nat.
LEMMA PowerOf3 ==
    /\ Power3[0] = 1
    /\ \A n \in Nat : Power3[n] \in Nat /\ Power3[n + 1] = 3 * Power3[n]
<1>. DEFINE upTo(n) == CHOOSE g : Powers(g, n)
            f == [n \in Nat |-> upTo(n)[n]]
<1>1. \A n \in Nat : Powers(upTo(n), n)
  BY PowersExist
<1>. HIDE DEF upTo
<1>2. \A n \in Nat : f[n] = upTo(n)[n] /\ f[n] \in Nat
  BY <1>1 DEF Powers
<1>3. f[0] = 1
  BY <1>1, <1>2 DEF Powers
<1>4. ASSUME NEW n \in Nat PROVE f[n + 1] = 3 * f[n]
  <2>1. Powers(upTo(n), n) /\ Powers(upTo(n + 1), n + 1) /\ n + 1 \in Nat
    BY <1>1
  <2>2. upTo(n)[n] = upTo(n + 1)[n]
    BY <2>1, PowersAgree
  <2>3. upTo(n + 1)[n + 1] = 3 * upTo(n + 1)[n]
    BY <2>1 DEF Powers
  <2>. QED  BY <1>2, <2>1, <2>2, <2>3
<1>5. f = [n \in Nat |-> IF n = 0 THEN 1 ELSE 3 * f[n - 1]]
  <2>1. ASSUME NEW n \in Nat PROVE f[n] = IF n = 0 THEN 1 ELSE 3 * f[n - 1]
    <3>1. CASE n = 0
      BY <1>3, <3>1
    <3>2. CASE n # 0
      <4>1. n - 1 \in Nat /\ (n - 1) + 1 = n
        BY <3>2
      <4>. QED  BY <1>4, <3>2, <4>1
    <3>. QED  BY <3>1, <3>2
  <2>. QED  BY <2>1
<1>. HIDE DEF f
<1>6. Power3 = [n \in Nat |-> IF n = 0 THEN 1 ELSE 3 * Power3[n - 1]]
  BY <1>5 DEF Power3
<1>7. Power3[0] = 1 /\ \A n \in Nat : Power3[n + 1] = 3 * Power3[n]
  <2>. HIDE DEF Power3
  <2>1. \A n \in Nat : Power3[n] = IF n = 0 THEN 1 ELSE 3 * Power3[n - 1]
    BY <1>6
  <2>2. ASSUME NEW n \in Nat PROVE Power3[n + 1] = 3 * Power3[n]
    <3>1. n + 1 \in Nat /\ n + 1 # 0 /\ (n + 1) - 1 = n
      OBVIOUS
    <3>. QED  BY <2>1, <3>1
  <2>. QED  BY <2>1, <2>2
<1>8. \A n \in Nat : Power3[n] \in Nat
  <2>. DEFINE T == {n \in Nat : Power3[n] \notin Nat}
  <2>. SUFFICES ASSUME T # {} PROVE FALSE
    OBVIOUS
  <2>1. PICK n \in T : \A m \in T : n <= m
    BY LeastNumber
  <2>2. n # 0
    BY <1>7
  <2>3. n - 1 \in Nat /\ n - 1 \notin T
    BY <2>1, <2>2
  <2>4. Power3[n - 1] \in Nat /\ Power3[(n - 1) + 1] = 3 * Power3[n - 1] /\ (n - 1) + 1 = n
    BY <1>7, <2>3
  <2>. QED  BY <2>4
<1>. QED  BY <1>7, <1>8

\* A rejection triples the wait with the bound; other failures and the registrar's
\* upper limit may shorten it, but not below RetryMax.
LEMMA RejectionTriples ==
    ASSUME TypeOK, RejectionsSlowDown, NEW auth \in BOOLEAN, RetryAfterFailure(auth)
    PROVE  RejectionsSlowDown'
<1>. DEFINE p == Power3[authFailures]
            floor == RetryMin * p
<1>1. /\ backoff \in Nat /\ RetryMin \in Nat /\ RetryMax \in Nat /\ AuthRetryMax \in Nat
      /\ RetryMax <= AuthRetryMax /\ authFailures \in Nat /\ AuthFailureBound \in Nat
      /\ authFailures <= AuthFailureBound
  BY RegistrationAssumption DEF RegistrationAssumption, TypeOK
<1>2. p \in Nat /\ Power3[authFailures + 1] = 3 * p
  BY <1>1, PowerOf3
<1>3. floor \in Nat /\ RetryMin * (3 * p) = 3 * floor
  BY <1>1, <1>2
<1>4. backoff >= floor \/ backoff >= RetryMax
  BY <1>1, <1>3 DEF RejectionsSlowDown, Smaller
<1>. HIDE DEF p
<1>5. CASE auth
  <2>1. /\ backoff' = Smaller(3 * backoff, AuthRetryMax)
        /\ authFailures' \in {authFailures, authFailures + 1}
    BY <1>1, <1>5 DEF RetryAfterFailure, LongerBackoff, Smaller
  <2>2. RetryMin * Power3[authFailures'] \in {floor, 3 * floor}
    BY <1>2, <1>3, <2>1 DEF p
  <2>. HIDE DEF floor
  <2>. QED  BY <1>1, <1>3, <1>4, <2>1, <2>2 DEF RejectionsSlowDown, Smaller
<1>6. CASE ~auth
  <2>1. backoff' = Smaller(2 * backoff, RetryMax) /\ authFailures' = authFailures
    BY <1>6 DEF RetryAfterFailure, LongerBackoff
  <2>2. RetryMin * Power3[authFailures'] = floor
    BY <2>1 DEF p
  <2>. HIDE DEF floor
  <2>. QED  BY <1>1, <1>3, <1>4, <2>1, <2>2 DEF RejectionsSlowDown, Smaller
<1>. QED  BY <1>5, <1>6

LEMMA SlowsInit == Init => RejectionsSlowDown
<1>. SUFFICES ASSUME Init PROVE RejectionsSlowDown
  OBVIOUS
<1>1. backoff = RetryMin /\ authFailures = 0 /\ RetryMin \in Nat /\ RetryMax \in Nat
  BY RegistrationAssumption DEF RegistrationAssumption, Init
<1>2. RetryMin * Power3[authFailures] = RetryMin
  BY <1>1, PowerOf3
<1>. QED  BY <1>1, <1>2 DEF RejectionsSlowDown, Smaller

LEMMA SlowsStep ==
    ASSUME TypeOK, RejectionsSlowDown, [Next]_vars
    PROVE  RejectionsSlowDown'
<1>1. ASSUME UNCHANGED <<backoff, authFailures>> PROVE RejectionsSlowDown'
  BY <1>1 DEF RejectionsSlowDown
<1>2. ASSUME NEW m \in RegisterResponses, HandleRegisterResponse(m)
      PROVE  RejectionsSlowDown'
  <2>1. CASE StaleResponse(m) \/ ProvisionalResponse(m) \/ Challenged(m) \/ IntervalRaised(m)
    BY <1>1, <2>1 DEF StaleResponse, ProvisionalResponse, Challenged, IntervalRaised, vars,
       regVars, policyVars
  <2>2. CASE IntervalRefused(m) \/ RegisterRefused(m)
    <3>1. (m.code \in AuthCodes) \in BOOLEAN
      OBVIOUS
    <3>. QED  BY <2>2, <3>1, RejectionTriples DEF IntervalRefused, RegisterRefused
  <2>3. CASE RegisterAccepted(m)
    <3>1. /\ backoff' = RetryMin /\ authFailures' = 0
          /\ RetryMin \in Nat /\ RetryMax \in Nat
      BY <2>3, RegistrationAssumption DEF RegistrationAssumption, RegisterAccepted
    <3>2. RetryMin * Power3[authFailures'] = RetryMin
      BY <3>1, PowerOf3
    <3>. QED  BY <3>1, <3>2 DEF RejectionsSlowDown, Smaller
  <2>. QED  BY <1>2, <2>1, <2>2, <2>3 DEF HandleRegisterResponse
<1>. USE DEF vars, regVars, policyVars
<1>3. CASE StartOpened \/ StartFailed \/ TimerAfterStop \/ TickInCall
  BY <1>1, <1>3 DEF StartOpened, StartFailed, TimerAfterStop, TickInCall
<1>4. CASE TickResends \/ TickReconnects \/ TickRefreshes
  BY <1>1, <1>4 DEF TickResends, TickReconnects, TickRefreshes
<1>5. CASE ReconnectBegins \/ ReconnectAbandoned \/ ReconnectOpened \/ ReconnectFailed
  BY <1>1, <1>5 DEF ReconnectBegins, ReconnectAbandoned, ReconnectOpened, ReconnectFailed
<1>6. CASE StopBegins \/ StopEnds \/ CallLayer \/ UNCHANGED vars
  BY <1>1, <1>6 DEF StopBegins, StopEnds, CallLayer
<1>. QED  BY <1>2, <1>3, <1>4, <1>5, <1>6 DEF Next, RegistrationStep
-----------------------------------------------------------------------------
(* What follows for a reader *)

\* Every variable keeps its type: in particular the back-off never leaves the
\* range of REGISTER_RETRY_MIN to REGISTER_AUTH_RETRY_MAX, and no more than
\* two REGISTERs stay unanswered before the third rebuilds the socket.
THEOREM TypeCorrect == Spec => []TypeOK
BY LoopInvariant, PTL DEF LoopInv

\* The registration loop never forks: no answer, call, failure or stop() makes
\* two of start task, reconnect task and armed register timer exist at once.
THEOREM NeverForks == Spec => []OneDriver
BY LoopInvariant, PTL DEF LoopInv

\* The registration loop never dies before stop(), the promise of
\* _register_timer().
THEOREM NeverDies == Spec => []LoopAlive
BY LoopInvariant, PTL DEF LoopInv

\* The line says "registered" only while the registrar's latest verdict on us
\* was a success.
THEOREM HonestStatus == Spec => []StatusHonest
BY LoopInvariant, PTL DEF LoopInv

\* A client that holds a binding and was not stopped has its socket open.
THEOREM ReachableBinding == Spec => []BindingHasSocket
BY LoopInvariant, PTL DEF LoopInv

\* stop() leaves no socket, and nobody who could open one.
THEOREM StopIsFinal == Spec => []StoppedIsClosed
BY LoopInvariant, PTL DEF LoopInv

\* After n rejections in a row the wait is at least REGISTER_RETRY_MIN * 3^n, up to
\* REGISTER_RETRY_MAX, for every n and whatever failures of another kind come in
\* between (_retry_after_register_failure).
THEOREM WrongPasswordSlows == Spec => []RejectionsSlowDown
BY LoopInvariant, SlowsInit, SlowsStep, PTL DEF Spec, LoopInv
=============================================================================
