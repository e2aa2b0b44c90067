------------------------- MODULE DesktopShellProofs -------------------------
(* The safety of DesktopShell for every number of ports, windows, sessions and *)
(* actors.  Three inductive invariants that hardly touch: the supervisor's,    *)
(* the broker's, and that of the calls and the page, which rests on both.      *)
EXTENDS DesktopShell, FiniteSetTheorems, TLAPS

-----------------------------------------------------------------------------
(* The supervisor.  What the router was built with is what the start left in   *)
(* the environment, so both must be followed from the spawn on; the child main *)
(* still holds is the only one that may run.                                   *)
Starts == {"starting", "probing", "assembling"}

(* What a start has set up by the time of each of its stages.                  *)
Spawned == child.port \in Ports /\ env.port = child.port /\ env.secret = child.secret

SupStages ==
  /\ boot \in Starts => win.made = 0 /\ win.open = {}
  /\ boot = "starting" => child.is = "none"
  /\ machine.skip => child.is = "none"
  /\ ~machine.skip /\ boot \in {"probing", "assembling", "up"} => Spawned
  /\ child.is \in {"starting", "serving"} => child.held
  /\ child.is = "none" => ~child.held
  /\ child.is = "serving" => child.served
  /\ ~machine.skip /\ boot \in {"assembling", "up"} => child.served
  /\ ~machine.skip /\ (boot = "up" \/ win.made > 0) =>
       child.served /\ router = [port |-> child.port, secret |-> child.secret]
  /\ ExitStopsBackend

SupInv == SupTypeOK /\ SupStages

LEMMA SupInitOK == SupInit => SupInv
<1> SUFFICES ASSUME SupInit PROVE SupInv
  OBVIOUS
<1>1. SupTypeOK
  BY SupervisorAssumption DEF SupInit, SupTypeOK, parseApiBaseUrl, AnyPort, Windows
<1>2. SupStages
  BY DEF SupInit, SupStages, Starts, ExitStopsBackend, Gone
<1> QED
  BY <1>1, <1>2 DEF SupInv

SupNext ==
  BootStep \/ ChildServes \/ ChildEnds \/ Quit \/ Activate \/ \E id \in Windows : CloseWindow(id)

(* A stop leaves no running child when main holds the one that runs, and what  *)
(* the child was started with is what it was.                                  *)
LEMMA StopEndsChild ==
  ASSUME SupTypeOK, child.is \in {"starting", "serving"} => child.held
  PROVE  /\ stopPythonBackend(child) \in
              [held : BOOLEAN, is : {"none", "starting", "serving", "dead"},
               port : Ports \union {NoPort}, secret : {NoSecret, NewSecret},
               served : BOOLEAN, probes : 0..MaxProbes]
         /\ stopPythonBackend(child).is \notin {"starting", "serving"}
         /\ ~child.held => stopPythonBackend(child) = child
         /\ stopPythonBackend(child).is = "none" => child.is = "none" /\ ~child.held
         /\ stopPythonBackend(child).served = child.served
         /\ stopPythonBackend(child).port = child.port
         /\ stopPythonBackend(child).secret = child.secret
BY DEF SupTypeOK, stopPythonBackend

(* The windows stay within their bound, open and trusted the same.             *)
LEMMA OpenedWindow ==
  ASSUME SupTypeOK, win.made < MaxWindows
  PROVE  /\ openMainWindow(win) \in
              [made : 0..MaxWindows, open : SUBSET Windows, trusted : SUBSET Windows]
         /\ openMainWindow(win).open = openMainWindow(win).trusted
         /\ openMainWindow(win).made = win.made + 1
<1>1. /\ win \in [made : 0..MaxWindows, open : SUBSET Windows, trusted : SUBSET Windows]
      /\ win.open = win.trusted
  BY DEF SupTypeOK
<1>2. win.made + 1 \in 0..MaxWindows /\ win.made + 1 \in Windows
  BY <1>1, SupervisorAssumption DEF Windows
<1> QED
  BY <1>1, <1>2 DEF openMainWindow

LEMMA ClosedWindow ==
  ASSUME SupTypeOK, NEW id, NEW w, w = untrustClosed(win, id)
  PROVE  /\ w \in [made : 0..MaxWindows, open : SUBSET Windows, trusted : SUBSET Windows]
         /\ w.open = w.trusted /\ w.made = win.made /\ w.open \subseteq win.open
         /\ [w EXCEPT !.open = {}, !.trusted = {}] =
              [win EXCEPT !.open = {}, !.trusted = {}]
BY DEF SupTypeOK, untrustClosed

(* The app ends, from whatever it was.                                         *)
LEMMA AppEnds ==
  ASSUME SupTypeOK, SupStages, NEW w, UNCHANGED <<machine, env, config, router>>, EndApp(w),
         [w EXCEPT !.open = {}, !.trusted = {}] = [win EXCEPT !.open = {}, !.trusted = {}]
  PROVE  SupTypeOK' /\ SupStages'
<1>1. /\ boot' = "quit" /\ child' = stopPythonBackend(child)
      /\ win' = [win EXCEPT !.open = {}, !.trusted = {}]
  BY DEF EndApp
<1>2. child.is \in {"starting", "serving"} => child.held
  BY DEF SupStages
<1>3. /\ win' \in [made : 0..MaxWindows, open : SUBSET Windows, trusted : SUBSET Windows]
      /\ win'.open = win'.trusted /\ win'.made = win.made
  BY <1>1 DEF SupTypeOK
<1>4. SupTypeOK'
  BY <1>1, <1>2, <1>3, StopEndsChild DEF SupTypeOK, Gone
<1>5. /\ child'.is \notin {"starting", "serving"} /\ child'.served = child.served
      /\ child'.port = child.port /\ child'.secret = child.secret
      /\ ~child.held => child' = child
      /\ child'.is = "none" => child.is = "none" /\ ~child.held
  BY <1>1, <1>2, StopEndsChild
<1>6. /\ machine.skip => child'.is = "none"
      /\ child'.is = "none" => ~child'.held
  BY <1>5 DEF SupStages
<1>7. SupStages'
  BY <1>1, <1>3, <1>5, <1>6 DEF SupStages, Spawned, Starts, ExitStopsBackend
<1> QED
  BY <1>4, <1>7

LEMMA SupStep == SupInv /\ SupNext => SupInv'
<1> SUFFICES ASSUME SupTypeOK, SupStages, SupNext PROVE SupTypeOK' /\ SupStages'
  BY DEF SupInv
<1> USE SupervisorAssumption
<1>1. CASE SkipBackend
  <2>1. SupTypeOK'
    BY <1>1 DEF SupTypeOK, SkipBackend, AnyPort, Windows, Gone
  <2>2. SupStages'
    BY <1>1 DEF SupTypeOK, SupStages, Spawned, Starts, ExitStopsBackend, Gone, SkipBackend
  <2> QED
    BY <2>1, <2>2
<1>2. CASE SpawnBackend
  <2>1. PICK p \in Ports :
          /\ env' = [port |-> p, secret |-> NewSecret]
          /\ child' = [child EXCEPT !.held = TRUE, !.is = "starting", !.port = p,
                                    !.secret = NewSecret]
    BY <1>2 DEF SpawnBackend
  <2>2. /\ boot = "starting" /\ boot' = "probing" /\ ~machine.skip
        /\ UNCHANGED <<machine, config, router, win>>
    BY <1>2 DEF SpawnBackend
  <2>3. SupTypeOK'
    BY <2>1, <2>2 DEF SupTypeOK, AnyPort
  <2>4. /\ child'.held /\ child'.is = "starting" /\ child'.port = p
        /\ child'.secret = NewSecret /\ env'.port = p /\ env'.secret = NewSecret
    BY <2>1 DEF SupTypeOK
  <2>5. SupStages'
    BY <2>2, <2>4 DEF SupStages, Spawned, Starts, ExitStopsBackend, Gone
  <2> QED
    BY <2>3, <2>5
<1>3. CASE ProbeBackend
  <2>1. SupTypeOK'
    BY <1>3 DEF SupTypeOK, ProbeBackend, checkReady, Windows, Gone
  <2>2. SupStages'
    BY <1>3 DEF SupTypeOK, SupStages, Spawned, Starts, ExitStopsBackend, Gone, ProbeBackend, checkReady
  <2> QED
    BY <2>1, <2>2
<1>4. CASE StartTimesOut
  <2>1. /\ boot = "probing" /\ boot' = "failed" /\ child' = stopPythonBackend(child)
        /\ UNCHANGED <<machine, env, config, router, win>>
    BY <1>4 DEF StartTimesOut
  <2>2. child.is \in {"starting", "serving"} => child.held
    BY DEF SupStages
  <2>3. SupTypeOK'
    BY <2>1, <2>2, StopEndsChild DEF SupTypeOK, Gone
  <2>4. /\ child'.is \notin {"starting", "serving"} /\ child'.served = child.served
        /\ ~child.held => child' = child
        /\ child'.is = "none" => child.is = "none" /\ ~child.held
    BY <2>1, <2>2, StopEndsChild
  <2>5. SupStages'
    BY <2>1, <2>4 DEF SupStages, Starts, ExitStopsBackend
  <2> QED
    BY <2>3, <2>5
<1>5. CASE Assemble
  <2>1. /\ boot = "assembling" /\ win.made = 0 /\ win.made < MaxWindows
        /\ config' = parseApiBaseUrl(env) /\ UNCHANGED <<machine, env, child>>
    BY <1>5 DEF Assemble, SupStages, Starts
  <2>2. /\ config' \in AnyPort
        /\ env.port # NoPort => config' = env.port
    BY <2>1 DEF SupTypeOK, parseApiBaseUrl, AnyPort
  <2>3. CASE machine.token
    <3>1. /\ router' = [port |-> config', secret |-> env.secret]
          /\ win' = openMainWindow(win) /\ boot' = "up"
      BY <1>5, <2>3 DEF Assemble, BackendClientsFor
    <3>2. SupTypeOK'
      BY <2>1, <2>2, <3>1, OpenedWindow DEF SupTypeOK
    <3>3. ~machine.skip => Spawned /\ child.served
      BY <2>1 DEF SupStages
    <3>4. ~machine.skip => router' = [port |-> child.port, secret |-> child.secret]
      BY <2>2, <3>1, <3>3 DEF Spawned
    <3>5. SupStages'
      BY <2>1, <3>1, <3>3, <3>4 DEF SupStages, Spawned, Starts, ExitStopsBackend, Gone
    <3> QED
      BY <3>2, <3>5
  <2>4. CASE ~machine.token
    <3>1. boot' = "failed" /\ UNCHANGED <<router, win>>
      BY <1>5, <2>4 DEF Assemble
    <3>2. SupTypeOK'
      BY <2>1, <2>2, <3>1 DEF SupTypeOK, Gone
    <3>3. SupStages'
      BY <2>1, <2>4, <3>1 DEF SupStages, Starts, ExitStopsBackend
    <3> QED
      BY <3>2, <3>3
  <2> QED
    BY <2>3, <2>4
<1>6. CASE ChildServes
  <2>1. SupTypeOK'
    BY <1>6 DEF SupTypeOK, ChildServes, Windows, Gone
  <2>2. SupStages'
    BY <1>6 DEF SupTypeOK, SupStages, Spawned, Starts, ExitStopsBackend, Gone, ChildServes
  <2> QED
    BY <2>1, <2>2
<1>7. CASE ChildEnds
  <2>1. SupTypeOK'
    BY <1>7 DEF SupTypeOK, ChildEnds, Windows, Gone
  <2>2. SupStages'
    BY <1>7 DEF SupTypeOK, SupStages, Spawned, Starts, ExitStopsBackend, Gone, ChildEnds
  <2> QED
    BY <2>1, <2>2
<1>8. CASE Quit
  BY <1>8, AppEnds DEF Quit
<1>9. CASE Activate
  <2>1. /\ boot = "up" /\ win.made < MaxWindows /\ win' = openMainWindow(win)
        /\ UNCHANGED <<machine, boot, env, config, child, router>>
    BY <1>9 DEF Activate
  <2>2. SupTypeOK'
    BY <2>1, OpenedWindow DEF SupTypeOK
  <2>3. SupStages'
    BY <2>1 DEF SupStages, Spawned, Starts, ExitStopsBackend
  <2> QED
    BY <2>2, <2>3
<1>10. ASSUME NEW id \in Windows, CloseWindow(id) PROVE SupTypeOK' /\ SupStages'
  <2> DEFINE w == untrustClosed(win, id)
  <2>1. UNCHANGED <<machine, env, config, router>> /\ id \in win.open
    BY <1>10 DEF CloseWindow
  <2>2. \/ EndApp(w)
        \/ win' = w /\ boot' = boot /\ child' = child
    <3> HIDE DEF w
    <3>1. IF w.open = {} /\ machine.platform # "darwin"
            THEN EndApp(w) ELSE win' = w /\ UNCHANGED <<boot, child>>
      BY <1>10, Zenon DEF CloseWindow, w
    <3>2. CASE w.open = {} /\ machine.platform # "darwin"
      BY <3>1, <3>2, Zenon
    <3>3. CASE ~(w.open = {} /\ machine.platform # "darwin")
      BY <3>1, <3>3
    <3> QED
      BY <3>2, <3>3, Zenon
  <2>3. /\ w \in [made : 0..MaxWindows, open : SUBSET Windows, trusted : SUBSET Windows]
        /\ w.open = w.trusted /\ w.made = win.made /\ w.open \subseteq win.open
        /\ [w EXCEPT !.open = {}, !.trusted = {}] = [win EXCEPT !.open = {}, !.trusted = {}]
    BY ClosedWindow
  <2> HIDE DEF w
  <2>4. CASE EndApp(w)
    BY <2>1, <2>3, <2>4, AppEnds
  <2>5. CASE win' = w /\ boot' = boot /\ child' = child
    <3>1. SupTypeOK'
      BY <2>1, <2>3, <2>5 DEF SupTypeOK
    <3>2. SupStages'
      BY <2>1, <2>3, <2>5 DEF SupStages, Spawned, ExitStopsBackend, Starts
    <3> QED
      BY <3>1, <3>2
  <2> QED
    BY <2>2, <2>4, <2>5
<1> QED
  BY <1>1, <1>2, <1>3, <1>4, <1>5, <1>6, <1>7, <1>8, <1>9, <1>10 DEF SupNext, BootStep

LEMMA SupStutters == SupInv /\ UNCHANGED supVars => SupInv'
BY DEF SupInv, SupTypeOK, SupStages, Spawned, ExitStopsBackend, supVars

-----------------------------------------------------------------------------
(* The broker.                                                                 *)
OneListener == \A s, t \in Sids : sessions[s].listening /\ sessions[t].listening => s = t

BrokerInv ==
  /\ BrokerTypeOK
  /\ asked \subseteq [actor : Actors, win : Windows]
  /\ \A s \in Sids : sessions[s].listening <=> sessions[s].status = "pending"
  /\ OneListener
  /\ CodesAreOfTheirSession

LEMMA BrokerInitOK == BrokerInit => BrokerInv
BY DEF BrokerInit, BrokerInv, BrokerTypeOK, OneListener, CodesAreOfTheirSession, NotStarted

(* Expiry ends sessions and starts none.                                       *)
LEMMA CleanupEnds ==
  ASSUME BrokerTypeOK, NEW s \in Sids
  PROVE  /\ cleanupExpiredSessions(sessions) \in
              [Sids -> [status : {"none", "pending", "completed", "failed", "expired"},
                        actor : Actors \union {NoActor}, listening : BOOLEAN, old : BOOLEAN]]
         /\ \/ cleanupExpiredSessions(sessions)[s] = sessions[s]
            \/ /\ cleanupExpiredSessions(sessions)[s].status = "expired"
               /\ ~cleanupExpiredSessions(sessions)[s].listening
<1> DEFINE S == [status : {"none", "pending", "completed", "failed", "expired"},
                 actor : Actors \union {NoActor}, listening : BOOLEAN, old : BOOLEAN]
           c == cleanupExpiredSessions(sessions)
<1>1. ASSUME NEW t \in Sids
      PROVE  /\ finalizeSession(sessions[t], "expired") \in S
             /\ finalizeSession(sessions[t], "expired").status = "expired"
             /\ ~finalizeSession(sessions[t], "expired").listening
  BY DEF BrokerTypeOK, finalizeSession
<1>2. c = [t \in Sids |-> IF t \in Started(sessions) /\ sessions[t].old
                             THEN finalizeSession(sessions[t], "expired") ELSE sessions[t]]
  BY DEF cleanupExpiredSessions
<1>3. c \in [Sids -> S]
  BY <1>1, <1>2 DEF BrokerTypeOK
<1> QED
  BY <1>1, <1>2, <1>3

LEMMA CleanupKeepsInv ==
  ASSUME BrokerInv, sessions' = cleanupExpiredSessions(sessions), UNCHANGED <<exchanges, linked>>,
         browser' \in [tabs : SUBSET Sids, returns : Nat],
         asked' \subseteq [actor : Actors, win : Windows]
  PROVE  BrokerInv'
<1>1. BrokerTypeOK
  BY DEF BrokerInv
<1>2. /\ sessions' \in [Sids -> [status : {"none", "pending", "completed", "failed", "expired"},
                        actor : Actors \union {NoActor}, listening : BOOLEAN, old : BOOLEAN]]
      /\ \A s \in Sids : \/ sessions'[s] = sessions[s]
                         \/ sessions'[s].status = "expired" /\ ~sessions'[s].listening
  <2>1. CASE Sids = {}
    BY <1>1, <2>1 DEF BrokerTypeOK, cleanupExpiredSessions
  <2>2. CASE Sids # {}
    BY <1>1, <2>2, CleanupEnds
  <2> QED
    BY <2>1, <2>2
<1> QED
  BY <1>2, SMT DEF BrokerInv, BrokerTypeOK, OneListener, CodesAreOfTheirSession

LEMMA StartKeepsInv ==
  ASSUME BrokerInv, NEW a \in Actors, NEW id \in Windows, NEW found, startSession(a, id, found)
  PROVE  BrokerInv'
<1>1. /\ sessions' = cleanupExpiredSessions(sessions)
      /\ found \subseteq Sids
      /\ browser' = [browser EXCEPT !.tabs = @ \union found]
      /\ asked' \in {asked, asked \union {[actor |-> a, win |-> id]}}
      /\ UNCHANGED <<exchanges, linked>>
  BY DEF startSession, findPendingSessionForActor
<1>2. browser' \in [tabs : SUBSET Sids, returns : Nat]
  BY <1>1 DEF BrokerInv, BrokerTypeOK
<1>3. asked' \subseteq [actor : Actors, win : Windows]
  BY <1>1 DEF BrokerInv
<1> QED
  BY <1>1, <1>2, <1>3, CleanupKeepsInv

LEMMA ThrowKeepsInv ==
  ASSUME BrokerInv, NEW q, startThrows(q)
  PROVE  BrokerInv'
BY DEF BrokerInv, BrokerTypeOK, OneListener, CodesAreOfTheirSession, startThrows

(* One session changes and the others are as they were: it may wait only when  *)
(* no other does, and is connected only when the backend has its tokens.       *)
SessionStatus == {"none", "pending", "completed", "failed", "expired"}
LEMMA OneSessionChanges ==
  ASSUME BrokerInv, NEW s \in Sids, NEW x,
         x \in [status : SessionStatus, actor : Actors \union {NoActor}, listening : BOOLEAN,
                old : BOOLEAN],
         sessions' = [sessions EXCEPT ![s] = x],
         x.listening <=> x.status = "pending",
         x.listening => sessions[s].listening \/ Listener = {},
         x.status = "completed" => s \in linked',
         linked \subseteq linked', linked' \subseteq Sids,
         browser' \in [tabs : SUBSET Sids, returns : Nat],
         asked' \subseteq [actor : Actors, win : Windows],
         exchanges' \subseteq [session : Sids, code : Sids, by : Nat],
         \A e \in exchanges' : e.code = e.session
  PROVE  BrokerInv'
<1>1. /\ sessions \in [Sids -> [status : SessionStatus, actor : Actors \union {NoActor},
                                listening : BOOLEAN, old : BOOLEAN]]
      /\ sessions' \in [Sids -> [status : SessionStatus, actor : Actors \union {NoActor},
                                 listening : BOOLEAN, old : BOOLEAN]]
  BY DEF BrokerInv, BrokerTypeOK, SessionStatus
<1>2. sessions'[s] = x /\ \A t \in Sids \ {s} : sessions'[t] = sessions[t]
  BY <1>1
<1>3. BrokerTypeOK'
  BY <1>1 DEF BrokerTypeOK, SessionStatus
<1>4. \A t \in Sids : sessions'[t].listening <=> sessions'[t].status = "pending"
  BY <1>2 DEF BrokerInv
<1>5. \A t, u \in Sids : sessions'[t].listening /\ sessions'[u].listening => t = u
  BY <1>2 DEF BrokerInv, OneListener, Listener
<1>6. \A t \in Sids : sessions'[t].status = "completed" => t \in linked'
  BY <1>2 DEF BrokerInv, CodesAreOfTheirSession
<1> QED
  BY <1>3, <1>4, <1>5, <1>6 DEF BrokerInv, OneListener, CodesAreOfTheirSession

LEMMA ListenKeepsInv ==
  ASSUME BrokerInv, NEW q \in asked, NEW s \in Sids, NEW opened \in BOOLEAN,
         startListens(q, s, opened)
  PROVE  BrokerInv'
<1> DEFINE session == [status |-> "pending", actor |-> q.actor, listening |-> TRUE, old |-> FALSE]
           x == IF opened THEN session ELSE finalizeSession(session, "failed")
<1>1. q.actor \in Actors
  BY DEF BrokerInv
<1>2. /\ x \in [status : SessionStatus, actor : Actors \union {NoActor}, listening : BOOLEAN,
                old : BOOLEAN]
      /\ x.listening <=> x.status = "pending"
      /\ x.status # "completed"
  BY <1>1 DEF finalizeSession, SessionStatus
<1>3. /\ Listener = {} /\ sessions' = [sessions EXCEPT ![s] = x]
      /\ asked' = asked \ {q} /\ UNCHANGED <<exchanges, linked>>
      /\ browser' = IF opened THEN [browser EXCEPT !.tabs = @ \union {s}] ELSE browser
  BY DEF startListens
<1>4. browser' \in [tabs : SUBSET Sids, returns : Nat]
  BY <1>3 DEF BrokerInv, BrokerTypeOK
<1>5. /\ asked' \subseteq [actor : Actors, win : Windows]
      /\ exchanges' \subseteq [session : Sids, code : Sids, by : Nat]
      /\ \A e \in exchanges' : e.code = e.session
      /\ linked \subseteq linked' /\ linked' \subseteq Sids
  BY <1>3 DEF BrokerInv, BrokerTypeOK, CodesAreOfTheirSession
<1> HIDE DEF x
<1> QED
  BY <1>2, <1>3, <1>4, <1>5, OneSessionChanges

(* The outcome of a session that was started.                                  *)
LEMMA FinalizedSession ==
  ASSUME BrokerInv, NEW s \in Sids, NEW status \in {"completed", "failed", "expired"}
  PROVE  /\ finalizeSession(sessions[s], status) \in
              [status : SessionStatus, actor : Actors \union {NoActor}, listening : BOOLEAN,
               old : BOOLEAN]
         /\ finalizeSession(sessions[s], status).status = status
         /\ ~finalizeSession(sessions[s], status).listening
BY DEF BrokerInv, BrokerTypeOK, finalizeSession, SessionStatus

LEMMA ComeBackKeepsInv ==
  ASSUME BrokerInv, NEW s \in Sids, NEW granted \in BOOLEAN, ComeBack(s, granted)
  PROVE  BrokerInv'
<1>1. /\ browser' = [browser EXCEPT !.returns = @ + 1] /\ UNCHANGED <<asked, linked>>
  BY DEF ComeBack
<1>2. browser' \in [tabs : SUBSET Sids, returns : Nat]
  BY <1>1 DEF BrokerInv, BrokerTypeOK
<1>3. PICK l \in Listener :
        IF SameState(l, s) /\ granted
          THEN BeginExchange(l, s)
          ELSE /\ sessions' = [sessions EXCEPT ![l] = finalizeSession(@, "failed")]
               /\ UNCHANGED exchanges
  BY DEF ComeBack
<1>4. l \in Sids
  BY <1>3 DEF Listener
<1>5. CASE SameState(l, s) /\ granted
  <2>1. /\ exchanges' = exchanges \union {[session |-> l, code |-> l, by |-> browser.returns]}
        /\ UNCHANGED sessions
    BY <1>3, <1>5 DEF BeginExchange, SameState
  <2> QED
    BY <1>1, <1>2, <1>4, <2>1 DEF BrokerInv, BrokerTypeOK, OneListener, CodesAreOfTheirSession
<1>6. CASE ~(SameState(l, s) /\ granted)
  <2>1. /\ sessions' = [sessions EXCEPT ![l] = finalizeSession(sessions[l], "failed")]
        /\ UNCHANGED exchanges
    BY <1>3, <1>6
  <2>2. /\ finalizeSession(sessions[l], "failed") \in
             [status : SessionStatus, actor : Actors \union {NoActor}, listening : BOOLEAN,
              old : BOOLEAN]
        /\ finalizeSession(sessions[l], "failed").status = "failed"
        /\ ~finalizeSession(sessions[l], "failed").listening
    BY <1>4, FinalizedSession
  <2>3. /\ asked' \subseteq [actor : Actors, win : Windows]
        /\ exchanges' \subseteq [session : Sids, code : Sids, by : Nat]
        /\ \A e \in exchanges' : e.code = e.session
        /\ linked \subseteq linked' /\ linked' \subseteq Sids
    BY <1>1, <2>1 DEF BrokerInv, BrokerTypeOK, CodesAreOfTheirSession
  <2> QED
    BY <1>2, <1>4, <2>1, <2>2, <2>3, OneSessionChanges
<1> QED
  BY <1>5, <1>6

LEMMA ExchangeEndsKeepsInv ==
  ASSUME BrokerInv, NEW x \in exchanges, NEW ok \in BOOLEAN, ExchangeEnds(x, ok)
  PROVE  BrokerInv'
<1> DEFINE s == x.session
           status == IF ok THEN "completed" ELSE "failed"
<1>1. /\ exchanges' = exchanges \ {x}
      /\ linked' = IF ok THEN linked \union {x.code} ELSE linked
      /\ sessions' = [sessions EXCEPT ![s] = finalizeSession(sessions[s], status)]
      /\ UNCHANGED <<asked, browser>>
  BY DEF ExchangeEnds
<1>2. s \in Sids /\ x.code = s /\ status \in {"completed", "failed", "expired"}
  BY DEF BrokerInv, BrokerTypeOK, CodesAreOfTheirSession
<1>3. /\ finalizeSession(sessions[s], status) \in
           [status : SessionStatus, actor : Actors \union {NoActor}, listening : BOOLEAN,
            old : BOOLEAN]
      /\ finalizeSession(sessions[s], status).status = status
      /\ ~finalizeSession(sessions[s], status).listening
  BY <1>2, FinalizedSession
<1>4. status # "pending" /\ (status = "completed" => s \in linked')
  BY <1>1, <1>2
<1>5. /\ asked' \subseteq [actor : Actors, win : Windows]
      /\ browser' \in [tabs : SUBSET Sids, returns : Nat]
      /\ exchanges' \subseteq [session : Sids, code : Sids, by : Nat]
      /\ \A e \in exchanges' : e.code = e.session
      /\ linked \subseteq linked' /\ linked' \subseteq Sids
  BY <1>1, <1>2 DEF BrokerInv, BrokerTypeOK, CodesAreOfTheirSession
<1> HIDE DEF s, status
<1> QED
  BY <1>1, <1>2, <1>3, <1>4, <1>5, OneSessionChanges

LEMMA AgingKeepsInv ==
  ASSUME BrokerInv, NEW s \in Sids, SessionAges(s)
  PROVE  BrokerInv'
<1> DEFINE x == [sessions[s] EXCEPT !.old = TRUE]
<1>1. sessions' = [sessions EXCEPT ![s] = x] /\ UNCHANGED <<asked, browser, exchanges, linked>>
  BY DEF SessionAges
<1>2. /\ x \in [status : SessionStatus, actor : Actors \union {NoActor}, listening : BOOLEAN,
                old : BOOLEAN]
      /\ x.status = sessions[s].status /\ x.listening = sessions[s].listening
  BY DEF BrokerInv, BrokerTypeOK, SessionStatus
<1>3. /\ x.listening <=> x.status = "pending"
      /\ x.status = "completed" => s \in linked
  BY <1>2 DEF BrokerInv, CodesAreOfTheirSession
<1>4. /\ asked \subseteq [actor : Actors, win : Windows]
      /\ browser \in [tabs : SUBSET Sids, returns : Nat]
      /\ exchanges \subseteq [session : Sids, code : Sids, by : Nat]
      /\ \A e \in exchanges : e.code = e.session
      /\ linked \subseteq Sids
  BY DEF BrokerInv, BrokerTypeOK, CodesAreOfTheirSession
<1> HIDE DEF x
<1> QED
  BY <1>1, <1>2, <1>3, <1>4, OneSessionChanges

LEMMA BrokerStutters == BrokerInv /\ UNCHANGED brokerVars => BrokerInv'
BY DEF BrokerInv, BrokerTypeOK, OneListener, CodesAreOfTheirSession, brokerVars

(* The broker's part of a step of the whole.                                   *)
ShellInv == SupInv /\ BrokerInv

LEMMA OpenPage == SupInv /\ PageIsOpen => ThePage \in win.open /\ ThePage \in Windows
BY DEF SupInv, SupTypeOK, PageIsOpen, ThePage

LEMMA BrokerStep == ShellInv /\ ShellNext => BrokerInv'
<1> SUFFICES ASSUME ShellInv, ShellNext PROVE BrokerInv'
  OBVIOUS
<1> USE DEF ShellInv
<1>1. CASE AppStep
  BY <1>1, BrokerStutters DEF AppStep, brokerVars
<1>2. CASE MainLogin \/ MainRegister \/ MainReadiness
  BY <1>2, BrokerStutters DEF MainLogin, MainRegister, MainReadiness
<1>3. CASE MainOauthStart
  <2>1. PICK q \in asked :
          \/ \E s \in Sids, opened \in BOOLEAN : startListens(q, s, opened)
          \/ startThrows(q)
    BY <1>3 DEF MainOauthStart
  <2> QED
    BY <2>1, ListenKeepsInv, ThrowKeepsInv
<1>4. CASE PageStep
  BY <1>4, BrokerStutters
     DEF PageStep, PageLogin, PageRegister, hydrateSessionContext, PagePrompt, PageOauthStart,
         PagePoll
<1>5. CASE UserStep
  <2>1. CASE ClickStart
    <3>1. CASE acting \notin Admins
      BY <2>1, <3>1, BrokerStutters DEF ClickStart
    <3>2. CASE acting \in Admins
      <4>1. \E found : startSession(acting, ThePage, found)
        BY <2>1, <3>2 DEF ClickStart, Call
      <4>2. acting \in Actors /\ ThePage \in Windows
        BY <2>1, <3>2, OpenPage, ShellAssumption DEF ClickStart
      <4> QED
        BY <4>1, <4>2, StartKeepsInv
    <3> QED
      BY <3>1, <3>2
  <2>2. CASE ~ClickStart
    BY <1>5, <2>2, BrokerStutters
       DEF UserStep, ClickNav, Logout, handleLoginSubmit, handleRegisterSubmit, VerifyOtp,
           SendOtp, handleForgotSubmit, SkipSetup, CloseDialog
  <2> QED
    BY <2>1, <2>2
<1>6. CASE SendPoll
  <2>1. UNCHANGED <<asked, browser, exchanges, linked>>
    BY <1>6 DEF SendPoll
  <2>2. sessions' = cleanupExpiredSessions(sessions) \/ sessions' = sessions
    BY <1>6 DEF SendPoll
  <2>3. CASE sessions' = sessions
    BY <2>1, <2>3, BrokerStutters DEF brokerVars
  <2>4. CASE sessions' = cleanupExpiredSessions(sessions)
    <3>1. /\ browser' \in [tabs : SUBSET Sids, returns : Nat]
          /\ asked' \subseteq [actor : Actors, win : Windows]
      BY <2>1 DEF BrokerInv, BrokerTypeOK
    <3> QED
      BY <2>1, <2>4, <3>1, CleanupKeepsInv
  <2> QED
    BY <2>2, <2>3, <2>4
<1>7. CASE BrowserStep
  BY <1>7, ComeBackKeepsInv, ExchangeEndsKeepsInv, AgingKeepsInv DEF BrowserStep
<1> QED
  BY <1>1, <1>2, <1>3, <1>4, <1>5, <1>6, <1>7 DEF ShellNext, MainStep

(* The supervisor moves in the application's own steps only.                   *)
LEMMA OnlyAppMovesSup == ShellNext => SupNext \/ UNCHANGED supVars
<1> SUFFICES ASSUME ShellNext PROVE SupNext \/ UNCHANGED supVars
  OBVIOUS
<1>1. CASE AppStep
  BY <1>1 DEF AppStep, SupNext
<1>2. CASE MainStep
  BY <1>2 DEF MainStep, MainLogin, MainRegister, MainReadiness, MainOauthStart
<1>3. CASE PageStep
  BY <1>3 DEF PageStep, PageLogin, PageRegister, hydrateSessionContext, PagePrompt,
              PageOauthStart, PagePoll
<1>4. CASE UserStep
  BY <1>4 DEF UserStep, ClickNav, Logout, handleLoginSubmit, handleRegisterSubmit, VerifyOtp,
              SendOtp, handleForgotSubmit, ClickStart, SkipSetup, CloseDialog
<1>5. CASE SendPoll
  BY <1>5 DEF SendPoll
<1>6. CASE BrowserStep
  BY <1>6 DEF BrowserStep
<1> QED
  BY <1>1, <1>2, <1>3, <1>4, <1>5, <1>6 DEF ShellNext

LEMMA ShellInvariant == ShellSpec => []ShellInv
<1>1. ShellInit => ShellInv
  BY SupInitOK, BrokerInitOK DEF ShellInit, ShellInv
<1>2. ShellInv /\ [ShellNext]_shellVars => ShellInv'
  <2>1. CASE ShellNext
    BY <2>1, BrokerStep, OnlyAppMovesSup, SupStep, SupStutters DEF ShellInv
  <2>2. CASE UNCHANGED shellVars
    BY <2>2, SupStutters, BrokerStutters DEF ShellInv, shellVars
  <2> QED
    BY <2>1, <2>2
<1> QED
  BY <1>1, <1>2, PTL DEF ShellSpec

(* Whatever the ports, windows and times of the child's end: the router talks  *)
(* to the backend this app started, with the secret it was started with.       *)
THEOREM ClientsReachTheirBackendHolds == ShellSpec => []ClientsReachTheirBackend
<1>1. ShellInv => ClientsReachTheirBackend
  BY DEF ShellInv, SupInv, SupStages, ClientsReachTheirBackend
<1> QED
  BY <1>1, ShellInvariant, PTL

(* No backend outlives the app, however it ends, when it has its token.        *)
THEOREM ExitStopsBackendHolds == ShellSpec => []ExitStopsBackend
<1>1. ShellInv => ExitStopsBackend
  BY DEF ShellInv, SupInv, SupStages
<1> QED
  BY <1>1, ShellInvariant, PTL

(* For any number of sessions: one of them at most holds the port, and it is   *)
(* one that waits.                                                             *)
THEOREM WaitingHoldsThePortHolds == ShellSpec => []WaitingHoldsThePort
<1>1. ASSUME ShellInv PROVE WaitingHoldsThePort
  <2>1. Cardinality(Listener) <= 1
    <3>1. CASE Listener = {}
      BY <3>1, FS_EmptySet
    <3>2. CASE Listener # {}
      <4>1. PICK l \in Listener : TRUE
        BY <3>2
      <4>2. Listener = {l}
        BY <1>1, <4>1 DEF ShellInv, BrokerInv, OneListener, Listener
      <4> QED
        BY <4>2, FS_Singleton
    <3> QED
      BY <3>1, <3>2
  <2> QED
    BY <1>1, <2>1 DEF ShellInv, BrokerInv, WaitingHoldsThePort
<1> QED
  BY <1>1, ShellInvariant, PTL

(* With any number of tabs left open, codes and connected sessions agree.      *)
THEOREM CodesAreOfTheirSessionHolds == ShellSpec => []CodesAreOfTheirSession
<1>1. ShellInv => CodesAreOfTheirSession
  BY DEF ShellInv, BrokerInv
<1> QED
  BY <1>1, ShellInvariant, PTL

-----------------------------------------------------------------------------
(* The calls and the page.  One window is open at most and never the same one  *)
(* again, so that a call is either the open page's or nobody's.                *)
OneWindow ==
  /\ \A v, w \in win.open : v = w
  /\ \A w \in win.open : w <= win.made

LEMMA WindowsStep ==
  ASSUME SupInv, OneWindow, SupNext
  PROVE  /\ OneWindow'
         /\ \/ win'.open = win.open /\ win'.made = win.made
            \/ win'.open = {} /\ win'.made = win.made
            \/ win.open = {} /\ win'.open = {win'.made} /\ win'.made = win.made + 1
<1>1. /\ win \in [made : 0..MaxWindows, open : SUBSET Windows, trusted : SUBSET Windows]
      /\ boot \in Starts => win.open = {}
  BY DEF SupInv, SupTypeOK, SupStages
<1>2. CASE SkipBackend \/ SpawnBackend \/ ProbeBackend \/ StartTimesOut \/ ChildServes \/ ChildEnds
  BY <1>2 DEF OneWindow, SkipBackend, SpawnBackend, ProbeBackend, StartTimesOut, ChildServes,
              ChildEnds
<1>3. ASSUME win' = openMainWindow(win), win.open = {} PROVE
        /\ OneWindow'
        /\ win.open = {} /\ win'.open = {win'.made} /\ win'.made = win.made + 1
  BY <1>1, <1>3 DEF OneWindow, openMainWindow
<1>4. CASE Assemble
  <2>1. win.open = {} /\ (win' = win \/ win' = openMainWindow(win))
    BY <1>1, <1>4 DEF Assemble, Starts
  <2> QED
    BY <1>3, <2>1 DEF OneWindow
<1>5. CASE Activate
  BY <1>3, <1>5 DEF Activate
<1>6. ASSUME win'.open = {}, win'.made = win.made PROVE OneWindow'
  BY <1>6 DEF OneWindow
<1>7. CASE Quit
  <2>1. win'.open = {} /\ win'.made = win.made
    BY <1>1, <1>7 DEF Quit, EndApp
  <2> QED
    BY <1>6, <2>1
<1>8. ASSUME NEW id \in Windows, CloseWindow(id) PROVE win'.open = {} /\ win'.made = win.made
  <2> DEFINE w == untrustClosed(win, id)
  <2>1. w \in [made : 0..MaxWindows, open : SUBSET Windows, trusted : SUBSET Windows]
    BY <1>1 DEF untrustClosed
  <2>2. id \in win.open
    BY <1>8 DEF CloseWindow
  <2>3. w.open = {} /\ w.made = win.made
    BY <1>1, <2>2 DEF untrustClosed, OneWindow
  <2>4. \/ win' = [w EXCEPT !.open = {}, !.trusted = {}]
        \/ win' = w
    BY <1>8 DEF CloseWindow, EndApp
  <2> HIDE DEF w
  <2> QED
    BY <2>1, <2>3, <2>4
<1> QED
  BY <1>2, <1>4, <1>5, <1>6, <1>7, <1>8 DEF SupNext, BootStep

Kinds == {"login", "register", "session", "readiness", "start", "poll"}
Replies == SessionStatus \union {"sent", "ok", "error", "setup", "ready"}
CallType ==
  [kind : Kinds, who : Actors \union {LocalActor}, win : Windows, reply : Replies,
   sid : Sids \union {"none"}]
FormType == [challenge : Actors \union {Nobody}, token : Actors \union {Nobody}]
PageType ==
  [actor : Actors \union {LocalActor, Nobody}, view : Views, nav : BOOLEAN, form : [Forms -> FormType]]
SetupType ==
  [open : BOOLEAN, visible : BOOLEAN, dismissed : BOOLEAN, sid : Sids \union {"none"},
   timer : BOOLEAN]

PageTypeInv ==
  /\ acting \in Actors \union {LocalActor}
  /\ page \in PageType /\ setup \in SetupType
  /\ calls \subseteq CallType /\ strayed \in BOOLEAN

(* What a call in calls can be: of a window that was opened, answered only to  *)
(* the open one, one sign-in at a time, and "completed" only of a session that *)
(* is connected.                                                               *)
CallsInv ==
  /\ \A c \in calls : c.win <= win.made
  /\ \A c \in calls : c.reply = "sent" \/ c.win \in win.open
  /\ \A c, d \in Waiting("login") : c = d
  /\ \A c \in calls : c.kind = "poll" /\ c.reply = "completed" => c.sid \in linked

(* Whom the router acts for: the user a sign-in on its way to the page is of,  *)
(* or else the one the page shows.                                             *)
ActingInv ==
  /\ \A c \in Answered("login") : c.reply = "ok" /\ ~strayed => acting = c.who
  /\ page.actor # Nobody /\ ~strayed /\ (\A c \in Answered("login") : c.reply # "ok")
       => acting = page.actor

PageInv == OneWindow /\ PageTypeInv /\ CallsInv /\ ActingInv

LEMMA FreshTypes == FreshPage \in PageType /\ FreshSetup \in SetupType
<1>1. NoForm \in FormType
  BY DEF NoForm, FormType
<1>2. [f \in Forms |-> NoForm] \in [Forms -> FormType]
  BY <1>1
<1> DEFINE F == [f \in Forms |-> NoForm]
<1> HIDE DEF F
<1>3. FreshPage \in PageType
  <2>1. FreshPage = [actor |-> Nobody, view |-> "auth", nav |-> FALSE, form |-> F]
    BY Zenon DEF FreshPage, F
  <2>2. F \in [Forms -> FormType]
    BY <1>2 DEF F
  <2> QED
    BY <2>1, <2>2 DEF PageType, Views
<1> QED
  BY <1>3 DEF FreshSetup, SetupType

LEMMA PageInitOK == ShellInit => PageInv
<1> SUFFICES ASSUME ShellInit PROVE PageInv
  OBVIOUS
<1>1. OneWindow /\ CallsInv /\ ActingInv
  BY DEF ShellInit, SupInit, OneWindow, CallsInv, ActingInv, Waiting, Answered, FreshPage
<1>2. FreshPage \in PageType /\ FreshSetup \in SetupType
  BY FreshTypes
<1>3. PageTypeInv
  BY <1>2 DEF ShellInit, PageTypeInv
<1> QED
  BY <1>1, <1>3 DEF PageInv

(* Steps of the page and of the main process, by what they do to the calls.    *)
(* Nothing:                                                                    *)
LEMMA CallsStay ==
  ASSUME PageInv, UNCHANGED <<acting, strayed, win>>, page' \in PageType, setup' \in SetupType,
         calls' \subseteq calls, \A c \in calls \ calls' : c.kind # "login",
         page'.actor \in {page.actor, Nobody}, linked \subseteq linked'
  PROVE  PageInv'
<1>1. OneWindow' /\ PageTypeInv'
  BY DEF PageInv, OneWindow, PageTypeInv
<1>2. CallsInv'
  BY DEF PageInv, CallsInv, Waiting
<1>3. Answered("login")' = Answered("login")
  BY DEF Answered
<1>4. ActingInv'
  BY <1>3 DEF PageInv, ActingInv
<1> QED
  BY <1>1, <1>2, <1>4 DEF PageInv

(* One more:                                                                   *)
LEMMA CallAdded ==
  ASSUME PageInv, UNCHANGED <<acting, strayed, win, page, setup>>, linked \subseteq linked',
         NEW c \in CallType, calls' = calls \union {c},
         c.win \in win.open, c.kind = "login" => c.reply = "sent" /\ Waiting("login") = {},
         c.kind = "poll" /\ c.reply = "completed" => c.sid \in linked
  PROVE  PageInv'
<1>1. OneWindow' /\ PageTypeInv'
  BY DEF PageInv, OneWindow, PageTypeInv
<1>2. c.win <= win.made
  BY DEF PageInv, OneWindow
<1>3. CallsInv'
  BY <1>2 DEF PageInv, CallsInv, Waiting
<1>4. Answered("login")' = Answered("login")
  BY DEF Answered
<1>5. ActingInv'
  BY <1>4 DEF PageInv, ActingInv
<1> QED
  BY <1>1, <1>3, <1>5 DEF PageInv

(* One answered, which is no sign-in and no poll:                              *)
LEMMA CallReplied ==
  ASSUME PageInv, UNCHANGED <<acting, strayed, win, page, setup>>, linked \subseteq linked',
         NEW c \in calls, NEW reply \in Replies, NEW sid \in Sids \union {"none"},
         calls' = Replied(c, reply, sid), c.kind # "login", c.kind # "poll"
  PROVE  PageInv'
<1> DEFINE d == [c EXCEPT !.reply = reply, !.sid = sid]
<1>1. /\ d \in CallType /\ d.win = c.win /\ d.kind = c.kind
      /\ calls' = (calls \ {c}) \union {e \in {d} : e.win \in win.open}
  BY DEF PageInv, PageTypeInv, CallType, Replied
<1> HIDE DEF d
<1>2. OneWindow' /\ PageTypeInv'
  BY <1>1 DEF PageInv, OneWindow, PageTypeInv
<1>3. CallsInv'
  BY <1>1 DEF PageInv, CallsInv, Waiting
<1>4. Answered("login")' = Answered("login")
  BY <1>1 DEF Answered
<1>5. ActingInv'
  BY <1>4 DEF PageInv, ActingInv
<1> QED
  BY <1>2, <1>3, <1>5 DEF PageInv

(* A sign-in answered: it is the one the open page waits for, or the window it *)
(* was for is closed, and the router's actor has strayed.                      *)
LEMMA LoginAnswered ==
  ASSUME PageInv, NEW c \in Answerable("login"), UNCHANGED <<win, page, setup>>,
         linked \subseteq linked',
         \/ /\ acting' = c.who /\ calls' = Replied(c, "ok", "none")
            /\ strayed' = (c.win \notin win.open)
         \/ calls' = Replied(c, "error", "none") /\ UNCHANGED <<acting, strayed>>
  PROVE  PageInv'
<1>1. PICK reply \in {"ok", "error"} :
        /\ calls' = Replied(c, reply, "none")
        /\ reply = "ok" => acting' = c.who /\ strayed' = (c.win \notin win.open)
        /\ reply = "error" => UNCHANGED <<acting, strayed>>
  OBVIOUS
<1> DEFINE d == [c EXCEPT !.reply = reply, !.sid = "none"]
<1>2. c \in calls /\ c \in CallType /\ c.kind = "login" /\ c.reply = "sent"
  BY DEF Answerable, PageInv, PageTypeInv
<1>3. /\ d \in CallType /\ d.win = c.win /\ d.kind = "login" /\ d.reply = reply /\ d.who = c.who
      /\ calls' = (calls \ {c}) \union {e \in {d} : e.win \in win.open}
  BY <1>1, <1>2 DEF CallType, Kinds, Replies, Replied
<1> HIDE DEF d
<1>4. OneWindow' /\ PageTypeInv'
  BY <1>1, <1>2, <1>3 DEF PageInv, OneWindow, PageTypeInv, CallType
<1>5. CallsInv'
  BY <1>2, <1>3 DEF PageInv, CallsInv, Waiting
<1>6. Answered("login")' = Answered("login") \union {e \in {d} : e.win \in win.open}
  BY <1>1, <1>2, <1>3 DEF Answered
<1>7. c.win \in win.open => Answered("login") = {}
  BY <1>2 DEF PageInv, CallsInv, Waiting, Answered
<1>8. ActingInv'
  <2>1. CASE reply = "ok"
    BY <1>1, <1>3, <1>6, <1>7, <2>1 DEF ActingInv
  <2>2. CASE reply = "error"
    BY <1>1, <1>3, <1>6, <1>7, <2>2 DEF PageInv, ActingInv
  <2> QED
    BY <2>1, <2>2
<1> QED
  BY <1>4, <1>5, <1>8 DEF PageInv

LEMMA RegisterAnswered ==
  ASSUME PageInv, NEW c \in Answerable("register"), UNCHANGED <<win, page, setup>>,
         linked \subseteq linked', acting' = c.who, calls' = Replied(c, "ok", "none"),
         strayed' = TRUE
  PROVE  PageInv'
<1> DEFINE d == [c EXCEPT !.reply = "ok", !.sid = "none"]
<1>1. c \in calls /\ c \in CallType /\ c.kind = "register"
  BY DEF Answerable, PageInv, PageTypeInv
<1>2. /\ d \in CallType /\ d.win = c.win /\ d.kind = "register"
      /\ calls' = (calls \ {c}) \union {e \in {d} : e.win \in win.open}
  BY <1>1 DEF CallType, Kinds, Replies, Replied
<1> HIDE DEF d
<1>3. OneWindow' /\ PageTypeInv'
  BY <1>1, <1>2 DEF PageInv, OneWindow, PageTypeInv, CallType
<1>4. CallsInv'
  BY <1>1, <1>2 DEF PageInv, CallsInv, Waiting
<1>5. ActingInv'
  BY DEF ActingInv
<1> QED
  BY <1>3, <1>4, <1>5 DEF PageInv

LEMMA Navigated ==
  ASSUME NEW p \in PageType, NEW view \in Views \union {"upload-qc"}
  PROVE  navigateTo(p, view) \in PageType /\ navigateTo(p, view).actor = p.actor
<1>1. resolveNavigableView(view) \in Views
  BY DEF resolveNavigableView, Views
<1> QED
  BY <1>1 DEF navigateTo, PageType

(* A user is known to the page: the call is over, and one may ask whether      *)
(* Dropbox is set up.                                                          *)
LEMMA UserApplied ==
  ASSUME SupInv, PageInv, NEW c \in calls, c.win \in win.open, UNCHANGED <<win, setup, acting>>,
         linked \subseteq linked', applyUserContext(c), strayed' \in BOOLEAN
  PROVE  /\ OneWindow' /\ PageTypeInv' /\ CallsInv'
         /\ page'.actor = c.who
         /\ Answered("login")' = Answered("login") \ {c}
<1>1. c \in CallType /\ page \in PageType
  BY DEF PageInv, PageTypeInv
<1>2. page' \in PageType /\ page'.actor = c.who
  <2>1. [page EXCEPT !.actor = c.who] \in PageType
    BY <1>1 DEF PageType, CallType
  <2>2. [page EXCEPT !.actor = c.who].actor = c.who
    BY <1>1 DEF PageType
  <2>3. page' = navigateTo([page EXCEPT !.actor = c.who], "dashboard")
    BY DEF applyUserContext
  <2>4. "dashboard" \in Views
    BY DEF Views
  <2> QED
    BY <2>1, <2>2, <2>3, <2>4, Navigated
<1> DEFINE r == Call("readiness", c.who)
<1>3. /\ r \in CallType /\ r.kind = "readiness" /\ r.reply = "sent" /\ r.win \in win.open
  BY <1>1, OpenPage DEF Call, CallType, Kinds, Replies, PageIsOpen
<1>4. calls' = calls \ {c} \/ calls' = (calls \ {c}) \union {r}
  BY DEF applyUserContext, maybePromptDropboxSetup
<1> HIDE DEF r
<1>5. r.win <= win.made
  BY <1>3 DEF PageInv, OneWindow
<1>6. OneWindow' /\ PageTypeInv'
  BY <1>2, <1>3, <1>4 DEF PageInv, OneWindow, PageTypeInv
<1>7. CallsInv'
  BY <1>3, <1>4, <1>5 DEF PageInv, CallsInv, Waiting
<1>8. Answered("login")' = Answered("login") \ {c}
  BY <1>3, <1>4 DEF Answered
<1> QED
  BY <1>2, <1>6, <1>7, <1>8

LEMMA PageLoginKeepsInv ==
  ASSUME SupInv, PageInv, PageLogin
  PROVE  PageInv'
<1>1. /\ UNCHANGED <<acting, setup, supVars, brokerVars>>
      /\ UNCHANGED <<win, linked>>
  BY DEF PageLogin, supVars, brokerVars
<1>2. PICK c \in Answered("login") :
        \/ c.reply = "ok" /\ applyUserContext(c) /\ UNCHANGED strayed
        \/ calls' = calls \ {c} /\ strayed' = (strayed \/ c.reply = "ok") /\ UNCHANGED page
  BY DEF PageLogin
<1>3. /\ c \in calls /\ c.win \in win.open /\ c \in Waiting("login")
      /\ strayed \in BOOLEAN
  BY <1>2 DEF Answered, Waiting, PageInv, PageTypeInv
<1>4. \A d \in Answered("login") : d = c
  BY <1>3 DEF Answered, Waiting, PageInv, CallsInv
<1>5. CASE c.reply = "ok" /\ applyUserContext(c) /\ UNCHANGED strayed
  <2>1. /\ OneWindow' /\ PageTypeInv' /\ CallsInv' /\ page'.actor = c.who
        /\ Answered("login")' = Answered("login") \ {c}
    BY <1>1, <1>3, <1>5, UserApplied
  <2>2. ActingInv'
    BY <1>1, <1>2, <1>4, <1>5, <2>1 DEF PageInv, ActingInv
  <2> QED
    BY <2>1, <2>2 DEF PageInv
<1>6. CASE calls' = calls \ {c} /\ strayed' = (strayed \/ c.reply = "ok") /\ UNCHANGED page
  <2>1. OneWindow' /\ PageTypeInv'
    BY <1>1, <1>3, <1>6 DEF PageInv, OneWindow, PageTypeInv
  <2>2. CallsInv'
    BY <1>1, <1>6 DEF PageInv, CallsInv, Waiting
  <2>3. Answered("login")' = {}
    BY <1>1, <1>4, <1>6 DEF Answered
  <2>4. ActingInv'
    BY <1>1, <1>4, <1>6, <2>3 DEF PageInv, ActingInv
  <2> QED
    BY <2>1, <2>2, <2>4 DEF PageInv
<1> QED
  BY <1>2, <1>5, <1>6

LEMMA HydrateKeepsInv ==
  ASSUME SupInv, PageInv, hydrateSessionContext
  PROVE  PageInv'
<1>1. UNCHANGED <<acting, setup, win, linked>>
  BY DEF hydrateSessionContext, supVars, brokerVars
<1>2. PICK c \in Answered("session") :
        applyUserContext(c) /\ strayed' = (strayed \/ c.who # acting)
  BY DEF hydrateSessionContext
<1>3. c \in calls /\ c.win \in win.open /\ c.kind # "login" /\ strayed \in BOOLEAN
  BY <1>2 DEF Answered, PageInv, PageTypeInv
<1>4. /\ OneWindow' /\ PageTypeInv' /\ CallsInv' /\ page'.actor = c.who
      /\ Answered("login")' = Answered("login") \ {c}
  BY <1>1, <1>2, <1>3, UserApplied
<1>5. ActingInv'
  BY <1>1, <1>2, <1>3, <1>4 DEF PageInv, ActingInv, Answered
<1> QED
  BY <1>4, <1>5 DEF PageInv

(* A page ends with its window: its calls are nobody's, its answers are gone,  *)
(* and the new window's number is one no call has.                             *)
LEMMA AppKeepsInv ==
  ASSUME SupInv, PageInv, AppStep, SupInv'
  PROVE  PageInv'
<1>1. /\ UNCHANGED <<acting, strayed, linked, brokerVars>> /\ PageFollowsWindow /\ SupNext
  BY DEF AppStep, brokerVars, SupNext
<1>2. /\ OneWindow'
      /\ \/ win'.open = win.open /\ win'.made = win.made
         \/ win'.open = {} /\ win'.made = win.made
         \/ win.open = {} /\ win'.open = {win'.made} /\ win'.made = win.made + 1
  BY <1>1, WindowsStep DEF PageInv
<1>3. /\ win.made \in Nat /\ win'.made \in Nat /\ win'.open \subseteq Windows
      /\ calls \subseteq CallType /\ acting \in Actors \union {LocalActor}
  BY SupervisorAssumption DEF SupInv, SupTypeOK, PageInv, PageTypeInv
<1>4. CASE win'.open = win.open
  <2>1. UNCHANGED <<page, setup, calls>> /\ win'.made = win.made
    BY <1>1, <1>2, <1>4 DEF PageFollowsWindow
  <2>2. PageTypeInv' /\ CallsInv' /\ ActingInv'
    BY <1>1, <1>4, <2>1 DEF PageInv, PageTypeInv, CallsInv, ActingInv, Waiting, Answered
  <2> QED
    BY <1>2, <2>2 DEF PageInv
<1>5. CASE win'.open # win.open
  <2> DEFINE sent == {c \in calls : c.reply = "sent"}
  <2>1. /\ page' = FreshPage /\ setup' = FreshSetup
        /\ \/ calls' = sent
           \/ calls' = sent \union {SessionCall} /\ win'.open # {}
    BY <1>1, <1>5 DEF PageFollowsWindow
  <2>2. \A c \in sent : c \in CallType /\ c.win <= win.made /\ c.reply = "sent"
    BY <1>3 DEF PageInv, CallsInv
  <2>3. \A c \in sent : c.win \notin win'.open
    <3>1. \A c \in sent : c.win \in Nat
      BY <2>2, SupervisorAssumption DEF CallType, Windows
    <3> QED
      BY <1>2, <1>3, <1>5, <2>2, <3>1
  <2>4. win'.open # {} => /\ SessionCall \in CallType /\ SessionCall.win = win'.made
                          /\ SessionCall.kind = "session" /\ SessionCall.win \in win'.open
    <3>1. win'.open # {} => win'.made \in win'.open
      BY <1>2, <1>5
    <3> QED
      BY <1>3, <3>1 DEF SessionCall, CallType, Kinds, Replies
  <2> HIDE DEF sent, SessionCall
  <2>5. PageTypeInv'
    BY <1>1, <1>3, <2>1, <2>2, <2>4, FreshTypes DEF PageInv, PageTypeInv
  <2>6. \A c \in calls' : c.kind = "login" => c.win \notin win'.open
    BY <2>1, <2>3, <2>4
  <2>7. CallsInv'
    <3>1. \A c \in calls' : c.win <= win'.made
      <4>1. \A c \in sent : c.win \in Nat
        BY <2>2, SupervisorAssumption DEF CallType, Windows
      <4>2. win.made <= win'.made
        BY <1>2, <1>3
      <4> QED
        BY <1>3, <2>1, <2>2, <2>4, <4>1, <4>2
    <3>2. \A c \in calls' : c.reply = "sent" \/ c.win \in win'.open
      BY <2>1, <2>2, <2>4
    <3>3. Waiting("login")' = {}
      BY <2>6 DEF Waiting
    <3>4. \A c \in calls' : c.kind = "poll" => c.reply = "sent"
      BY <2>1, <2>2, <2>4
    <3> QED
      BY <3>1, <3>2, <3>3, <3>4 DEF CallsInv
  <2>8. ActingInv'
    <3>1. Answered("login")' = {}
      BY <2>6 DEF Answered
    <3>2. page'.actor = Nobody
      BY <2>1 DEF FreshPage
    <3> QED
      BY <3>1, <3>2 DEF ActingInv
  <2> QED
    BY <1>2, <2>5, <2>7, <2>8 DEF PageInv
<1> QED
  BY <1>4, <1>5

LEMMA MainKeepsInv ==
  ASSUME SupInv, PageInv, MainStep
  PROVE  PageInv'
<1>1. UNCHANGED <<win, page, setup>> /\ linked \subseteq linked'
  BY DEF MainStep, MainLogin, MainRegister, MainReadiness, MainOauthStart, supVars, brokerVars,
         startListens, startThrows
<1>2. CASE MainLogin
  <2>1. PICK c \in Answerable("login") :
          \/ /\ acting' = c.who /\ calls' = Replied(c, "ok", "none")
             /\ strayed' = (c.win \notin win.open)
          \/ calls' = Replied(c, "error", "none") /\ UNCHANGED <<acting, strayed>>
    BY <1>2 DEF MainLogin, updateActiveActorContext
  <2> QED
    BY <1>1, <2>1, LoginAnswered
<1>3. ASSUME NEW c \in calls, c.kind # "login", c.kind # "poll", UNCHANGED <<acting, strayed>>,
             \E reply \in Replies, sid \in Sids \union {"none"} : calls' = Replied(c, reply, sid)
      PROVE  PageInv'
  BY <1>1, <1>3, CallReplied
<1>4. CASE MainRegister
  <2>1. PICK c \in Answerable("register") :
          \/ acting' = c.who /\ calls' = Replied(c, "ok", "none") /\ strayed' = TRUE
          \/ calls' = Replied(c, "error", "none") /\ UNCHANGED <<acting, strayed>>
    BY <1>4 DEF MainRegister, updateActiveActorContext
  <2>2. c \in calls /\ c.kind = "register"
    BY DEF Answerable
  <2>3. CASE acting' = c.who /\ calls' = Replied(c, "ok", "none") /\ strayed' = TRUE
    BY <1>1, <2>3, RegisterAnswered
  <2>4. CASE calls' = Replied(c, "error", "none") /\ UNCHANGED <<acting, strayed>>
    BY <1>3, <2>2, <2>4 DEF Replies
  <2> QED
    BY <2>1, <2>3, <2>4
<1>5. CASE MainReadiness
  <2>1. PICK c \in Answerable("readiness") :
          /\ \E reply \in {"setup", "ready", "error"} : calls' = Replied(c, reply, "none")
          /\ UNCHANGED <<acting, strayed>>
    BY <1>5 DEF MainReadiness
  <2>2. c \in calls /\ c.kind = "readiness"
    BY DEF Answerable
  <2> QED
    BY <1>3, <2>1, <2>2 DEF Replies
<1>6. CASE MainOauthStart
  <2>1. PICK c \in Answerable("start") :
          /\ \/ \E s \in Sids : calls' = Replied(c, "ok", s)
             \/ calls' = Replied(c, "error", "none")
          /\ UNCHANGED <<acting, strayed>>
    BY <1>6 DEF MainOauthStart
  <2>2. c \in calls /\ c.kind = "start"
    BY DEF Answerable
  <2> QED
    BY <1>3, <2>1, <2>2 DEF Replies
<1> QED
  BY <1>2, <1>4, <1>5, <1>6 DEF MainStep

(* What the dialog is after an answer.                                         *)
LEMMA DialogTypes ==
  ASSUME NEW d \in SetupType, NEW status \in Replies
  PROVE  /\ pollDropboxOauthStatus(d, status) \in SetupType
         /\ d.open /\ ~pollDropboxOauthStatus(d, status).open => status = "completed"
<1> DEFINE t == stopDropboxOauthPolling(d)
<1>1. /\ t \in SetupType /\ t.open = d.open
      /\ [t EXCEPT !.sid = "none"] \in SetupType /\ [t EXCEPT !.sid = "none"].open = d.open
      /\ [t EXCEPT !.sid = "none", !.visible = FALSE, !.open = FALSE] \in SetupType
  BY DEF stopDropboxOauthPolling, SetupType
<1> HIDE DEF t
<1>2. CASE status \in {"pending", "error"}
  BY <1>2 DEF pollDropboxOauthStatus
<1>3. CASE status = "completed"
  BY <1>1, <1>3 DEF pollDropboxOauthStatus, t
<1>4. CASE status \notin {"pending", "error", "completed"}
  BY <1>1, <1>4 DEF pollDropboxOauthStatus, t
<1> QED
  BY <1>2, <1>3, <1>4

LEMMA PageStepKeepsInv ==
  ASSUME SupInv, PageInv, PageStep
  PROVE  PageInv'
<1>1. page \in PageType /\ setup \in SetupType /\ calls \subseteq CallType
  BY DEF PageInv, PageTypeInv
<1>2. CASE PageLogin
  BY <1>2, PageLoginKeepsInv
<1>3. CASE hydrateSessionContext
  BY <1>3, HydrateKeepsInv
<1>4. CASE PageRegister
  <2>1. PICK c \in calls :
          /\ c.kind = "register" /\ calls' = calls \ {c}
          /\ page' = page \/ page' = [page EXCEPT !.form["register"].token = Nobody]
          /\ UNCHANGED <<acting, setup, strayed, win, linked>>
    BY <1>4 DEF PageRegister, Answered, supVars, brokerVars
  <2>2. page' \in PageType /\ page'.actor = page.actor
    <3>1. page.form \in [Forms -> FormType] /\ "register" \in Forms
      BY <1>1 DEF PageType, Forms
    <3>2. [page.form["register"] EXCEPT !.token = Nobody] \in FormType
      BY <3>1 DEF FormType
    <3>3. [page.form EXCEPT !["register"] = [page.form["register"] EXCEPT !.token = Nobody]]
            \in [Forms -> FormType]
      BY <3>1, <3>2
    <3>4. [page EXCEPT !.form["register"].token = Nobody] =
            [page EXCEPT !.form =
               [page.form EXCEPT !["register"] = [page.form["register"] EXCEPT !.token = Nobody]]]
      BY <1>1 DEF PageType
    <3> QED
      BY <1>1, <2>1, <3>3, <3>4 DEF PageType
  <2> QED
    BY <1>1, <2>1, <2>2, CallsStay
<1>5. CASE PagePrompt
  <2>1. PICK c \in calls :
          /\ c.kind = "readiness" /\ calls' = calls \ {c}
          /\ setup' = setup \/ setup' = [setup EXCEPT !.visible = TRUE, !.open = TRUE]
          /\ UNCHANGED <<acting, page, strayed, win, linked>>
    BY <1>5 DEF PagePrompt, Answered, supVars, brokerVars
  <2>2. setup' \in SetupType
    BY <1>1, <2>1 DEF SetupType
  <2> QED
    BY <1>1, <2>1, <2>2, CallsStay
<1>6. CASE PageOauthStart
  <2>1. PICK c \in calls :
          /\ c.kind = "start" /\ calls' = calls \ {c}
          /\ setup' = setup \/ setup' = [setup EXCEPT !.sid = c.sid, !.timer = TRUE]
          /\ UNCHANGED <<acting, page, strayed, win, linked>>
    BY <1>6 DEF PageOauthStart, Answered, supVars, brokerVars
  <2>2. setup' \in SetupType
    BY <1>1, <2>1 DEF SetupType, CallType
  <2> QED
    BY <1>1, <2>1, <2>2, CallsStay
<1>7. CASE PagePoll
  <2>1. PICK c \in calls :
          /\ c.kind = "poll" /\ calls' = calls \ {c}
          /\ setup' = pollDropboxOauthStatus(setup, c.reply)
          /\ UNCHANGED <<acting, page, strayed, win, linked>>
    BY <1>7 DEF PagePoll, Answered, supVars, brokerVars
  <2>2. setup' \in SetupType
    BY <1>1, <2>1, DialogTypes DEF CallType
  <2> QED
    BY <1>1, <2>1, <2>2, CallsStay
<1> QED
  BY <1>2, <1>3, <1>4, <1>5, <1>6, <1>7 DEF PageStep

(* The answer to a poll: "completed" only of a session that is connected.      *)
LEMMA StatusTells ==
  ASSUME BrokerInv, NEW s, NEW a
  PROVE  /\ getStatus(s, a) \in SessionStatus
         /\ getStatus(s, a) = "completed" => s \in linked
<1>1. CASE s \notin Sids
  BY <1>1 DEF getStatus, SessionStatus
<1>2. CASE s \in Sids
  <2> DEFINE ss == cleanupExpiredSessions(sessions)
  <2>1. /\ ss[s].status \in SessionStatus
        /\ ss[s].status = "completed" => sessions[s].status = "completed"
    BY <1>2, CleanupEnds DEF BrokerInv, SessionStatus
  <2>2. getStatus(s, a) = IF s \notin Sids \/ ss[s].actor # a THEN "expired" ELSE ss[s].status
    BY DEF getStatus
  <2> HIDE DEF ss
  <2> QED
    BY <1>2, <2>1, <2>2 DEF BrokerInv, CodesAreOfTheirSession, SessionStatus
<1> QED
  BY <1>1, <1>2

LEMMA PollKeepsInv ==
  ASSUME SupInv, BrokerInv, PageInv, SendPoll
  PROVE  PageInv'
<1>1. /\ UNCHANGED <<acting, page, setup, strayed, win, linked>> /\ PageIsOpen
      /\ acting \in Actors \union {LocalActor} /\ setup \in SetupType
  BY DEF SendPoll, supVars, PageInv, PageTypeInv
<1>2. ThePage \in win.open /\ ThePage \in Windows
  BY <1>1, OpenPage
<1> DEFINE status == IF acting \in Admins THEN getStatus(setup.sid, acting) ELSE "error"
           c == [Call("poll", acting) EXCEPT !.reply = status, !.sid = setup.sid]
<1>3. status \in Replies /\ (status = "completed" => setup.sid \in linked)
  BY StatusTells DEF Replies
<1>4. calls' = calls \union {c}
  BY DEF SendPoll
<1> HIDE DEF status
<1>5. /\ c \in CallType /\ c.win \in win.open /\ c.kind = "poll"
      /\ c.reply = status /\ c.sid = setup.sid
  BY <1>1, <1>2, <1>3 DEF Call, CallType, Kinds, SetupType
<1> HIDE DEF c
<1> QED
  BY <1>1, <1>3, <1>4, <1>5, CallAdded

LEMMA ClickKeepsInv ==
  ASSUME SupInv, PageInv, ClickStart
  PROVE  PageInv'
<1>1. /\ UNCHANGED <<acting, page, setup, strayed, win, linked>> /\ PageIsOpen
      /\ acting \in Actors \union {LocalActor}
  BY DEF ClickStart, startSession, supVars, brokerVars, PageInv, PageTypeInv
<1>2. ThePage \in win.open /\ ThePage \in Windows
  BY <1>1, OpenPage
<1> DEFINE c == Call("start", acting)
<1>3. \/ calls' = calls \union {c}
      \/ \E s \in Sids : calls' = calls \union {[c EXCEPT !.reply = "ok", !.sid = s]}
      \/ calls' = calls \union {[c EXCEPT !.reply = "error"]}
  BY DEF ClickStart
<1>4. \E d \in CallType : d.kind = "start" /\ d.win \in win.open /\ calls' = calls \union {d}
  <2>1. /\ c \in CallType /\ c.kind = "start" /\ c.win \in win.open
    BY <1>1, <1>2 DEF Call, CallType, Kinds, Replies
  <2> HIDE DEF c
  <2>2. ASSUME NEW reply \in Replies, NEW sid \in Sids \union {"none"}
        PROVE  LET d == [c EXCEPT !.reply = reply, !.sid = sid]
               IN d \in CallType /\ d.kind = "start" /\ d.win \in win.open
    BY <2>1 DEF CallType
  <2>3. /\ [c EXCEPT !.reply = "error"] \in CallType
        /\ [c EXCEPT !.reply = "error"].kind = "start"
        /\ [c EXCEPT !.reply = "error"].win \in win.open
    BY <2>1 DEF CallType, Replies
  <2>4. "ok" \in Replies
    BY DEF Replies
  <2> QED
    BY <1>3, <2>1, <2>2, <2>3, <2>4
<1> QED
  BY <1>1, <1>4, CallAdded

LEMMA UserKeepsInv ==
  ASSUME SupInv, PageInv, UserStep
  PROVE  PageInv'
<1>1. page \in PageType /\ setup \in SetupType /\ page.form \in [Forms -> FormType]
  BY DEF PageInv, PageTypeInv, PageType
<1>2. ASSUME NEW view \in Views \union {"upload-qc"}, ClickNav(view) PROVE PageInv'
  BY <1>1, <1>2, Navigated, CallsStay DEF ClickNav, supVars, brokerVars
<1>3. CASE Logout
  <2>1. /\ [page EXCEPT !.actor = Nobody] \in PageType
        /\ [page EXCEPT !.actor = Nobody].actor = Nobody
        /\ "auth" \in Views
    BY <1>1 DEF PageType, Views
  <2>2. page' = navigateTo([page EXCEPT !.actor = Nobody], "auth")
    BY <1>3 DEF Logout, clearAuthenticatedShellContext
  <2>3. page' \in PageType /\ page'.actor = Nobody
    BY <2>1, <2>2, Navigated
  <2> QED
    BY <1>1, <1>3, <2>3, CallsStay DEF Logout, supVars, brokerVars
<1>4. ASSUME NEW kind \in {"login", "register"}, NEW a \in Actors, OnSignIn, Waiting(kind) = {},
             calls' = calls \union {Call(kind, a)},
             UNCHANGED <<acting, page, setup, strayed, win, linked>>
      PROVE  PageInv'
  <2>1. ThePage \in win.open /\ ThePage \in Windows
    BY <1>4, OpenPage DEF OnSignIn
  <2>2. /\ Call(kind, a) \in CallType /\ Call(kind, a).kind = kind
        /\ Call(kind, a).win \in win.open /\ Call(kind, a).reply = "sent"
    BY <2>1 DEF Call, CallType, Kinds, Replies
  <2> QED
    BY <1>4, <2>2, CallAdded
<1>5. ASSUME NEW a \in Actors, handleLoginSubmit(a) \/ handleRegisterSubmit(a) PROVE PageInv'
  BY <1>4, <1>5 DEF handleLoginSubmit, handleRegisterSubmit, Send, supVars, brokerVars
<1>6. ASSUME NEW f \in Forms, NEW x \in FormType, page' = [page EXCEPT !.form[f] = x],
             UNCHANGED <<acting, setup, calls, strayed, win, linked>>
      PROVE  PageInv'
  <2>1. [page.form EXCEPT ![f] = x] \in [Forms -> FormType]
    BY <1>1, <1>6
  <2>2. page' = [page EXCEPT !.form = [page.form EXCEPT ![f] = x]]
    BY <1>1, <1>6 DEF PageType
  <2>3. page' \in PageType /\ page'.actor = page.actor
    BY <1>1, <2>1, <2>2 DEF PageType
  <2> QED
    BY <1>1, <1>6, <2>3, CallsStay
<1>7. ASSUME NEW f \in Forms, NEW a \in Actors, SendOtp(f, a) PROVE PageInv'
  <2> DEFINE x == [page.form[f] EXCEPT !.challenge = a]
  <2>1. x \in FormType
    BY <1>1 DEF FormType
  <2>2. page' = [page EXCEPT !.form[f] = x]
    BY <1>1, <1>7 DEF SendOtp, PageType
  <2> QED
    BY <1>6, <1>7, <2>1, <2>2 DEF SendOtp, supVars, brokerVars
<1>8. ASSUME NEW f \in Forms, VerifyOtp(f) PROVE PageInv'
  <2> DEFINE x == [challenge |-> Nobody, token |-> page.form[f].challenge]
  <2>1. x \in FormType
    BY <1>1 DEF FormType
  <2>2. page' = [page EXCEPT !.form[f] = x]
    BY <1>1, <1>8 DEF VerifyOtp, PageType
  <2> QED
    BY <1>6, <1>8, <2>1, <2>2 DEF VerifyOtp, supVars, brokerVars
<1>9. CASE handleForgotSubmit
  <2> DEFINE x == [page.form["forgot"] EXCEPT !.token = Nobody]
  <2>1. x \in FormType /\ "forgot" \in Forms
    BY <1>1 DEF FormType, Forms
  <2>2. page' = [page EXCEPT !.form["forgot"] = x]
    BY <1>1, <1>9 DEF handleForgotSubmit, PageType, Forms
  <2> QED
    BY <1>6, <1>9, <2>1, <2>2 DEF handleForgotSubmit, supVars, brokerVars
<1>10. CASE SkipSetup \/ CloseDialog
  <2>1. setup' \in SetupType
    BY <1>1, <1>10 DEF SkipSetup, CloseDialog, stopDropboxOauthPolling, SetupType
  <2> QED
    BY <1>1, <1>10, <2>1, CallsStay DEF SkipSetup, CloseDialog, supVars, brokerVars
<1>11. CASE ClickStart
  BY <1>11, ClickKeepsInv
<1> QED
  BY <1>2, <1>3, <1>5, <1>7, <1>8, <1>9, <1>10, <1>11 DEF UserStep

LEMMA BrowserKeepsInv ==
  ASSUME PageInv, BrowserStep
  PROVE  PageInv'
<1>1. UNCHANGED <<acting, page, setup, calls, strayed, win>>
  BY DEF BrowserStep, pageVars, supVars
<1>2. linked \subseteq linked'
  BY DEF BrowserStep, ComeBack, ExchangeEnds, SessionAges
<1>3. page' \in PageType /\ setup' \in SetupType
  BY <1>1 DEF PageInv, PageTypeInv
<1> QED
  BY <1>1, <1>2, <1>3, CallsStay

LEMMA PageInvariant == ShellSpec => []PageInv
<1>1. ShellInit => PageInv
  BY PageInitOK
<1>2. ShellInv /\ ShellInv' /\ PageInv /\ [ShellNext]_shellVars => PageInv'
  <2> SUFFICES ASSUME ShellInv, ShellInv', PageInv, [ShellNext]_shellVars PROVE PageInv'
    OBVIOUS
  <2>1. CASE UNCHANGED shellVars
    BY <2>1 DEF shellVars, supVars, brokerVars, pageVars, PageInv, OneWindow, PageTypeInv, CallsInv,
                ActingInv, Waiting, Answered
  <2>2. CASE ShellNext
    BY <2>2, AppKeepsInv, MainKeepsInv, PageStepKeepsInv, UserKeepsInv, PollKeepsInv,
       BrowserKeepsInv DEF ShellInv, ShellNext
  <2> QED
    BY <2>1, <2>2
<1> QED
  BY <1>1, <1>2, ShellInvariant, PTL DEF ShellSpec

(* For every number of users, windows and calls under way: what the page does  *)
(* is done as the user it shows, unless the actor has strayed.                 *)
THEOREM ActsForTheUserShownHolds == ShellSpec => []ActsForTheUserShown
<1>1. PageInv => ActsForTheUserShown
  BY DEF PageInv, ActingInv, ActsForTheUserShown
<1> QED
  BY <1>1, PageInvariant, PTL

(* However late a poll is answered, the dialog closes by itself only when the  *)
(* session it asked about is connected.                                        *)
THEOREM DialogEndsConnectedHolds == ShellSpec => DialogEndsConnected
<1> DEFINE Ends == PagePoll /\ setup.open /\ ~setup'.open => \E c \in calls \ calls' : c.sid \in linked
<1>1. PageInv /\ [ShellNext]_shellVars => [Ends]_shellVars
  <2> SUFFICES ASSUME PageInv, PagePoll, setup.open, ~setup'.open
               PROVE  \E c \in calls \ calls' : c.sid \in linked
    OBVIOUS
  <2>1. PICK c \in calls :
          /\ c.kind = "poll" /\ calls' = calls \ {c}
          /\ setup' = pollDropboxOauthStatus(setup, c.reply)
    BY DEF PagePoll, Answered
  <2>2. setup \in SetupType /\ c \in CallType
    BY DEF PageInv, PageTypeInv
  <2>3. c.reply = "completed"
    BY <2>1, <2>2, DialogTypes DEF CallType
  <2> QED
    BY <2>1, <2>3 DEF PageInv, CallsInv
<1> QED
  BY <1>1, PageInvariant, PTL DEF ShellSpec, DialogEndsConnected
=============================================================================
