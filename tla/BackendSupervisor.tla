-------------------------- MODULE BackendSupervisor --------------------------
(* The Electron main process around the backend it runs: starting the child,   *)
(* waiting until it answers, building the router, opening windows, quitting    *)
(* (electron/main.js, infra/pythonProcess.js, infra/backendReadiness.js,       *)
(* config/runtimeConfig.js).  Electron, the child and its health are external. *)
(* Nobody but the child is taken to answer on the port found free for it.      *)
EXTENDS Naturals, FiniteSets

CONSTANTS
  Ports,           \* ports findFreePort may find
  BuiltInPort,     \* the one parseApiBaseUrl falls back on
  SkippedPort,     \* the one a skipped start puts into the environment
  NoPort,          \* SPLICE_API_BASE_URL is not set
  NoSecret,        \* SPLICE_INTERNAL_SECRET is not set
  NewSecret,       \* the one a start makes
  Machines,        \* platforms and settings; bypass: the page skips its sign-in
  MaxProbes,       \* checks until the start's deadline
  MaxWindows       \* bounds the windows a session opens

ASSUME SupervisorAssumption ==
  /\ NoPort \notin Ports /\ NoPort \notin {BuiltInPort, SkippedPort} /\ NewSecret # NoSecret
  /\ MaxProbes \in Nat /\ MaxWindows \in Nat \ {0}
  /\ Machines \subseteq [platform : {"win32", "darwin", "linux"}, skip : BOOLEAN,
                         token : BOOLEAN, bypass : BOOLEAN]

VARIABLES
  machine,  \* what a run cannot change: the platform, the settings it has
  boot,     \* how far the start is
  env,      \* process.env: the backend's address and secret
  config,   \* runtimeConfig.apiBaseUrl, as a port
  child,    \* the backend's process, and main's backendChild
  router,   \* what the router's backend clients were built with
  win       \* the windows: made, open, trusted

supVars == <<machine, boot, env, config, child, router, win>>

Windows == 1..MaxWindows
AnyPort == Ports \union {BuiltInPort, SkippedPort}
Gone == {"failed", "quit"}
BackendAnswers == child.is = "serving" \/ machine.skip

(* The address runtimeConfig reads from the environment.                       *)
parseApiBaseUrl(e) == IF e.port = NoPort THEN BuiltInPort ELSE e.port

SupInit ==
  /\ machine \in Machines
  /\ boot = "starting"
  /\ env \in [port : {NoPort, BuiltInPort}, secret : {NoSecret}]
  /\ config = parseApiBaseUrl(env)
  /\ child = [held |-> FALSE, is |-> "none", port |-> NoPort, secret |-> NoSecret,
              served |-> FALSE, probes |-> 0]
  /\ router = [port |-> NoPort, secret |-> NoSecret]
  /\ win = [made |-> 0, open |-> {}, trusted |-> {}]

(* stopPythonBackend: SIGTERM to the child main still holds.                   *)
stopPythonBackend(c) == IF c.held THEN [c EXCEPT !.held = FALSE, !.is = "dead"] ELSE c

-----------------------------------------------------------------------------
(* The start: a backend somebody else runs, or a child on a free port.         *)
SkipBackend ==
  /\ boot = "starting" /\ machine.skip
  /\ env' = [env EXCEPT !.port = IF @ = NoPort THEN SkippedPort ELSE @]
  /\ boot' = "assembling"
  /\ UNCHANGED <<machine, config, child, router, win>>

SpawnBackend ==
  /\ boot = "starting" /\ ~machine.skip
  /\ \E p \in Ports :
       /\ env' = [port |-> p, secret |-> NewSecret]
       /\ child' = [child EXCEPT !.held = TRUE, !.is = "starting", !.port = p, !.secret = NewSecret]
  /\ boot' = "probing"
  /\ UNCHANGED <<machine, config, router, win>>

(* The child: it answers at last, or it ends by itself (spawning it failed, it *)
(* could not bind, it crashed), and main drops it on "exit".                   *)
ChildServes ==
  /\ child.is = "starting" /\ boot \notin Gone
  /\ child' = [child EXCEPT !.is = "serving", !.served = TRUE]
  /\ UNCHANGED <<machine, boot, env, config, router, win>>

ChildEnds ==
  /\ child.is \in {"starting", "serving"} /\ boot \notin Gone
  /\ child' = [child EXCEPT !.is = "dead", !.held = FALSE]
  /\ UNCHANGED <<machine, boot, env, config, router, win>>

(* A 2xx on the child's port, which is the child's as nobody else is there.    *)
checkReady == child.held /\ child.is = "serving"

(* One turn of waitForBackendReady's loop: a child that is gone and one that   *)
(* does not answer look alike, so the loop goes on to the deadline.            *)
ProbeBackend ==
  /\ boot = "probing" /\ child.probes < MaxProbes
  /\ child' = [child EXCEPT !.probes = @ + 1]
  /\ boot' = IF checkReady THEN "assembling" ELSE "probing"
  /\ UNCHANGED <<machine, env, config, router, win>>

StartTimesOut ==
  /\ boot = "probing" /\ child.probes = MaxProbes
  /\ child' = stopPythonBackend(child)
  /\ boot' = "failed"
  /\ UNCHANGED <<machine, env, config, router, win>>

-----------------------------------------------------------------------------
(* A window with its guards attached, its page's id trusted until it closes.   *)
openMainWindow(w) ==
  LET id == w.made + 1
  IN [w EXCEPT !.made = id, !.open = @ \union {id}, !.trusted = @ \union {id}]

(* Mutant: the router's clients are given the settings read at start-up.       *)
StaleClients == [port |-> config, secret |-> env.secret]
BackendClientsFor == [port |-> config', secret |-> env.secret]

(* What follows the start: settings read again, clients, router, the first     *)
(* window, the health server.  Without an internal token the audit client      *)
(* throws, and the boot fails with the backend running.                        *)
Assemble ==
  /\ boot = "assembling"
  /\ config' = parseApiBaseUrl(env)
  /\ IF machine.token
       THEN /\ router' = BackendClientsFor
            /\ win' = openMainWindow(win)
            /\ boot' = "up"
       ELSE boot' = "failed" /\ UNCHANGED <<router, win>>
  /\ UNCHANGED <<machine, env, child>>

-----------------------------------------------------------------------------
(* Mutant: only the window is closed when the app quits.                       *)
QuitWithoutStopping(w) ==
  /\ boot' = "quit"
  /\ win' = [w EXCEPT !.open = {}, !.trusted = {}]
  /\ UNCHANGED child

(* before-quit; Electron closes what is open and ends the process.             *)
EndApp(w) ==
  /\ boot' = "quit"
  /\ win' = [w EXCEPT !.open = {}, !.trusted = {}]
  /\ child' = stopPythonBackend(child)

Quit ==
  /\ boot \notin Gone
  /\ EndApp(win)
  /\ UNCHANGED <<machine, env, config, router>>

(* Calls from a window that is closed are not trusted any more.                *)
untrustClosed(w, id) == [w EXCEPT !.open = @ \ {id}, !.trusted = @ \ {id}]

(* The user closes a window; without one the app ends, but not on macOS.       *)
CloseWindow(id) ==
  /\ boot \notin Gone /\ id \in win.open
  /\ IF untrustClosed(win, id).open = {} /\ machine.platform # "darwin"
       THEN EndApp(untrustClosed(win, id))
       ELSE win' = untrustClosed(win, id) /\ UNCHANGED <<boot, child>>
  /\ UNCHANGED <<machine, env, config, router>>

(* The dock icon opens a window again.                                         *)
Activate ==
  /\ boot = "up" /\ win.open = {} /\ win.made < MaxWindows
  /\ win' = openMainWindow(win)
  /\ UNCHANGED <<machine, boot, env, config, child, router>>

BootStep == SkipBackend \/ SpawnBackend \/ ProbeBackend \/ StartTimesOut \/ Assemble

-----------------------------------------------------------------------------
SupTypeOK ==
  /\ machine \in Machines
  /\ boot \in {"starting", "probing", "assembling", "up"} \union Gone
  /\ env \in [port : AnyPort \union {NoPort}, secret : {NoSecret, NewSecret}]
  /\ config \in AnyPort
  /\ child \in [held : BOOLEAN, is : {"none", "starting", "serving", "dead"},
                port : Ports \union {NoPort}, secret : {NoSecret, NewSecret},
                served : BOOLEAN, probes : 0..MaxProbes]
  /\ router \in [port : AnyPort \union {NoPort}, secret : {NoSecret, NewSecret}]
  /\ win \in [made : 0..MaxWindows, open : SUBSET Windows, trusted : SUBSET Windows]
  /\ win.open = win.trusted

(* A window opens over a backend that this app started and that has answered   *)
(* its check, and the clients of the router talk to it, with its secret:       *)
(* main.js reads its settings twice because starting the backend changes them. *)
ClientsReachTheirBackend ==
  win.made > 0 /\ ~machine.skip =>
    child.served /\ router = [port |-> child.port, secret |-> child.secret]

(* An app that has ended leaves no backend running, but for the boot that      *)
(* fails after its backend is ready: app.exit emits no before-quit.            *)
ExitStopsBackend ==
  boot \in Gone /\ machine.token => child.is \notin {"starting", "serving"}

=============================================================================
