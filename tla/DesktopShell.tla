---------------------------- MODULE DesktopShell ----------------------------
(* The desktop application around its pages: the main process with the backend *)
(* it runs (BackendSupervisor) and the Dropbox broker (DropboxBroker), the     *)
(* actor the router works for (electron/ipc/router.js), and in each window the *)
(* page's sign-in, navigation and Dropbox dialog (src/renderer.js).  A page    *)
(* ends with its window; the main process' actor and the broker go on.         *)
EXTENDS BackendSupervisor, DropboxBroker

CONSTANTS
  Admins,      \* the actors among Actors who are administrators
  Accounts,    \* the users the backend knows at first
  LocalActor,  \* the actor of a main process nobody signed in to
  Nobody,      \* the page's actor before a sign-in
  MaxCalls     \* bounds the calls the user starts, one-time codes included

ASSUME ShellAssumption == Admins \union Accounts \subseteq Actors
                            /\ {LocalActor, Nobody} \cap Actors = {}
                            /\ LocalActor # Nobody /\ MaxCalls \in Nat

VARIABLES
  accounts,  \* the users the backend knows
  acting,    \* activeActorContext: whom the router acts for
  page,      \* the page of the open window
  setup,     \* its dropboxSetupState, and whether the dialog is shown
  calls,     \* IPC calls whose reply the page waits for
  made,      \* how many calls were made, for MaxCalls
  strayed    \* the router took an actor the page did not: see ActsForTheUserShown

pageVars == <<accounts, acting, page, setup, calls, made, strayed>>
shellVars == <<supVars, brokerVars, pageVars>>

Forms == {"register", "forgot"}
Views == {"auth", "dashboard", "submissions"}
NoForm == [challenge |-> Nobody, token |-> Nobody]

FreshPage == [actor |-> Nobody, view |-> "auth", nav |-> FALSE,
              form |-> [f \in Forms |-> NoForm]]
FreshSetup == [open |-> FALSE, visible |-> FALSE, dismissed |-> FALSE, sid |-> "none",
               timer |-> FALSE]

ShellInit ==
  /\ SupInit /\ BrokerInit
  /\ accounts = Accounts
  /\ acting = LocalActor
  /\ page = FreshPage /\ setup = FreshSetup
  /\ calls = {} /\ made = 0 /\ strayed = FALSE

ThePage == CHOOSE id \in win.open : TRUE
PageIsOpen == win.open # {}
Waiting(kind) == {c \in calls : c.kind = kind /\ c.win \in win.open}

(* A call, with its reply: "sent" while the main process works on it; a reply  *)
(* to a window that is closed reaches nobody.                                  *)
Call(kind, who) == [kind |-> kind, who |-> who, win |-> ThePage, reply |-> "sent", sid |-> "none"]
Replied(c, reply, sid) ==
  (calls \ {c}) \union {d \in {[c EXCEPT !.reply = reply, !.sid = sid]} : d.win \in win.open}

Send(kind, who) ==
  /\ made < MaxCalls /\ made' = made + 1
  /\ calls' = calls \union {Call(kind, who)}

-----------------------------------------------------------------------------
(* Where the user may go: aliases of a view lead to it, any other is as it is. *)
resolveNavigableView(view) == IF view = "upload-qc" THEN "submissions" ELSE view

(* Only the sign-in page has no navigation.                                    *)
navigateTo(p, view) ==
  LET shown == resolveNavigableView(view)
  IN [p EXCEPT !.view = shown, !.nav = shown # "auth"]

(* A click on a navigation button: disabled ones do nothing.                   *)
ClickNav(view) ==
  /\ PageIsOpen /\ ~setup.open
  /\ page.nav
  /\ page' = navigateTo(page, view)
  /\ UNCHANGED <<accounts, acting, setup, calls, made, strayed, supVars, brokerVars>>

(* Logout is the page's own: the main process is not told, and neither the     *)
(* dialog's state nor a call under way is dropped.                             *)
clearAuthenticatedShellContext(p) == [p EXCEPT !.actor = Nobody]

Logout ==
  /\ PageIsOpen /\ ~setup.open /\ page.nav
  /\ page' = navigateTo(clearAuthenticatedShellContext(page), "auth")
  /\ UNCHANGED <<accounts, acting, setup, calls, made, strayed, supVars, brokerVars>>

-----------------------------------------------------------------------------
(* Signing in and registering, each with one button that is busy meanwhile.    *)
OnSignIn == PageIsOpen /\ ~setup.open /\ page.view = "auth"

handleLoginSubmit(a) ==
  /\ OnSignIn /\ Waiting("login") = {}
  /\ Send("login", a)
  /\ UNCHANGED <<accounts, acting, page, setup, strayed, supVars, brokerVars>>

(* The codes sent by mail: a challenge, a token once the code is right, and    *)
(* what the token is for.  Effect and reply are one step; any may be refused.  *)
(* A challenge that was answered is worth nothing any more.                    *)
SendOtp(f, a) ==
  /\ OnSignIn /\ BackendAnswers
  /\ made < MaxCalls /\ made' = made + 1
  /\ page' = [page EXCEPT !.form[f].challenge = a]
  /\ UNCHANGED <<accounts, acting, setup, calls, strayed, supVars, brokerVars>>

VerifyOtp(f) ==
  /\ OnSignIn /\ BackendAnswers /\ page.form[f].challenge # Nobody
  /\ page' = [page EXCEPT !.form[f] = [challenge |-> Nobody, token |-> @.challenge]]
  /\ UNCHANGED <<accounts, acting, setup, calls, made, strayed, supVars, brokerVars>>

handleRegisterSubmit(a) ==
  /\ OnSignIn /\ Waiting("register") = {} /\ page.form["register"].token # Nobody
  /\ Send("register", a)
  /\ UNCHANGED <<accounts, acting, page, setup, strayed, supVars, brokerVars>>

handleForgotSubmit ==
  /\ OnSignIn /\ BackendAnswers /\ page.form["forgot"].token # Nobody
  /\ page' = [page EXCEPT !.form["forgot"].token = Nobody]
  /\ UNCHANGED <<accounts, acting, setup, calls, made, strayed, supVars, brokerVars>>

-----------------------------------------------------------------------------
(* Mutant: the router goes on acting for whom it acted.                        *)
KeepActing(c) == UNCHANGED acting

(* The main process has the backend's answer: the router acts for the user of  *)
(* the last one that arrives, whatever the page makes of it.                   *)
updateActiveActorContext(c) == acting' = c.who

Answerable(kind) == {c \in calls : c.kind = kind /\ c.reply = "sent"}

MainLogin ==
  \E c \in Answerable("login") :
    \/ /\ BackendAnswers /\ c.who \in accounts
       /\ updateActiveActorContext(c)
       /\ calls' = Replied(c, "ok", "none")
       /\ strayed' = (c.win \notin win.open)
       /\ UNCHANGED <<accounts, page, setup, made, supVars, brokerVars>>
    \/ /\ calls' = Replied(c, "error", "none")
       /\ UNCHANGED <<accounts, acting, page, setup, made, strayed, supVars, brokerVars>>

MainRegister ==
  \E c \in Answerable("register") :
    \/ /\ BackendAnswers /\ c.who \notin accounts /\ c.who = page.form["register"].token
       /\ accounts' = accounts \union {c.who}
       /\ updateActiveActorContext(c)
       /\ calls' = Replied(c, "ok", "none")
       /\ strayed' = TRUE
       /\ UNCHANGED <<page, setup, made, supVars, brokerVars>>
    \/ /\ calls' = Replied(c, "error", "none")
       /\ UNCHANGED <<accounts, acting, page, setup, made, strayed, supVars, brokerVars>>

(* Is Dropbox set up?  Asked of the backend, for administrators only.          *)
MainReadiness ==
  \E c \in Answerable("readiness") :
    /\ \/ acting \in Admins /\ BackendAnswers
          /\ calls' = Replied(c, IF linked = {} THEN "setup" ELSE "ready", "none")
       \/ calls' = Replied(c, "error", "none")
    /\ UNCHANGED <<accounts, acting, page, setup, made, strayed, supVars, brokerVars>>

MainOauthStart ==
  \E c \in Answerable("start"), q \in asked :
    /\ q.win = c.win
    /\ \/ \E s \in Sids, opened \in BOOLEAN :
            /\ BackendAnswers /\ startListens(q, s, opened)
            /\ calls' = IF opened THEN Replied(c, "ok", s) ELSE Replied(c, "error", "none")
       \/ startThrows(q) /\ calls' = Replied(c, "error", "none")
    /\ UNCHANGED <<accounts, acting, page, setup, made, strayed, supVars>>

-----------------------------------------------------------------------------
(* The page has the answer.                                                    *)
Answered(kind) == {c \in calls : c.kind = kind /\ c.win \in win.open /\ c.reply # "sent"}

actorIsAdmin(a) == a \in Admins

maybePromptDropboxSetup(a, rest) ==
  calls' = IF actorIsAdmin(a) /\ ~setup.dismissed /\ ~setup.visible
             THEN rest \union {Call("readiness", a)} ELSE rest

applyUserContext(c) ==
  /\ page' = navigateTo([page EXCEPT !.actor = c.who], "dashboard")
  /\ maybePromptDropboxSetup(c.who, calls \ {c})

(* A reply preload refuses is an error to the page alone.                      *)
PageLogin ==
  \E c \in Answered("login") :
    /\ \/ c.reply = "ok" /\ applyUserContext(c) /\ UNCHANGED strayed
       \/ calls' = calls \ {c} /\ strayed' = (strayed \/ c.reply = "ok") /\ UNCHANGED page
    /\ UNCHANGED <<accounts, acting, setup, made, supVars, brokerVars>>

(* The page tells the new user to log in.                                      *)
PageRegister ==
  \E c \in Answered("register") :
    /\ calls' = calls \ {c}
    /\ page' = IF c.reply = "ok" THEN [page EXCEPT !.form["register"].token = Nobody] ELSE page
    /\ UNCHANGED <<accounts, acting, setup, made, strayed, supVars, brokerVars>>

(* The session a page asks for when it starts, where sign-in is bypassed.      *)
hydrateSessionContext ==
  \E c \in Answered("session") :
    /\ applyUserContext(c)
    /\ strayed' = (strayed \/ c.who # acting)
    /\ UNCHANGED <<accounts, acting, setup, made, supVars, brokerVars>>

PagePrompt ==
  \E c \in Answered("readiness") :
    /\ calls' = calls \ {c}
    /\ setup' = IF c.reply = "setup" THEN [setup EXCEPT !.visible = TRUE, !.open = TRUE] ELSE setup
    /\ UNCHANGED <<accounts, acting, page, made, strayed, supVars, brokerVars>>

-----------------------------------------------------------------------------
(* The dialog.  The main process has the start, and answers a poll, at once.   *)
ClickStart ==
  /\ PageIsOpen /\ setup.open /\ Waiting("start") = {}
  /\ made < MaxCalls /\ made' = made + 1
  /\ LET c == Call("start", acting)
     IN IF acting \in Admins
          THEN \/ /\ startSession(acting, c.win, {})
                  /\ calls' = calls \union {c}
               \/ \E s \in Sids :
                    /\ startSession(acting, c.win, {s})
                    /\ calls' = calls \union {[c EXCEPT !.reply = "ok", !.sid = s]}
          ELSE /\ calls' = calls \union {[c EXCEPT !.reply = "error"]}
               /\ UNCHANGED brokerVars
  /\ UNCHANGED <<accounts, acting, page, setup, strayed, supVars>>

PageOauthStart ==
  \E c \in Answered("start") :
    /\ calls' = calls \ {c}
    /\ setup' = IF c.reply = "ok" THEN [setup EXCEPT !.sid = c.sid, !.timer = TRUE] ELSE setup
    /\ UNCHANGED <<accounts, acting, page, made, strayed, supVars, brokerVars>>

stopDropboxOauthPolling(d) == [d EXCEPT !.timer = FALSE]

SkipSetup ==
  /\ PageIsOpen /\ setup.open
  /\ setup' = [stopDropboxOauthPolling(setup) EXCEPT !.sid = "none", !.dismissed = TRUE,
                                                     !.visible = FALSE, !.open = FALSE]
  /\ UNCHANGED <<accounts, acting, page, calls, made, strayed, supVars, brokerVars>>

(* Closed with Escape, the dialog counts as shown and is not shown again.      *)
CloseDialog ==
  /\ PageIsOpen /\ setup.open
  /\ setup' = [stopDropboxOauthPolling(setup) EXCEPT !.open = FALSE]
  /\ UNCHANGED <<accounts, acting, page, calls, made, strayed, supVars, brokerVars>>

(* The timer fires: a poll for the session remembered now.                     *)
SendPoll ==
  /\ PageIsOpen /\ setup.timer /\ setup.sid # "none" /\ Waiting("poll") = {}
  /\ LET c == Call("poll", acting)
         status == IF acting \in Admins THEN getStatus(setup.sid, acting) ELSE "error"
     IN calls' = calls \union {[c EXCEPT !.reply = status, !.sid = setup.sid]}
  /\ sessions' = IF acting \in Admins THEN cleanupExpiredSessions(sessions) ELSE sessions
  /\ UNCHANGED <<accounts, acting, page, setup, made, strayed, supVars,
                 asked, browser, exchanges, linked>>

(* Mutant: whatever the session came to closes the dialog.                     *)
CloseOnAnyEnd(d, status) ==
  IF status \in {"pending", "error"} THEN d
  ELSE [stopDropboxOauthPolling(d) EXCEPT !.sid = "none", !.visible = FALSE, !.open = FALSE]

(* Its answer, whichever session is remembered by then.                        *)
pollDropboxOauthStatus(d, status) ==
  CASE status \in {"pending", "error"} -> d
    [] status = "completed" -> [stopDropboxOauthPolling(d) EXCEPT !.sid = "none", !.visible = FALSE,
                                                                  !.open = FALSE]
    [] OTHER -> [stopDropboxOauthPolling(d) EXCEPT !.sid = "none"]

PagePoll ==
  \E c \in Answered("poll") :
    /\ calls' = calls \ {c}
    /\ setup' = pollDropboxOauthStatus(setup, c.reply)
    /\ UNCHANGED <<accounts, acting, page, made, strayed, supVars, brokerVars>>

-----------------------------------------------------------------------------
(* A page starts with its window and ends with it; what it had asked the main  *)
(* process for is done even so.                                                *)
SessionCall == [kind |-> "session", who |-> acting, win |-> win'.made, reply |-> "ok", sid |-> "none"]

PageFollowsWindow ==
  IF win'.open = win.open THEN UNCHANGED <<page, setup, calls>>
  ELSE /\ page' = FreshPage /\ setup' = FreshSetup
       /\ calls' = {c \in calls : c.reply = "sent"}
                     \union IF machine.bypass /\ win'.open # {} THEN {SessionCall} ELSE {}

AppStep ==
  /\ BootStep \/ ChildServes \/ ChildEnds \/ Quit \/ Activate \/ \E id \in Windows : CloseWindow(id)
  /\ PageFollowsWindow
  /\ UNCHANGED <<accounts, acting, made, strayed, brokerVars>>

MainStep == MainLogin \/ MainRegister \/ MainReadiness \/ MainOauthStart

PageStep == PageLogin \/ PageRegister \/ hydrateSessionContext \/ PagePrompt \/ PageOauthStart
              \/ PagePoll

UserStep ==
  \/ \E view \in Views \union {"upload-qc"} : ClickNav(view)
  \/ Logout
  \/ \E a \in Actors : handleLoginSubmit(a) \/ handleRegisterSubmit(a)
  \/ \E f \in Forms : VerifyOtp(f) \/ \E a \in Actors : SendOtp(f, a)
  \/ handleForgotSubmit
  \/ ClickStart \/ SkipSetup \/ CloseDialog

BrowserStep ==
  /\ \/ \E s \in Sids, granted \in BOOLEAN : ComeBack(s, granted)
     \/ \E x \in exchanges, ok \in BOOLEAN : (ok => BackendAnswers) /\ ExchangeEnds(x, ok)
     \/ \E s \in Sids : SessionAges(s)
  /\ UNCHANGED <<pageVars, supVars>>

ShellNext ==
  \/ AppStep
  \/ boot \notin Gone /\ (MainStep \/ PageStep \/ UserStep \/ SendPoll \/ BrowserStep)

(* The start's own steps, timers, and calls that were made go on; so does the  *)
(* clock.                                                                      *)
ShellFairness ==
  /\ WF_shellVars(BootStep /\ AppStep)
  /\ WF_shellVars(SendPoll /\ boot \notin Gone) /\ WF_shellVars(PagePoll /\ boot \notin Gone)
  /\ \A s \in Sids : WF_shellVars(SessionAges(s) /\ UNCHANGED <<pageVars, supVars>>
                                      /\ boot \notin Gone)

ShellSpec == ShellInit /\ [][ShellNext]_shellVars
FairShellSpec == ShellSpec /\ ShellFairness

-----------------------------------------------------------------------------
(* What the page does is done as the user it shows: the router acts for that   *)
(* user, unless a registration, a sign-in of a window since closed or a reply  *)
(* the page refused has changed the router's actor since the page's sign-in.   *)
ActsForTheUserShown ==
  /\ page.actor # Nobody /\ ~strayed
  /\ Answered("login") = {}
  => acting = page.actor

(* The dialog goes away by itself only when the session it asked about has     *)
(* connected Dropbox, however late the answer is.                              *)
DialogEndsConnected ==
  [][PagePoll /\ setup.open /\ ~setup'.open
       => \E c \in calls \ calls' : c.sid \in linked]_shellVars

(* Polling stops: a session that nobody answers expires, and whatever it came  *)
(* to stops the timer.  An actor who is no administrator is refused the answer *)
(* and polls for ever.                                                         *)
PollingStops == setup.timer ~> (~setup.timer \/ acting \notin Admins)
=============================================================================
