---------------------------- MODULE DropboxBroker ----------------------------
(* The main process' side of connecting Dropbox: it asks the backend for an    *)
(* address, opens it in the browser and listens on one fixed port for the      *)
(* browser to come back (electron/ipc/dropboxOauthDesktopBroker.js).  Dropbox, *)
(* the browser's tabs and the clock are external.                              *)
EXTENDS Naturals, FiniteSets

CONSTANTS
  Actors,     \* who may sign in
  Sids,       \* ids of OAuth sessions, each used once
  NoActor,    \* a session that was not started
  MaxReloads  \* bounds how often tabs come back after the first time

ASSUME BrokerAssumption == NoActor \notin Actors /\ MaxReloads \in Nat

VARIABLES
  sessions,   \* the broker's sessions, by id
  asked,      \* starts that wait for the backend: who asks, from which window
  browser,    \* tabs: the sessions whose page is open; how often one came back
  exchanges,  \* codes being exchanged: the session, the session the code is of,
              \*   the return that brought it (a tab may come back twice meanwhile)
  linked      \* the sessions whose code the backend has stored tokens for

brokerVars == <<sessions, asked, browser, exchanges, linked>>

NotStarted == [status |-> "none", actor |-> NoActor, listening |-> FALSE, old |-> FALSE]

BrokerInit ==
  /\ sessions = [s \in Sids |-> NotStarted]
  /\ asked = {}
  /\ browser = [tabs |-> {}, returns |-> 0]
  /\ exchanges = {}
  /\ linked = {}

Started(ss) == {s \in Sids : ss[s].status # "none"}
Listener == {s \in Sids : sessions[s].listening}

(* Mutant: a session that ends keeps its port.                                 *)
EndWithoutClosing(session, status) == [session EXCEPT !.status = status]

(* A session gets its outcome, whatever it was before, and lets go of the port. *)
finalizeSession(session, status) == [session EXCEPT !.status = status, !.listening = FALSE]

(* Mutant: nothing looks at how old a session is.                              *)
CleanNothing(ss) == ss

(* Every session past its ten minutes, one that is connected too.              *)
cleanupExpiredSessions(ss) ==
  [s \in Sids |-> IF s \in Started(ss) /\ ss[s].old THEN finalizeSession(ss[s], "expired")
                                                    ELSE ss[s]]

findPendingSessionForActor(ss, a) ==
  {s \in Sids : ss[s].actor = a /\ ss[s].status = "pending" /\ ss[s].listening}

(* startSession up to its first await: the session of this actor that still    *)
(* waits is shown again, found (the set of it), or the backend is asked.       *)
startSession(a, id, found) ==
  LET ss == cleanupExpiredSessions(sessions)
      mine == findPendingSessionForActor(ss, a)
  IN /\ sessions' = ss
     /\ found \subseteq mine /\ (found = {} <=> mine = {})
     /\ browser' = [browser EXCEPT !.tabs = @ \union found]
     /\ asked' = IF mine = {} THEN asked \union {[actor |-> a, win |-> id]} ELSE asked
     /\ UNCHANGED <<exchanges, linked>>

(* The rest, when the backend has answered.  No address, or the port is taken: *)
(* the start throws and leaves nothing.  No browser: the session has failed.   *)
startThrows(q) == asked' = asked \ {q} /\ UNCHANGED <<sessions, browser, exchanges, linked>>

startListens(q, s, opened) ==
  /\ Listener = {} /\ sessions[s].status = "none"
  /\ LET session == [status |-> "pending", actor |-> q.actor, listening |-> TRUE, old |-> FALSE]
     IN sessions' = [sessions EXCEPT ![s] = IF opened THEN session
                                            ELSE finalizeSession(session, "failed")]
  /\ browser' = IF opened THEN [browser EXCEPT !.tabs = @ \union {s}] ELSE browser
  /\ asked' = asked \ {q}
  /\ UNCHANGED <<exchanges, linked>>

(* getStatus, with what it answers.                                            *)
getStatus(s, a) ==
  LET ss == cleanupExpiredSessions(sessions)
  IN IF s \notin Sids \/ ss[s].actor # a THEN "expired" ELSE ss[s].status

-----------------------------------------------------------------------------
BeginExchange(l, code) ==
  /\ exchanges' = exchanges \union {[session |-> l, code |-> code, by |-> browser.returns]}
  /\ UNCHANGED sessions

(* Mutant: the state in the address is not compared.                           *)
AnyState(l, s) == TRUE
SameState(l, s) == l = s

(* The browser comes back, from the page of session s, to whoever listens: a   *)
(* tab left over from an attempt before fails the one that waits now.          *)
ComeBack(s, granted) ==
  /\ s \in browser.tabs /\ browser.returns < MaxReloads + Cardinality(Started(sessions))
  /\ browser' = [browser EXCEPT !.returns = @ + 1]
  /\ \E l \in Listener :
       IF SameState(l, s) /\ granted
         THEN BeginExchange(l, s)
         ELSE /\ sessions' = [sessions EXCEPT ![l] = finalizeSession(@, "failed")]
              /\ UNCHANGED exchanges
  /\ UNCHANGED <<asked, linked>>

(* The backend has exchanged the code, or refused to.                          *)
ExchangeEnds(x, ok) ==
  /\ x \in exchanges
  /\ exchanges' = exchanges \ {x}
  /\ linked' = IF ok THEN linked \union {x.code} ELSE linked
  /\ sessions' = [sessions EXCEPT ![x.session] =
                    finalizeSession(@, IF ok THEN "completed" ELSE "failed")]
  /\ UNCHANGED <<asked, browser>>

(* Ten minutes pass since a session was started.                               *)
SessionAges(s) ==
  /\ s \in Started(sessions) /\ ~sessions[s].old
  /\ sessions' = [sessions EXCEPT ![s].old = TRUE]
  /\ UNCHANGED <<asked, browser, exchanges, linked>>

-----------------------------------------------------------------------------
BrokerTypeOK ==
  /\ sessions \in [Sids -> [status : {"none", "pending", "completed", "failed", "expired"},
                            actor : Actors \union {NoActor}, listening : BOOLEAN,
                            old : BOOLEAN]]
  /\ browser \in [tabs : SUBSET Sids, returns : Nat]
  /\ exchanges \subseteq [session : Sids, code : Sids, by : Nat]
  /\ linked \subseteq Sids

(* A session that waits can be answered, and one that does not wait has given  *)
(* the port back; there is one port.                                           *)
WaitingHoldsThePort ==
  /\ \A s \in Sids : sessions[s].listening <=> sessions[s].status = "pending"
  /\ Cardinality(Listener) <= 1

(* A code is exchanged for the attempt it was granted to: with tabs of several *)
(* attempts open and one port for all of them, the state tells them apart.     *)
CodesAreOfTheirSession ==
  /\ \A x \in exchanges : x.code = x.session
  /\ \A s \in Sids : sessions[s].status = "completed" => s \in linked
=============================================================================
