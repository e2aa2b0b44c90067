----------------------------- MODULE IpcBoundary -----------------------------
(***************************************************************************)
(* One call of the page across the process boundary and back: the bridge's *)
(* check of the request, the router of the main process (createIpcRouter   *)
(* of src/electron/ipc/router.js), the handler and the service it asks,    *)
(* the check of the reply, the audit entry, and the bridge's check of what *)
(* it hands to the page.                                                   *)
(*                                                                         *)
(* The four layers describe the same payloads independently of each other: *)
(* PreloadContracts, IpcContracts, BackendClients and ApiModels.  A call's *)
(* payload is the typical one of its channel with one field, the probe,    *)
(* holding any value whatever; so is a reply.                              *)
(***************************************************************************)
EXTENDS IpcContracts, PreloadReplies, BackendClients, Sequences, FiniteSets

Api == INSTANCE ApiModels

VARIABLES stage,  \* how far the call has come
          call,   \* what the page asked, with which payload, and as whom
          body,   \* what the client of the main process sends to the service
          answer, \* what the service or the handler made of it
          audit,  \* the entries the call has left in the security audit log
          reply,  \* the envelope the main process returned
          page    \* what the page was given

vars == <<stage, call, body, answer, audit, reply, page>>

(***************************************************************************)
(* Payloads.  An object's schema is looked at when something refers to it. *)
(***************************************************************************)
NoProbe == [shape |-> "", field |-> "", value |-> Absent]

Value(payload, s, f) ==
  IF s \in DOMAIN payload /\ f \in DOMAIN payload[s] THEN payload[s][f] ELSE Absent
Referred(payload, s) ==
  \/ s = "self"
  \/ \E p \in DOMAIN payload : \E f \in DOMAIN payload[p] :
        payload[p][f] \in {Object(s), Array(s)}
Satisfies(payload, schemas) ==
  \A s \in DOMAIN schemas \cap DOMAIN payload : Referred(payload, s) =>
     \A f \in DOMAIN schemas[s] : Value(payload, s, f) \in schemas[s][f]
SatisfiesStrictly(payload, schemas) ==
  \A s \in DOMAIN schemas \cap DOMAIN payload : Referred(payload, s) =>
     \A f \in DOMAIN payload[s] \cup DOMAIN schemas[s] :
        SchemaAccepts(schemas[s], f, Value(payload, s, f))

Mentions(schema) ==
  {s \in Shapes : \E f \in DOMAIN schema :
     /\ {Object("any"), Array("any")} \cap schema[f] = {}
     /\ {Object(s), Array(s)} \cap schema[f] # {}}
Mentioned(schema) ==
  LET inner(ss) == UNION {Mentions(Nested[s]) : s \in ss}
      first == Mentions(schema)
      second == inner(first)
  IN first \cup second \cup inner(second)
Closed(schema) == [self |-> schema] ++ [s \in Mentioned(schema) |-> Nested[s]]

\* getContract(channel).requestSchema and the data of its responseSchema.
RequestSchemas == [c \in IPC_CHANNELS |-> Closed(IPC_CONTRACT_REGISTRY[c].request)]
DataSchemas == [c \in IPC_CHANNELS |-> Closed(IPC_CONTRACT_REGISTRY[c].data)]

(***************************************************************************)
(* Typical values: optional fields are left out of requests, and a reply's *)
(* are there and its arrays have elements.  Some texts mean something to   *)
(* the service.                                                            *)
(***************************************************************************)
Preferred == <<Str("t8"), Str("t12"), Str("iso"), Str("month"), Str("sha256"), Str("url"),
               Num(1), True, Object("any"), Array("texts"), Array("roles")>>
Plain(T) ==
  LET found == {i \in DOMAIN Preferred : Preferred[i] \in T}
  IN IF found # {} THEN Preferred[CHOOSE i \in found : \A j \in found : i <= j]
     ELSE CHOOSE v \in T : v \notin {Null, Absent, Undefined, EmptyArray}
Meaningful == [toState |-> Str("under_review")]
Typical(T, f) ==
  IF f \in DOMAIN Meaningful THEN Meaningful[f]
  ELSE IF Absent \in T THEN Absent ELSE Plain(T)

TypicalRequests ==
  [c \in IPC_CHANNELS |->
     [s \in DOMAIN RequestSchemas[c] |->
        [f \in DOMAIN RequestSchemas[c][s] \cup {"unlisted"} |->
           IF f = "unlisted" THEN Absent ELSE Typical(RequestSchemas[c][s][f], f)]]]
Probed(payload, p) ==
  IF p = NoProbe THEN payload ELSE [payload EXCEPT ![p.shape][p.field] = p.value]

\* The payload of the page, and the one handlers are given: applyActorContextToPayload writes
\* the session's actor over the payload's.
SessionActor == Str("t11")
(* Mutant: the creator role whenever there is one. *)
LeastRole(roles) == IF "creator" \in roles THEN "creator" ELSE "reviewer"
resolvePrimaryActorRole(roles) ==
  IF "admin" \in roles THEN "admin" ELSE IF "reviewer" \in roles THEN "reviewer" ELSE "creator"
(* Mutant: only the role is overwritten. *)
KeepPayloadActor(payload, roles) ==
  [payload EXCEPT !.self =
     [f \in DOMAIN payload.self |->
        IF f = "actorRole" /\ payload.self[f] # Absent THEN Str(resolvePrimaryActorRole(roles))
        ELSE payload.self[f]]]
applyActorContextToPayload(payload, roles) ==
  [payload EXCEPT !.self =
     [f \in DOMAIN payload.self |->
        IF payload.self[f] = Absent THEN Absent
        ELSE IF f = "actorId" THEN SessionActor
        ELSE IF f = "actorRole" THEN Str(resolvePrimaryActorRole(roles))
        ELSE payload.self[f]]]
Canonical(k) == applyActorContextToPayload(k.payload, k.roles)

(***************************************************************************)
(* The handlers that ask no service, or ask it through another part: what  *)
(* they return.  A folder selection can be canceled; the shield is only    *)
(* there on two platforms.                                                 *)
(***************************************************************************)
LocalReplies ==
  [AUTH_GET_SESSION |->
     [self |-> [actor |-> {Object("AuthSessionData_actor")},
                permissions |-> {EmptyArray, Array("texts")}, sessionIssuedAt |-> Iso],
      AuthSessionData_actor |-> [id |-> Trimmed, roles |-> {Array("roles")}]],
   DESKTOP_VERIFY_SECURITY |->
     [self |-> [checks |-> {Object("VerifySecurityConfigData_checks")}],
      VerifySecurityConfigData_checks |->
        [contextIsolation |-> {True}, nodeIntegration |-> {False}, sandbox |-> {True},
         navigationGuard |-> {True}]],
   AUDIT_LIST_SECURITY_EVENTS |->
     [self |-> [events |-> ArrayOf("AuditSecurityEvent")],
      AuditSecurityEvent |->
        [id |-> Trimmed, channel |-> Trimmed, actorId |-> Trimmed,
         outcome |-> Enum({"allowed", "denied"}), reason |-> Trimmed, timestamp |-> Iso]],
   QC_REPORT_EXPORT |-> One([canceled |-> Bool, path |-> OrNull(Trimmed)]),
   INTAKE_FOLDER_SELECT |->
     [self |-> [path |-> {Str("t12")}, fileCount |-> IntFrom(0), topLevelFolders |-> Texts,
                files |-> ArrayOf("IntakeFolderSelectData_files")],
      IntakeFolderSelectData_files |->
        [relativePath |-> Trimmed, sizeBytes |-> IntFrom(1), mimeType |-> {Str("t12")}]],
   DESKTOP_PRIVACY_SHIELD_TOGGLE |-> One([success |-> {False}, enabled |-> Bool]),
   DESKTOP_PRIVACY_SHIELD_STATUS |-> One([enabled |-> Bool]),
   ADMIN_DROPBOX_OAUTH_DESKTOP_START |->
     One([sessionId |-> {Str("t12")}, status |-> Enum({"pending"}), authorizeUrl |-> Url,
          startedAt |-> Iso]),
   ADMIN_DROPBOX_OAUTH_DESKTOP_STATUS |->
     One([sessionId |-> {Str("t12")},
          status |-> Enum({"pending", "completed", "failed", "expired"}),
          message |-> Trimmed, accountId |-> OrNull(Trimmed), configuredAt |-> OrNull(Iso)])]
FolderCanceled ==
  One([path |-> Str("empty"), fileCount |-> Num(0), topLevelFolders |-> EmptyArray])

Served == DOMAIN Api!ApiReplies
Answers == Api!ApiReplies ++ LocalReplies
TypicalAnswers ==
  [c \in DOMAIN Answers |->
     [s \in DOMAIN Answers[c] |->
        [f \in DOMAIN Answers[c][s] |-> Plain(Answers[c][s][f] \ {Absent})]]]

(***************************************************************************)
(* The calls and the answers that are looked at.  Fields are probed with   *)
(* every value that is not a word, and with the words one of the layers    *)
(* knows for the field.                                                    *)
(***************************************************************************)
Channels == DOMAIN BridgeRequests[TRUE]
NotAWord == {Absent, Undefined, Null, Fraction} \cup Bool \cup Integer \cup Strings
              \cup {Str(t) : t \in DOMAIN Length}
              \cup {Object("any"), Object("counts"), Object("labels"), Array("any")}
WordsIn(T) == IF Str("t8") \in T THEN {} ELSE T \cap {Str(w) : w \in Words}
Allowed(schemas, s, f) ==
  IF s \in DOMAIN schemas /\ f \in DOMAIN schemas[s] THEN schemas[s][f] ELSE {}
ProbeValues(s, f, asked, taken) ==
  NotAWord \cup {Str("expired")} \cup WordsIn(Allowed(asked, s, f)) \cup WordsIn(Allowed(taken, s, f))
    \cup (IF f \in DOMAIN Meaningful THEN Api!SubmissionState ELSE {})
\* Some methods of the bridge take no argument, and one takes a flag.
ProbedFields(c, schema) ==
  IF c \in {"DESKTOP_VERIFY_SECURITY", "INTAKE_FOLDER_SELECT", "OBSERVABILITY_METRICS_GET",
           "DESKTOP_PRIVACY_SHIELD_STATUS"} THEN {}
  ELSE IF c = "DESKTOP_PRIVACY_SHIELD_TOGGLE" THEN {"enabled"}
  ELSE DOMAIN schema \cup {"unlisted"}
\* For a channel whose requests the router checks with asked, and the bridge with taken.
RequestProbes(c, asked, taken) ==
  UNION {UNION {{[shape |-> s, field |-> f, value |-> v] : v \in ProbeValues(s, f, asked, taken)} :
                f \in ProbedFields(c, asked[s])} : s \in DOMAIN asked}
\* For replies whose fields hold the values of told.
AnswerProbes(told) ==
  UNION {UNION {{[shape |-> s, field |-> f, value |-> v] :
                 v \in told[s][f] \cap ((NotAWord \ {Absent}) \cup WordsIn(told[s][f]))} :
                f \in DOMAIN told[s]} : s \in DOMAIN told}

AnyRoles == (SUBSET {"creator", "reviewer", "admin"}) \ {{}}

\* The frame a call comes from: what its address and that of the top frame show (the page's own
\* file, another file, something else; "none" for a top frame that is not known), and whether
\* its web contents are those of the window the application opened.
Senders ==
  [url : {"page", "file", "web"}, top : {"none", "page", "file", "web"},
   window : {"ours", "other", "gone"}]
PageFrame == [url |-> "page", top |-> "page", window |-> "ours"]
isTrustedSender(sender) ==
  /\ sender.url # "web"
  /\ sender.top \in {"none", sender.url}
  /\ sender.window = "ours"
  /\ sender.url = "page"

\* Varied one at a time: the roles (with and without the helper), the frame, and the payload
\* (without the helper only where the bridge then has checks of its own).
Variants ==
  [helper : BOOLEAN, roles : AnyRoles, sender : {PageFrame}, probe : {NoProbe}]
  \cup [helper : {TRUE}, roles : {{"admin"}}, sender : Senders, probe : {NoProbe}]
Calls(c) ==
  Variants
  \cup [helper : IF c \in DOMAIN InlineIntegrationRequests THEN BOOLEAN ELSE {TRUE},
        roles : {{"admin"}}, sender : {PageFrame},
        probe : RequestProbes(c, RequestSchemas[c], BridgeRequests[TRUE][c])]
\* The calls whose answers are varied.
Ordinary(k) == k.probe = NoProbe /\ k.roles = {"admin"}

(***************************************************************************)
(* Each layer's verdict.                                                   *)
(***************************************************************************)
BridgeAccepts(k) ==
  /\ k.channel \in DOMAIN BridgeRequests[k.helper]
  /\ Satisfies(k.payload, BridgeRequests[k.helper][k.channel])
MainAccepts(k) == SatisfiesStrictly(k.payload, RequestSchemas[k.channel])
\* Requests without a body have no model.
HasBody(k) == k.channel \in DOMAIN Api!ApiRequests
ServiceAccepts(channel, sent) ==
  channel \in DOMAIN Api!ApiRequests => SatisfiesStrictly(sent, Api!ApiRequests[channel])

ROLE_PERMISSIONS ==
  [creator |-> {"submission:create", "submission:read:self"},
   reviewer |-> {"submission:read:all", "submission:review", "audit:read"},
   admin |-> {"*"}]
buildPermissions(roles) == UNION {ROLE_PERMISSIONS[role] : role \in roles}
hasAllowedRole(k) == k.roles \cap IPC_CONTRACT_REGISTRY[k.channel].allowedRoles # {}
hasRequiredPermissions(k) ==
  LET granted == buildPermissions(k.roles)
  IN "*" \in granted \/ IPC_CONTRACT_REGISTRY[k.channel].requiredPermissions \subseteq granted

\* What the handler returns for a reply of the service, and the two checks of it.
Returned(k, p) ==
  LET replied == Probed(TypicalAnswers[k.channel], p)
  IN IF k.channel \in Served THEN Data(k.channel, replied) ELSE replied
MainAcceptsData(k, data) == SatisfiesStrictly(data, DataSchemas[k.channel])
BridgeAcceptsData(k, data) ==
  /\ k.channel \in DOMAIN BridgeReplies[k.helper]
  /\ Satisfies(data, BridgeReplies[k.helper][k.channel])

(***************************************************************************)
(* The call.                                                               *)
(***************************************************************************)
NoPayload == [self |-> <<>>]
NoCall == [channel |-> "none", payload |-> NoPayload, helper |-> TRUE, roles |-> {},
           sender |-> PageFrame, probe |-> NoProbe]
NoAnswer ==
  [kind |-> "none", code |-> "", said |-> "", probe |-> NoProbe, data |-> NoPayload, done |-> FALSE]
NoReply == [ok |-> FALSE, code |-> ""]
Success == [ok |-> TRUE, code |-> ""]
Failure(code) == [ok |-> FALSE, code |-> code]

Init ==
  /\ stage = "idle" /\ call = NoCall /\ body = NoPayload /\ answer = NoAnswer
  /\ audit = <<>> /\ reply = NoReply /\ page = "waiting"

\* invokeChannel: assertRequest throws, or the request is sent.
Ask ==
  /\ stage = "idle"
  /\ \E c \in Channels : \E k \in Calls(c) :
        call' = [channel |-> c, payload |-> Probed(TypicalRequests[c], k.probe),
                 helper |-> k.helper, roles |-> k.roles, sender |-> k.sender, probe |-> k.probe]
  /\ IF BridgeAccepts(call') THEN stage' = "sent" /\ page' = "waiting"
     ELSE stage' = "refused" /\ page' = "thrown"
  /\ UNCHANGED <<body, answer, audit, reply>>

Deny(code) ==
  /\ audit' = Append(audit, "denied")
  /\ reply' = Failure(code)
  /\ stage' = "replied"

\* invoke: the checks of the router, in its order.
RejectSender ==
  /\ stage = "sent" /\ ~isTrustedSender(call.sender)
  /\ Deny("AUTH_FORBIDDEN")
  /\ UNCHANGED <<call, body, answer, page>>
RejectRequest ==
  /\ stage = "sent" /\ isTrustedSender(call.sender) /\ ~MainAccepts(call)
  /\ Deny("VALIDATION_ERROR")
  /\ UNCHANGED <<call, body, answer, page>>
RejectActor ==
  /\ stage = "sent" /\ isTrustedSender(call.sender) /\ MainAccepts(call)
  /\ ~(hasAllowedRole(call) /\ hasRequiredPermissions(call))
  /\ Deny("AUTH_FORBIDDEN")
  /\ UNCHANGED <<call, body, answer, page>>
Admit ==
  /\ stage = "sent" /\ isTrustedSender(call.sender) /\ MainAccepts(call)
  /\ hasAllowedRole(call) /\ hasRequiredPermissions(call)
  /\ stage' = "admitted"
  /\ body' = IF HasBody(call) THEN Body(call.channel, Canonical(call)) ELSE NoPayload
  /\ UNCHANGED <<call, answer, audit, reply, page>>

Answered(a) ==
  /\ answer' = a
  /\ stage' = "answered"
  /\ UNCHANGED <<call, body, audit, reply, page>>
\* A failure: the code the handler throws with, and the one the service gave.
Fails(code, said, done) ==
  Answered([NoAnswer EXCEPT !.kind = "error", !.code = code, !.said = said, !.done = done])
\* It was done; what is returned for it comes next.
Does ==
  /\ stage' = "done"
  /\ answer' = [NoAnswer EXCEPT !.done = TRUE]
  /\ UNCHANGED <<call, body, audit, reply, page>>

(***************************************************************************)
(* The request of a client.  The service does what it is asked, or refuses *)
(* the body; it answers with an error, whose code the client may not know; *)
(* or the request is not sent (no service; no token for an internal        *)
(* endpoint), or the answer is lost or is not JSON, and it may have been   *)
(* done or not.                                                            *)
(***************************************************************************)
ErrorEnvelopes ==
  [kind : {"envelope"}, code : AUTH_ERROR_CODES \cup {"AIRTABLE_UNAVAILABLE"}]
NotAnEnvelope == [kind |-> "other", code |-> ""]

Asking(channels) == stage = "admitted" /\ call.channel \in channels
Refuses == Fails(throwMappedError([kind |-> "details", code |-> ""]), "", FALSE)
Request(channels) ==
  /\ Asking(channels)
  /\ \/ IF ServiceAccepts(call.channel, body) THEN Does ELSE Refuses
     \/ /\ Ordinary(call)
        /\ \E e \in ErrorEnvelopes \cup {NotAnEnvelope} :
              Fails(throwMappedError(e), e.code, FALSE)
     \/ Ordinary(call) /\ \E done \in BOOLEAN : Fails("INTERNAL_ERROR", "", done)

authPost == Request(AuthChannels)
qcRequest == Request(QcChannels)
notificationsRequest == Request(NotificationChannels)
operationsRequest ==
  Request(Served \ (AccountChannels \cup {"OBSERVABILITY_METRICS_GET"}))
\* requestText reads no error envelope.
requestText ==
  /\ Asking({"OBSERVABILITY_METRICS_GET"})
  /\ Does \/ (Ordinary(call) /\ \E done \in BOOLEAN : Fails("INTERNAL_ERROR", "", done))

\* The handlers that ask no service.  On Windows and macOS the shield is set, and then the
\* audit client is called by a method it does not have.
LocalReturns ==
  /\ stage = "admitted" /\ call.channel \notin Served
  /\ Does
LocalThrows ==
  /\ stage = "admitted" /\ call.channel \notin Served /\ Ordinary(call)
  /\ Fails("INTERNAL_ERROR", "", call.channel = "DESKTOP_PRIVACY_SHIELD_TOGGLE")
SelectionCanceled ==
  /\ stage = "admitted" /\ call.channel = "INTAKE_FOLDER_SELECT"
  /\ Answered([NoAnswer EXCEPT !.kind = "canceled", !.data = FolderCanceled, !.done = TRUE])

\* The client maps the reply of the service to the data the handler returns.
MapReply ==
  /\ stage = "done"
  /\ \E p \in {NoProbe} \cup (IF Ordinary(call) THEN AnswerProbes(Answers[call.channel]) ELSE {}) :
        Answered([answer EXCEPT !.kind = "ok", !.probe = p, !.data = Returned(call, p)])

(* Mutant: the entry is appended before the reply is checked. *)
RespondLogsFirst ==
  /\ stage = "answered"
  /\ stage' = "replied"
  /\ IF answer.kind = "error"
     THEN /\ audit' = Append(audit, "denied")
          /\ reply' = Failure("INTERNAL_ERROR")
     ELSE /\ audit' = Append(audit, "allowed")
          /\ reply' = IF MainAcceptsData(call, answer.data) THEN Success ELSE Failure("INTERNAL_ERROR")
  /\ UNCHANGED <<call, body, answer, page>>

\* The rest of invoke: the check of the reply, or resolveHandledError.
Respond ==
  /\ stage = "answered"
  /\ IF answer.kind = "error"
     THEN Deny(IF answer.code \in AUTH_ERROR_CODES THEN answer.code ELSE "INTERNAL_ERROR")
     ELSE IF ~MainAcceptsData(call, answer.data) THEN Deny("INTERNAL_ERROR")
     ELSE /\ audit' = Append(audit, "allowed")
          /\ reply' = Success
          /\ stage' = "replied"
  /\ UNCHANGED <<call, body, answer, page>>

\* assertResponse: the page gets the envelope or an exception.
Deliver ==
  /\ stage = "replied"
  /\ stage' = "delivered"
  /\ page' = IF reply.ok THEN IF BridgeAcceptsData(call, answer.data) THEN "data" ELSE "thrown"
             ELSE IF reply.code \in KNOWN_ERROR_CODES THEN "error" ELSE "thrown"
  /\ UNCHANGED <<call, body, answer, audit, reply>>

Return ==
  /\ stage \in {"refused", "delivered"}
  /\ stage' = "idle" /\ call' = NoCall /\ body' = NoPayload /\ answer' = NoAnswer
  /\ audit' = <<>> /\ reply' = NoReply /\ page' = "waiting"

Next ==
  \/ Ask \/ RejectSender \/ RejectRequest \/ RejectActor \/ Admit
  \/ authPost \/ qcRequest \/ notificationsRequest \/ operationsRequest \/ requestText
  \/ LocalReturns \/ LocalThrows \/ SelectionCanceled
  \/ MapReply \/ Respond \/ Deliver \/ Return
Spec == Init /\ [][Next]_vars


\* What the page may well send: no key that holds undefined, no text of white space only, and
\* a channel the bridge has a check for (seven are checked by the helper alone).
Sendable(k) ==
  /\ k.probe.value \notin Blank \cup {Undefined}
  /\ k.channel \in DOMAIN BridgeRequests[k.helper]

\* The two request contracts, assertRequest of preload.js and the registry of contracts.js,
\* were written separately.  The bridge never throws at a request the router would take.
NoValidCallIsRefused == stage = "refused" /\ Sendable(call) => ~MainAccepts(call)

\* The request that both contracts accept and the body the client makes of it satisfy the
\* service's own model: what the router admits is not turned away as malformed.  Left out: a
\* text of white space, a time zone or a state the service does not know, and the resolution
\* of a schedule, whose event the client sends in a form the service refuses.
AcceptedReachesService ==
  /\ stage = "admitted" /\ call.channel \in Served
  /\ call.probe.value \notin Blank
  /\ call.channel # "SCHEDULING_RESOLVE"
  /\ call.probe.field = "timezone" => call.probe.value \in Api!Timezone
  /\ call.probe.field = "toState" => call.probe.value \in Api!SubmissionState
  => ServiceAccepts(call.channel, body)

\* The service acts for the actor of the session and under its first role, whatever actor the
\* page wrote in the payload, and only for the page in the window the application opened: not
\* for a frame inside it, nor for the page loaded in another window.
DoneForTheSession ==
  answer.done =>
    /\ call.sender \in {PageFrame, [PageFrame EXCEPT !.top = "none"]}
    /\ call.roles \cap IPC_CONTRACT_REGISTRY[call.channel].allowedRoles # {}
    /\ Value(body, "self", "actor_id") \in {SessionActor, Absent}
    /\ Value(body, "self", "actor_role") \in {Str(resolvePrimaryActorRole(call.roles)), Absent}

\* Channels whose reply no branch of assertSuccessData knows: the page is thrown at.
Unanswerable == {"JOBS_ENQUEUE", "JOBS_GET", "JOBS_REPLAY", "SCHEDULING_RESOLVE",
                 "SCHEDULING_OVERRIDE", "SCHEDULING_TRIGGER_RELEASE"}
\* What was done and answered is what the page is told: the reply goes through the client's
\* mapping, the response contract and the bridge's check.  Left out: the unanswerable channels,
\* the timeline (its response contract is strict and lacks the decision the mapping gives), a
\* review reply about a submission that is uploading, and metrics that are empty.
DoneReachesPage ==
  /\ stage = "delivered" /\ answer.kind = "ok"
  /\ call.channel \notin Unanswerable \cup {"SUBMISSION_TIMELINE"}
  /\ call.channel \in {"REVIEW_QUEUE_LIST", "REVIEW_SUBMISSION_GET"} =>
       Value(answer.data, "ReviewQueueItem", "state") # Str("uploading")
  /\ call.channel = "OBSERVABILITY_METRICS_GET" =>
       Value(answer.data, "self", "snapshot") \notin Blank \cup {Str("empty")}
  => page = "data"

\* An error of the service reaches the page under its own code: the client, the router and the
\* bridge each have a list of the codes.  The bridge's lacks one.
ErrorKeepsItsCode ==
  /\ stage = "delivered" /\ answer.kind = "error"
  /\ answer.said \in AUTH_ERROR_CODES \ {"ADMIN_CONFIG_ROLLBACK_NOT_AVAILABLE"}
  => page = "error" /\ reply.code = answer.said

\* Every call that reached the router leaves one audit entry, and it tells what the page was
\* told; the page is handed data only for a call that was carried out and logged as allowed.
AuditTellsTheOutcome ==
  /\ stage \in {"replied", "delivered"} => audit = <<IF reply.ok THEN "allowed" ELSE "denied">>
  /\ page = "data" => audit = <<"allowed">> /\ answer.done
=============================================================================
