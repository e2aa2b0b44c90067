------------------------- MODULE IpcBoundaryProofs -------------------------
(* One call across the boundary, whatever its payload, its roles, its frame  *)
(* and its answer: what the page is told, what is logged, and for whom the   *)
(* service acts.                                                             *)
(*                                                                           *)
(* The argument: the audit entry, the code and the actor are each fixed by   *)
(* one step of the call and handed on by the later ones; the bodies carry    *)
(* the actor of the request that the router has overwritten.  What a request *)
(* passes on its way is shown by comparing the types that the layers have    *)
(* for a field, channel by channel; IpcReplyProofs does so for the replies.  *)
EXTENDS IpcBoundary, TLAPS

(* What has been decided of a call at each stage.                            *)

Stages ==
  {"idle", "sent", "refused", "admitted", "done", "answered", "replied", "delivered"}
Early == {"idle", "sent", "refused", "admitted", "done", "answered"}
Late == {"replied", "delivered"}
Log == <<IF reply.ok THEN "allowed" ELSE "denied">>
Mapped == AUTH_ERROR_CODES \ {"ADMIN_CONFIG_ROLLBACK_NOT_AVAILABLE"}

\* Nothing is answered before the call is admitted.
Unanswered == stage \in {"idle", "sent", "refused", "admitted"} => answer = NoAnswer

Carried ==
  /\ stage = "done" => answer = [NoAnswer EXCEPT !.done = TRUE]
  /\ stage = "answered" /\ answer.kind # "error" => answer.done
  /\ stage \in Late /\ reply.ok => answer.done

Logged ==
  /\ stage \in Early => audit = <<>>
  /\ stage \in Late => audit = Log
  /\ page = "data" => stage = "delivered" /\ reply.ok

Coded ==
  /\ stage = "answered" /\ answer.kind = "error" /\ answer.said \in AUTH_ERROR_CODES
       => answer.code = answer.said
  /\ stage \in Late /\ answer.kind = "error" /\ answer.said \in AUTH_ERROR_CODES
       => reply = Failure(answer.said)
  /\ stage = "delivered" /\ answer.kind = "error" /\ answer.said \in Mapped => page = "error"

CallInv == /\ stage \in Stages
           /\ Unanswered
           /\ Carried
           /\ Logged
           /\ Coded

LEMMA MappedCodesAreKnown == Mapped \subseteq KNOWN_ERROR_CODES
BY DEF Mapped, AUTH_ERROR_CODES, KNOWN_ERROR_CODES

\* A code of the service that the client knows is the one the handler throws with.
LEMMA CodeIsKept ==
  ASSUME NEW e \in ErrorEnvelopes \cup {NotAnEnvelope}, e.code \in AUTH_ERROR_CODES
  PROVE  throwMappedError(e) = e.code
<1>1. "" \notin AUTH_ERROR_CODES
  BY DEF AUTH_ERROR_CODES
<1>2. NotAnEnvelope.code = ""
  BY DEF NotAnEnvelope
<1>3. e # NotAnEnvelope
  BY <1>1, <1>2
<1>4. e.kind = "envelope"
  BY <1>3 DEF ErrorEnvelopes
<1> QED
  BY <1>4 DEF throwMappedError

LEMMA NoCodeUnsaid == "" \notin AUTH_ERROR_CODES
BY DEF AUTH_ERROR_CODES

(* What an answer says when it is an error.                                  *)
Truthful(a) ==
  a.kind = "error" /\ a.said \in AUTH_ERROR_CODES => a.code = a.said
LEMMA FailsTruthfully ==
  ASSUME NEW code, NEW said, NEW done,
         said \in AUTH_ERROR_CODES => code = said,
         Fails(code, said, done)
  PROVE  /\ stage' = "answered" /\ answer'.kind = "error" /\ Truthful(answer')
         /\ answer'.done = done
         /\ UNCHANGED <<call, body, audit, reply, page>>
BY DEF Fails, Answered, NoAnswer, Truthful

\* A request ends with what was done, or with an error that keeps the service's code.
Ending ==
  \/ Does
  \/ /\ stage' = "answered" /\ answer'.kind = "error" /\ Truthful(answer')
     /\ UNCHANGED <<call, body, audit, reply, page>>

LEMMA RequestEnds ==
  ASSUME NEW channels, Request(channels)
  PROVE  stage = "admitted" /\ Ending
<1>1. stage = "admitted"
  BY DEF Request, Asking
<1>2. CASE Refuses
  BY <1>1, <1>2, NoCodeUnsaid, FailsTruthfully DEF Refuses, Ending
<1>3. CASE \E e \in ErrorEnvelopes \cup {NotAnEnvelope} :
              Fails(throwMappedError(e), e.code, FALSE)
  BY <1>1, <1>3, CodeIsKept, FailsTruthfully DEF Ending
<1>4. CASE \E done \in BOOLEAN : Fails("INTERNAL_ERROR", "", done)
  BY <1>1, <1>4, NoCodeUnsaid, FailsTruthfully DEF Ending
<1>5. CASE Does
  BY <1>1, <1>5 DEF Ending
<1> QED
  BY <1>2, <1>3, <1>4, <1>5 DEF Request

\* The answer of a handler, whoever it asks.
LEMMA HandlerEnds ==
  ASSUME authPost \/ qcRequest \/ notificationsRequest \/ operationsRequest \/ requestText
         \/ LocalReturns \/ LocalThrows
  PROVE  stage = "admitted" /\ Ending
<1>1. CASE authPost \/ qcRequest \/ notificationsRequest \/ operationsRequest
  BY <1>1, RequestEnds DEF authPost, qcRequest, notificationsRequest, operationsRequest
<1>2. CASE requestText
  BY <1>2, NoCodeUnsaid, FailsTruthfully DEF requestText, Asking, Ending
<1>3. CASE LocalReturns
  BY <1>3 DEF LocalReturns, Ending
<1>4. CASE LocalThrows
  BY <1>4, NoCodeUnsaid, FailsTruthfully DEF LocalThrows, Ending
<1> QED
  BY <1>1, <1>2, <1>3, <1>4

LEMMA CallStarts == Init => CallInv
BY DEF Init, CallInv, Stages, Unanswered, Carried, Logged, Early, Late, Coded

LEMMA CallSteps ==
  ASSUME CallInv, [Next]_vars
  PROVE  CallInv'
<1> USE DEF Stages, Early, Late
<1>1. CASE Ask
  BY <1>1 DEF CallInv, Unanswered, Carried, Logged, Coded, Ask
<1>2. CASE RejectSender \/ RejectRequest \/ RejectActor
  <2>1. PICK code : Deny(code) /\ stage = "sent" /\ UNCHANGED <<call, body, answer, page>>
    BY <1>2 DEF RejectSender, RejectRequest, RejectActor
  <2> NoAnswer.kind = "none"
    BY DEF NoAnswer
  <2>2. answer' = NoAnswer /\ answer'.kind = "none"
    BY <2>1 DEF CallInv, Unanswered
  <2>3. audit' = <<"denied">> /\ ~reply'.ok /\ stage' = "replied" /\ page' # "data"
    BY <2>1 DEF CallInv, Logged, Deny, Failure
  <2> QED
    BY <2>2, <2>3 DEF CallInv, Unanswered, Carried, Logged, Log, Coded
<1>3. CASE Admit
  BY <1>3 DEF CallInv, Unanswered, Carried, Logged, Coded, Admit
<1>4. CASE stage = "admitted" /\ Ending
  <2>1. CASE Does
    BY <1>4, <2>1 DEF CallInv, Unanswered, Carried, Logged, Coded, Does
  <2>2. CASE ~Does
    <3>1. /\ stage' = "answered" /\ answer'.kind = "error" /\ Truthful(answer')
          /\ UNCHANGED <<call, body, audit, reply, page>>
      BY <1>4, <2>2 DEF Ending
    <3> QED
      BY <1>4, <3>1 DEF CallInv, Unanswered, Carried, Logged, Coded, Truthful
  <2> QED
    BY <2>1, <2>2
<1>5. CASE SelectionCanceled
  <2>1. answer'.kind = "canceled" /\ answer'.done /\ stage' = "answered" /\ stage = "admitted"
    BY <1>5 DEF SelectionCanceled, Answered, NoAnswer
  <2> QED
    BY <1>5, <2>1 DEF CallInv, Unanswered, Carried, Logged, Coded, SelectionCanceled, Answered
<1>6. CASE MapReply
  <2>1. stage = "done" /\ answer = [NoAnswer EXCEPT !.done = TRUE]
    BY <1>6 DEF CallInv, Carried, MapReply
  <2>2. PICK p : Answered([answer EXCEPT !.kind = "ok", !.probe = p, !.data = Returned(call, p)])
    BY <1>6 DEF MapReply
  <2>3. answer'.kind = "ok" /\ answer'.done
    BY <2>1, <2>2 DEF Answered, NoAnswer
  <2>4. stage' = "answered" /\ UNCHANGED <<call, body, audit, reply, page>>
    BY <2>2 DEF Answered
  <2> QED
    BY <2>1, <2>3, <2>4 DEF CallInv, Unanswered, Carried, Logged, Coded
<1>7. CASE Respond
  <2> stage = "answered" /\ audit = <<>> /\ page # "data"
    BY <1>7 DEF CallInv, Logged, Respond
  <2>1. stage' = "replied" /\ UNCHANGED <<call, body, answer, page>>
    BY <1>7 DEF Respond, Deny
  <2>2. audit' = <<IF reply'.ok THEN "allowed" ELSE "denied">>
    <3>1. Append(audit, "allowed") = <<"allowed">> /\ Append(audit, "denied") = <<"denied">>
      OBVIOUS
    <3>2. \A code : ~Failure(code).ok
      BY DEF Failure
    <3>3. (\E code : Deny(code)) \/ (audit' = Append(audit, "allowed") /\ reply' = Success)
      BY <1>7 DEF Respond
    <3>4. CASE \E code : Deny(code)
      <4>1. audit' = <<"denied">> /\ ~reply'.ok
        BY <3>1, <3>2, <3>4 DEF Deny
      <4> QED
        BY <4>1
    <3>5. CASE audit' = Append(audit, "allowed") /\ reply' = Success
      <4>1. audit' = <<"allowed">> /\ reply'.ok
        BY <3>1, <3>5 DEF Success
      <4> QED
        BY <4>1
    <3> QED
      BY <3>3, <3>4, <3>5
  <2>3. reply'.ok => answer.kind # "error"
    BY <1>7 DEF Respond, Deny, Failure
  <2>4. answer.kind = "error" /\ answer.said \in AUTH_ERROR_CODES => reply' = Failure(answer.said)
    BY <1>7 DEF Respond, Deny, CallInv, Coded
  <2> QED
    BY <2>1, <2>2, <2>3, <2>4 DEF CallInv, Unanswered, Carried, Logged, Log, Coded
<1>8. CASE Deliver
  <2>1. stage = "replied" /\ stage' = "delivered" /\ UNCHANGED <<call, body, answer, audit, reply>>
    BY <1>8 DEF Deliver
  <2>2. page' = "data" => reply.ok
    BY <1>8 DEF Deliver
  <2>3. ASSUME answer.kind = "error", answer.said \in Mapped
        PROVE  page' = "error"
    <3>1. answer.said \in AUTH_ERROR_CODES /\ answer.said \in KNOWN_ERROR_CODES
      BY <2>3, MappedCodesAreKnown DEF Mapped
    <3>2. ~reply.ok /\ reply.code = answer.said
      BY <2>1, <2>3, <3>1 DEF CallInv, Coded, Failure
    <3> QED
      BY <1>8, <3>1, <3>2 DEF Deliver
  <2> QED
    BY <2>1, <2>2, <2>3 DEF CallInv, Unanswered, Carried, Logged, Log, Coded
<1>9. CASE Return
  BY <1>9 DEF CallInv, Unanswered, Carried, Logged, Coded, Return
<1>10. CASE UNCHANGED vars
  BY <1>10 DEF vars, CallInv, Unanswered, Carried, Logged, Log, Coded
<1> QED
  BY <1>1, <1>2, <1>3, <1>4, <1>5, <1>6, <1>7, <1>8, <1>9, <1>10, HandlerEnds DEF Next

LEMMA CallHolds == Spec => []CallInv
<1>1. CallInv /\ [Next]_vars => CallInv'
  BY CallSteps
<1> QED
  BY CallStarts, <1>1, PTL DEF Spec

(* Every call that reached the router leaves one entry in the audit log, it  *)
(* says what the page was told, and the page has data only for a call that   *)
(* was carried out and logged as allowed.                                    *)
THEOREM AuditTellsTheOutcomeHolds == Spec => []AuditTellsTheOutcome
<1>1. CallInv => AuditTellsTheOutcome
  BY DEF CallInv, Carried, Logged, Log, Early, Late, AuditTellsTheOutcome
<1> QED
  BY <1>1, CallHolds, PTL

(* An error of the service that the client knows comes through the client,   *)
(* the router and the bridge under its own code; the bridge's list lacks one.*)
THEOREM ErrorKeepsItsCodeHolds == Spec => []ErrorKeepsItsCode
<1>1. ASSUME CallInv, stage = "delivered", answer.kind = "error", answer.said \in Mapped
      PROVE  page = "error" /\ reply.code = answer.said
  BY <1>1 DEF CallInv, Coded, Late, Mapped, Failure
<1>2. CallInv => ErrorKeepsItsCode
  BY <1>1 DEF ErrorKeepsItsCode, Mapped
<1> QED
  BY <1>2, CallHolds, PTL

(***************************************************************************)
(* For whom the service acts.                                              *)
(***************************************************************************)

(* The fields of {...g, ...f}.                                               *)
LEMMA MergedDomain == \A f, g, x : x \in DOMAIN (f ++ g) <=> x \in DOMAIN f \/ x \in DOMAIN g
BY DEF ++
LEMMA MergedFirst == \A f, g, x : x \in DOMAIN f => (f ++ g)[x] = f[x]
BY DEF ++
LEMMA MergedSecond == \A f, g, x : x \in DOMAIN g /\ x \notin DOMAIN f => (f ++ g)[x] = g[x]
BY DEF ++

(* Bodies: what a body says of the actor is what the request says of him.    *)
FieldOf(b, f, q, g) ==
  \/ Value(b, "self", f) = Absent
  \/ g \in DOMAIN q /\ Value(b, "self", f) = q[g]
ActsFor(b, q) == FieldOf(b, "actor_id", q, "actorId") /\ FieldOf(b, "actor_role", q, "actorRole")

LEMMA Sent ==
  ASSUME NEW b, "self" \in DOMAIN b, NEW f
  PROVE  /\ f \notin DOMAIN b["self"] => Value(OnTheWire(b), "self", f) = Absent
         /\ f \in DOMAIN b["self"] =>
              Value(OnTheWire(b), "self", f) \in {Absent, b["self"][f]}
BY DEF Value, OnTheWire

LEMMA ForActor ==
  ASSUME NEW b, "self" \in DOMAIN b, NEW q, {"actorId", "actorRole"} \subseteq DOMAIN q,
         NEW rest, b["self"] = ActorOf(q) ++ rest
  PROVE  ActsFor(OnTheWire(b), q)
<1> DEFINE a == ActorOf(q)
<1>1. /\ {"actor_id", "actor_role"} = DOMAIN a
      /\ a["actor_id"] = q["actorId"] /\ a["actor_role"] = q["actorRole"]
  BY DEF ActorOf
<1> HIDE DEF a
<1>2. /\ DOMAIN (a ++ rest) = DOMAIN a \cup DOMAIN rest
      /\ \A x \in DOMAIN a : (a ++ rest)[x] = a[x]
  BY ONLY MergedDomain, MergedFirst
<1>3. b["self"] = a ++ rest
  BY DEF a
<1>4. /\ {"actor_id", "actor_role"} \subseteq DOMAIN b["self"]
      /\ b["self"]["actor_id"] = q["actorId"] /\ b["self"]["actor_role"] = q["actorRole"]
  BY <1>1, <1>2, <1>3
<1> QED
  BY <1>4, Sent DEF ActsFor, FieldOf

LEMMA ForActorAlone ==
  ASSUME NEW b, "self" \in DOMAIN b, NEW q, {"actorId", "actorRole"} \subseteq DOMAIN q,
         b["self"] = ActorOf(q)
  PROVE  ActsFor(OnTheWire(b), q)
<1>1. /\ {"actor_id", "actor_role"} \subseteq DOMAIN b["self"]
      /\ b["self"]["actor_id"] = q["actorId"] /\ b["self"]["actor_role"] = q["actorRole"]
  BY DEF ActorOf
<1> QED
  BY <1>1, Sent DEF ActsFor, FieldOf

LEMMA ForId ==
  ASSUME NEW b, "self" \in DOMAIN b, NEW q, "actorId" \in DOMAIN q,
         "actor_role" \notin DOMAIN b["self"],
         "actor_id" \in DOMAIN b["self"] => b["self"]["actor_id"] \in {q["actorId"], Absent}
  PROVE  ActsFor(OnTheWire(b), q)
BY Sent DEF ActsFor, FieldOf

LEMMA ForNobody ==
  ASSUME NEW b, "self" \in DOMAIN b, NEW q,
         "actor_id" \notin DOMAIN b["self"], "actor_role" \notin DOMAIN b["self"]
  PROVE  ActsFor(OnTheWire(b), q)
BY Sent DEF ActsFor, FieldOf

LEMMA Outermost == \A fields : "self" \in DOMAIN One(fields) /\ One(fields)["self"] = fields
BY DEF One

LEMMA AuthBodies ==
  ASSUME NEW q, NEW c \in AuthChannels \cup {"QC_LIST_RULES"}
  PROVE  /\ "self" \in DOMAIN AuthBody(c, q)
         /\ {"actor_id", "actor_role"} \cap DOMAIN AuthBody(c, q)["self"] = {}
BY SMTT(60) DEF AuthBody, AuthChannels, loginBody, registerBody, verifyOtpBody,
   resetPasswordBody, listRulesQuery, One

LEMMA QcBodies ==
  ASSUME NEW q, NEW c \in {"QC_EVALUATE_PACK", "ADMIN_QC_POLICY_UPDATE"}
  PROVE  /\ "self" \in DOMAIN AuthBody(c, q)
         /\ \E rest : AuthBody(c, q)["self"] = ActorOf(q.self) ++ rest
BY SMTT(60) DEF AuthBody, evaluateBody, updateActivePolicyBody

LEMMA NotificationBodies ==
  ASSUME NEW q, NEW c \in {"NOTIFICATIONS_LIST", "NOTIFICATIONS_MARK_READ", "NOTIFICATIONS_RETRY"}
  PROVE  \E rest : AuthBody(c, q) = One(ActorOf(q.self) ++ rest)
BY SMTT(60) DEF AuthBody

LEMMA PlainBodies ==
  ASSUME NEW q,
         NEW c \in DirectoryChannels \cup {"NOTIFICATIONS_MARK_ALL_READ", "ADMIN_QC_POLICY_GET"}
  PROVE  AuthBody(c, q) = One(ActorOf(q.self))
BY SMTT(60) DEF AuthBody, DirectoryChannels

LEMMA OperationsBodies ==
  ASSUME NEW q,
         NEW c \in {"SCHEDULING_OVERRIDE", "SCHEDULING_TRIGGER_RELEASE",
                    "INTAKE_HANDOFF_CREATE", "INTAKE_HANDOFF_CONTROL", "INTAKE_LOCK",
                    "SUBMISSION_TRANSITION"}
  PROVE  \E rest : OperationsBody(c, q) = One(ActorOf(q.self) ++ rest)
BY SMTT(60) DEF OperationsBody, overrideScheduleBody, triggerReleaseBody,
   createHandoffBody, controlHandoffBody, lockBody, transitionBody

LEMMA OwnerBodies ==
  ASSUME NEW q,
         NEW c \in {"JOBS_REPLAY", "CREATOR_PROFILE_GET", "CREATOR_PROFILE_PUT",
                    "SUBMISSION_LIST", "SUBMISSION_TIMELINE"}
  PROVE  \E fields : /\ OperationsBody(c, q) = One(fields)
                     /\ "actor_role" \notin DOMAIN fields
                     /\ fields["actor_id"] \in {q.self["actorId"], Absent}
<1>1. CASE c = "JOBS_REPLAY"
  BY <1>1 DEF OperationsBody, replayJobBody
<1>2. CASE c = "CREATOR_PROFILE_GET"
  BY <1>2 DEF OperationsBody, profileQuery
<1>3. CASE c = "CREATOR_PROFILE_PUT"
  BY <1>3 DEF OperationsBody, putProfileBody
<1>4. CASE c \in {"SUBMISSION_LIST", "SUBMISSION_TIMELINE"}
  BY <1>4 DEF OperationsBody, ownerQuery
<1> QED
  BY <1>1, <1>2, <1>3, <1>4

LEMMA PlainWorkBodies ==
  ASSUME NEW q,
         NEW c \in {"JOBS_ENQUEUE", "SCHEDULING_RESOLVE", "OBSERVABILITY_INCIDENTS_ANNOTATE",
                    "SUBMISSION_METADATA", "SUBMISSION_AIRTABLE_SYNC",
                    "SUBMISSION_AIRTABLE_RESET", "INTAKE_SESSION_START", "INTAKE_MANIFEST_PUT"}
  PROVE  /\ "self" \in DOMAIN OperationsBody(c, q)
         /\ {"actor_id", "actor_role"} \cap DOMAIN OperationsBody(c, q)["self"] = {}
BY SMTT(60) DEF OperationsBody, enqueueJobBody, resolveScheduleBody, annotateIncidentBody,
   metadataBody, syncAirtableBody, startSessionBody, putManifestBody, One

LEMMA DraftBodies ==
  ASSUME NEW q
  PROVE  \E fields : /\ OperationsBody("SUBMISSION_DRAFT", q) = One(fields)
                     /\ {"actor_id", "actor_role"} \cap DOMAIN fields = {}
<1> DEFINE m == metadataBody(q.self)["self"]
           s == [submission_id |-> q.self.submissionId]
<1>1. OperationsBody("SUBMISSION_DRAFT", q) = One(m ++ s)
  BY DEF OperationsBody, draftBody
<1>2. {"actor_id", "actor_role"} \cap DOMAIN m = {}
  BY DEF metadataBody, One
<1>3. DOMAIN s = {"submission_id"}
  OBVIOUS
<1> HIDE DEF m, s
<1>4. DOMAIN (m ++ s) = DOMAIN m \cup DOMAIN s
  BY MergedDomain
<1> QED
  BY <1>1, <1>2, <1>3, <1>4

LEMMA AdminBodies ==
  ASSUME NEW q, NEW c \in AdminChannels
  PROVE  \E rest : AdminBody(c, q) = One(ActorOf(q) ++ rest)
BY SMTT(60) DEF AdminChannels, AdminBody, reviewQueueQuery, decideReviewBody, rejectReviewBody,
   addTagBody, addFlagBody, listConfigsQuery, draftConfigBody, decideConfigBody,
   testIntegrationBody, rotateIntegrationBody, configureAirtableBody, configureSmtpBody,
   updateDropboxTokensBody, configureDropboxAppBody, startOauthBody, completeOauthBody,
   opsHistoryQuery

(* The channels by what their bodies say of the actor: who he is and in what *)
(* role; who he is; nothing.                                                 *)
ActingWork ==
  {"SCHEDULING_OVERRIDE", "SCHEDULING_TRIGGER_RELEASE", "INTAKE_HANDOFF_CREATE",
   "INTAKE_HANDOFF_CONTROL", "INTAKE_LOCK", "SUBMISSION_TRANSITION"}
PlainWork ==
  {"JOBS_ENQUEUE", "SCHEDULING_RESOLVE", "OBSERVABILITY_INCIDENTS_ANNOTATE",
   "SUBMISSION_DRAFT", "SUBMISSION_METADATA", "SUBMISSION_AIRTABLE_SYNC",
   "SUBMISSION_AIRTABLE_RESET", "INTAKE_SESSION_START", "INTAKE_MANIFEST_PUT"}
Acting ==
  {"QC_EVALUATE_PACK", "ADMIN_QC_POLICY_GET", "ADMIN_QC_POLICY_UPDATE"}
    \cup NotificationChannels \cup DirectoryChannels \cup AdminChannels \cup ActingWork
Owning ==
  {"JOBS_REPLAY", "CREATOR_PROFILE_GET", "CREATOR_PROFILE_PUT", "SUBMISSION_LIST",
   "SUBMISSION_TIMELINE"}
Impersonal == AuthChannels \cup {"QC_LIST_RULES"} \cup AuditChannels \cup PlainWork

LEMMA EveryBodyIsOneOfThem == DOMAIN Api!ApiRequests \subseteq Acting \cup Owning \cup Impersonal
BY SMTT(60) DEF Api!ApiRequests, Api!++, Acting, Owning, Impersonal, ActingWork, PlainWork,
   AuthChannels, NotificationChannels, DirectoryChannels, AdminChannels, AuditChannels

\* Each channel has one contract: the parts of the registry have no channel in common.
LEMMA ContractsOf ==
  /\ \A c \in DOMAIN AuthContracts : IPC_CONTRACT_REGISTRY[c] = AuthContracts[c]
  /\ \A c \in DOMAIN DesktopContracts : IPC_CONTRACT_REGISTRY[c] = DesktopContracts[c]
  /\ \A c \in DOMAIN QcContracts : IPC_CONTRACT_REGISTRY[c] = QcContracts[c]
  /\ \A c \in DOMAIN NotificationContracts : IPC_CONTRACT_REGISTRY[c] = NotificationContracts[c]
  /\ \A c \in DOMAIN ReviewContracts : IPC_CONTRACT_REGISTRY[c] = ReviewContracts[c]
  /\ \A c \in DOMAIN AdminContracts : IPC_CONTRACT_REGISTRY[c] = AdminContracts[c]
  /\ \A c \in DOMAIN OperationsContracts : IPC_CONTRACT_REGISTRY[c] = OperationsContracts[c]
  /\ \A c \in DOMAIN CreatorContracts : IPC_CONTRACT_REGISTRY[c] = CreatorContracts[c]
  /\ \A c \in DOMAIN IntakeContracts : IPC_CONTRACT_REGISTRY[c] = IntakeContracts[c]
  /\ \A c \in DOMAIN TransitionContracts : IPC_CONTRACT_REGISTRY[c] = TransitionContracts[c]
  /\ \A c \in DOMAIN ShieldContracts : IPC_CONTRACT_REGISTRY[c] = ShieldContracts[c]
<1> DEFINE accounts == AuthContracts ++ DesktopContracts ++ QcContracts ++ NotificationContracts
           offices == ReviewContracts ++ AdminContracts ++ OperationsContracts
           work == CreatorContracts ++ IntakeContracts ++ TransitionContracts ++ ShieldContracts
<1>1. DOMAIN AuthContracts =
        {"AUTH_GET_SESSION", "AUTH_LOGIN", "AUTH_REGISTER", "AUTH_OTP_SEND", "AUTH_OTP_VERIFY",
         "AUTH_FORGOT_PASSWORD", "AUTH_RESET_PASSWORD"}
  BY DEF AuthContracts
<1>2. DOMAIN DesktopContracts =
        {"DESKTOP_VERIFY_SECURITY", "AUDIT_LIST_SECURITY_EVENTS", "AUDIT_EVENTS_LIST",
         "AUDIT_EVENTS_EXPORT"}
  BY DEF DesktopContracts
<1>3. DOMAIN QcContracts =
        {"QC_EVALUATE_PACK", "QC_LIST_RULES", "QC_RESULTS_GET", "QC_REPORT_EXPORT"}
  BY DEF QcContracts
<1>4. DOMAIN NotificationContracts = NotificationChannels
  BY DEF NotificationContracts, NotificationChannels
<1>5. DOMAIN ReviewContracts =
        {"REVIEW_QUEUE_LIST", "REVIEW_SUBMISSION_GET", "REVIEW_APPROVE", "REVIEW_REJECT",
         "REVIEW_TAG_ADD", "REVIEW_FLAG_ADD", "REVIEW_REOPEN"}
  BY DEF ReviewContracts
<1>6. DOMAIN AdminContracts =
        {"ADMIN_CONFIGS_LIST", "ADMIN_CONFIGS_DRAFT", "ADMIN_CONFIGS_PUBLISH",
         "ADMIN_CONFIGS_ROLLBACK", "ADMIN_INTEGRATIONS_HEALTH_LIST", "ADMIN_INTEGRATIONS_TEST",
         "ADMIN_INTEGRATIONS_ROTATE", "ADMIN_INTEGRATIONS_AIRTABLE_CONFIGURE",
         "ADMIN_INTEGRATIONS_SMTP_CONFIGURE", "ADMIN_INTEGRATIONS_DROPBOX_TOKENS_UPDATE",
         "ADMIN_INTEGRATIONS_DROPBOX_APP_CONFIGURE", "ADMIN_DROPBOX_READINESS_GET",
         "ADMIN_DROPBOX_OAUTH_START", "ADMIN_DROPBOX_OAUTH_COMPLETE",
         "ADMIN_DROPBOX_OAUTH_DESKTOP_START", "ADMIN_DROPBOX_OAUTH_DESKTOP_STATUS",
         "ADMIN_OPS_HISTORY_LIST", "ADMIN_QC_POLICY_GET", "ADMIN_QC_POLICY_UPDATE"}
  BY DEF AdminContracts
<1>7. DOMAIN OperationsContracts =
        {"JOBS_ENQUEUE", "JOBS_GET", "JOBS_REPLAY", "SCHEDULING_RESOLVE", "SCHEDULING_OVERRIDE",
         "SCHEDULING_TRIGGER_RELEASE", "OBSERVABILITY_METRICS_GET",
         "OBSERVABILITY_INCIDENTS_ANNOTATE"}
  BY DEF OperationsContracts
<1>8. DOMAIN CreatorContracts =
        {"CREATOR_PROFILE_GET", "CREATOR_PROFILE_PUT", "SUBMISSION_DRAFT", "SUBMISSION_METADATA",
         "SUBMISSION_LIST", "SUBMISSION_TIMELINE", "SUBMISSION_AIRTABLE_SYNC",
         "SUBMISSION_AIRTABLE_RESET"}
  BY DEF CreatorContracts
<1>9. DOMAIN IntakeContracts =
        {"INTAKE_FOLDER_SELECT", "INTAKE_SESSION_START", "INTAKE_MANIFEST_PUT",
         "INTAKE_HANDOFF_CREATE", "INTAKE_HANDOFF_STATUS_GET", "INTAKE_HANDOFF_CONTROL",
         "INTAKE_LOCK"}
  BY DEF IntakeContracts
<1>10. DOMAIN TransitionContracts = {"SUBMISSION_TRANSITION"}
  BY DEF TransitionContracts
<1>11. DOMAIN ShieldContracts = {"DESKTOP_PRIVACY_SHIELD_TOGGLE", "DESKTOP_PRIVACY_SHIELD_STATUS"}
  BY DEF ShieldContracts
<1>12. IPC_CONTRACT_REGISTRY = accounts ++ offices ++ work
  BY DEF IPC_CONTRACT_REGISTRY
<1>13. /\ \A c \in DOMAIN AuthContracts : c \in DOMAIN accounts /\ accounts[c] = AuthContracts[c]
       /\ \A c \in DOMAIN DesktopContracts :
             c \in DOMAIN accounts /\ accounts[c] = DesktopContracts[c]
       /\ \A c \in DOMAIN QcContracts : c \in DOMAIN accounts /\ accounts[c] = QcContracts[c]
       /\ \A c \in DOMAIN NotificationContracts :
             c \in DOMAIN accounts /\ accounts[c] = NotificationContracts[c]
  BY <1>1, <1>2, <1>3, <1>4, MergedDomain, MergedFirst, MergedSecond DEF NotificationChannels
<1>14. /\ \A c \in DOMAIN ReviewContracts : c \in DOMAIN offices /\ offices[c] = ReviewContracts[c]
       /\ \A c \in DOMAIN AdminContracts : c \in DOMAIN offices /\ offices[c] = AdminContracts[c]
       /\ \A c \in DOMAIN OperationsContracts :
             c \in DOMAIN offices /\ offices[c] = OperationsContracts[c]
  BY <1>5, <1>6, <1>7, MergedDomain, MergedFirst, MergedSecond
<1>15. /\ \A c \in DOMAIN CreatorContracts : c \in DOMAIN work /\ work[c] = CreatorContracts[c]
       /\ \A c \in DOMAIN IntakeContracts : c \in DOMAIN work /\ work[c] = IntakeContracts[c]
       /\ \A c \in DOMAIN TransitionContracts :
             c \in DOMAIN work /\ work[c] = TransitionContracts[c]
       /\ \A c \in DOMAIN ShieldContracts : c \in DOMAIN work /\ work[c] = ShieldContracts[c]
  BY <1>8, <1>9, <1>10, <1>11, MergedDomain, MergedFirst, MergedSecond
<1>16. /\ \A c \in DOMAIN ReviewContracts \cup DOMAIN AdminContracts \cup DOMAIN OperationsContracts :
             c \notin DOMAIN accounts
       /\ \A c \in DOMAIN CreatorContracts \cup DOMAIN IntakeContracts
                  \cup DOMAIN TransitionContracts \cup DOMAIN ShieldContracts :
             c \notin DOMAIN accounts /\ c \notin DOMAIN offices
  BY SMTT(30), <1>1, <1>2, <1>3, <1>4, <1>5, <1>6, <1>7, <1>8, <1>9, <1>10, <1>11, MergedDomain
     DEF NotificationChannels
<1> HIDE DEF accounts, offices, work
<1>17. /\ \A c \in DOMAIN accounts : IPC_CONTRACT_REGISTRY[c] = accounts[c]
       /\ \A c \in DOMAIN offices : c \notin DOMAIN accounts => IPC_CONTRACT_REGISTRY[c] = offices[c]
       /\ \A c \in DOMAIN work : c \notin DOMAIN accounts /\ c \notin DOMAIN offices =>
             IPC_CONTRACT_REGISTRY[c] = work[c]
  BY <1>12, MergedDomain, MergedFirst, MergedSecond
<1> QED
  BY <1>13, <1>14, <1>15, <1>16, <1>17

NamesActor(schema) == {"actorId", "actorRole"} \subseteq DOMAIN schema

LEMMA ActingRequestsNameTheirActor ==
  ASSUME NEW c \in Acting
  PROVE  NamesActor(IPC_CONTRACT_REGISTRY[c].request)
<1>1. CASE c = "QC_EVALUATE_PACK"
  <2>1. c \in DOMAIN QcContracts /\ NamesActor(QcContracts[c].request)
    BY <1>1 DEF QcContracts, Everyone, Contract, QcEvaluatePackRequestSchema, NamesActor
  <2> QED
    BY <2>1, ContractsOf
<1>2. CASE c \in NotificationChannels
  <2>1. c \in DOMAIN NotificationContracts /\ NamesActor(NotificationContracts[c].request)
    BY <1>2 DEF NotificationChannels, NotificationContracts, Everyone, Reviewers, Contract,
       NotificationsListRequestSchema, NotificationsMarkReadRequestSchema,
       NotificationsMarkAllReadRequestSchema, NotificationsRetryRequestSchema, NamesActor
  <2> QED
    BY <2>1, ContractsOf
<1>3. CASE c \in {"REVIEW_QUEUE_LIST", "REVIEW_SUBMISSION_GET", "REVIEW_APPROVE", "REVIEW_REJECT",
                  "REVIEW_TAG_ADD", "REVIEW_FLAG_ADD", "REVIEW_REOPEN"}
  <2>1. c \in DOMAIN ReviewContracts /\ NamesActor(ReviewContracts[c].request)
    BY <1>3 DEF ReviewContracts, Reviewers, Contract, ReviewQueueListRequestSchema,
       ReviewSubmissionGetRequestSchema, ReviewApproveRequestSchema, ReviewRejectRequestSchema,
       ReviewTagAddRequestSchema, ReviewFlagAddRequestSchema, ReviewReopenRequestSchema,
       NamesActor
  <2> QED
    BY <2>1, ContractsOf
<1>4. CASE c \in {"ADMIN_CONFIGS_LIST", "ADMIN_CONFIGS_DRAFT", "ADMIN_CONFIGS_PUBLISH",
                  "ADMIN_CONFIGS_ROLLBACK", "ADMIN_INTEGRATIONS_HEALTH_LIST",
                  "ADMIN_INTEGRATIONS_TEST", "ADMIN_INTEGRATIONS_ROTATE"}
  <2>1. c \in DOMAIN AdminContracts /\ NamesActor(AdminContracts[c].request)
    BY <1>4 DEF AdminContracts, Admins, Contract, AdminConfigsListRequestSchema,
       AdminConfigDraftRequestSchema, AdminConfigPublishRequestSchema,
       AdminConfigRollbackRequestSchema, AdminIntegrationHealthListRequestSchema,
       AdminIntegrationTestRequestSchema, AdminIntegrationRotateRequestSchema, NamesActor
  <2> QED
    BY <2>1, ContractsOf
<1>5. CASE c \in {"ADMIN_INTEGRATIONS_AIRTABLE_CONFIGURE", "ADMIN_INTEGRATIONS_SMTP_CONFIGURE",
                  "ADMIN_INTEGRATIONS_DROPBOX_TOKENS_UPDATE",
                  "ADMIN_INTEGRATIONS_DROPBOX_APP_CONFIGURE"}
  <2>1. c \in DOMAIN AdminContracts /\ NamesActor(AdminContracts[c].request)
    BY <1>5 DEF AdminContracts, Admins, Contract, AdminAirtableConfigureRequestSchema,
       AdminSmtpConfigureRequestSchema, AdminDropboxTokensUpdateRequestSchema,
       AdminDropboxAppConfigureRequestSchema, NamesActor
  <2> QED
    BY <2>1, ContractsOf
<1>6. CASE c \in {"ADMIN_DROPBOX_READINESS_GET", "ADMIN_DROPBOX_OAUTH_START",
                  "ADMIN_DROPBOX_OAUTH_COMPLETE", "ADMIN_OPS_HISTORY_LIST"}
  <2>1. c \in DOMAIN AdminContracts /\ NamesActor(AdminContracts[c].request)
    BY <1>6 DEF AdminContracts, Admins, Contract, AdminDropboxReadinessRequestSchema,
       AdminDropboxOauthStartRequestSchema, AdminDropboxOauthCompleteRequestSchema,
       AdminOpsHistoryListRequestSchema, NamesActor
  <2> QED
    BY <2>1, ContractsOf
<1>7. CASE c \in {"ADMIN_QC_POLICY_GET", "ADMIN_QC_POLICY_UPDATE"}
  <2>1. c \in DOMAIN AdminContracts /\ NamesActor(AdminContracts[c].request)
    BY <1>7 DEF AdminContracts, Admins, Contract, AdminActorRequestSchema,
       AdminQcPolicyGetRequestSchema, AdminQcPolicyUpdateRequestSchema, NamesActor
  <2> QED
    BY <2>1, ContractsOf
<1>8. CASE c \in {"SCHEDULING_OVERRIDE", "SCHEDULING_TRIGGER_RELEASE"}
  <2>1. c \in DOMAIN OperationsContracts /\ NamesActor(OperationsContracts[c].request)
    BY <1>8 DEF OperationsContracts, Reviewers, Admins, Contract,
       SchedulingOverrideRequestSchema, SchedulingTriggerReleaseRequestSchema, NamesActor
  <2> QED
    BY <2>1, ContractsOf
<1>9. CASE c \in {"INTAKE_HANDOFF_CREATE", "INTAKE_HANDOFF_CONTROL", "INTAKE_LOCK"}
  <2>1. c \in DOMAIN IntakeContracts /\ NamesActor(IntakeContracts[c].request)
    BY <1>9 DEF IntakeContracts, Creators, Contract, IntakeHandoffCreateRequestSchema,
       StorageHandoffControlRequestSchema, IntakeLockRequestSchema, NamesActor
  <2> QED
    BY <2>1, ContractsOf
<1>10. CASE c = "SUBMISSION_TRANSITION"
  <2>1. c \in DOMAIN TransitionContracts /\ NamesActor(TransitionContracts[c].request)
    BY <1>10 DEF TransitionContracts, Everyone, Contract, SubmissionTransitionRequestSchema,
       NamesActor
  <2> QED
    BY <2>1, ContractsOf
<1> QED
  BY <1>1, <1>2, <1>3, <1>4, <1>5, <1>6, <1>7, <1>8, <1>9, <1>10
     DEF Acting, DirectoryChannels, AdminChannels, ActingWork

LEMMA OwningRequestsNameTheirActor ==
  ASSUME NEW c \in Owning
  PROVE  "actorId" \in DOMAIN IPC_CONTRACT_REGISTRY[c].request
<1>1. CASE c = "JOBS_REPLAY"
  <2>1. c \in DOMAIN OperationsContracts /\ "actorId" \in DOMAIN OperationsContracts[c].request
    BY <1>1 DEF OperationsContracts, Admins, Contract, JobsReplayRequestSchema
  <2> QED
    BY <2>1, ContractsOf
<1>2. CASE c # "JOBS_REPLAY"
  <2>1. c \in DOMAIN CreatorContracts /\ "actorId" \in DOMAIN CreatorContracts[c].request
    BY <1>2 DEF Owning, CreatorContracts, Everyone, Contract, CreatorProfileRequestSchema,
       CreatorProfilePutRequestSchema, SubmissionListRequestSchema,
       SubmissionTimelineRequestSchema
  <2> QED
    BY <2>1, ContractsOf
<1> QED
  BY <1>1, <1>2

\* What the client sends names the actor of the request it was given.
LEMMA BodyActsFor ==
  ASSUME NEW c \in DOMAIN Api!ApiRequests, NEW q,
         DOMAIN IPC_CONTRACT_REGISTRY[c].request \subseteq DOMAIN q["self"]
  PROVE  ActsFor(Body(c, q), q["self"])
<1> DEFINE built == IF c \in AccountChannels \cup DirectoryChannels THEN AuthBody(c, q)
                    ELSE IF c \in AdminChannels \cup AuditChannels THEN AdminBody(c, q.self)
                    ELSE OperationsBody(c, q)
<1>1. Body(c, q) = OnTheWire(built)
  BY DEF Body
<1>2. CASE c \in Acting
  <2>1. {"actorId", "actorRole"} \subseteq DOMAIN q["self"]
    BY <1>2, ActingRequestsNameTheirActor DEF NamesActor
  <2>2. /\ "self" \in DOMAIN built
        /\ \/ built["self"] = ActorOf(q["self"])
           \/ \E rest : built["self"] = ActorOf(q["self"]) ++ rest
    <3>1. CASE c \in {"QC_EVALUATE_PACK", "ADMIN_QC_POLICY_UPDATE"}
      BY <3>1, QcBodies DEF AccountChannels, QcChannels
    <3>2. CASE c \in {"NOTIFICATIONS_LIST", "NOTIFICATIONS_MARK_READ", "NOTIFICATIONS_RETRY"}
      BY SMTT(30), <3>2, NotificationBodies, Outermost DEF AccountChannels, NotificationChannels
    <3>3. CASE c \in DirectoryChannels \cup {"NOTIFICATIONS_MARK_ALL_READ", "ADMIN_QC_POLICY_GET"}
      BY <3>3, PlainBodies, Outermost DEF AccountChannels, NotificationChannels, QcChannels
    <3>4. CASE c \in AdminChannels
      <4>1. c \notin AccountChannels \cup DirectoryChannels
        BY <3>4 DEF AdminChannels, AccountChannels, DirectoryChannels, AuthChannels, QcChannels,
           NotificationChannels
      <4> QED
        BY <3>4, <4>1, AdminBodies, Outermost
    <3>5. CASE c \in ActingWork
      <4>1. c \notin AccountChannels \cup DirectoryChannels /\ c \notin AdminChannels \cup AuditChannels
        BY <3>5 DEF ActingWork, AdminChannels, AuditChannels, AccountChannels, DirectoryChannels,
           AuthChannels, QcChannels, NotificationChannels
      <4>2. built = OperationsBody(c, q)
        BY <4>1
      <4>3. \E rest : built = One(ActorOf(q["self"]) ++ rest)
        BY <3>5, <4>2, OperationsBodies DEF ActingWork
      <4> HIDE DEF built
      <4> QED
        BY <4>3, Outermost
    <3> QED
      BY <1>2, <3>1, <3>2, <3>3, <3>4, <3>5 DEF Acting, NotificationChannels
  <2> HIDE DEF built
  <2> QED
    BY <1>1, <2>1, <2>2, ForActor, ForActorAlone
<1>3. CASE c \in Owning
  <2>1. "actorId" \in DOMAIN q["self"]
    BY <1>3, OwningRequestsNameTheirActor
  <2>2. built = OperationsBody(c, q)
    BY <1>3 DEF Owning, AdminChannels, AuditChannels, AccountChannels, DirectoryChannels,
       AuthChannels, QcChannels, NotificationChannels
  <2>3. \E fields : /\ built = One(fields)
                    /\ "actor_role" \notin DOMAIN fields
                    /\ fields["actor_id"] \in {q["self"]["actorId"], Absent}
    BY <1>3, <2>2, OwnerBodies DEF Owning
  <2> HIDE DEF built
  <2> QED
    BY <1>1, <2>1, <2>3, ForId, Outermost
<1>4. CASE c \in Impersonal
  <2>1. /\ "self" \in DOMAIN built
        /\ {"actor_id", "actor_role"} \cap DOMAIN built["self"] = {}
    <3>1. CASE c \in AuthChannels \cup {"QC_LIST_RULES"}
      BY <3>1, AuthBodies DEF AccountChannels, QcChannels
    <3>2. CASE c \in AuditChannels
      <4>1. c \notin AccountChannels \cup DirectoryChannels
        BY <3>2 DEF AuditChannels, AccountChannels, DirectoryChannels, AuthChannels, QcChannels,
           NotificationChannels
      <4>2. AdminBody(c, q.self) = One([limit |-> q.self.limit])
        BY <3>2 DEF AuditChannels, AdminBody
      <4> QED
        BY <3>2, <4>1, <4>2, Outermost
    <3>3. CASE c \in PlainWork
      <4>1. built = OperationsBody(c, q)
        BY <3>3 DEF PlainWork, AdminChannels, AuditChannels, AccountChannels, DirectoryChannels,
           AuthChannels, QcChannels, NotificationChannels
      <4>2. CASE c = "SUBMISSION_DRAFT"
        BY <4>1, <4>2, DraftBodies, Outermost
      <4>3. CASE c # "SUBMISSION_DRAFT"
        BY <3>3, <4>1, <4>3, PlainWorkBodies DEF PlainWork
      <4> QED
        BY <4>2, <4>3
    <3> QED
      BY <1>4, <3>1, <3>2, <3>3 DEF Impersonal
  <2> HIDE DEF built
  <2> QED
    BY <1>1, <2>1, ForNobody
<1> QED
  BY <1>2, <1>3, <1>4, EveryBodyIsOneOfThem

LEMMA BodiesHaveContracts == DOMAIN Api!ApiRequests \subseteq IPC_CHANNELS
<1>1. UNION {DOMAIN AuthContracts, DOMAIN DesktopContracts, DOMAIN QcContracts,
             DOMAIN NotificationContracts, DOMAIN ReviewContracts, DOMAIN AdminContracts,
             DOMAIN OperationsContracts, DOMAIN CreatorContracts, DOMAIN IntakeContracts,
             DOMAIN TransitionContracts} \subseteq IPC_CHANNELS
  BY MergedDomain DEF IPC_CHANNELS, IPC_CONTRACT_REGISTRY
<1>2. AuthChannels \subseteq DOMAIN AuthContracts
  BY DEF AuthChannels, AuthContracts
<1>3. AuditChannels \subseteq DOMAIN DesktopContracts
  BY DEF AuditChannels, DesktopContracts
<1>4. {"QC_EVALUATE_PACK", "QC_LIST_RULES"} \subseteq DOMAIN QcContracts
  BY DEF QcContracts
<1>5. NotificationChannels \subseteq DOMAIN NotificationContracts
  BY DEF NotificationChannels, NotificationContracts
<1>6. DirectoryChannels \cup AdminChannels \cup {"ADMIN_QC_POLICY_GET", "ADMIN_QC_POLICY_UPDATE"}
        \subseteq DOMAIN ReviewContracts \cup DOMAIN AdminContracts
  BY DEF DirectoryChannels, AdminChannels, ReviewContracts, AdminContracts
<1>7. ActingWork \cup PlainWork \cup Owning
        \subseteq UNION {DOMAIN OperationsContracts, DOMAIN CreatorContracts,
                        DOMAIN IntakeContracts, DOMAIN TransitionContracts}
  BY DEF ActingWork, PlainWork, Owning, OperationsContracts, CreatorContracts, IntakeContracts,
     TransitionContracts
<1> QED
  BY <1>1, <1>2, <1>3, <1>4, <1>5, <1>6, <1>7, EveryBodyIsOneOfThem DEF Acting, Impersonal

(* The payload the page asks with has the fields of the request's schema,    *)
(* and the one the handler is given has the session's actor in them.         *)
LEMMA PayloadHasItsFields ==
  ASSUME NEW c \in IPC_CHANNELS, NEW p
  PROVE  /\ "self" \in DOMAIN Probed(TypicalRequests[c], p)
         /\ DOMAIN IPC_CONTRACT_REGISTRY[c].request
              \subseteq DOMAIN Probed(TypicalRequests[c], p)["self"]
<1> DEFINE schema == IPC_CONTRACT_REGISTRY[c].request
           inner == [s \in Mentioned(schema) |-> Nested[s]]
           outer == [self |-> schema]
<1>1. RequestSchemas[c] = outer ++ inner
  BY DEF RequestSchemas, Closed
<1>2. "self" \in DOMAIN outer /\ outer["self"] = schema
  OBVIOUS
<1> HIDE DEF outer, inner, schema
<1>3. "self" \in DOMAIN RequestSchemas[c] /\ RequestSchemas[c]["self"] = schema
  BY <1>1, <1>2, MergedDomain, MergedFirst
<1>4. /\ "self" \in DOMAIN TypicalRequests[c]
      /\ DOMAIN schema \subseteq DOMAIN TypicalRequests[c]["self"]
  BY <1>3 DEF TypicalRequests
<1>5. /\ DOMAIN Probed(TypicalRequests[c], p) = DOMAIN TypicalRequests[c]
      /\ DOMAIN Probed(TypicalRequests[c], p)["self"] = DOMAIN TypicalRequests[c]["self"]
  BY <1>4 DEF Probed
<1> QED
  BY <1>4, <1>5 DEF schema

LEMMA ActorOfTheSession ==
  ASSUME NEW k, "self" \in DOMAIN k.payload
  PROVE  /\ DOMAIN Canonical(k)["self"] = DOMAIN k.payload["self"]
         /\ "actorId" \in DOMAIN k.payload["self"]
              => Canonical(k)["self"]["actorId"] \in {SessionActor, Absent}
         /\ "actorRole" \in DOMAIN k.payload["self"]
              => Canonical(k)["self"]["actorRole"] \in
                   {Str(resolvePrimaryActorRole(k.roles)), Absent}
<1> DEFINE own == k.payload["self"]
           role == Str(resolvePrimaryActorRole(k.roles))
           new == [f \in DOMAIN own |-> IF own[f] = Absent THEN Absent
                                        ELSE IF f = "actorId" THEN SessionActor
                                        ELSE IF f = "actorRole" THEN role ELSE own[f]]
<1>1. Canonical(k) = [k.payload EXCEPT !["self"] = new]
  BY DEF Canonical, applyActorContextToPayload
<1>2. Canonical(k)["self"] = new
  BY <1>1
<1>3. /\ DOMAIN new = DOMAIN own
      /\ "actorId" \in DOMAIN own => new["actorId"] \in {SessionActor, Absent}
      /\ "actorRole" \in DOMAIN own => new["actorRole"] \in {role, Absent}
  OBVIOUS
<1> QED
  BY <1>2, <1>3

LEMMA FramesOfTheCalls == \A c : \A k \in Calls(c) : k.sender \in Senders
<1>1. PageFrame \in Senders
  BY DEF PageFrame, Senders
<1> QED
  BY <1>1 DEF Calls, Variants

LEMMA TrustedFrames ==
  ASSUME NEW sender \in Senders, isTrustedSender(sender)
  PROVE  sender \in {PageFrame, [PageFrame EXCEPT !.top = "none"]}
BY DEF Senders, isTrustedSender, PageFrame

(* The call waits for the router with its frame and fields; once it is       *)
(* admitted, what is done is done for the session.                           *)
Asked ==
  stage = "sent" =>
    /\ call.sender \in Senders
    /\ HasBody(call) => /\ "self" \in DOMAIN call.payload
                        /\ DOMAIN IPC_CONTRACT_REGISTRY[call.channel].request
                             \subseteq DOMAIN call.payload["self"]
ForTheSession ==
  /\ call.sender \in {PageFrame, [PageFrame EXCEPT !.top = "none"]}
  /\ call.roles \cap IPC_CONTRACT_REGISTRY[call.channel].allowedRoles # {}
  /\ Value(body, "self", "actor_id") \in {SessionActor, Absent}
  /\ Value(body, "self", "actor_role") \in {Str(resolvePrimaryActorRole(call.roles)), Absent}
SessionInv == /\ CallInv
              /\ Asked
              /\ stage = "admitted" \/ answer.done => ForTheSession

LEMMA NothingSaid == ~NoAnswer.done
BY DEF NoAnswer

LEMMA SessionStarts == Init => SessionInv
BY CallStarts, NothingSaid DEF Init, SessionInv, Asked

LEMMA AdmitIsForTheSession ==
  ASSUME Asked, Admit
  PROVE  ForTheSession'
<1>1. call' = call /\ stage = "sent"
  BY DEF Admit
<1>2. call.sender \in {PageFrame, [PageFrame EXCEPT !.top = "none"]}
  BY <1>1, TrustedFrames DEF Admit, Asked
<1>3. call.roles \cap IPC_CONTRACT_REGISTRY[call.channel].allowedRoles # {}
  BY DEF Admit, hasAllowedRole
<1>4. CASE HasBody(call)
  <2> DEFINE q == Canonical(call)
             own == call.payload["self"]
  <2>1. body' = Body(call.channel, q)
    BY <1>4 DEF Admit
  <2>2. /\ "self" \in DOMAIN call.payload
        /\ DOMAIN IPC_CONTRACT_REGISTRY[call.channel].request \subseteq DOMAIN own
    BY <1>1, <1>4 DEF Asked
  <2>3. /\ DOMAIN q["self"] = DOMAIN own
        /\ "actorId" \in DOMAIN own => q["self"]["actorId"] \in {SessionActor, Absent}
        /\ "actorRole" \in DOMAIN own =>
              q["self"]["actorRole"] \in {Str(resolvePrimaryActorRole(call.roles)), Absent}
    BY <2>2, ActorOfTheSession
  <2> HIDE DEF q, own
  <2>4. ActsFor(body', q["self"])
    BY <1>4, <2>1, <2>2, <2>3, BodyActsFor DEF HasBody
  <2>5. /\ Value(body', "self", "actor_id") \in {SessionActor, Absent}
        /\ Value(body', "self", "actor_role") \in
              {Str(resolvePrimaryActorRole(call.roles)), Absent}
    BY <2>3, <2>4 DEF ActsFor, FieldOf
  <2> QED
    BY <1>1, <1>2, <1>3, <2>5 DEF ForTheSession
<1>5. CASE ~HasBody(call)
  <2>1. body' = NoPayload
    BY <1>5 DEF Admit
  <2>2. \A f \in {"actor_id", "actor_role"} : Value(NoPayload, "self", f) = Absent
    BY DEF Value, NoPayload
  <2> QED
    BY <1>1, <1>2, <1>3, <2>1, <2>2 DEF ForTheSession
<1> QED
  BY <1>4, <1>5

\* A step that leaves the call and the body alone.
Follows ==
  /\ UNCHANGED <<call, body>>
  /\ stage' \notin {"sent", "admitted"}
  /\ answer'.done => stage = "admitted" \/ answer.done

LEMMA SessionSteps ==
  ASSUME SessionInv, [Next]_vars
  PROVE  SessionInv'
<1>1. CallInv /\ CallInv'
  BY CallSteps DEF SessionInv
<1>2. CASE Ask
  <2>1. answer' = NoAnswer
    BY <1>1, <1>2 DEF CallInv, Unanswered, Ask
  <2>2. PICK c \in Channels : \E k \in Calls(c) :
          call' = [channel |-> c, payload |-> Probed(TypicalRequests[c], k.probe),
                   helper |-> k.helper, roles |-> k.roles, sender |-> k.sender,
                   probe |-> k.probe]
    BY <1>2 DEF Ask
  <2>3. PICK k \in Calls(c) :
          /\ call'.channel = c /\ call'.sender = k.sender
          /\ call'.payload = Probed(TypicalRequests[c], k.probe)
    BY <2>2
  <2>4. Asked'
    BY <2>3, FramesOfTheCalls, BodiesHaveContracts, PayloadHasItsFields DEF Asked, HasBody
  <2>5. stage' # "admitted" /\ ~answer'.done
    BY <1>2, <2>1, NothingSaid DEF Ask
  <2> QED
    BY <1>1, <2>4, <2>5 DEF SessionInv
<1>3. CASE Admit
  <2>1. stage' = "admitted"
    BY <1>3 DEF Admit
  <2> QED
    BY <1>1, <1>3, <2>1, AdmitIsForTheSession DEF SessionInv, Asked
<1>4. CASE Return
  <2>1. stage' = "idle" /\ ~answer'.done
    BY <1>4, NothingSaid DEF Return
  <2> QED
    BY <1>1, <2>1 DEF SessionInv, Asked
<1>5. CASE Follows
  BY <1>1, <1>5 DEF SessionInv, Asked, Follows, ForTheSession
<1>6. CASE UNCHANGED vars
  BY <1>1, <1>6 DEF SessionInv, Asked, ForTheSession, HasBody, vars
<1>7. ASSUME RejectSender \/ RejectRequest \/ RejectActor
      PROVE  Follows
  BY <1>7 DEF RejectSender, RejectRequest, RejectActor, Deny, Follows
<1>8. ASSUME stage = "admitted", Ending
      PROVE  Follows
  BY <1>8 DEF Ending, Does, Follows
<1>9. ASSUME SelectionCanceled
      PROVE  Follows
  BY <1>9 DEF SelectionCanceled, Answered, Follows
<1>10. ASSUME MapReply
       PROVE  Follows
  <2>1. answer = [NoAnswer EXCEPT !.done = TRUE]
    BY <1>1, <1>10 DEF CallInv, Carried, MapReply
  <2>2. answer.done
    BY <2>1 DEF NoAnswer
  <2>3. stage' = "answered" /\ UNCHANGED <<call, body>>
    BY <1>10 DEF MapReply, Answered
  <2> QED
    BY <2>2, <2>3 DEF Follows
<1>11. ASSUME Respond \/ Deliver
       PROVE  Follows
  BY <1>11 DEF Respond, Deny, Deliver, Follows
<1> QED
  BY <1>2, <1>3, <1>4, <1>5, <1>6, <1>7, <1>8, <1>9, <1>10, <1>11, HandlerEnds DEF Next

(* Whatever payload, roles and frame a call comes with: it is done only for  *)
(* the page in the window the application opened, for a role its contract    *)
(* allows, and the body the service gets names no actor but the session's.   *)
THEOREM DoneForTheSessionHolds == Spec => []DoneForTheSession
<1>1. SessionInv /\ [Next]_vars => SessionInv'
  BY SessionSteps
<1>2. SessionInv => DoneForTheSession
  BY DEF SessionInv, ForTheSession, DoneForTheSession
<1> QED
  BY SessionStarts, <1>1, <1>2, PTL DEF Spec

(***************************************************************************)
(* The two request contracts.                                              *)
(***************************************************************************)

\* What the page may well send of a field's values.
Unsaid == Blank \cup {Undefined}
Spoken(T) == T \ Unsaid
\* The typical value of the field is such a value.
Clean(T) ==
  \/ \A v \in T : v \notin Unsaid
  \/ Absent \in T
  \/ \E i \in DOMAIN Preferred : Preferred[i] \in T
\* A check that takes the values B takes all that the page may well send of T.
Covers(B, T) == Spoken(T) \subseteq B /\ Clean(T)
Fits(schema, fields) ==
  \A f \in DOMAIN fields :
     IF f \in DOMAIN schema THEN Covers(fields[f], schema[f]) ELSE Absent \in fields[f]

LEMMA FitsTogether ==
  ASSUME NEW schema, NEW a, NEW b, Fits(schema, a), Fits(schema, b)
  PROVE  Fits(schema, a ++ b)
<1>1. /\ \A x : x \in DOMAIN (a ++ b) <=> x \in DOMAIN a \/ x \in DOMAIN b
      /\ \A x : x \in DOMAIN a => (a ++ b)[x] = a[x]
      /\ \A x : x \in DOMAIN b /\ x \notin DOMAIN a => (a ++ b)[x] = b[x]
  BY MergedDomain, MergedFirst, MergedSecond
<1> DEFINE m == a ++ b
<1> HIDE DEF m
<1>2. Fits(schema, m)
  BY <1>1 DEF Fits, m
<1> QED
  BY <1>2 DEF m

\* A typical text is one of the preferred values.
LEMMA TextsAreClean ==
  ASSUME NEW T, Str("t8") \in T \/ Str("t12") \in T \/ Str("iso") \in T \/ Array("roles") \in T
  PROVE  Clean(T)
<1>1. /\ 1 \in DOMAIN Preferred /\ Preferred[1] = Str("t8")
      /\ 2 \in DOMAIN Preferred /\ Preferred[2] = Str("t12")
      /\ 3 \in DOMAIN Preferred /\ Preferred[3] = Str("iso")
      /\ 11 \in DOMAIN Preferred /\ Preferred[11] = Array("roles")
  BY DEF Preferred
<1> QED
  BY <1>1 DEF Clean

LEMMA UnsaidOnes == Unsaid = {Str("blank"), Array("blanks"), Undefined}
BY DEF Unsaid, Blank

LEMMA TextLengths ==
  /\ Length["t8"] = 8 /\ Length["t12"] = 12 /\ {"t8", "t12", "blank"} \subseteq DOMAIN Length
  /\ Length["blank"] = 2 /\ Length["iso"] = 24 /\ "iso" \in DOMAIN Length
BY DEF Length

LEMMA CoversTrimmed == Covers(Trimmed, Text(1)) /\ Covers(Trimmed, Text(3))
<1>1. \A n \in 0..8 : Str("t8") \in Text(n)
  BY TextLengths DEF Text
<1>2. Text(3) \subseteq Text(1)
  BY TextLengths DEF Text, Length
<1>3. Covers(Trimmed, Text(1))
  BY <1>1, UnsaidOnes, TextsAreClean DEF Covers, Spoken, Trimmed
<1> QED
  BY <1>1, <1>2, <1>3, TextsAreClean DEF Covers, Spoken

LEMMA CoversMore ==
  ASSUME NEW B, NEW T, Covers(B, T)
  PROVE  /\ Covers(OrNull(B), OrNull(T))
         /\ Covers(Own(B), Optional(T)) /\ Covers(Optional(B), Optional(T))
         /\ Covers(OrNull(B), T) /\ Covers(Own(B), T) /\ Covers(Optional(B), T)
<1>1. Null \notin Unsaid
  BY UnsaidOnes DEF Null, Str, Array, Undefined
<1>2. Covers(OrNull(B), OrNull(T))
  BY <1>1 DEF Covers, Spoken, Clean, OrNull
<1>3. Undefined \in Unsaid
  BY UnsaidOnes
<1>4. Covers(Own(B), Optional(T)) /\ Covers(Optional(B), Optional(T))
  BY <1>3 DEF Covers, Spoken, Clean, Own, Optional
<1> QED
  BY <1>2, <1>4 DEF Covers, OrNull, Own, Optional

LEMMA CoversSame ==
  ASSUME NEW T, \A v \in T : v \notin Unsaid
  PROVE  Covers(T, T)
BY DEF Covers, Spoken, Clean

\* What has another kind than a text, or is another text.
LEMMA OtherKinds ==
  /\ \A n : Num(n) \notin Unsaid /\ Object(n) \notin Unsaid
  /\ \A t : t # "blank" => Str(t) \notin Unsaid
  /\ \A t : t # "blanks" => Array(t) \notin Unsaid
  /\ True \notin Unsaid /\ False \notin Unsaid /\ Null \notin Unsaid
BY UnsaidOnes DEF Str, Num, Object, Array, Undefined, True, False, Null

LEMMA CoversWords ==
  ASSUME NEW ws, "blank" \notin ws
  PROVE  /\ Covers(Enum(ws), Enum(ws))
         /\ ws \subseteq Words => Covers(Trimmed, Enum(ws))
<1>1. \A v \in Enum(ws) : v \notin Unsaid
  BY OtherKinds DEF Enum
<1>2. ASSUME ws \subseteq Words
      PROVE  Enum(ws) \subseteq Text(1)
  BY <1>2 DEF Enum, Text
<1>3. Str("blank") \in Unsaid
  BY UnsaidOnes
<1>4. ws \subseteq Words => Enum(ws) \subseteq Trimmed
  BY <1>1, <1>2, <1>3 DEF Trimmed
<1> QED
  BY <1>1, <1>4, CoversSame DEF Covers, Spoken, Clean

LEMMA CoversPlain ==
  /\ Covers(Bool, Bool) /\ Covers(Iso, Iso) /\ Covers(Month, Month)
  /\ Covers(AnyObject, AnyObject)
  /\ \A s : Covers({Object(s)}, {Object(s)})
  /\ \A s : s # "blanks" => Covers(ArrayOf(s), ArrayOf(s))
  /\ \A min, max : Covers(IntIn(min, max), IntIn(min, max))
  /\ \A min : Covers(IntFrom(min), IntFrom(min))
<1> USE OtherKinds, CoversSame
<1>1. Covers(Bool, Bool)
  BY DEF Bool
<1>2. Covers(Iso, Iso) /\ Covers(Month, Month)
  BY DEF Iso, Month
<1>3. Covers(AnyObject, AnyObject)
  BY DEF AnyObject
<1>4. \A s : Covers({Object(s)}, {Object(s)})
  OBVIOUS
<1>5. \A s : s # "blanks" => Covers(ArrayOf(s), ArrayOf(s))
  BY DEF ArrayOf, EmptyArray
<1>6. \A min, max : Covers(IntIn(min, max), IntIn(min, max))
  BY DEF IntIn
<1> QED
  BY <1>1, <1>2, <1>3, <1>4, <1>5, <1>6 DEF IntFrom
LEMMA CoversArrays ==
  /\ Covers(Texts, Texts) /\ Covers(Texts, Strings)
  /\ Covers(NonEmpty(Roles), NonEmpty(Roles)) /\ Covers(NonEmpty(Texts), NonEmpty(Texts))
  /\ \A s \in Shapes : /\ Covers(NonEmpty(ArrayOf(s)), NonEmpty(ArrayOf(s)))
                       /\ Covers(NonEmpty(AnyArray), NonEmpty(ArrayOf(s)))
<1>1. /\ Array("roles") \in Texts /\ Array("roles") \in Strings
      /\ Array("roles") \in NonEmpty(Roles) /\ Array("roles") \in NonEmpty(Texts)
  BY DEF Strings, Texts, Roles, NonEmpty, EmptyArray, Array
<1>2. Covers(Texts, Texts) /\ Covers(Texts, Strings)
  BY <1>1, TextsAreClean, UnsaidOnes DEF Covers, Spoken, Strings
<1>3. Covers(NonEmpty(Roles), NonEmpty(Roles)) /\ Covers(NonEmpty(Texts), NonEmpty(Texts))
  BY <1>1, TextsAreClean DEF Covers, Spoken
<1>4. "blanks" \notin Shapes
  BY DEF Shapes
<1>5. ASSUME NEW s \in Shapes
      PROVE  /\ \A v \in NonEmpty(ArrayOf(s)) : v \notin Unsaid
             /\ NonEmpty(ArrayOf(s)) \subseteq NonEmpty(AnyArray)
  BY <1>4, OtherKinds DEF NonEmpty, ArrayOf, AnyArray, EmptyArray
<1> QED
  BY <1>2, <1>3, <1>5, CoversSame DEF Covers, Spoken, Clean

LEMMA CoversPasswords ==
  Covers(Trimmed \cap Text(12), Text(12)) /\ Covers(Trimmed \cap TextUpTo(4, 8), TextUpTo(4, 8))
<1>1. Str("t12") \in Text(12) /\ Str("t8") \in TextUpTo(4, 8)
  BY TextLengths DEF Text, TextUpTo
<1>2. Text(12) \subseteq Text(1) /\ TextUpTo(4, 8) \subseteq Text(1)
  BY DEF Text, TextUpTo, Length
<1>3. Str("blank") \in Unsaid
  BY UnsaidOnes
<1> QED
  BY <1>1, <1>2, <1>3, TextsAreClean DEF Covers, Spoken, Trimmed

LEMMA CoversUrl == Covers(Trimmed, Url)
<1>1. Str("url") \in Trimmed
  BY OtherKinds, UnsaidOnes DEF Trimmed, Text, Length
<1> QED
  BY <1>1, OtherKinds DEF Covers, Spoken, Clean, Url

Agree(contract, check) ==
  /\ Fits(contract.request, check["self"])
  /\ \A s \in DOMAIN check : s # "self" => Fits(Nested[s], check[s])

\* The schemas of a contract: its own, and those of the objects it mentions.
LEMMA SchemasOf ==
  ASSUME NEW c \in IPC_CHANNELS
  PROVE  /\ "self" \in DOMAIN RequestSchemas[c]
         /\ RequestSchemas[c]["self"] = IPC_CONTRACT_REGISTRY[c].request
         /\ \A s \in DOMAIN RequestSchemas[c] : s # "self" => RequestSchemas[c][s] = Nested[s]
<1> DEFINE schema == IPC_CONTRACT_REGISTRY[c].request
           inner == [s \in Mentioned(schema) |-> Nested[s]]
           outer == [self |-> schema]
<1>1. RequestSchemas[c] = outer ++ inner
  BY DEF RequestSchemas, Closed
<1>2. DOMAIN outer = {"self"} /\ outer["self"] = schema
  OBVIOUS
<1>3. \A s \in DOMAIN inner : inner[s] = Nested[s]
  OBVIOUS
<1> HIDE DEF outer, inner, schema
<1>4. /\ "self" \in DOMAIN RequestSchemas[c] /\ RequestSchemas[c]["self"] = schema
      /\ \A s \in DOMAIN RequestSchemas[c] : s # "self" => RequestSchemas[c][s] = Nested[s]
  BY <1>1, <1>2, <1>3, MergedDomain, MergedFirst, MergedSecond
<1> QED
  BY <1>4 DEF schema

\* A payload's values: the probe's, and else the typical ones; an unlisted field is left out.
LEMMA PayloadOf ==
  ASSUME NEW c \in IPC_CHANNELS, NEW p
  PROVE  /\ DOMAIN Probed(TypicalRequests[c], p) = DOMAIN RequestSchemas[c]
         /\ \A s \in DOMAIN RequestSchemas[c] : \A f :
              Value(Probed(TypicalRequests[c], p), s, f) \in
                {p.value, Absent}
                  \cup IF f \in DOMAIN RequestSchemas[c][s]
                       THEN {Typical(RequestSchemas[c][s][f], f)} ELSE {}
<1> DEFINE R == RequestSchemas[c]
           t == TypicalRequests[c]
           q == Probed(t, p)
<1>1. /\ DOMAIN t = DOMAIN R
      /\ \A s \in DOMAIN R : /\ DOMAIN t[s] = DOMAIN R[s] \cup {"unlisted"}
                             /\ \A f \in DOMAIN t[s] :
                                  t[s][f] = IF f = "unlisted" THEN Absent ELSE Typical(R[s][f], f)
  BY DEF TypicalRequests
<1> HIDE DEF R, t
<1>2. DOMAIN q = DOMAIN t
  BY DEF Probed
<1>3. \A s \in DOMAIN t : /\ DOMAIN q[s] = DOMAIN t[s]
                          /\ \A f \in DOMAIN t[s] : q[s][f] \in {p.value, t[s][f]}
  BY DEF Probed
<1> HIDE DEF q
<1>4. \A s \in DOMAIN R : \A f :
        Value(q, s, f) \in {p.value, Absent}
                             \cup IF f \in DOMAIN R[s] THEN {Typical(R[s][f], f)} ELSE {}
  BY <1>1, <1>2, <1>3 DEF Value
<1> QED
  BY <1>1, <1>2, <1>4 DEF R, t, q

LEMMA TypicalIsSpoken ==
  ASSUME NEW T, NEW f, Clean(T), Typical(T, f) \in T
  PROVE  Typical(T, f) \in Spoken(T)
<1>1. Absent \notin Unsaid /\ Str("under_review") \notin Unsaid
  BY UnsaidOnes, OtherKinds DEF Absent, Str, Array, Undefined
<1>2. CASE f \in DOMAIN Meaningful \/ Absent \in T
  <2>1. \A g \in DOMAIN Meaningful : Meaningful[g] = Str("under_review")
    BY DEF Meaningful
  <2> QED
    BY <1>1, <1>2, <2>1 DEF Typical, Spoken
<1>3. CASE f \notin DOMAIN Meaningful /\ Absent \notin T
  <2>1. Typical(T, f) = Plain(T)
    BY <1>3 DEF Typical
  <2>2. CASE \E i \in DOMAIN Preferred : Preferred[i] \in T
    <3> DEFINE found == {i \in DOMAIN Preferred : Preferred[i] \in T}
               first == CHOOSE i \in found : \A j \in found : i <= j
    <3>1. found \subseteq 1..11 /\ found # {}
      BY <2>2 DEF Preferred
    <3>2. \E i \in found : \A j \in found : i <= j
      BY <3>1
    <3>3. first \in found
      BY <3>2
    <3>4. \A i \in DOMAIN Preferred : Preferred[i] \notin Unsaid
      BY OtherKinds DEF Preferred
    <3>5. Plain(T) = Preferred[first]
      BY <3>1 DEF Plain
    <3> HIDE DEF first
    <3>6. Plain(T) \notin Unsaid
      BY <3>3, <3>4, <3>5
    <3> QED
      BY <2>1, <3>6 DEF Spoken
  <2>3. CASE \A v \in T : v \notin Unsaid
    BY <2>3 DEF Spoken
  <2> QED
    BY <1>3, <2>2, <2>3 DEF Clean
<1> QED
  BY <1>2, <1>3

LEMMA AgreeingContracts ==
  ASSUME NEW c \in IPC_CHANNELS, NEW check, Agree(IPC_CONTRACT_REGISTRY[c], check),
         NEW p, p.value \notin Unsaid,
         SatisfiesStrictly(Probed(TypicalRequests[c], p), RequestSchemas[c])
  PROVE  Satisfies(Probed(TypicalRequests[c], p), check)
<1> DEFINE R == RequestSchemas[c]
           q == Probed(TypicalRequests[c], p)
<1>1. DOMAIN q = DOMAIN R
  BY PayloadOf
<1>2. \A s \in DOMAIN check \cap DOMAIN R : Fits(R[s], check[s])
  BY SchemasOf DEF Agree
<1>3. \A s \in DOMAIN R : \A f :
         Value(q, s, f) \in {p.value, Absent}
                              \cup IF f \in DOMAIN R[s] THEN {Typical(R[s][f], f)} ELSE {}
  BY PayloadOf
<1>4. \A s \in DOMAIN R : Referred(q, s) =>
         \A f \in DOMAIN q[s] \cup DOMAIN R[s] : SchemaAccepts(R[s], f, Value(q, s, f))
  BY <1>1 DEF SatisfiesStrictly
<1> HIDE DEF R, q
<1>5. ASSUME NEW s \in DOMAIN check \cap DOMAIN q, Referred(q, s), NEW f \in DOMAIN check[s]
      PROVE  Value(q, s, f) \in check[s][f]
  <2> DEFINE v == Value(q, s, f)
             T == R[s][f]
  <2>1. s \in DOMAIN R /\ Fits(R[s], check[s])
    BY <1>1, <1>2
  <2>2. CASE f \in DOMAIN R[s]
    <3>1. Covers(check[s][f], T)
      BY <2>1, <2>2 DEF Fits
    <3>2. v \in T
      BY <1>4, <1>5, <2>1, <2>2 DEF SchemaAccepts
    <3>3. v \in {p.value, Absent, Typical(T, f)}
      BY <1>3, <2>1, <2>2
    <3>4. Absent \notin Unsaid
      BY UnsaidOnes DEF Absent, Str, Array, Undefined
    <3>5. v \in Spoken(T)
      <4> HIDE DEF v, T
      <4>1. CASE v = Typical(T, f)
        BY <3>1, <3>2, <4>1, TypicalIsSpoken DEF Covers
      <4>2. CASE v \in {p.value, Absent}
        BY <3>2, <3>4, <4>2 DEF Spoken
      <4> QED
        BY <3>3, <4>1, <4>2
    <3> QED
      BY <3>1, <3>5 DEF Covers
  <2>3. CASE f \notin DOMAIN R[s]
    <3>1. Absent \in check[s][f]
      BY <2>1, <2>3 DEF Fits
    <3>2. CASE f \in DOMAIN q[s]
      BY <1>4, <1>5, <2>1, <2>3, <3>1, <3>2 DEF SchemaAccepts
    <3>3. CASE f \notin DOMAIN q[s]
      BY <3>1, <3>3 DEF Value
    <3> QED
      BY <3>2, <3>3
  <2> QED
    BY <2>2, <2>3
<1>6. Satisfies(q, check)
  BY <1>5 DEF Satisfies
<1> QED
  BY <1>6 DEF q

LEMMA Pairs ==
  /\ Covers(Trimmed, Text(1)) /\ Covers(Trimmed, Text(3)) /\ Covers(Trimmed, Url)
  /\ Covers(Trimmed \cap Text(12), Text(12))
  /\ Covers(Trimmed \cap TextUpTo(4, 8), TextUpTo(4, 8))
  /\ Covers(Optional(Trimmed), Optional(Text(1)))
  /\ Covers(Own(OrNull(Trimmed)), Optional(OrNull(Text(1))))
  /\ Covers(Nullish(Trimmed), Optional(OrNull(Text(1))))
  /\ Covers(Nullish(Trimmed), Optional(OrNull(Url)))
  /\ Covers(Nullish(Trimmed), OrNull(Text(1)))
  /\ Covers(Iso, Iso) /\ Covers(Own(OrNull(Month)), Optional(OrNull(Month)))
  /\ Covers(Bool, Bool) /\ Covers(Own(Bool), Optional(Bool))
  /\ Covers(Own(OrNull(Bool)), Optional(OrNull(Bool)))
  /\ Covers(IntFrom(0), IntFrom(0)) /\ Covers(IntFrom(1), IntFrom(1))
  /\ Covers(Own(IntFrom(1)), Optional(IntFrom(1)))
  /\ Covers(Own(IntIn(1, 100)), Optional(IntIn(1, 100)))
  /\ Covers(IntIn(1, 65535), IntIn(1, 65535))
  /\ Covers(AnyObject, AnyObject) /\ Covers(Own(AnyObject), Optional(AnyObject))
  /\ Covers(Own(OrNull(AnyObject)), Optional(AnyObject))
  /\ Covers({Object("QcPackInput")}, {Object("QcPackInput")})
  /\ Covers({Object("AdminQcPolicyUpdateRequest_policy")},
            {Object("AdminQcPolicyUpdateRequest_policy")})
  /\ Covers({Object("SchedulingEvent")}, {Object("SchedulingEvent")})
  /\ Covers(Own(OrNull({Object("QcAudioZip")})), Optional(OrNull({Object("QcAudioZip")})))
  /\ Covers(Own(NonEmpty(Roles)), Optional(NonEmpty(Roles)))
  /\ Covers(Texts, Texts) /\ Covers(NonEmpty(Texts), NonEmpty(Texts))
  /\ Covers(Own(Texts), Optional(Strings)) /\ Covers(Own(OrNull(Texts)), Optional(Strings))
  /\ Covers(ArrayOf("QcReportFinding"), ArrayOf("QcReportFinding"))
  /\ Covers(NonEmpty(ArrayOf("QcPolicyRuleBinding")), NonEmpty(ArrayOf("QcPolicyRuleBinding")))
  /\ Covers(NonEmpty(AnyArray), NonEmpty(ArrayOf("IntakeManifestPutRequest_files")))
<1>1. {"QcPolicyRuleBinding", "IntakeManifestPutRequest_files"} \subseteq Shapes
  BY DEF Shapes
<1>2. \A B, T : Covers(B, T) => /\ Covers(Optional(OrNull(B)), Optional(OrNull(T)))
                                /\ Covers(Optional(OrNull(B)), OrNull(T))
                                /\ Covers(Own(OrNull(B)), Optional(OrNull(T)))
                                /\ Covers(Own(OrNull(B)), Optional(T))
  BY CoversMore
<1> QED
  BY <1>1, <1>2, CoversTrimmed, CoversUrl, CoversPasswords, CoversMore, CoversPlain,
     CoversArrays DEF Nullish

\* The enumerations of requests.
LEMMA WordPairs ==
  /\ Covers(Enum({"creator", "reviewer", "admin"}), Enum({"creator", "reviewer", "admin"}))
  /\ Covers(Enum({"reviewer", "admin"}), Enum({"reviewer", "admin"}))
  /\ Covers(Enum({"admin"}), Enum({"admin"}))
  /\ Covers(Enum({"system", "admin"}), Enum({"system", "admin"}))
  /\ Covers(Enum({"register", "forgot-password"}), Enum({"register", "forgot-password"}))
  /\ Covers(Enum({"blocking", "warning"}), Enum({"blocking", "warning"}))
  /\ Covers(Enum({"passed", "failed"}), Enum({"passed", "failed"}))
  /\ Covers(Optional(Enum({"new", "resolved", "unchanged"})), Enum({"new", "resolved", "unchanged"}))
  /\ Covers(Trimmed, Enum({"QUALITY_ISSUES", "METADATA_MISSING", "POLICY_VIOLATION", "OTHER"}))
  /\ Covers(Enum({"dropbox", "airtable", "smtp"}), Enum({"dropbox", "airtable", "smtp"}))
  /\ Covers(Enum({"submission.approved.scheduling.v1"}),
            Enum({"submission.approved.scheduling.v1"}))
  /\ Covers(Enum({"info", "warning", "critical"}), Enum({"info", "warning", "critical"}))
  /\ Covers(Nullish(Enum({"integration_failure", "retry_exhaustion",
                         "scheduling_terminal_failure"})),
            Optional(OrNull(Enum({"integration_failure", "retry_exhaustion",
                                  "scheduling_terminal_failure"}))))
  /\ Covers(Optional(Enum({"open", "acknowledged", "resolved"})),
            Optional(Enum({"open", "acknowledged", "resolved"})))
  /\ Covers(Enum({"pause", "resume", "cancel"}), Enum({"pause", "resume", "cancel"}))
<1>1. ASSUME NEW ws, "blank" \notin ws
      PROVE  /\ Covers(Enum(ws), Enum(ws))
             /\ Covers(Optional(Enum(ws)), Optional(Enum(ws)))
             /\ Covers(Optional(Enum(ws)), Enum(ws))
             /\ Covers(Nullish(Enum(ws)), Optional(OrNull(Enum(ws))))
  <2>1. Covers(Enum(ws), Enum(ws)) /\ Covers(OrNull(Enum(ws)), OrNull(Enum(ws)))
    BY <1>1, CoversWords, CoversMore
  <2> QED
    BY <2>1, CoversMore DEF Nullish
<1>2. {"QUALITY_ISSUES", "METADATA_MISSING", "POLICY_VIOLATION", "OTHER"} \subseteq Words
  BY DEF Words
<1> QED
  BY <1>1, <1>2, CoversWords

\* A check of the bridge that agrees with its channel's contract in the registry.
Registered(c, check) == c \in IPC_CHANNELS /\ Agree(IPC_CONTRACT_REGISTRY[c], check)

\* A channel whose contract and check agree.
Matches(c, contracts, checks) == c \in DOMAIN contracts /\ Agree(contracts[c], checks[c])

LEMMA Registers ==
  ASSUME NEW c, NEW checks,
         \/ Matches(c, AuthContracts, checks) \/ Matches(c, DesktopContracts, checks)
         \/ Matches(c, QcContracts, checks) \/ Matches(c, NotificationContracts, checks)
         \/ Matches(c, ReviewContracts, checks) \/ Matches(c, AdminContracts, checks)
         \/ Matches(c, OperationsContracts, checks) \/ Matches(c, CreatorContracts, checks)
         \/ Matches(c, IntakeContracts, checks) \/ Matches(c, TransitionContracts, checks)
         \/ Matches(c, ShieldContracts, checks)
  PROVE  Registered(c, checks[c])
<1>1. UNION {DOMAIN AuthContracts, DOMAIN DesktopContracts, DOMAIN QcContracts,
             DOMAIN NotificationContracts, DOMAIN ReviewContracts, DOMAIN AdminContracts,
             DOMAIN OperationsContracts, DOMAIN CreatorContracts, DOMAIN IntakeContracts,
             DOMAIN TransitionContracts, DOMAIN ShieldContracts} \subseteq IPC_CHANNELS
  BY MergedDomain DEF IPC_CHANNELS, IPC_CONTRACT_REGISTRY
<1> QED
  BY <1>1, ContractsOf DEF Registered, Matches

LEMMA AuthRequestsAgree ==
  ASSUME NEW c \in DOMAIN AuthRequests
  PROVE  Registered(c, AuthRequests[c])
<1>1. Matches("AUTH_GET_SESSION", AuthContracts, AuthRequests)
  BY SMTT(20), Pairs, WordPairs DEF Matches, Agree, Fits, Contract, Payload, AuthRequests,
     AuthContracts, Everyone, AuthGetSessionRequestSchema
<1>2. Matches("AUTH_LOGIN", AuthContracts, AuthRequests)
  BY SMTT(20), Pairs, WordPairs DEF Matches, Agree, Fits, Contract, Payload, AuthRequests,
     AuthContracts, Everyone, AuthLoginRequestSchema
<1>3. Matches("AUTH_REGISTER", AuthContracts, AuthRequests)
  <2> DEFINE secret == Trimmed \cap Text(12)
  <2>0. Covers(secret, Text(12))
    BY SMTT(20), Pairs
  <2> HIDE DEF secret
  <2>1. Fits(AuthRegisterRequestSchema, [email |-> Trimmed, password |-> secret,
                                         otpVerificationToken |-> Trimmed,
                                         roles |-> Own(NonEmpty(Roles)),
                                         deviceId |-> Optional(Trimmed)])
    BY SMTT(20), <2>0, Pairs, WordPairs DEF Fits, AuthRegisterRequestSchema
  <2> QED
    BY <2>1 DEF Matches, Agree, Contract, Payload, secret, AuthRequests, AuthContracts,
       Everyone
<1>4. Matches("AUTH_OTP_SEND", AuthContracts, AuthRequests)
  BY SMTT(20), Pairs, WordPairs DEF Matches, Agree, Fits, Contract, Payload, AuthRequests,
     AuthContracts, Everyone, OtpPurposes, AuthOtpSendRequestSchema, OtpPurposeSchema
<1>5. Matches("AUTH_OTP_VERIFY", AuthContracts, AuthRequests)
  <2> DEFINE secret == Trimmed \cap TextUpTo(4, 8)
  <2>0. Covers(secret, TextUpTo(4, 8))
    BY SMTT(20), Pairs
  <2> HIDE DEF secret
  <2>1. Fits(AuthOtpVerifyRequestSchema, [challengeId |-> Trimmed, purpose |-> OtpPurposes,
                                          otpCode |-> secret])
    BY SMTT(20), <2>0, Pairs, WordPairs DEF Fits, OtpPurposes, AuthOtpVerifyRequestSchema,
       OtpPurposeSchema
  <2> QED
    BY <2>1 DEF Matches, Agree, Contract, Payload, secret, AuthRequests, AuthContracts,
       Everyone
<1>6. Matches("AUTH_FORGOT_PASSWORD", AuthContracts, AuthRequests)
  BY SMTT(20), Pairs, WordPairs DEF Matches, Agree, Fits, Contract, Payload, AuthRequests,
     AuthContracts, Everyone, AuthForgotPasswordRequestSchema
<1>7. Matches("AUTH_RESET_PASSWORD", AuthContracts, AuthRequests)
  <2> DEFINE secret == Trimmed \cap Text(12)
  <2>0. Covers(secret, Text(12))
    BY SMTT(20), Pairs
  <2> HIDE DEF secret
  <2>1. Fits(AuthResetPasswordRequestSchema, [email |-> Trimmed, otpVerificationToken |-> Trimmed,
                                              newPassword |-> secret])
    BY SMTT(20), <2>0, Pairs, WordPairs DEF Fits, AuthResetPasswordRequestSchema
  <2> QED
    BY <2>1 DEF Matches, Agree, Contract, Payload, secret, AuthRequests, AuthContracts,
       Everyone
<1>8. DOMAIN AuthRequests =
        {"AUTH_GET_SESSION", "AUTH_LOGIN", "AUTH_REGISTER", "AUTH_OTP_SEND", "AUTH_OTP_VERIFY",
         "AUTH_FORGOT_PASSWORD", "AUTH_RESET_PASSWORD"}
  BY DEF AuthRequests
<1> QED
  BY SMTT(20), <1>1, <1>2, <1>3, <1>4, <1>5, <1>6, <1>7, <1>8, Registers

LEMMA QcRequestsAgree ==
  ASSUME NEW c \in DOMAIN QcRequests
  PROVE  Registered(c, QcRequests[c])
<1>1. Matches("QC_EVALUATE_PACK", QcContracts, QcRequests)
  <2> DEFINE part  == {Object("QcPackInput")}
             rest  == [requestId |-> Trimmed, submissionId |-> Trimmed, actorId |-> Trimmed,
                       actorRole |-> AllowedAuthRoles, ruleSetVersion |-> Optional(Trimmed)]
             whole == [requestId |-> Trimmed, submissionId |-> Trimmed, actorId |-> Trimmed,
                       actorRole |-> AllowedAuthRoles, pack |-> part,
                       ruleSetVersion |-> Optional(Trimmed)]
  <2>a. Fits(QcEvaluatePackRequestSchema, rest)
    BY SMTT(20), Pairs, WordPairs DEF Fits, QcEvaluatePackRequestSchema, AllowedAuthRoles,
       ActorRoleSchema
  <2>b. Fits(QcEvaluatePackRequestSchema, [pack |-> part])
    BY SMTT(20), Pairs DEF Fits, QcEvaluatePackRequestSchema
  <2> HIDE DEF part
  <2>c. /\ DOMAIN whole = DOMAIN rest \cup {"pack"} /\ whole.pack = part
        /\ whole.requestId = rest.requestId /\ whole.submissionId = rest.submissionId
        /\ whole.actorId = rest.actorId /\ whole.actorRole = rest.actorRole
        /\ whole.ruleSetVersion = rest.ruleSetVersion
        /\ DOMAIN rest = {"requestId", "submissionId", "actorId", "actorRole", "ruleSetVersion"}
    BY SMTT(20)
  <2>d. DOMAIN [pack |-> part] = {"pack"} /\ [pack |-> part].pack = part
    OBVIOUS
  <2> HIDE DEF rest, whole
  <2>1. Fits(QcEvaluatePackRequestSchema, whole)
    BY SMTT(20), <2>a, <2>b, <2>c, <2>d DEF Fits
  <2>2. Fits(QcPackInputSchema, QcPack)
    BY SMTT(20), Pairs, WordPairs DEF Fits, QcPack, QcPackInputSchema
  <2>3. Fits(QcAudioZipSchema, [filename |-> Trimmed, sizeBytes |-> IntFrom(0)])
    BY SMTT(20), Pairs, WordPairs DEF Fits, QcAudioZipSchema
  <2>4. /\ Nested["QcPackInput"] = QcPackInputSchema
        /\ Nested["QcAudioZip"] = QcAudioZipSchema
    BY SMTT(20) DEF Nested
  <2>5. /\ DOMAIN QcRequests["QC_EVALUATE_PACK"] = {"self", "QcPackInput", "QcAudioZip"}
        /\ Fits(QcEvaluatePackRequestSchema, QcRequests["QC_EVALUATE_PACK"]["self"])
        /\ Fits(QcPackInputSchema, QcRequests["QC_EVALUATE_PACK"]["QcPackInput"])
        /\ Fits(QcAudioZipSchema, QcRequests["QC_EVALUATE_PACK"]["QcAudioZip"])
    BY SMTT(20), <2>1, <2>2, <2>3 DEF QcRequests, whole, part
  <2>6. /\ "QC_EVALUATE_PACK" \in DOMAIN QcContracts
        /\ QcContracts["QC_EVALUATE_PACK"].request = QcEvaluatePackRequestSchema
    BY SMTT(20) DEF QcContracts, Everyone, Contract
  <2> QED
    BY SMTT(20), <2>4, <2>5, <2>6 DEF Matches, Agree
<1>2. Matches("QC_LIST_RULES", QcContracts, QcRequests)
  BY SMTT(20), Pairs, WordPairs DEF Matches, Agree, Fits, Contract, Payload, QcRequests,
     QcContracts, Everyone, QcListRulesRequestSchema
<1>3. Matches("QC_RESULTS_GET", QcContracts, QcRequests)
  BY SMTT(20), Pairs, WordPairs DEF Matches, Agree, Fits, Contract, Payload, QcRequests,
     QcContracts, Everyone, QcResultsGetRequestSchema
<1>4. Matches("QC_REPORT_EXPORT", QcContracts, QcRequests)
  BY SMTT(20), Pairs, WordPairs DEF Matches, Agree, Fits, Contract, Payload, QcRequests,
     QcContracts, Everyone, QcReportExportRequestSchema, IsoTimestampSchema,
     QcReportFindingSchema, QcSeveritySchema, QcFindingDiffTagSchema, QcReportFinding, Nested
<1>5. DOMAIN QcRequests =
        {"QC_EVALUATE_PACK", "QC_LIST_RULES", "QC_RESULTS_GET", "QC_REPORT_EXPORT"}
  BY DEF QcRequests
<1> QED
  BY SMTT(20), <1>1, <1>2, <1>3, <1>4, <1>5, Registers

LEMMA NotificationRequestsAgree ==
  ASSUME NEW c \in DOMAIN NotificationRequests
  PROVE  Registered(c, NotificationRequests[c])
<1>1. Matches("NOTIFICATIONS_LIST", NotificationContracts, NotificationRequests)
  <2>1. Fits(NotificationsListRequestSchema, Actor)
    BY SMTT(20), Pairs, WordPairs DEF Fits, Actor, AllowedAuthRoles,
       NotificationsListRequestSchema, ActorRoleSchema
  <2>2. Fits(NotificationsListRequestSchema, [includeRead |-> Own(Bool)])
    BY SMTT(20), Pairs, WordPairs DEF Fits, NotificationsListRequestSchema, ActorRoleSchema
  <2> QED
    BY <2>1, <2>2, FitsTogether DEF Matches, Agree, Contract, Payload,
       NotificationRequests, NotificationContracts, Everyone
<1>2. Matches("NOTIFICATIONS_MARK_READ", NotificationContracts, NotificationRequests)
  <2>1. Fits(NotificationsMarkReadRequestSchema, Actor)
    BY SMTT(20), Pairs, WordPairs DEF Fits, Actor, AllowedAuthRoles,
       NotificationsMarkReadRequestSchema, ActorRoleSchema
  <2>2. Fits(NotificationsMarkReadRequestSchema, [notificationIds |-> NonEmpty(Texts)])
    BY SMTT(20), Pairs, WordPairs DEF Fits, NotificationsMarkReadRequestSchema, ActorRoleSchema
  <2> QED
    BY <2>1, <2>2, FitsTogether DEF Matches, Agree, Contract, Payload,
       NotificationRequests, NotificationContracts, Everyone
<1>3. Matches("NOTIFICATIONS_MARK_ALL_READ", NotificationContracts, NotificationRequests)
  BY SMTT(20), Pairs, WordPairs DEF Matches, Agree, Fits, Contract, Payload,
     NotificationRequests, NotificationContracts, Everyone, Actor, AllowedAuthRoles,
     NotificationsMarkAllReadRequestSchema, ActorRoleSchema
<1>4. Matches("NOTIFICATIONS_RETRY", NotificationContracts, NotificationRequests)
  <2>1. Fits(NotificationsRetryRequestSchema, Actor)
    BY SMTT(20), Pairs, WordPairs DEF Fits, Actor, AllowedAuthRoles,
       NotificationsRetryRequestSchema, ActorRoleSchema
  <2>2. Fits(NotificationsRetryRequestSchema, [notificationId |-> Trimmed])
    BY SMTT(20), Pairs, WordPairs DEF Fits, NotificationsRetryRequestSchema, ActorRoleSchema
  <2> QED
    BY <2>1, <2>2, FitsTogether DEF Matches, Agree, Contract, Payload,
       NotificationRequests, NotificationContracts, Reviewers
<1>5. DOMAIN NotificationRequests =
        {"NOTIFICATIONS_LIST", "NOTIFICATIONS_MARK_READ", "NOTIFICATIONS_MARK_ALL_READ",
         "NOTIFICATIONS_RETRY"}
  BY DEF NotificationRequests
<1> QED
  BY SMTT(20), <1>1, <1>2, <1>3, <1>4, <1>5, Registers

LEMMA ReviewRequestsAgree ==
  ASSUME NEW c \in DOMAIN ReviewRequests
  PROVE  Registered(c, ReviewRequests[c])
<1>1. Matches("REVIEW_QUEUE_LIST", ReviewContracts, ReviewRequests)
  BY SMTT(20), Pairs, WordPairs DEF Matches, Agree, Fits, Contract, Payload, ReviewRequests,
     ReviewContracts, Reviewers, Reviewer, ReviewQueueListRequestSchema
<1>2. Matches("REVIEW_SUBMISSION_GET", ReviewContracts, ReviewRequests)
  <2>1. Fits(ReviewSubmissionGetRequestSchema, Reviewer)
    BY SMTT(20), Pairs, WordPairs DEF Fits, Reviewer, ReviewSubmissionGetRequestSchema
  <2>2. Fits(ReviewSubmissionGetRequestSchema, [submissionId |-> Trimmed])
    BY SMTT(20), Pairs, WordPairs DEF Fits, ReviewSubmissionGetRequestSchema
  <2> QED
    BY <2>1, <2>2, FitsTogether DEF Matches, Agree, Contract, Payload, ReviewRequests,
       ReviewContracts, Reviewers, Decision
<1>3. Matches("REVIEW_APPROVE", ReviewContracts, ReviewRequests)
  <2>1. Fits(ReviewApproveRequestSchema, Reviewer)
    BY SMTT(20), Pairs, WordPairs DEF Fits, Reviewer, ReviewApproveRequestSchema
  <2>2. Fits(ReviewApproveRequestSchema, [submissionId |-> Trimmed])
    BY SMTT(20), Pairs, WordPairs DEF Fits, ReviewApproveRequestSchema
  <2> QED
    BY <2>1, <2>2, FitsTogether DEF Matches, Agree, Contract, Payload, ReviewRequests,
       ReviewContracts, Reviewers, Decision
<1>4. Matches("REVIEW_REJECT", ReviewContracts, ReviewRequests)
  <2>1. Fits(ReviewRejectRequestSchema, Reviewer)
    BY SMTT(20), Pairs, WordPairs DEF Fits, Reviewer, ReviewRejectRequestSchema,
       RejectReasonCodeSchema
  <2>2. Fits(ReviewRejectRequestSchema, [submissionId |-> Trimmed])
    BY SMTT(20), Pairs, WordPairs DEF Fits, ReviewRejectRequestSchema, RejectReasonCodeSchema
  <2>3. Fits(ReviewRejectRequestSchema, [reasonCode |-> Trimmed, notes |-> Trimmed])
    BY SMTT(20), Pairs, WordPairs DEF Fits, ReviewRejectRequestSchema, RejectReasonCodeSchema
  <2> QED
    BY <2>1, <2>2, <2>3, FitsTogether DEF Matches, Agree, Contract, Payload,
       ReviewRequests, ReviewContracts, Reviewers, Decision
<1>5. Matches("REVIEW_TAG_ADD", ReviewContracts, ReviewRequests)
  <2>1. Fits(ReviewTagAddRequestSchema, Reviewer)
    BY SMTT(20), Pairs, WordPairs DEF Fits, Reviewer, ReviewTagAddRequestSchema
  <2>2. Fits(ReviewTagAddRequestSchema, [submissionId |-> Trimmed])
    BY SMTT(20), Pairs, WordPairs DEF Fits, ReviewTagAddRequestSchema
  <2>3. Fits(ReviewTagAddRequestSchema, [tag |-> Trimmed])
    BY SMTT(20), Pairs, WordPairs DEF Fits, ReviewTagAddRequestSchema
  <2> QED
    BY <2>1, <2>2, <2>3, FitsTogether DEF Matches, Agree, Contract, Payload,
       ReviewRequests, ReviewContracts, Reviewers, Decision
<1>6. Matches("REVIEW_FLAG_ADD", ReviewContracts, ReviewRequests)
  <2>1. Fits(ReviewFlagAddRequestSchema, Reviewer)
    BY SMTT(20), Pairs, WordPairs DEF Fits, Reviewer, ReviewFlagAddRequestSchema
  <2>2. Fits(ReviewFlagAddRequestSchema, [submissionId |-> Trimmed])
    BY SMTT(20), Pairs, WordPairs DEF Fits, ReviewFlagAddRequestSchema
  <2>3. Fits(ReviewFlagAddRequestSchema, [flagType |-> Trimmed, severity |-> Trimmed])
    BY SMTT(20), Pairs, WordPairs DEF Fits, ReviewFlagAddRequestSchema
  <2> QED
    BY <2>1, <2>2, <2>3, FitsTogether DEF Matches, Agree, Contract, Payload,
       ReviewRequests, ReviewContracts, Reviewers, Decision
<1>7. Matches("REVIEW_REOPEN", ReviewContracts, ReviewRequests)
  <2>1. Fits(ReviewReopenRequestSchema, Reviewer)
    BY SMTT(20), Pairs, WordPairs DEF Fits, Reviewer, ReviewReopenRequestSchema
  <2>2. Fits(ReviewReopenRequestSchema, [submissionId |-> Trimmed])
    BY SMTT(20), Pairs, WordPairs DEF Fits, ReviewReopenRequestSchema
  <2> QED
    BY <2>1, <2>2, FitsTogether DEF Matches, Agree, Contract, Payload, ReviewRequests,
       ReviewContracts, Reviewers, Decision
<1>8. DOMAIN ReviewRequests =
        {"REVIEW_QUEUE_LIST", "REVIEW_SUBMISSION_GET", "REVIEW_APPROVE", "REVIEW_REJECT",
         "REVIEW_TAG_ADD", "REVIEW_FLAG_ADD", "REVIEW_REOPEN"}
  BY DEF ReviewRequests
<1> QED
  BY SMTT(20), <1>1, <1>2, <1>3, <1>4, <1>5, <1>6, <1>7, <1>8, Registers

LEMMA AdminConfigRequestsAgree ==
  ASSUME NEW c \in DOMAIN AdminConfigRequests
  PROVE  Registered(c, AdminConfigRequests[c])
<1>1. Matches("ADMIN_CONFIGS_LIST", AdminContracts, AdminConfigRequests)
  <2>1. Fits(AdminConfigsListRequestSchema, Admin)
    BY SMTT(20), Pairs, WordPairs DEF Fits, Admin, AdminConfigsListRequestSchema
  <2>2. Fits(AdminConfigsListRequestSchema, [includeDrafts |-> Own(Bool)])
    BY SMTT(20), Pairs, WordPairs DEF Fits, AdminConfigsListRequestSchema
  <2> QED
    BY <2>1, <2>2, FitsTogether DEF Matches, Agree, Contract, Payload,
       AdminConfigRequests, AdminContracts, Admins
<1>2. Matches("ADMIN_QC_POLICY_GET", AdminContracts, AdminConfigRequests)
  BY SMTT(20), Pairs, WordPairs DEF Matches, Agree, Fits, Contract, Payload,
     AdminConfigRequests, AdminContracts, Admins, Admin, AdminQcPolicyGetRequestSchema,
     AdminActorRequestSchema
<1>3. Matches("ADMIN_CONFIGS_DRAFT", AdminContracts, AdminConfigRequests)
  <2>1. Fits(AdminConfigDraftRequestSchema, Admin)
    BY SMTT(20), Pairs, WordPairs DEF Fits, Admin, AdminConfigDraftRequestSchema
  <2>2. Fits(AdminConfigDraftRequestSchema, [configType |-> Trimmed, payloadJson |-> AnyObject])
    BY SMTT(20), Pairs, WordPairs DEF Fits, AdminConfigDraftRequestSchema
  <2> QED
    BY <2>1, <2>2, FitsTogether DEF Matches, Agree, Contract, Payload,
       AdminConfigRequests, AdminContracts, Admins
<1>4. Matches("ADMIN_CONFIGS_PUBLISH", AdminContracts, AdminConfigRequests)
  <2>1. Fits(AdminConfigPublishRequestSchema, Admin)
    BY SMTT(20), Pairs, WordPairs DEF Fits, Admin, AdminConfigPublishRequestSchema
  <2>2. Fits(AdminConfigPublishRequestSchema, [id |-> Trimmed, reason |-> Trimmed,
                                               confirmation |-> Trimmed])
    BY SMTT(20), Pairs, WordPairs DEF Fits, AdminConfigPublishRequestSchema
  <2> QED
    BY <2>1, <2>2, FitsTogether DEF Matches, Agree, Contract, Payload,
       AdminConfigRequests, AdminContracts, Admins, ConfigDecision
<1>5. Matches("ADMIN_CONFIGS_ROLLBACK", AdminContracts, AdminConfigRequests)
  <2>1. Fits(AdminConfigRollbackRequestSchema, Admin)
    BY SMTT(20), Pairs, WordPairs DEF Fits, Admin, AdminConfigRollbackRequestSchema
  <2>2. Fits(AdminConfigRollbackRequestSchema, [id |-> Trimmed, reason |-> Trimmed,
                                                confirmation |-> Trimmed])
    BY SMTT(20), Pairs, WordPairs DEF Fits, AdminConfigRollbackRequestSchema
  <2> QED
    BY <2>1, <2>2, FitsTogether DEF Matches, Agree, Contract, Payload,
       AdminConfigRequests, AdminContracts, Admins, ConfigDecision
<1>6. DOMAIN AdminConfigRequests =
        {"ADMIN_CONFIGS_LIST", "ADMIN_QC_POLICY_GET", "ADMIN_CONFIGS_DRAFT",
         "ADMIN_CONFIGS_PUBLISH", "ADMIN_CONFIGS_ROLLBACK"}
  BY DEF AdminConfigRequests
<1> QED
  BY SMTT(20), <1>1, <1>2, <1>3, <1>4, <1>5, <1>6, Registers

LEMMA HelperRequestsAgree ==
  ASSUME NEW c \in DOMAIN HelperRequests
  PROVE  Registered(c, HelperRequests[c])
<1>1. Matches("ADMIN_INTEGRATIONS_HEALTH_LIST", AdminContracts, HelperRequests)
  BY SMTT(20), Pairs, WordPairs DEF Matches, Agree, Fits, Contract, Payload, HelperRequests,
     AdminContracts, Admins, Admin, AdminIntegrationHealthListRequestSchema
<1>2. Matches("ADMIN_INTEGRATIONS_TEST", AdminContracts, HelperRequests)
  <2>1. Fits(AdminIntegrationTestRequestSchema, Admin)
    BY SMTT(20), Pairs, WordPairs DEF Fits, Admin, AdminIntegrationTestRequestSchema
  <2>2. Fits(AdminIntegrationTestRequestSchema, [provider |-> Providers,
                                                 keyRef |-> Own(OrNull(Trimmed))])
    BY SMTT(20), Pairs, WordPairs DEF Fits, Providers, AdminIntegrationTestRequestSchema
  <2> QED
    BY <2>1, <2>2, FitsTogether DEF Matches, Agree, Contract, Payload, HelperRequests,
       AdminContracts, Admins
<1>3. Matches("ADMIN_INTEGRATIONS_ROTATE", AdminContracts, HelperRequests)
  <2>1. Fits(AdminIntegrationRotateRequestSchema, Admin)
    BY SMTT(20), Pairs, WordPairs DEF Fits, Admin, AdminIntegrationRotateRequestSchema
  <2>2. Fits(AdminIntegrationRotateRequestSchema, [provider |-> Providers, reason |-> Trimmed,
                                                   confirmation |-> Trimmed,
                                                   keyRef |-> Nullish(Trimmed)])
    BY SMTT(20), Pairs, WordPairs DEF Fits, Providers, Nullish,
       AdminIntegrationRotateRequestSchema
  <2> QED
    BY <2>1, <2>2, FitsTogether DEF Matches, Agree, Contract, Payload, HelperRequests,
       AdminContracts, Admins
<1>4. Matches("ADMIN_INTEGRATIONS_AIRTABLE_CONFIGURE", AdminContracts, HelperRequests)
  <2>1. Fits(AdminAirtableConfigureRequestSchema, Admin)
    BY SMTT(20), Pairs, WordPairs DEF Fits, Admin, AdminAirtableConfigureRequestSchema
  <2>2. Fits(AdminAirtableConfigureRequestSchema, [apiKey |-> Trimmed])
    BY SMTT(20), Pairs, WordPairs DEF Fits, AdminAirtableConfigureRequestSchema
  <2> QED
    BY <2>1, <2>2, FitsTogether DEF Matches, Agree, Contract, Payload, HelperRequests,
       AdminContracts, Admins
<1>5. Matches("ADMIN_INTEGRATIONS_SMTP_CONFIGURE", AdminContracts, HelperRequests)
  <2>1. Fits(AdminSmtpConfigureRequestSchema, Admin)
    BY SMTT(20), Pairs, WordPairs DEF Fits, Admin, AdminSmtpConfigureRequestSchema
  <2>2. Fits(AdminSmtpConfigureRequestSchema, [host |-> Trimmed, port |-> IntIn(1, 65535)])
    BY SMTT(20), Pairs, WordPairs DEF Fits, AdminSmtpConfigureRequestSchema
  <2> QED
    BY <2>1, <2>2, FitsTogether DEF Matches, Agree, Contract, Payload, HelperRequests,
       AdminContracts, Admins
<1>6. Matches("ADMIN_INTEGRATIONS_DROPBOX_TOKENS_UPDATE", AdminContracts, HelperRequests)
  <2>1. Fits(AdminDropboxTokensUpdateRequestSchema, Admin)
    BY SMTT(20), Pairs, WordPairs DEF Fits, Admin, AdminDropboxTokensUpdateRequestSchema
  <2>2. Fits(AdminDropboxTokensUpdateRequestSchema, [refreshToken |-> Trimmed])
    BY SMTT(20), Pairs, WordPairs DEF Fits, AdminDropboxTokensUpdateRequestSchema
  <2> QED
    BY <2>1, <2>2, FitsTogether DEF Matches, Agree, Contract, Payload, HelperRequests,
       AdminContracts, Admins
<1>7. Matches("ADMIN_INTEGRATIONS_DROPBOX_APP_CONFIGURE", AdminContracts, HelperRequests)
  <2>1. Fits(AdminDropboxAppConfigureRequestSchema, Admin)
    BY SMTT(20), Pairs, WordPairs DEF Fits, Admin, AdminDropboxAppConfigureRequestSchema
  <2>2. Fits(AdminDropboxAppConfigureRequestSchema, [appKey |-> Trimmed, appSecret |-> Trimmed])
    BY SMTT(20), Pairs, WordPairs DEF Fits, AdminDropboxAppConfigureRequestSchema
  <2> QED
    BY <2>1, <2>2, FitsTogether DEF Matches, Agree, Contract, Payload, HelperRequests,
       AdminContracts, Admins
<1>8. Matches("ADMIN_DROPBOX_READINESS_GET", AdminContracts, HelperRequests)
  BY SMTT(20), Pairs, WordPairs DEF Matches, Agree, Fits, Contract, Payload, HelperRequests,
     AdminContracts, Admins, Admin, AdminDropboxReadinessRequestSchema
<1>9. Matches("ADMIN_DROPBOX_OAUTH_START", AdminContracts, HelperRequests)
  <2>1. Fits(AdminDropboxOauthStartRequestSchema, Admin)
    BY SMTT(20), Pairs, WordPairs DEF Fits, Admin, AdminDropboxOauthStartRequestSchema
  <2>2. Fits(AdminDropboxOauthStartRequestSchema, OptionalAppKey)
    BY SMTT(20), Pairs, WordPairs DEF Fits, OptionalAppKey, Nullish,
       AdminDropboxOauthStartRequestSchema
  <2> QED
    BY <2>1, <2>2, FitsTogether DEF Matches, Agree, Contract, Payload, HelperRequests,
       AdminContracts, Admins
<1>10. DOMAIN HelperRequests =
        {"ADMIN_INTEGRATIONS_HEALTH_LIST", "ADMIN_INTEGRATIONS_TEST",
         "ADMIN_INTEGRATIONS_ROTATE", "ADMIN_INTEGRATIONS_AIRTABLE_CONFIGURE",
         "ADMIN_INTEGRATIONS_SMTP_CONFIGURE", "ADMIN_INTEGRATIONS_DROPBOX_TOKENS_UPDATE",
         "ADMIN_INTEGRATIONS_DROPBOX_APP_CONFIGURE", "ADMIN_DROPBOX_READINESS_GET",
         "ADMIN_DROPBOX_OAUTH_START"}
  BY DEF HelperRequests
<1> QED
  BY SMTT(20), <1>1, <1>2, <1>3, <1>4, <1>5, <1>6, <1>7, <1>8, <1>9, <1>10, Registers

LEMMA HelperOauthRequestsAgree ==
  ASSUME NEW c \in DOMAIN HelperOauthRequests
  PROVE  Registered(c, HelperOauthRequests[c])
<1>1. Matches("ADMIN_DROPBOX_OAUTH_COMPLETE", AdminContracts, HelperOauthRequests)
  <2>1. Fits(AdminDropboxOauthCompleteRequestSchema, Admin)
    BY SMTT(20), Pairs, WordPairs DEF Fits, Admin, AdminDropboxOauthCompleteRequestSchema
  <2>2. Fits(AdminDropboxOauthCompleteRequestSchema, OptionalAppKey)
    BY SMTT(20), Pairs, WordPairs DEF Fits, OptionalAppKey, Nullish,
       AdminDropboxOauthCompleteRequestSchema
  <2>3. Fits(AdminDropboxOauthCompleteRequestSchema, [appSecret |-> Nullish(Trimmed)])
    BY SMTT(20), Pairs, WordPairs DEF Fits, Nullish, AdminDropboxOauthCompleteRequestSchema
  <2>4. Fits(AdminDropboxOauthCompleteRequestSchema, [authCode |-> Trimmed,
                                                      redirectUri |-> Nullish(Trimmed)])
    BY SMTT(20), Pairs, WordPairs DEF Fits, Nullish, AdminDropboxOauthCompleteRequestSchema
  <2> QED
    BY <2>1, <2>2, <2>3, <2>4, FitsTogether DEF Matches, Agree, Contract, Payload,
       HelperOauthRequests, AdminContracts, Admins, OptionalAppCredentials
<1>2. Matches("ADMIN_DROPBOX_OAUTH_DESKTOP_START", AdminContracts, HelperOauthRequests)
  <2>1. Fits(AdminDropboxOauthDesktopStartRequestSchema, Admin)
    BY SMTT(20), Pairs, WordPairs DEF Fits, Admin, AdminDropboxOauthDesktopStartRequestSchema
  <2>2. Fits(AdminDropboxOauthDesktopStartRequestSchema, OptionalAppKey)
    BY SMTT(20), Pairs, WordPairs DEF Fits, OptionalAppKey, Nullish,
       AdminDropboxOauthDesktopStartRequestSchema
  <2>3. Fits(AdminDropboxOauthDesktopStartRequestSchema, [appSecret |-> Nullish(Trimmed)])
    BY SMTT(20), Pairs, WordPairs DEF Fits, Nullish, AdminDropboxOauthDesktopStartRequestSchema
  <2> QED
    BY <2>1, <2>2, <2>3, FitsTogether DEF Matches, Agree, Contract, Payload,
       HelperOauthRequests, AdminContracts, Admins, OptionalAppCredentials
<1>3. Matches("ADMIN_DROPBOX_OAUTH_DESKTOP_STATUS", AdminContracts, HelperOauthRequests)
  <2>1. Fits(AdminDropboxOauthDesktopStatusRequestSchema, Admin)
    BY SMTT(20), Pairs, WordPairs DEF Fits, Admin, AdminDropboxOauthDesktopStatusRequestSchema
  <2>2. Fits(AdminDropboxOauthDesktopStatusRequestSchema, [sessionId |-> Trimmed])
    BY SMTT(20), Pairs, WordPairs DEF Fits, AdminDropboxOauthDesktopStatusRequestSchema
  <2> QED
    BY <2>1, <2>2, FitsTogether DEF Matches, Agree, Contract, Payload,
       HelperOauthRequests, AdminContracts, Admins
<1>4. DOMAIN HelperOauthRequests =
        {"ADMIN_DROPBOX_OAUTH_COMPLETE", "ADMIN_DROPBOX_OAUTH_DESKTOP_START",
         "ADMIN_DROPBOX_OAUTH_DESKTOP_STATUS"}
  BY DEF HelperOauthRequests
<1> QED
  BY SMTT(20), <1>1, <1>2, <1>3, <1>4, Registers

LEMMA InlineIntegrationRequestsAgree ==
  ASSUME NEW c \in DOMAIN InlineIntegrationRequests
  PROVE  Registered(c, InlineIntegrationRequests[c])
<1>1. Matches("ADMIN_INTEGRATIONS_HEALTH_LIST", AdminContracts, InlineIntegrationRequests)
  BY SMTT(20), Pairs, WordPairs DEF Matches, Agree, Fits, Contract, Payload,
     InlineIntegrationRequests, AdminContracts, Admins, Admin,
     AdminIntegrationHealthListRequestSchema
<1>2. Matches("ADMIN_INTEGRATIONS_TEST", AdminContracts, InlineIntegrationRequests)
  <2>1. Fits(AdminIntegrationTestRequestSchema, Admin)
    BY SMTT(20), Pairs, WordPairs DEF Fits, Admin, AdminIntegrationTestRequestSchema
  <2>2. Fits(AdminIntegrationTestRequestSchema, [provider |-> Providers])
    BY SMTT(20), Pairs, WordPairs DEF Fits, Providers, AdminIntegrationTestRequestSchema
  <2> QED
    BY <2>1, <2>2, FitsTogether DEF Matches, Agree, Contract, Payload,
       InlineIntegrationRequests, AdminContracts, Admins
<1>3. Matches("ADMIN_DROPBOX_READINESS_GET", AdminContracts, InlineIntegrationRequests)
  BY SMTT(20), Pairs, WordPairs DEF Matches, Agree, Fits, Contract, Payload,
     InlineIntegrationRequests, AdminContracts, Admins, Admin,
     AdminDropboxReadinessRequestSchema
<1>4. Matches("ADMIN_DROPBOX_OAUTH_DESKTOP_START", AdminContracts, InlineIntegrationRequests)
  BY SMTT(20), Pairs, WordPairs DEF Matches, Agree, Fits, Contract, Payload,
     InlineIntegrationRequests, AdminContracts, Admins, Admin,
     AdminDropboxOauthDesktopStartRequestSchema
<1>5. Matches("ADMIN_DROPBOX_OAUTH_DESKTOP_STATUS", AdminContracts, InlineIntegrationRequests)
  <2>1. Fits(AdminDropboxOauthDesktopStatusRequestSchema, Admin)
    BY SMTT(20), Pairs, WordPairs DEF Fits, Admin, AdminDropboxOauthDesktopStatusRequestSchema
  <2>2. Fits(AdminDropboxOauthDesktopStatusRequestSchema, [sessionId |-> Trimmed])
    BY SMTT(20), Pairs, WordPairs DEF Fits, AdminDropboxOauthDesktopStatusRequestSchema
  <2> QED
    BY <2>1, <2>2, FitsTogether DEF Matches, Agree, Contract, Payload,
       InlineIntegrationRequests, AdminContracts, Admins
<1>6. DOMAIN InlineIntegrationRequests =
        {"ADMIN_INTEGRATIONS_HEALTH_LIST", "ADMIN_INTEGRATIONS_TEST",
         "ADMIN_DROPBOX_READINESS_GET", "ADMIN_DROPBOX_OAUTH_DESKTOP_START",
         "ADMIN_DROPBOX_OAUTH_DESKTOP_STATUS"}
  BY DEF InlineIntegrationRequests
<1> QED
  BY SMTT(20), <1>1, <1>2, <1>3, <1>4, <1>5, <1>6, Registers

LEMMA AdminPolicyRequestsAgree ==
  ASSUME NEW c \in DOMAIN AdminPolicyRequests
  PROVE  Registered(c, AdminPolicyRequests[c])
<1>1. Matches("ADMIN_OPS_HISTORY_LIST", AdminContracts, AdminPolicyRequests)
  <2>1. Fits(AdminOpsHistoryListRequestSchema, Admin)
    BY SMTT(20), Pairs, WordPairs DEF Fits, Admin, AdminOpsHistoryListRequestSchema
  <2>2. Fits(AdminOpsHistoryListRequestSchema, [limit |-> Own(IntIn(1, 100))])
    BY SMTT(20), Pairs, WordPairs DEF Fits, AdminOpsHistoryListRequestSchema
  <2> QED
    BY <2>1, <2>2, FitsTogether DEF Matches, Agree, Contract, Payload,
       AdminPolicyRequests, AdminContracts, Admins
<1>2. Matches("ADMIN_QC_POLICY_UPDATE", AdminContracts, AdminPolicyRequests)
  <2>1. Fits(AdminQcPolicyUpdateRequestSchema, Admin)
    BY SMTT(20), Pairs, WordPairs DEF Fits, Admin, AdminQcPolicyUpdateRequestSchema
  <2> DEFINE part  == {Object("AdminQcPolicyUpdateRequest_policy")}
             rest  == [requestId |-> Trimmed, reason |-> Trimmed,
                       expectedPolicyVersion |-> Own(IntFrom(1))]
             whole == [requestId |-> Trimmed, reason |-> Trimmed,
                       expectedPolicyVersion |-> Own(IntFrom(1)), policy |-> part]
  <2>a. Fits(AdminQcPolicyUpdateRequestSchema, rest)
    BY SMTT(20), Pairs, WordPairs DEF Fits, AdminQcPolicyUpdateRequestSchema
  <2>b. Fits(AdminQcPolicyUpdateRequestSchema, [policy |-> part])
    BY SMTT(20), Pairs DEF Fits, AdminQcPolicyUpdateRequestSchema
  <2> HIDE DEF part
  <2>c. /\ DOMAIN whole = DOMAIN rest \cup {"policy"} /\ whole.policy = part
        /\ whole.requestId = rest.requestId /\ whole.reason = rest.reason
        /\ whole.expectedPolicyVersion = rest.expectedPolicyVersion
        /\ DOMAIN rest = {"requestId", "reason", "expectedPolicyVersion"}
    BY SMTT(20)
  <2>d. DOMAIN [policy |-> part] = {"policy"} /\ [policy |-> part].policy = part
    OBVIOUS
  <2> HIDE DEF rest, whole
  <2>2. Fits(AdminQcPolicyUpdateRequestSchema, whole)
    BY SMTT(20), <2>a, <2>b, <2>c, <2>d DEF Fits
  <2>3. Fits(AdminQcPolicyUpdateRequest_policy, [policyId |-> Trimmed,
                                                 ruleSetVersion |-> Optional(Trimmed),
                                                 rules |-> NonEmpty(ArrayOf("QcPolicyRuleBinding"))])
    BY SMTT(20), Pairs, WordPairs DEF Fits, AdminQcPolicyUpdateRequest_policy
  <2>4. Fits(QcPolicyRuleBindingSchema, RuleBinding)
    BY SMTT(20), Pairs, WordPairs DEF Fits, RuleBinding, QcPolicyRuleBindingSchema
  <2>5. /\ Nested["AdminQcPolicyUpdateRequest_policy"] = AdminQcPolicyUpdateRequest_policy
        /\ Nested["QcPolicyRuleBinding"] = QcPolicyRuleBindingSchema
    BY SMTT(20) DEF Nested
  <2>6. /\ DOMAIN AdminPolicyRequests["ADMIN_QC_POLICY_UPDATE"] =
             {"self", "AdminQcPolicyUpdateRequest_policy", "QcPolicyRuleBinding"}
        /\ Fits(AdminQcPolicyUpdateRequestSchema,
                AdminPolicyRequests["ADMIN_QC_POLICY_UPDATE"]["self"])
        /\ Fits(AdminQcPolicyUpdateRequest_policy,
                AdminPolicyRequests["ADMIN_QC_POLICY_UPDATE"]["AdminQcPolicyUpdateRequest_policy"])
        /\ Fits(QcPolicyRuleBindingSchema,
                AdminPolicyRequests["ADMIN_QC_POLICY_UPDATE"]["QcPolicyRuleBinding"])
    BY SMTT(20), <2>1, <2>2, <2>3, <2>4, FitsTogether DEF AdminPolicyRequests, whole, part
  <2>7. /\ "ADMIN_QC_POLICY_UPDATE" \in DOMAIN AdminContracts
        /\ AdminContracts["ADMIN_QC_POLICY_UPDATE"].request = AdminQcPolicyUpdateRequestSchema
    BY SMTT(20) DEF AdminContracts, Admins, Contract
  <2> QED
    BY SMTT(20), <2>5, <2>6, <2>7 DEF Matches, Agree
<1>3. DOMAIN AdminPolicyRequests =
        {"ADMIN_OPS_HISTORY_LIST", "ADMIN_QC_POLICY_UPDATE"}
  BY DEF AdminPolicyRequests
<1> QED
  BY SMTT(20), <1>1, <1>2, <1>3, Registers

LEMMA OperationsRequestsAgree ==
  ASSUME NEW c \in DOMAIN OperationsRequests, c # "DESKTOP_PRIVACY_SHIELD_STATUS"
  PROVE  Registered(c, OperationsRequests[c])
<1>1. Matches("DESKTOP_PRIVACY_SHIELD_TOGGLE", ShieldContracts, OperationsRequests)
  BY SMTT(20), Pairs, WordPairs DEF Matches, Agree, Fits, Contract, Payload, OperationsRequests,
     ShieldContracts, Creators
<1>2. Matches("JOBS_ENQUEUE", OperationsContracts, OperationsRequests)
  BY SMTT(20), Pairs, WordPairs DEF Matches, Agree, Fits, Contract, Payload, OperationsRequests,
     OperationsContracts, Reviewers, JobsEnqueueRequestSchema, IsoTimestampSchema
<1>3. Matches("JOBS_GET", OperationsContracts, OperationsRequests)
  BY SMTT(20), Pairs, WordPairs DEF Matches, Agree, Fits, Contract, Payload, OperationsRequests,
     OperationsContracts, Reviewers, JobsGetRequestSchema
<1>4. Matches("JOBS_REPLAY", OperationsContracts, OperationsRequests)
  BY SMTT(20), Pairs, WordPairs DEF Matches, Agree, Fits, Contract, Payload, OperationsRequests,
     OperationsContracts, Admins, JobsReplayRequestSchema
<1>5. Matches("SCHEDULING_RESOLVE", OperationsContracts, OperationsRequests)
  <2> DEFINE part  == {Object("SchedulingEvent")}
             rest  == [requestId |-> Trimmed, submissionId |-> Trimmed]
             whole == [requestId |-> Trimmed, submissionId |-> Trimmed, schedulingEvent |-> part]
  <2>a. Fits(SchedulingResolveRequestSchema, rest)
    BY SMTT(20), Pairs DEF Fits, SchedulingResolveRequestSchema
  <2>b. Fits(SchedulingResolveRequestSchema, [schedulingEvent |-> part])
    BY SMTT(20), Pairs DEF Fits, SchedulingResolveRequestSchema
  <2> HIDE DEF part
  <2>c. /\ DOMAIN whole = DOMAIN rest \cup {"schedulingEvent"} /\ whole.schedulingEvent = part
        /\ whole.requestId = rest.requestId /\ whole.submissionId = rest.submissionId
        /\ DOMAIN rest = {"requestId", "submissionId"}
    BY SMTT(20)
  <2>d. /\ DOMAIN [schedulingEvent |-> part] = {"schedulingEvent"}
        /\ [schedulingEvent |-> part].schedulingEvent = part
    OBVIOUS
  <2> HIDE DEF rest, whole
  <2>1. Fits(SchedulingResolveRequestSchema, whole)
    BY SMTT(20), <2>a, <2>b, <2>c, <2>d DEF Fits
  <2>2. Fits(SchedulingEventSchema, [eventName |-> Enum({"submission.approved.scheduling.v1"})])
    BY SMTT(20), Pairs, WordPairs DEF Fits, SchedulingEventSchema, IsoTimestampSchema
  <2>3. Nested["SchedulingEvent"] = SchedulingEventSchema
    BY SMTT(20) DEF Nested
  <2>4. /\ DOMAIN OperationsRequests["SCHEDULING_RESOLVE"] = {"self", "SchedulingEvent"}
        /\ Fits(SchedulingResolveRequestSchema, OperationsRequests["SCHEDULING_RESOLVE"]["self"])
        /\ Fits(SchedulingEventSchema, OperationsRequests["SCHEDULING_RESOLVE"]["SchedulingEvent"])
    BY SMTT(20), <2>1, <2>2 DEF OperationsRequests, whole, part
  <2>5. /\ "SCHEDULING_RESOLVE" \in DOMAIN OperationsContracts
        /\ OperationsContracts["SCHEDULING_RESOLVE"].request = SchedulingResolveRequestSchema
    BY SMTT(20) DEF OperationsContracts, Reviewers, Contract
  <2> QED
    BY SMTT(20), <2>3, <2>4, <2>5 DEF Matches, Agree
<1>6. Matches("SCHEDULING_OVERRIDE", OperationsContracts, OperationsRequests)
  BY SMTT(20), Pairs, WordPairs DEF Matches, Agree, Fits, Contract, Payload, OperationsRequests,
     OperationsContracts, Reviewers, SchedulingOverrideRequestSchema, IsoTimestampSchema
<1>7. Matches("SCHEDULING_TRIGGER_RELEASE", OperationsContracts, OperationsRequests)
  BY SMTT(20), Pairs, WordPairs DEF Matches, Agree, Fits, Contract, Payload, OperationsRequests,
     OperationsContracts, Admins, SchedulingTriggerReleaseRequestSchema
<1>8. Matches("OBSERVABILITY_METRICS_GET", OperationsContracts, OperationsRequests)
  BY SMTT(20), Pairs, WordPairs DEF Matches, Agree, Fits, Contract, Payload, OperationsRequests,
     OperationsContracts, Reviewers, MustBeEmpty, ObservabilityMetricsGetRequestSchema
<1>9. DOMAIN OperationsRequests =
        {"DESKTOP_PRIVACY_SHIELD_TOGGLE", "DESKTOP_PRIVACY_SHIELD_STATUS", "JOBS_ENQUEUE",
         "JOBS_GET", "JOBS_REPLAY", "SCHEDULING_RESOLVE", "SCHEDULING_OVERRIDE",
         "SCHEDULING_TRIGGER_RELEASE", "OBSERVABILITY_METRICS_GET"}
  BY DEF OperationsRequests
<1> QED
  BY SMTT(20), <1>1, <1>2, <1>3, <1>4, <1>5, <1>6, <1>7, <1>8, <1>9, Registers

LEMMA IncidentRequestsAgree ==
  ASSUME NEW c \in DOMAIN IncidentRequests
  PROVE  Registered(c, IncidentRequests[c])
<1>1. Matches("OBSERVABILITY_INCIDENTS_ANNOTATE", OperationsContracts, IncidentRequests)
  BY SMTT(20), Pairs, WordPairs DEF Matches, Agree, Fits, Contract, Payload, IncidentRequests,
     OperationsContracts, Reviewers, Nullish, ObservabilityIncidentsAnnotateRequestSchema,
     IncidentSeveritySchema, IncidentFailureClassSchema, IncidentRemediationStatusSchema
<1>2. DOMAIN IncidentRequests =
        {"OBSERVABILITY_INCIDENTS_ANNOTATE"}
  BY DEF IncidentRequests
<1> QED
  BY SMTT(20), <1>1, <1>2, Registers

LEMMA CreatorRequestsAgree ==
  ASSUME NEW c \in DOMAIN CreatorRequests
  PROVE  Registered(c, CreatorRequests[c])
<1>1. Matches("CREATOR_PROFILE_GET", CreatorContracts, CreatorRequests)
  BY SMTT(20), Pairs, WordPairs DEF Matches, Agree, Fits, Contract, Payload, CreatorRequests,
     CreatorContracts, Everyone, CreatorProfileRequestSchema
<1>2. Matches("CREATOR_PROFILE_PUT", CreatorContracts, CreatorRequests)
  BY SMTT(20), Pairs, WordPairs DEF Matches, Agree, Fits, Contract, Payload, CreatorRequests,
     CreatorContracts, Everyone, Nullish, CreatorProfilePutRequestSchema
<1>3. Matches("SUBMISSION_DRAFT", CreatorContracts, CreatorRequests)
  <2>1. Fits(SubmissionMutationRequestSchema, Owned)
    BY SMTT(20), Pairs, WordPairs DEF Fits, Owned, SubmissionMutationRequestSchema
  <2>2. Fits(SubmissionMutationRequestSchema, [releaseMonth |-> Own(OrNull(Month)),
                                               tags |-> Own(Texts),
                                               autosaveJson |-> Own(OrNull(AnyObject))])
    BY SMTT(20), Pairs, WordPairs DEF Fits, SubmissionMutationRequestSchema
  <2> QED
    BY <2>1, <2>2, FitsTogether DEF Matches, Agree, Contract, Payload, CreatorRequests,
       CreatorContracts, Creators
<1>4. DOMAIN CreatorRequests =
        {"CREATOR_PROFILE_GET", "CREATOR_PROFILE_PUT", "SUBMISSION_DRAFT"}
  BY DEF CreatorRequests
<1> QED
  BY SMTT(20), <1>1, <1>2, <1>3, <1>4, Registers

LEMMA SubmissionRequestsAgree ==
  ASSUME NEW c \in DOMAIN SubmissionRequests
  PROVE  Registered(c, SubmissionRequests[c])
<1>1. Matches("SUBMISSION_METADATA", CreatorContracts, SubmissionRequests)
  <2>1. Fits(SubmissionMutationRequestSchema, Owned)
    BY SMTT(20), Pairs, WordPairs DEF Fits, Owned, SubmissionMutationRequestSchema
  <2>2. Fits(SubmissionMutationRequestSchema, [releaseMonth |-> Own(OrNull(Month)),
                                               tags |-> Own(OrNull(Texts)),
                                               autosaveJson |-> Own(OrNull(AnyObject))])
    BY SMTT(20), Pairs, WordPairs DEF Fits, SubmissionMutationRequestSchema
  <2> QED
    BY <2>1, <2>2, FitsTogether DEF Matches, Agree, Contract, Payload,
       SubmissionRequests, CreatorContracts, Creators
<1>2. Matches("SUBMISSION_LIST", CreatorContracts, SubmissionRequests)
  BY SMTT(20), Pairs, WordPairs DEF Matches, Agree, Fits, Contract, Payload, SubmissionRequests,
     CreatorContracts, Everyone, SubmissionListRequestSchema
<1>3. Matches("SUBMISSION_TIMELINE", CreatorContracts, SubmissionRequests)
  BY SMTT(20), Pairs, WordPairs DEF Matches, Agree, Fits, Contract, Payload, SubmissionRequests,
     CreatorContracts, Everyone, Owned, SubmissionTimelineRequestSchema
<1>4. Matches("SUBMISSION_AIRTABLE_SYNC", CreatorContracts, SubmissionRequests)
  <2>1. Fits(SubmissionAirtableMutationRequestSchema, Owned)
    BY SMTT(20), Pairs, WordPairs DEF Fits, Owned, SubmissionAirtableMutationRequestSchema
  <2>2. Fits(SubmissionAirtableMutationRequestSchema, [forceRelink |-> Own(Bool)])
    BY SMTT(20), Pairs, WordPairs DEF Fits, SubmissionAirtableMutationRequestSchema
  <2> QED
    BY <2>1, <2>2, FitsTogether DEF Matches, Agree, Contract, Payload,
       SubmissionRequests, CreatorContracts, Everyone
<1>5. Matches("SUBMISSION_AIRTABLE_RESET", CreatorContracts, SubmissionRequests)
  BY SMTT(20), Pairs, WordPairs DEF Matches, Agree, Fits, Contract, Payload, SubmissionRequests,
     CreatorContracts, Everyone, Without, Owned, SubmissionAirtableMutationRequestSchema
<1>6. Matches("SUBMISSION_TRANSITION", TransitionContracts, SubmissionRequests)
  <2>1. Fits(SubmissionTransitionRequestSchema, Actor)
    BY SMTT(20), Pairs, WordPairs DEF Fits, Actor, AllowedAuthRoles,
       SubmissionTransitionRequestSchema, ActorRoleSchema
  <2>2. Fits(SubmissionTransitionRequestSchema, [submissionId |-> Trimmed, requestId |-> Trimmed,
                                                 toState |-> Trimmed])
    BY SMTT(20), Pairs, WordPairs DEF Fits, SubmissionTransitionRequestSchema, ActorRoleSchema
  <2> QED
    BY <2>1, <2>2, FitsTogether DEF Matches, Agree, Contract, Payload,
       SubmissionRequests, TransitionContracts, Everyone
<1>7. DOMAIN SubmissionRequests =
        {"SUBMISSION_METADATA", "SUBMISSION_LIST", "SUBMISSION_TIMELINE",
         "SUBMISSION_AIRTABLE_SYNC", "SUBMISSION_AIRTABLE_RESET", "SUBMISSION_TRANSITION"}
  BY DEF SubmissionRequests
<1> QED
  BY SMTT(20), <1>1, <1>2, <1>3, <1>4, <1>5, <1>6, <1>7, Registers

LEMMA IntakeRequestsAgree ==
  ASSUME NEW c \in DOMAIN IntakeRequests
  PROVE  Registered(c, IntakeRequests[c])
<1>1. Matches("INTAKE_FOLDER_SELECT", IntakeContracts, IntakeRequests)
  BY SMTT(20), Pairs, WordPairs DEF Matches, Agree, Fits, Contract, Payload, IntakeRequests,
     IntakeContracts, Everyone, MustBeEmpty, IntakeFolderSelectRequestSchema
<1>2. Matches("INTAKE_SESSION_START", IntakeContracts, IntakeRequests)
  <2>1. Fits(IntakeSessionStartRequestSchema, Owned)
    BY SMTT(20), Pairs, WordPairs DEF Fits, Owned, IntakeSessionStartRequestSchema
  <2>2. Fits(IntakeSessionStartRequestSchema, [requestId |-> Trimmed, packName |-> Trimmed])
    BY SMTT(20), Pairs, WordPairs DEF Fits, IntakeSessionStartRequestSchema
  <2> QED
    BY <2>1, <2>2, FitsTogether DEF Matches, Agree, Contract, Payload, IntakeRequests,
       IntakeContracts, Creators
<1>3. Matches("INTAKE_MANIFEST_PUT", IntakeContracts, IntakeRequests)
  BY SMTT(20), Pairs, WordPairs DEF Matches, Agree, Fits, Contract, Payload, IntakeRequests,
     IntakeContracts, Creators, IntakeManifestPutRequestSchema
<1>4. Matches("INTAKE_HANDOFF_CREATE", IntakeContracts, IntakeRequests)
  <2>1. Fits(IntakeHandoffCreateRequestSchema, Actor)
    BY SMTT(20), Pairs, WordPairs DEF Fits, Actor, AllowedAuthRoles,
       IntakeHandoffCreateRequestSchema, ActorRoleSchema
  <2>2. Fits(IntakeHandoffCreateRequestSchema, [intakeSessionId |-> Trimmed,
                                                requestId |-> Trimmed])
    BY SMTT(20), Pairs, WordPairs DEF Fits, IntakeHandoffCreateRequestSchema, ActorRoleSchema
  <2> QED
    BY <2>1, <2>2, FitsTogether DEF Matches, Agree, Contract, Payload, IntakeRequests,
       IntakeContracts, Creators
<1>5. Matches("INTAKE_HANDOFF_STATUS_GET", IntakeContracts, IntakeRequests)
  BY SMTT(20), Pairs, WordPairs DEF Matches, Agree, Fits, Contract, Payload, IntakeRequests,
     IntakeContracts, Everyone, StorageHandoffStatusRequestSchema
<1>6. Matches("INTAKE_HANDOFF_CONTROL", IntakeContracts, IntakeRequests)
  <2>1. Fits(StorageHandoffControlRequestSchema, Actor)
    BY SMTT(20), Pairs, WordPairs DEF Fits, Actor, AllowedAuthRoles,
       StorageHandoffControlRequestSchema, ActorRoleSchema
  <2>2. Fits(StorageHandoffControlRequestSchema, [handoffId |-> Trimmed, requestId |-> Trimmed,
                                                  action |-> Enum({"pause", "resume", "cancel"})])
    BY SMTT(20), Pairs, WordPairs DEF Fits, StorageHandoffControlRequestSchema, ActorRoleSchema
  <2> QED
    BY <2>1, <2>2, FitsTogether DEF Matches, Agree, Contract, Payload, IntakeRequests,
       IntakeContracts, Creators
<1>7. Matches("INTAKE_LOCK", IntakeContracts, IntakeRequests)
  <2>1. Fits(IntakeLockRequestSchema, Actor)
    BY SMTT(20), Pairs, WordPairs DEF Fits, Actor, AllowedAuthRoles, IntakeLockRequestSchema,
       ActorRoleSchema
  <2>2. Fits(IntakeLockRequestSchema, [submissionId |-> Trimmed])
    BY SMTT(20), Pairs, WordPairs DEF Fits, IntakeLockRequestSchema, ActorRoleSchema
  <2> QED
    BY <2>1, <2>2, FitsTogether DEF Matches, Agree, Contract, Payload, IntakeRequests,
       IntakeContracts, Creators
<1>8. DOMAIN IntakeRequests =
        {"INTAKE_FOLDER_SELECT", "INTAKE_SESSION_START", "INTAKE_MANIFEST_PUT",
         "INTAKE_HANDOFF_CREATE", "INTAKE_HANDOFF_STATUS_GET", "INTAKE_HANDOFF_CONTROL",
         "INTAKE_LOCK"}
  BY DEF IntakeRequests
<1> QED
  BY SMTT(20), <1>1, <1>2, <1>3, <1>4, <1>5, <1>6, <1>7, <1>8, Registers

LEMMA SecurityRequestsAgree ==
  ASSUME NEW c \in DOMAIN SecurityRequests
  PROVE  Registered(c, SecurityRequests[c])
<1>1. Matches("DESKTOP_VERIFY_SECURITY", DesktopContracts, SecurityRequests)
  BY SMTT(20), Pairs, WordPairs DEF Matches, Agree, Fits, Contract, Payload, SecurityRequests,
     DesktopContracts, Everyone, MustBeEmpty, VerifySecurityConfigRequestSchema
<1>2. Matches("AUDIT_LIST_SECURITY_EVENTS", DesktopContracts, SecurityRequests)
  BY SMTT(20), Pairs, WordPairs DEF Matches, Agree, Fits, Contract, Payload, SecurityRequests,
     DesktopContracts, Reviewers, AuditListSecurityEventsRequestSchema
<1>3. DOMAIN SecurityRequests =
        {"DESKTOP_VERIFY_SECURITY", "AUDIT_LIST_SECURITY_EVENTS"}
  BY DEF SecurityRequests
<1> QED
  BY SMTT(20), <1>1, <1>2, <1>3, Registers

\* All checks of a part agree with their contracts, but for the one whose method takes no
\* argument although its contract allows any.
Shielded == "DESKTOP_PRIVACY_SHIELD_STATUS"
AllAgree(requests) == \A c \in DOMAIN requests \ {Shielded} : Registered(c, requests[c])

LEMMA PartsTogether ==
  ASSUME NEW f, NEW g, AllAgree(f), AllAgree(g)
  PROVE  AllAgree(f ++ g)
<1> DEFINE m == f ++ g
<1>1. \A x : x \in DOMAIN m => x \in DOMAIN f \/ x \in DOMAIN g
  BY MergedDomain
<1>2. \A x : x \in DOMAIN f => m[x] = f[x]
  BY MergedFirst
<1>3. \A x : x \in DOMAIN g /\ x \notin DOMAIN f => m[x] = g[x]
  BY MergedSecond
<1> HIDE DEF m
<1>4. AllAgree(m)
  BY <1>1, <1>2, <1>3 DEF AllAgree
<1> QED
  BY <1>4 DEF m

LEMMA ChecksAgree == \A helper \in BOOLEAN : AllAgree(BridgeRequests[helper])
<1>1. /\ AllAgree(AuthRequests) /\ AllAgree(QcRequests) /\ AllAgree(NotificationRequests)
      /\ AllAgree(ReviewRequests)
  BY AuthRequestsAgree, QcRequestsAgree, NotificationRequestsAgree, ReviewRequestsAgree
     DEF AllAgree
<1>2. AllAgree((AuthRequests ++ QcRequests ++ NotificationRequests ++ ReviewRequests))
  BY <1>1, PartsTogether
<1>3. /\ AllAgree(HelperRequests ++ HelperOauthRequests)
      /\ AllAgree(InlineIntegrationRequests)
  <2>1. /\ AllAgree(HelperRequests) /\ AllAgree(HelperOauthRequests)
        /\ AllAgree(InlineIntegrationRequests)
    BY HelperRequestsAgree, HelperOauthRequestsAgree, InlineIntegrationRequestsAgree DEF AllAgree
  <2> QED
    BY <2>1, PartsTogether
<1>4. \A helper \in BOOLEAN :
        AllAgree((AdminConfigRequests ++ IntegrationRequests(helper) ++ AdminPolicyRequests))
  <2> TAKE helper \in BOOLEAN
  <2>1. AllAgree(IntegrationRequests(helper))
    BY <1>3 DEF IntegrationRequests
  <2>2. AllAgree(AdminConfigRequests) /\ AllAgree(AdminPolicyRequests)
    BY AdminConfigRequestsAgree, AdminPolicyRequestsAgree DEF AllAgree
  <2> QED
    BY <2>1, <2>2, PartsTogether
<1>5. AllAgree((OperationsRequests ++ IncidentRequests ++ CreatorRequests))
  <2>1. /\ AllAgree(OperationsRequests) /\ AllAgree(IncidentRequests)
        /\ AllAgree(CreatorRequests)
    BY OperationsRequestsAgree, IncidentRequestsAgree, CreatorRequestsAgree DEF AllAgree, Shielded
  <2> QED
    BY <2>1, PartsTogether
<1>6. AllAgree((SubmissionRequests ++ IntakeRequests ++ SecurityRequests))
  <2>1. /\ AllAgree(SubmissionRequests) /\ AllAgree(IntakeRequests)
        /\ AllAgree(SecurityRequests)
    BY SubmissionRequestsAgree, IntakeRequestsAgree, SecurityRequestsAgree DEF AllAgree
  <2> QED
    BY <2>1, PartsTogether
<1> QED
  BY <1>2, <1>4, <1>5, <1>6, PartsTogether DEF BridgeRequests

(* The method without an argument: its payload has no field to check.        *)
LEMMA ShieldIsUnfielded ==
  ASSUME NEW helper \in BOOLEAN, Shielded \in DOMAIN BridgeRequests[helper]
  PROVE  Satisfies(TypicalRequests[Shielded], BridgeRequests[helper][Shielded])
<1>1. BridgeRequests[helper][Shielded] = MustBeEmpty
  <2> DEFINE first == AuthRequests ++ QcRequests ++ NotificationRequests ++ ReviewRequests
             second == AdminConfigRequests ++ IntegrationRequests(helper) ++ AdminPolicyRequests
             third == OperationsRequests ++ IncidentRequests ++ CreatorRequests
             fourth == SubmissionRequests ++ IntakeRequests ++ SecurityRequests
  <2>1. Shielded \notin UNION {DOMAIN AuthRequests, DOMAIN QcRequests,
                               DOMAIN NotificationRequests, DOMAIN ReviewRequests,
                               DOMAIN AdminConfigRequests, DOMAIN AdminPolicyRequests}
    BY DEF Shielded, AuthRequests, QcRequests, NotificationRequests, ReviewRequests,
           AdminConfigRequests, AdminPolicyRequests
  <2>2. Shielded \notin UNION {DOMAIN HelperRequests, DOMAIN HelperOauthRequests,
                               DOMAIN InlineIntegrationRequests}
    BY DEF Shielded, HelperRequests, HelperOauthRequests, InlineIntegrationRequests
  <2>3. Shielded \in DOMAIN OperationsRequests /\ OperationsRequests[Shielded] = MustBeEmpty
    BY DEF Shielded, OperationsRequests
  <2>4. Shielded \notin DOMAIN first
    BY <2>1, MergedDomain
  <2>5. Shielded \notin DOMAIN second
    BY <2>1, <2>2, MergedDomain DEF IntegrationRequests
  <2>6. Shielded \in DOMAIN third /\ third[Shielded] = MustBeEmpty
    BY <2>3, MergedDomain, MergedFirst
  <2>7. BridgeRequests[helper] = first ++ second ++ third ++ fourth
    BY DEF BridgeRequests
  <2> HIDE DEF first, second, third, fourth
  <2>8. Shielded \notin DOMAIN (first ++ second)
    BY <2>4, <2>5, MergedDomain
  <2>9. /\ Shielded \in DOMAIN (first ++ second ++ third)
        /\ (first ++ second ++ third)[Shielded] = MustBeEmpty
    BY <2>6, <2>8, MergedDomain, MergedSecond
  <2> QED
    BY <2>7, <2>9, MergedFirst
<1>2. Shielded \in IPC_CHANNELS
  <2>1. Shielded \in DOMAIN ShieldContracts
    BY DEF Shielded, ShieldContracts
  <2> QED
    BY <2>1, MergedDomain DEF IPC_CHANNELS, IPC_CONTRACT_REGISTRY
<1>3. Value(TypicalRequests[Shielded], "self", "unlisted") = Absent
  <2>1. "self" \in DOMAIN RequestSchemas[Shielded]
    BY <1>2, SchemasOf
  <2> QED
    BY <1>2, <2>1 DEF TypicalRequests, Value
<1> QED
  BY <1>1, <1>3 DEF Satisfies, MustBeEmpty, Payload

(* What is asked, and what the bridge said of it.                            *)
AskedAs ==
  stage # "idle" =>
    /\ call.helper \in BOOLEAN
    /\ call.channel \in Channels
    /\ call.payload = Probed(TypicalRequests[call.channel], call.probe)
    /\ call.channel = Shielded => call.probe = NoProbe
Thrown == stage = "refused" => ~BridgeAccepts(call)

LEMMA NobodyProbesTheShield == \A k \in Calls(Shielded) : k.probe = NoProbe
<1>1. RequestProbes(Shielded, RequestSchemas[Shielded], BridgeRequests[TRUE][Shielded]) = {}
  BY DEF RequestProbes, ProbedFields, Shielded
<1> QED
  BY <1>1 DEF Calls, Variants

LEMMA WithAHelperOrNot == \A c : \A k \in Calls(c) : k.helper \in BOOLEAN
BY DEF Calls, Variants

LEMMA RefusalStarts == Init => AskedAs /\ Thrown
BY DEF Init, AskedAs, Thrown

LEMMA RefusalSteps ==
  ASSUME AskedAs /\ Thrown, [Next]_vars
  PROVE  AskedAs' /\ Thrown'
<1>1. CASE Ask
  <2>1. PICK c \in Channels : \E k \in Calls(c) :
          call' = [channel |-> c, payload |-> Probed(TypicalRequests[c], k.probe),
                   helper |-> k.helper, roles |-> k.roles, sender |-> k.sender,
                   probe |-> k.probe]
    BY <1>1 DEF Ask
  <2>2. PICK k \in Calls(c) :
          /\ call'.channel = c /\ call'.helper = k.helper /\ call'.probe = k.probe
          /\ call'.payload = Probed(TypicalRequests[c], k.probe)
    BY <2>1
  <2>3. k.helper \in BOOLEAN /\ (c = Shielded => k.probe = NoProbe)
    BY <2>2, WithAHelperOrNot, NobodyProbesTheShield
  <2>4. AskedAs'
    BY <2>2, <2>3 DEF AskedAs
  <2>5. stage' = "refused" => ~BridgeAccepts(call')
    BY <1>1 DEF Ask
  <2> QED
    BY <2>4, <2>5 DEF Thrown
<1>2. CASE Return
  BY <1>2 DEF Return, AskedAs, Thrown
<1>3. CASE stage # "idle" /\ stage' \notin {"idle", "refused"} /\ call' = call
  BY <1>3 DEF AskedAs, Thrown
<1>4. CASE UNCHANGED vars
  BY <1>4 DEF AskedAs, Thrown, BridgeAccepts, vars
<1>5. ASSUME stage = "admitted", Ending
      PROVE  stage' \in {"done", "answered"} /\ call' = call
  BY <1>5 DEF Ending, Does
<1>6. ASSUME RejectSender \/ RejectRequest \/ RejectActor \/ Admit
      PROVE  stage = "sent" /\ stage' \in {"replied", "admitted"} /\ call' = call
  BY <1>6 DEF RejectSender, RejectRequest, RejectActor, Admit, Deny
<1>7. ASSUME SelectionCanceled \/ MapReply
      PROVE  stage \in {"admitted", "done"} /\ stage' = "answered" /\ call' = call
  BY <1>7 DEF SelectionCanceled, MapReply, Answered
<1>8. ASSUME Respond \/ Deliver
      PROVE  /\ stage \in {"answered", "replied"} /\ stage' \in {"replied", "delivered"}
             /\ call' = call
  BY <1>8 DEF Respond, Deny, Deliver
<1> QED
  BY <1>1, <1>2, <1>3, <1>4, <1>5, <1>6, <1>7, <1>8, HandlerEnds DEF Next

(* For every channel, every value of every field of its request, with and    *)
(* without the helper: the bridge throws at no request of the page that the  *)
(* main process would have taken.                                            *)
THEOREM NoValidCallIsRefusedHolds == Spec => []NoValidCallIsRefused
<1>1. ASSUME AskedAs, Thrown
      PROVE  NoValidCallIsRefused
  <2> SUFFICES ASSUME stage = "refused", Sendable(call), MainAccepts(call)
               PROVE  FALSE
    BY DEF NoValidCallIsRefused
  <2> DEFINE c == call.channel
             p == call.probe
             check == BridgeRequests[call.helper][c]
  <2>1. /\ call.helper \in BOOLEAN /\ call.payload = Probed(TypicalRequests[c], p)
        /\ c = Shielded => p = NoProbe
    BY <1>1 DEF AskedAs
  <2>2. c \in DOMAIN BridgeRequests[call.helper] /\ p.value \notin Unsaid
    BY DEF Sendable, Unsaid
  <2>3. SatisfiesStrictly(Probed(TypicalRequests[c], p), RequestSchemas[c])
    BY <2>1 DEF MainAccepts
  <2>4. Satisfies(Probed(TypicalRequests[c], p), check)
    <3>1. CASE c = Shielded
      BY <2>1, <2>2, <3>1, ShieldIsUnfielded DEF Probed
    <3>2. CASE c # Shielded
      <4>1. c \in IPC_CHANNELS /\ Agree(IPC_CONTRACT_REGISTRY[c], check)
        BY <2>1, <2>2, <3>2, ChecksAgree DEF AllAgree, Registered
      <4> QED
        BY <2>2, <2>3, <4>1, AgreeingContracts
    <3> QED
      BY <3>1, <3>2
  <2>5. ~Satisfies(Probed(TypicalRequests[c], p), check)
    BY <1>1, <2>1, <2>2 DEF Thrown, BridgeAccepts
  <2> QED
    BY <2>4, <2>5
<1>2. AskedAs /\ Thrown /\ [Next]_vars => AskedAs' /\ Thrown'
  BY RefusalSteps
<1> QED
  BY RefusalStarts, <1>1, <1>2, PTL DEF Spec

(***************************************************************************)
(* From the page's request to the service's model of it.                   *)
(***************************************************************************)

\* What becomes of a field's value on the wire, and the fields of a body that a model takes:
\* all it lists, and no other.
Wire(v) == IF v = Undefined THEN Absent ELSE v
Takes(model, fields) ==
  \A f \in DOMAIN fields : f \in DOMAIN model /\ Wire(fields[f]) \in model[f]
Fills(fields, model) == DOMAIN model \subseteq DOMAIN fields /\ Takes(model, fields)
\* A body of one object.
LEMMA FilledIsTaken ==
  ASSUME NEW fields, NEW model, Fills(fields, model)
  PROVE  SatisfiesStrictly(OnTheWire(One(fields)), Api!Flat(model))
<1> DEFINE sent == OnTheWire(One(fields))
<1>1. DOMAIN sent = {"self"} /\ DOMAIN sent["self"] = DOMAIN fields
  BY DEF OnTheWire, One
<1>2. \A f \in DOMAIN fields : sent["self"][f] = Wire(fields[f])
  BY DEF OnTheWire, One, Wire
<1>3. DOMAIN Api!Flat(model) = {"self"} /\ Api!Flat(model)["self"] = model
  BY DEF Api!Flat
<1> HIDE DEF sent
<1>4. \A f \in DOMAIN sent["self"] \cup DOMAIN model :
         SchemaAccepts(model, f, Value(sent, "self", f))
  BY <1>1, <1>2 DEF Fills, Takes, SchemaAccepts, Value
<1>5. SatisfiesStrictly(sent, Api!Flat(model))
  BY <1>1, <1>3, <1>4 DEF SatisfiesStrictly
<1> QED
  BY <1>5 DEF sent

(* The service's types are those of the contracts under the same name.       *)
LEMMA SameWords ==
  /\ \A n : Api!Text(n) = Text(n)
  /\ \A n, m : Api!TextUpTo(n, m) = TextUpTo(n, m)
  /\ \A ws : Api!Enum(ws) = Enum(ws)
  /\ Api!Trimmed = Trimmed /\ Api!Iso = Iso /\ Api!Month = Month /\ Api!Sha256 = Sha256
  /\ \A w : Api!Str(w) = Str(w)
<1>1. /\ \A w : Api!Str(w) = Str(w)
      /\ Api!Length = Length /\ Api!Words = Words
  BY DEF Api!Str, Str, Api!Length, Length, Api!Words, Words
<1>2. /\ \A n : Api!Text(n) = Text(n)
      /\ \A n, m : Api!TextUpTo(n, m) = TextUpTo(n, m)
      /\ \A ws : Api!Enum(ws) = Enum(ws)
      /\ Api!Iso = Iso /\ Api!Month = Month /\ Api!Sha256 = Sha256
  BY <1>1 DEF Api!Text, Text, Api!TextUpTo, TextUpTo, Api!Enum, Enum, Api!Iso, Iso, Api!Month,
     Month, Api!Sha256, Sha256
<1> QED
  BY <1>1, <1>2 DEF Api!Trimmed, Trimmed

LEMMA SameKinds ==
  /\ \A n : Api!IntFrom(n) = IntFrom(n)
  /\ \A n, m : Api!IntIn(n, m) = IntIn(n, m)
  /\ Api!Bool = Bool /\ Api!AnyObject = AnyObject
  /\ Api!Roles = Roles /\ Api!Strings = Strings
  /\ \A shape : Api!Object(shape) = Object(shape) /\ Api!ArrayOf(shape) = ArrayOf(shape)
  /\ \A T : Api!OrNull(T) = OrNull(T) /\ Api!Own(T) = Own(T) /\ Api!NonEmpty(T) = NonEmpty(T)
<1>1. /\ \A shape : Api!Object(shape) = Object(shape) /\ Api!Array(shape) = Array(shape)
      /\ \A n : Api!Num(n) = Num(n)
      /\ Api!Numbers = Numbers /\ Api!Largest = Largest /\ Api!Shapes = Shapes
      /\ Api!Null = Null /\ Api!Absent = Absent /\ Api!True = True /\ Api!False = False
  BY DEF Api!Object, Object, Api!Array, Array, Api!Num, Num, Api!Numbers, Numbers, Api!Largest,
     Largest, Api!Shapes, Shapes, Api!Null, Null, Api!Absent, Absent, Api!True, True, Api!False,
     False
<1>2. Api!EmptyArray = EmptyArray /\ Api!Roles = Roles /\ Api!Texts = Texts
  BY <1>1 DEF Api!EmptyArray, EmptyArray, Api!Roles, Roles, Api!Texts, Texts
<1>3. /\ \A n, m : Api!IntIn(n, m) = IntIn(n, m)
      /\ \A T : Api!OrNull(T) = OrNull(T) /\ Api!Own(T) = Own(T) /\ Api!NonEmpty(T) = NonEmpty(T)
      /\ Api!AnyObject = AnyObject /\ Api!Strings = Strings /\ Api!Bool = Bool
      /\ \A shape : Api!ArrayOf(shape) = ArrayOf(shape)
  BY <1>1, <1>2 DEF Api!IntIn, IntIn, Api!OrNull, OrNull, Api!Own, Own, Api!NonEmpty, NonEmpty,
     Api!AnyObject, AnyObject, Api!Strings, Strings, Api!Bool, Bool, Api!ArrayOf, ArrayOf
<1> QED
  BY <1>1, <1>2, <1>3 DEF Api!IntFrom, IntFrom

(* What the readings of a field make of it: each lemma is about one reading, *)
(* and gives the service's types that take the result.                       *)
LEMMA NothingOfAKind ==
  /\ \A w : /\ Str(w) \notin Nothing /\ Num(w) \notin Nothing
            /\ Object(w) \notin Nothing /\ Array(w) \notin Nothing
  /\ True \notin Nothing /\ False \notin Nothing
BY DEF Str, Num, Object, Array, True, False, Nothing, Absent, Undefined, Null

\* Types within types.
LEMMA MoreTexts ==
  /\ Text(1) \subseteq Text(0) /\ Text(3) \subseteq Text(0) /\ Url \subseteq Text(0)
  /\ Text(1) \ {Str("blank")} \subseteq Trimmed
BY DEF Text, Length, Url, Trimmed

LEMMA TextsPass ==
  /\ \A v \in Text(1) : /\ Wire(v) \in Api!Text(1)
                        /\ v # Str("blank") => Wire(v) \in Api!Trimmed
                        /\ Wire(v) \in Api!Own(Api!OrNull(Api!Text(0)))
  /\ \A v \in Text(3) : Wire(v) \in Api!Text(3)
  /\ \A v \in Text(12) : Wire(v) \in Api!Text(12)
  /\ \A v \in TextUpTo(4, 8) : Wire(v) \in Api!TextUpTo(4, 8)
  /\ \A v \in Sha256 : Wire(v) \in Api!Sha256
  /\ \A v \in IsoTimestampSchema : Wire(v) \in Api!Iso
<1>1. \A w : Str(w) # Undefined
  BY DEF Str, Undefined
<1>2. /\ \A n : \A v \in Text(n) : v # Undefined
      /\ \A v \in TextUpTo(4, 8) \cup Sha256 \cup Iso : v # Undefined
  BY <1>1 DEF Text, TextUpTo, Sha256, Iso
<1>3. Text(1) \subseteq Text(0) /\ Text(1) \ {Str("blank")} \subseteq Trimmed
  BY MoreTexts
<1> QED
  BY <1>2, <1>3, SameWords, SameKinds DEF Wire, Own, OrNull, IsoTimestampSchema

LEMMA OrElseNullPasses ==
  /\ \A v \in Optional(OrNull(Text(1))) :
       /\ Wire(OrElseNull(v)) \in Api!Own(Api!OrNull(Api!Text(0)))
       /\ Wire(OrElseNull(v)) \in Api!Own(Api!OrNull(Api!Text(1)))
       /\ v # Str("blank") => Wire(OrElseNull(v)) \in Api!Own(Api!OrNull(Api!Trimmed))
  /\ \A v \in Optional(OrNull(Text(0))) \cup Optional(OrNull(Text(3))) \cup Optional(OrNull(Url))
                \cup Optional(Text(1)) :
       Wire(OrElseNull(v)) \in Api!Own(Api!OrNull(Api!Text(0)))
  /\ \A v \in Optional(OrNull(IncidentFailureClassSchema)) :
       Wire(OrElseNull(v)) \in Api!Own(Api!OrNull(Api!IncidentFailureClass))
  /\ \A v \in Optional(OrNull(IsoTimestampSchema)) :
       Wire(OrElseNull(v)) \in Api!Own(Api!OrNull(Api!Iso))
  /\ \A v \in Optional(OrNull(Month)) : Wire(OrElseNull(v)) \in Api!Own(Api!OrNull(Api!Month))
<1>1. ASSUME NEW T, NEW v \in Optional(OrNull(T))
      PROVE  Wire(OrElseNull(v)) \in {Null} \cup (T \ {Absent, Undefined})
  BY DEF Wire, OrElseNull, Or, Falsy, Optional, OrNull, Own, Null, Undefined
<1>2. \A T : Optional(T) \subseteq Optional(OrNull(T))
  BY DEF Optional, OrNull, Own
<1>3. IncidentFailureClassSchema = Api!IncidentFailureClass
  BY SameWords DEF IncidentFailureClassSchema, Api!IncidentFailureClass
<1>4. /\ \A v \in Optional(OrNull(Text(1))) :
            /\ Wire(OrElseNull(v)) \in {Null} \cup Text(1)
            /\ v # Str("blank") => Wire(OrElseNull(v)) \in {Null} \cup Trimmed
      /\ \A v \in Optional(OrNull(Text(0))) \cup Optional(OrNull(Text(3)))
                    \cup Optional(OrNull(Url)) \cup Optional(Text(1)) :
            Wire(OrElseNull(v)) \in {Null} \cup Text(0)
  <2>1. \A v \in Optional(OrNull(Text(1))) : Wire(OrElseNull(v)) \in {Null} \cup Text(1)
    BY <1>1
  <2>2. ASSUME NEW v, v # Str("blank")
        PROVE  Wire(OrElseNull(v)) # Str("blank")
    BY <2>2 DEF Wire, OrElseNull, Or, Null, Absent, Str
  <2>3. \A T : \A v \in Optional(OrNull(T)) : Wire(OrElseNull(v)) \in {Null} \cup T
    BY <1>1
  <2> QED
    BY <1>2, <2>1, <2>2, <2>3, MoreTexts
<1>5. \A T : OrNull(T) \subseteq Own(OrNull(T)) /\ {Null} \cup T = OrNull(T)
  BY DEF Own, OrNull
<1> QED
  BY <1>1, <1>3, <1>4, <1>5, SameWords, SameKinds, MoreTexts DEF IsoTimestampSchema

LEMMA EnumsPass ==
  /\ \A v \in ActorRoleSchema :
       /\ Wire(v) \in Api!QcActorRole /\ Wire(v) \in Api!NotificationActorRole
       /\ Wire(v) \in Api!ActorRole /\ Wire(v) \in Api!Text(1)
  /\ \A v \in Enum({"admin"}) : Wire(v) \in Api!QcActorRole
  /\ \A v \in Enum({"reviewer", "admin"}) :
       Wire(v) \in Api!ReviewActorRole /\ Wire(v) \in Api!Enum({"reviewer", "admin"})
  /\ \A v \in Enum({"system", "admin"}) : Wire(v) \in Api!Enum({"system", "admin"})
  /\ \A v \in Enum({"pause", "resume", "cancel"}) : Wire(v) \in Api!StorageHandoffControlAction
  /\ \A v \in IncidentSeveritySchema : Wire(v) \in Api!IncidentSeverity
  /\ \A v \in OtpPurposeSchema : Wire(v) \in Api!OtpPurpose
  /\ \A v \in RejectReasonCodeSchema : Wire(v) \in Api!Own(Api!OrNull(Api!RejectReasonCode))
  /\ \A v \in Api!SubmissionState : Wire(v) \in Api!SubmissionState
  /\ Wire(Str("temporary-object-storage")) \in Api!Own(Api!Enum({"temporary-object-storage"}))
<1>1. \A ws : \A v \in Enum(ws) : Wire(v) = v
  BY NothingOfAKind DEF Wire, Enum, Nothing
<1>2. \A ws, us : ws \subseteq us => Enum(ws) \subseteq Enum(us)
  BY DEF Enum
<1>3. ActorRoleSchema \subseteq Text(1)
  BY DEF ActorRoleSchema, Enum, Text, Words
<1>4. /\ Api!QcActorRole = Enum({"creator", "reviewer", "admin", "system"})
      /\ Api!ActorRole = Enum({"creator", "reviewer", "admin", "system"})
      /\ Api!NotificationActorRole = ActorRoleSchema
      /\ Api!ReviewActorRole = ActorRoleSchema
      /\ ActorRoleSchema = Enum({"creator", "reviewer", "admin"})
  BY SameWords DEF Api!QcActorRole, Api!ActorRole, Api!NotificationActorRole,
     Api!ReviewActorRole, ActorRoleSchema
<1>5. /\ ActorRoleSchema \subseteq Api!QcActorRole /\ Enum({"admin"}) \subseteq Api!QcActorRole
      /\ Enum({"reviewer", "admin"}) \subseteq ActorRoleSchema
  BY <1>2, <1>4
<1>6. /\ Api!StorageHandoffControlAction = Enum({"pause", "resume", "cancel"})
      /\ Api!IncidentSeverity = IncidentSeveritySchema
      /\ Api!OtpPurpose = OtpPurposeSchema /\ Api!RejectReasonCode = RejectReasonCodeSchema
  BY SameWords DEF Api!StorageHandoffControlAction, Api!IncidentSeverity, IncidentSeveritySchema,
     Api!OtpPurpose, OtpPurposeSchema, Api!RejectReasonCode, RejectReasonCodeSchema
<1>7. /\ \A v \in ActorRoleSchema \cup IncidentSeveritySchema \cup OtpPurposeSchema
                    \cup RejectReasonCodeSchema : Wire(v) = v
  BY <1>1 DEF ActorRoleSchema, IncidentSeveritySchema, OtpPurposeSchema, RejectReasonCodeSchema
<1>8. Str("temporary-object-storage") \in Enum({"temporary-object-storage"})
  BY DEF Enum
<1>9. \A v \in Api!SubmissionState : Wire(v) = v
  BY <1>1, SameWords DEF Api!SubmissionState
<1> QED
  BY <1>1, <1>3, <1>4, <1>5, <1>6, <1>7, <1>8, <1>9, SameWords, SameKinds DEF Own, OrNull

LEMMA KindsPass ==
  /\ \A v \in Bool : Wire(v) \in Api!Own(Api!Bool)
  /\ \A v \in IntFrom(0) : Wire(v) \in Api!IntFrom(0) /\ Wire(v) \in Api!Own(Api!IntFrom(0))
  /\ \A v \in IntFrom(1) : Wire(v) \in Api!IntFrom(1)
  /\ \A v \in IntIn(1, 65535) : Wire(v) \in Api!IntIn(1, 65535)
  /\ \A v \in Texts : Wire(v) \in Api!Own(Api!Strings)
  /\ \A v \in NonEmpty(Texts) : Wire(v) \in Api!NonEmpty(Api!Strings)
  /\ \A v \in Optional(NonEmpty(Roles)) : Wire(v) \in Api!Own(Api!OrNull(Api!Roles))
<1>1. \A min, max : \A v \in IntIn(min, max) : Wire(v) = v
  BY NothingOfAKind DEF Wire, IntIn, Nothing
<1>2. \A min : \A v \in IntFrom(min) : Wire(v) = v
  BY <1>1 DEF IntFrom
<1>3. \A v \in Bool \cup Texts \cup Roles : Wire(v) = v
  BY NothingOfAKind DEF Wire, Bool, Texts, Roles, EmptyArray, Nothing
<1>4. Texts \subseteq Strings /\ NonEmpty(Texts) \subseteq NonEmpty(Strings)
      /\ NonEmpty(Texts) \subseteq Texts /\ NonEmpty(Roles) \subseteq Roles
  BY DEF Strings, NonEmpty
<1>5. \A v \in Optional(NonEmpty(Roles)) : Wire(v) \in Own(OrNull(Roles))
  BY <1>3, <1>4 DEF Optional, Own, OrNull, Wire
<1>6. /\ \A v \in Bool : Wire(v) \in Own(Bool)
      /\ \A v \in IntFrom(0) : Wire(v) \in IntFrom(0) /\ Wire(v) \in Own(IntFrom(0))
      /\ \A v \in IntFrom(1) : Wire(v) \in IntFrom(1)
      /\ \A v \in IntIn(1, 65535) : Wire(v) \in IntIn(1, 65535)
      /\ \A v \in Texts : Wire(v) \in Own(Strings)
      /\ \A v \in NonEmpty(Texts) : Wire(v) \in NonEmpty(Strings)
  BY <1>1, <1>2, <1>3, <1>4 DEF Own
<1> QED
  BY <1>5, <1>6, SameKinds

LEMMA BooleansPass ==
  \A v : /\ Wire(Boolean(v)) \in Api!Own(Api!Bool)
         /\ Wire(Boolean(v)) \in Api!Own(Api!OrNull(Api!Bool))
         /\ Wire(IF Boolean(v) = True THEN True ELSE Absent) \in Api!Own(Api!Bool)
         /\ Wire(IF v \in Bool THEN v ELSE Absent) \in Api!Own(Api!Bool)
<1>1. True # Undefined /\ False # Undefined /\ Absent # Undefined
  BY DEF True, False, Absent, Undefined
<1> QED
  BY <1>1, SameKinds DEF Wire, Boolean, Own, OrNull, Bool

LEMMA CoalescePasses ==
  /\ \A v \in Optional(IntFrom(0)) : Wire(Coalesce(v, Null)) \in Api!Own(Api!OrNull(Api!IntFrom(0)))
  /\ \A v \in Optional(IntFrom(1)) : Wire(Coalesce(v, Null)) \in Api!Own(Api!OrNull(Api!IntFrom(1)))
  /\ \A v \in Optional(OrNull(Bool)) : Wire(Coalesce(v, Null)) \in Api!Own(Api!OrNull(Api!Bool))
  /\ \A v \in Optional(IntIn(1, 10)) : Wire(Coalesce(v, Num(3))) \in Api!Own(Api!IntIn(1, 10))
<1>1. Null # Undefined /\ Num(3) # Undefined /\ Num(3) \in IntIn(1, 10)
  BY DEF Null, Num, Undefined, IntIn, Numbers
<1>2. \A T : \A v \in Optional(T) \cup Optional(OrNull(T)) :
         Wire(Coalesce(v, Null)) \in Own(OrNull(T))
  BY <1>1 DEF Wire, Coalesce, Nothing, Optional, Own, OrNull
<1>3. \A v \in Optional(IntIn(1, 10)) : Wire(Coalesce(v, Num(3))) \in Own(IntIn(1, 10))
  BY <1>1 DEF Wire, Coalesce, Nothing, Optional, Own
<1> QED
  BY <1>2, <1>3, SameKinds

LEMMA DefaultsPass ==
  /\ \A v \in Text(1) \cup Optional(Text(1)) : Wire(Or(v, Str("t2"))) \in Api!Own(Api!Text(1))
  /\ \A v \in Optional(Text(1)) : Wire(Or(v, Str("t8"))) \in Api!Own(Api!Text(1))
  /\ \A v \in Own(Api!Timezone) : Wire(Or(v, Str("utc"))) \in Api!Own(Api!Timezone)
  /\ \A v \in Optional(IncidentRemediationStatusSchema) :
       Wire(Or(v, Str("open"))) \in Api!Own(Api!IncidentRemediationStatus)
  /\ \A v \in Optional(Texts) : Wire(Or(v, EmptyArray)) \in Api!Own(Api!Strings)
<1>1. /\ Str("t2") \in Text(1) /\ Str("t8") \in Text(1) /\ EmptyArray \in Texts
      /\ Str("open") \in IncidentRemediationStatusSchema
      /\ Str("utc") \in Api!Timezone
  BY SameWords DEF Text, Length, Texts, Roles, IncidentRemediationStatusSchema, Enum, Api!Timezone
<1>2. \A T : \A d \in T : d # Undefined => \A v \in T \cup Optional(T) : Wire(Or(v, d)) \in Own(T)
  BY DEF Wire, Or, Falsy, Optional, Own
<1>3. \A w : Str(w) # Undefined /\ Array(w) # Undefined
  BY DEF Str, Array, Undefined
<1>4. \A T : Own(T) \subseteq Optional(T)
  BY DEF Own, Optional
<1>5. Texts \subseteq Strings
  BY DEF Strings
<1>6. IncidentRemediationStatusSchema = Api!IncidentRemediationStatus
  BY SameWords DEF IncidentRemediationStatusSchema, Api!IncidentRemediationStatus
<1>7. \A v \in Optional(Texts) : Wire(Or(v, EmptyArray)) \in Own(Strings)
  BY <1>1, <1>2, <1>3, <1>5 DEF EmptyArray, Own
<1> QED
  BY <1>1, <1>2, <1>3, <1>4, <1>6, <1>7, SameWords, SameKinds

LEMMA ChoicesPass ==
  /\ \A v \in Text(1) \cup Optional(Text(1)) :
       Wire(IF Boolean(v) = True THEN v ELSE Absent) \in Api!Own(Api!Text(0))
  /\ \A v \in Optional(OrNull(Text(1))) :
       Wire(IF v \in Falsy THEN Absent ELSE v) \in Api!Own(Api!Text(0))
  /\ \A v : Wire(IF v \in Trimmed THEN v ELSE Absent) \in Api!Own(Api!Text(0))
  /\ \A v \in Optional(IntIn(1, 100)) :
       Wire(IF v \in Integer THEN v ELSE Absent) \in Api!Own(Api!IntIn(1, 100))
<1>1. True # False /\ Absent # Undefined
  BY DEF True, False, Absent, Undefined
<1>2. Trimmed \subseteq Text(0) /\ Undefined \notin Integer /\ Absent \notin Integer
  BY MoreTexts DEF Trimmed, Integer, Num, Undefined, Absent
<1>3. \A v \in Text(1) \cup Optional(OrNull(Text(1))) : v \notin Falsy => v \in Text(0)
  BY MoreTexts DEF Optional, Own, OrNull, Falsy
<1>4. Optional(Text(1)) \subseteq Optional(OrNull(Text(1)))
  BY DEF Optional, Own, OrNull
<1>5. \A v \in Text(1) \cup Optional(OrNull(Text(1))) :
        /\ Wire(IF Boolean(v) = True THEN v ELSE Absent) \in Own(Text(0))
        /\ Wire(IF v \in Falsy THEN Absent ELSE v) \in Own(Text(0))
  BY <1>1, <1>3 DEF Wire, Boolean, Own
<1>6. /\ \A v : Wire(IF v \in Trimmed THEN v ELSE Absent) \in Own(Text(0))
      /\ \A v \in Optional(IntIn(1, 100)) :
            Wire(IF v \in Integer THEN v ELSE Absent) \in Own(IntIn(1, 100))
  BY <1>1, <1>2 DEF Wire, Own, Optional
<1> QED
  BY <1>4, <1>5, <1>6, SameWords, SameKinds

LEMMA ObjectsPass ==
  /\ \A v \in AnyObject \cup Optional(AnyObject) :
       /\ Wire(OrEmpty(v)) \in Api!Own(Api!AnyObject)
       /\ Wire(OrEmpty(v)) \in Api!Own(Api!OrNull(Api!AnyObject))
  /\ \A v : Wire(IF v \in AnyObject THEN v ELSE Object("any")) \in Api!Own(Api!AnyObject)
  /\ \A v \in Optional(Strings) :
       Wire(Items(v)) \in Api!Own(Api!Strings) /\ Wire(Items(v)) \in Api!Own(Api!OrNull(Api!Strings))
  /\ \A v : Wire(Part(v, "QcAudioZipInput"))
              \in Api!Own(Api!OrNull({Api!Object("QcAudioZipInput")}))
  /\ \A v \in NonEmpty(ArrayOf("IntakeManifestPutRequest_files")) :
       Wire(Rows(v, "ManifestFileEntry")) \in Api!NonEmpty(Api!ArrayOf("ManifestFileEntry"))
  /\ \A v \in NonEmpty(ArrayOf("QcPolicyRuleBinding")) :
       Wire(Rows(v, "QcPolicyRuleBinding")) \in Api!NonEmpty(Api!ArrayOf("QcPolicyRuleBinding"))
<1>1. Object("any") \in AnyObject /\ \A v \in AnyObject : v # Undefined /\ v # Absent
  BY NothingOfAKind DEF AnyObject, Nothing
<1>2. \A v \in AnyObject \cup Optional(AnyObject) : Wire(OrEmpty(v)) \in AnyObject
  BY <1>1 DEF Wire, OrEmpty, Or, Falsy, Optional, Own
<1>3. \A v : Wire(IF v \in AnyObject THEN v ELSE Object("any")) \in AnyObject
  BY <1>1 DEF Wire
<1>4. \A v \in Optional(Strings) : Wire(Items(v)) \in Strings
  <2>1. EmptyArray \in Strings /\ Undefined \notin Strings
    BY NothingOfAKind DEF Strings, Texts, Roles, EmptyArray, Nothing
  <2>2. Absent[1] # "array" /\ Undefined[1] # "array"
    BY DEF Absent, Undefined
  <2> QED
    BY <2>1, <2>2 DEF Wire, Items, Optional, Own
<1>5. \A v : Wire(Part(v, "QcAudioZipInput")) \in {Null, Object("QcAudioZipInput")}
  BY DEF Wire, Part, Null, Object, Undefined
<1>6. \A v, shape : v \in NonEmpty(ArrayOf(shape)) => v = Array(shape) /\ v # EmptyArray
  BY DEF NonEmpty, ArrayOf
<1>7. \A v : v[1] = "array" /\ v # EmptyArray =>
         /\ Wire(Rows(v, "ManifestFileEntry")) = Array("ManifestFileEntry")
         /\ Wire(Rows(v, "QcPolicyRuleBinding")) = Array("QcPolicyRuleBinding")
  BY DEF Wire, Rows, Array, Undefined
<1>8. /\ Array("ManifestFileEntry") \in NonEmpty(ArrayOf("ManifestFileEntry"))
      /\ Array("QcPolicyRuleBinding") \in NonEmpty(ArrayOf("QcPolicyRuleBinding"))
      /\ \A shape : Array(shape)[1] = "array"
  BY DEF NonEmpty, ArrayOf, EmptyArray, Array
<1> QED
  BY <1>2, <1>3, <1>4, <1>5, <1>6, <1>7, <1>8, SameKinds DEF Own, OrNull

\* A request's fields have the types its schema gives them, and no text that must not be blank is.
Worded == {Text(1), Optional(OrNull(Text(1)))}
Told(q, schema) ==
  /\ \A f \in DOMAIN schema : q[f] \in schema[f]
  /\ \A f \in DOMAIN schema : schema[f] \in Worded => q[f] # Str("blank")
  /\ "timezone" \in DOMAIN schema => q["timezone"] \in Own(Api!Timezone)
  /\ "toState" \in DOMAIN schema => q["toState"] \in Api!SubmissionState

\* A contract whose requests stay within it when the router writes the session's actor over the
\* payload's: the type of the actor holds his identifier, and that of his role the first of the
\* roles that may call.  The time zone may be left out.
Regular(contract) ==
  /\ "actorId" \in DOMAIN contract.request =>
       contract.request["actorId"] \in {Text(1), Optional(Text(1))}
  /\ "actorRole" \in DOMAIN contract.request =>
       LET T == contract.request["actorRole"]
       IN \/ {Str("creator"), Str("reviewer"), Str("admin")} \subseteq T
          \/ /\ "creator" \notin contract.allowedRoles
             /\ {Str("reviewer"), Str("admin")} \subseteq T
          \/ contract.allowedRoles = {"admin"} /\ Str("admin") \in T
  /\ "timezone" \in DOMAIN contract.request => Absent \in contract.request["timezone"]

\* What the client makes of a request that fits its contract is of the service's model.
Reaches(c, q) == SatisfiesStrictly(Body(c, q), Api!ApiRequests[c])
Crosses(c, q) ==
  /\ Regular(IPC_CONTRACT_REGISTRY[c])
  /\ Told(q.self, IPC_CONTRACT_REGISTRY[c].request) => Reaches(c, q)

\* How the lemmas below show it of a channel.
LEMMA CarriedIsTaken ==
  ASSUME NEW c, NEW q, NEW schema, NEW fields, NEW model,
         IPC_CONTRACT_REGISTRY[c].request = schema, Regular(IPC_CONTRACT_REGISTRY[c]),
         Body(c, q) = OnTheWire(One(fields)), Api!ApiRequests[c] = Api!Flat(model),
         Told(q.self, schema) => Fills(fields, model)
  PROVE  Crosses(c, q)
BY FilledIsTaken DEF Crosses, Reaches

\* Which client answers for which channel.
LEMMA ClientsOf ==
  \A q :
  /\ \A c \in {"AUTH_LOGIN", "AUTH_REGISTER", "AUTH_OTP_SEND", "AUTH_OTP_VERIFY",
               "AUTH_FORGOT_PASSWORD", "AUTH_RESET_PASSWORD", "QC_EVALUATE_PACK", "QC_LIST_RULES",
               "NOTIFICATIONS_LIST", "NOTIFICATIONS_MARK_READ", "NOTIFICATIONS_RETRY",
               "NOTIFICATIONS_MARK_ALL_READ", "ADMIN_QC_POLICY_GET", "ADMIN_QC_POLICY_UPDATE",
               "REVIEW_SUBMISSION_GET", "ADMIN_INTEGRATIONS_HEALTH_LIST",
               "ADMIN_DROPBOX_READINESS_GET"} :
        Body(c, q) = OnTheWire(AuthBody(c, q))
  /\ \A c \in AdminChannels : Body(c, q) = OnTheWire(AdminBody(c, q.self))
  /\ \A c \in ActingWork \cup PlainWork \cup Owning : Body(c, q) = OnTheWire(OperationsBody(c, q))
BY SMTT(60) DEF Body, AccountChannels, DirectoryChannels, AuthChannels, QcChannels,
   NotificationChannels, AdminChannels, AuditChannels, ActingWork, PlainWork, Owning

\* The types contracts give the actor's role, and his identifier.
LEMMA ActorTypes ==
  /\ {Str("creator"), Str("reviewer"), Str("admin")} \subseteq ActorRoleSchema
  /\ {Str("reviewer"), Str("admin")} \subseteq Enum({"reviewer", "admin"})
  /\ Str("admin") \in Enum({"admin"}) /\ Str("admin") \in Enum({"system", "admin"})
  /\ Absent \in Optional(Text(1))
BY DEF ActorRoleSchema, Enum, Optional, Own

LEMMA WithoutRelink ==
  Without("forceRelink", SubmissionAirtableMutationRequestSchema)
    = [submissionId |-> Text(1), creatorId |-> Text(1)]
BY DEF Without, SubmissionAirtableMutationRequestSchema

(* Every channel whose body is one object, part by part.                     *)
LEMMA AuthRequestsCross ==
  ASSUME NEW q,
         NEW c \in {"AUTH_LOGIN", "AUTH_REGISTER", "AUTH_OTP_SEND", "AUTH_OTP_VERIFY",
                    "AUTH_FORGOT_PASSWORD", "AUTH_RESET_PASSWORD"}
  PROVE  Crosses(c, q)
<1>1. Body(c, q) = OnTheWire(AuthBody(c, q))
  BY ClientsOf
<1>2. CASE c = "AUTH_LOGIN"
  <2>1. /\ IPC_CONTRACT_REGISTRY[c].request = AuthLoginRequestSchema
        /\ Regular(IPC_CONTRACT_REGISTRY[c])
    BY <1>2, ContractsOf, ActorTypes DEF Regular, AuthContracts, Everyone, Contract,
       AuthLoginRequestSchema
  <2>2. Body(c, q) = OnTheWire(One(loginBody(q.self).self))
    BY <1>2, <1>1 DEF AuthBody, One, loginBody
  <2>3. Api!ApiRequests[c] = Api!Flat(Api!LoginRequest)
    BY <1>2 DEF Api!ApiRequests, Api!++
  <2>4. Told(q.self, AuthLoginRequestSchema) => Fills(loginBody(q.self).self, Api!LoginRequest)
    BY TextsPass, OrElseNullPasses DEF Told, Worded, AuthLoginRequestSchema, loginBody, One,
       Fills, Takes, Api!LoginRequest
  <2> QED
    BY <2>1, <2>2, <2>3, <2>4, CarriedIsTaken
<1>3. CASE c = "AUTH_REGISTER"
  <2>1. /\ IPC_CONTRACT_REGISTRY[c].request = AuthRegisterRequestSchema
        /\ Regular(IPC_CONTRACT_REGISTRY[c])
    BY <1>3, ContractsOf, ActorTypes DEF Regular, AuthContracts, Everyone, Contract,
       AuthRegisterRequestSchema
  <2>2. Body(c, q) = OnTheWire(One(registerBody(q.self).self))
    BY <1>3, <1>1 DEF AuthBody, One, registerBody
  <2>3. Api!ApiRequests[c] = Api!Flat(Api!RegisterRequest)
    BY <1>3 DEF Api!ApiRequests, Api!++
  <2>4. Told(q.self, AuthRegisterRequestSchema) => Fills(registerBody(q.self).self,
        Api!RegisterRequest)
    BY TextsPass, KindsPass, OrElseNullPasses DEF Told, Worded, AuthRegisterRequestSchema,
       registerBody, One, Fills, Takes, Api!RegisterRequest
  <2> QED
    BY <2>1, <2>2, <2>3, <2>4, CarriedIsTaken
<1>4. CASE c = "AUTH_OTP_SEND"
  <2>1. /\ IPC_CONTRACT_REGISTRY[c].request = AuthOtpSendRequestSchema
        /\ Regular(IPC_CONTRACT_REGISTRY[c])
    BY <1>4, ContractsOf, ActorTypes DEF Regular, AuthContracts, Everyone, Contract,
       AuthOtpSendRequestSchema
  <2>2. Body(c, q) = OnTheWire(One([target |-> q.self.target, purpose |-> q.self.purpose]))
    BY <1>4, <1>1 DEF AuthBody
  <2>3. Api!ApiRequests[c] = Api!Flat(Api!OtpSendRequest)
    BY <1>4 DEF Api!ApiRequests, Api!++
  <2>4. Told(q.self, AuthOtpSendRequestSchema) => Fills([target |-> q.self.target, purpose |->
        q.self.purpose], Api!OtpSendRequest)
    BY TextsPass, EnumsPass DEF Told, Worded, AuthOtpSendRequestSchema, Fills, Takes,
       Api!OtpSendRequest
  <2> QED
    BY <2>1, <2>2, <2>3, <2>4, CarriedIsTaken
<1>5. CASE c = "AUTH_OTP_VERIFY"
  <2>1. /\ IPC_CONTRACT_REGISTRY[c].request = AuthOtpVerifyRequestSchema
        /\ Regular(IPC_CONTRACT_REGISTRY[c])
    BY <1>5, ContractsOf, ActorTypes DEF Regular, AuthContracts, Everyone, Contract,
       AuthOtpVerifyRequestSchema
  <2>2. Body(c, q) = OnTheWire(One(verifyOtpBody(q.self).self))
    BY <1>5, <1>1 DEF AuthBody, One, verifyOtpBody
  <2>3. Api!ApiRequests[c] = Api!Flat(Api!OtpVerifyRequest)
    BY <1>5 DEF Api!ApiRequests, Api!++
  <2>4. Told(q.self, AuthOtpVerifyRequestSchema) => Fills(verifyOtpBody(q.self).self,
        Api!OtpVerifyRequest)
    BY TextsPass, EnumsPass DEF Told, Worded, AuthOtpVerifyRequestSchema, verifyOtpBody, One,
       Fills, Takes, Api!OtpVerifyRequest
  <2> QED
    BY <2>1, <2>2, <2>3, <2>4, CarriedIsTaken
<1>6. CASE c = "AUTH_FORGOT_PASSWORD"
  <2>1. /\ IPC_CONTRACT_REGISTRY[c].request = AuthForgotPasswordRequestSchema
        /\ Regular(IPC_CONTRACT_REGISTRY[c])
    BY <1>6, ContractsOf, ActorTypes DEF Regular, AuthContracts, Everyone, Contract,
       AuthForgotPasswordRequestSchema
  <2>2. Body(c, q) = OnTheWire(One([email |-> q.self.email]))
    BY <1>6, <1>1 DEF AuthBody
  <2>3. Api!ApiRequests[c] = Api!Flat(Api!ForgotPasswordRequest)
    BY <1>6 DEF Api!ApiRequests, Api!++
  <2>4. Told(q.self, AuthForgotPasswordRequestSchema) => Fills([email |-> q.self.email],
        Api!ForgotPasswordRequest)
    BY TextsPass DEF Told, Worded, AuthForgotPasswordRequestSchema, Fills, Takes,
       Api!ForgotPasswordRequest
  <2> QED
    BY <2>1, <2>2, <2>3, <2>4, CarriedIsTaken
<1>7. CASE c = "AUTH_RESET_PASSWORD"
  <2>1. /\ IPC_CONTRACT_REGISTRY[c].request = AuthResetPasswordRequestSchema
        /\ Regular(IPC_CONTRACT_REGISTRY[c])
    BY <1>7, ContractsOf, ActorTypes DEF Regular, AuthContracts, Everyone, Contract,
       AuthResetPasswordRequestSchema
  <2>2. Body(c, q) = OnTheWire(One(resetPasswordBody(q.self).self))
    BY <1>7, <1>1 DEF AuthBody, One, resetPasswordBody
  <2>3. Api!ApiRequests[c] = Api!Flat(Api!ResetPasswordRequest)
    BY <1>7 DEF Api!ApiRequests, Api!++
  <2>4. Told(q.self, AuthResetPasswordRequestSchema) => Fills(resetPasswordBody(q.self).self,
        Api!ResetPasswordRequest)
    BY TextsPass DEF Told, Worded, AuthResetPasswordRequestSchema, resetPasswordBody, One, Fills,
       Takes, Api!ResetPasswordRequest
  <2> QED
    BY <2>1, <2>2, <2>3, <2>4, CarriedIsTaken
<1> QED
  BY <1>2, <1>3, <1>4, <1>5, <1>6, <1>7

LEMMA AccountRequestsCross ==
  ASSUME NEW q,
         NEW c \in {"QC_LIST_RULES", "NOTIFICATIONS_LIST", "NOTIFICATIONS_MARK_READ",
                    "NOTIFICATIONS_RETRY", "NOTIFICATIONS_MARK_ALL_READ", "ADMIN_QC_POLICY_GET"}
  PROVE  Crosses(c, q)
<1>1. Body(c, q) = OnTheWire(AuthBody(c, q))
  BY ClientsOf
<1>2. CASE c = "QC_LIST_RULES"
  <2>1. /\ IPC_CONTRACT_REGISTRY[c].request = QcListRulesRequestSchema
        /\ Regular(IPC_CONTRACT_REGISTRY[c])
    BY <1>2, ContractsOf, ActorTypes DEF Regular, QcContracts, Everyone, Contract,
       QcListRulesRequestSchema
  <2>2. Body(c, q) = OnTheWire(One(listRulesQuery(q.self).self))
    BY <1>2, <1>1 DEF AuthBody, One, listRulesQuery
  <2>3. Api!ApiRequests[c] = Api!Flat(Api!RulesQuery)
    BY <1>2 DEF Api!ApiRequests, Api!++
  <2>4. Told(q.self, QcListRulesRequestSchema) => Fills(listRulesQuery(q.self).self,
        Api!RulesQuery)
    BY BooleansPass, ChoicesPass DEF Told, Worded, QcListRulesRequestSchema, listRulesQuery, One,
       Fills, Takes, Api!RulesQuery
  <2> QED
    BY <2>1, <2>2, <2>3, <2>4, CarriedIsTaken
<1>3. CASE c = "NOTIFICATIONS_LIST"
  <2> DEFINE fields == ActorOf(q.self) ++ [include_read |-> Boolean(q.self.includeRead)]
  <2>1. /\ IPC_CONTRACT_REGISTRY[c].request = NotificationsListRequestSchema
        /\ Regular(IPC_CONTRACT_REGISTRY[c])
    BY <1>3, ContractsOf, ActorTypes DEF Regular, NotificationContracts, Everyone, Contract,
       NotificationsListRequestSchema
  <2>2. Body(c, q) = OnTheWire(One(fields))
    BY <1>3, <1>1 DEF AuthBody
  <2>3. Api!ApiRequests[c] = Api!Flat(Api!NotificationsQuery)
    BY <1>3 DEF Api!ApiRequests, Api!++
  <2>4. Told(q.self, NotificationsListRequestSchema) => Fills(fields, Api!NotificationsQuery)
    BY TextsPass, EnumsPass, BooleansPass DEF Told, Worded, NotificationsListRequestSchema,
       ActorOf, ++, Fills, Takes, Api!NotificationsQuery
  <2> QED
    BY <2>1, <2>2, <2>3, <2>4, CarriedIsTaken
<1>4. CASE c = "NOTIFICATIONS_MARK_READ"
  <2> DEFINE fields == ActorOf(q.self) ++ [notification_ids |-> q.self.notificationIds]
  <2>1. /\ IPC_CONTRACT_REGISTRY[c].request = NotificationsMarkReadRequestSchema
        /\ Regular(IPC_CONTRACT_REGISTRY[c])
    BY <1>4, ContractsOf, ActorTypes DEF Regular, NotificationContracts, Everyone, Contract,
       NotificationsMarkReadRequestSchema
  <2>2. Body(c, q) = OnTheWire(One(fields))
    BY <1>4, <1>1 DEF AuthBody
  <2>3. Api!ApiRequests[c] = Api!Flat(Api!MarkNotificationsReadRequest)
    BY <1>4 DEF Api!ApiRequests, Api!++
  <2>4. Told(q.self, NotificationsMarkReadRequestSchema) => Fills(fields,
        Api!MarkNotificationsReadRequest)
    BY TextsPass, EnumsPass, KindsPass DEF Told, Worded, NotificationsMarkReadRequestSchema,
       ActorOf, ++, Fills, Takes, Api!MarkNotificationsReadRequest
  <2> QED
    BY <2>1, <2>2, <2>3, <2>4, CarriedIsTaken
<1>5. CASE c = "NOTIFICATIONS_RETRY"
  <2> DEFINE fields == ActorOf(q.self) ++ [notification_id |-> q.self.notificationId]
  <2>1. /\ IPC_CONTRACT_REGISTRY[c].request = NotificationsRetryRequestSchema
        /\ Regular(IPC_CONTRACT_REGISTRY[c])
    BY <1>5, ContractsOf, ActorTypes DEF Regular, NotificationContracts, Reviewers, Contract,
       NotificationsRetryRequestSchema
  <2>2. Body(c, q) = OnTheWire(One(fields))
    BY <1>5, <1>1 DEF AuthBody
  <2>3. Api!ApiRequests[c] = Api!Flat(Api!RetryNotificationRequest)
    BY <1>5 DEF Api!ApiRequests, Api!++
  <2>4. Told(q.self, NotificationsRetryRequestSchema) => Fills(fields,
        Api!RetryNotificationRequest)
    BY TextsPass, EnumsPass DEF Told, Worded, NotificationsRetryRequestSchema, ActorOf, ++, Fills,
       Takes, Api!RetryNotificationRequest
  <2> QED
    BY <2>1, <2>2, <2>3, <2>4, CarriedIsTaken
<1>6. CASE c = "NOTIFICATIONS_MARK_ALL_READ"
  <2>1. /\ IPC_CONTRACT_REGISTRY[c].request = NotificationsMarkAllReadRequestSchema
        /\ Regular(IPC_CONTRACT_REGISTRY[c])
    BY <1>6, ContractsOf, ActorTypes DEF Regular, NotificationContracts, Everyone, Contract,
       NotificationsMarkAllReadRequestSchema
  <2>2. Body(c, q) = OnTheWire(One(ActorOf(q.self)))
    BY <1>6, <1>1 DEF AuthBody
  <2>3. Api!ApiRequests[c] = Api!Flat(Api!MarkAllNotificationsReadRequest)
    BY <1>6 DEF Api!ApiRequests, Api!++
  <2>4. Told(q.self, NotificationsMarkAllReadRequestSchema) => Fills(ActorOf(q.self),
        Api!MarkAllNotificationsReadRequest)
    BY TextsPass, EnumsPass DEF Told, Worded, NotificationsMarkAllReadRequestSchema, ActorOf,
       Fills, Takes, Api!MarkAllNotificationsReadRequest
  <2> QED
    BY <2>1, <2>2, <2>3, <2>4, CarriedIsTaken
<1>7. CASE c = "ADMIN_QC_POLICY_GET"
  <2>1. /\ IPC_CONTRACT_REGISTRY[c].request = AdminQcPolicyGetRequestSchema
        /\ Regular(IPC_CONTRACT_REGISTRY[c])
    BY <1>7, ContractsOf, ActorTypes DEF Regular, AdminContracts, Admins, Contract,
       AdminQcPolicyGetRequestSchema, AdminActorRequestSchema
  <2>2. Body(c, q) = OnTheWire(One(ActorOf(q.self)))
    BY <1>7, <1>1 DEF AuthBody
  <2>3. Api!ApiRequests[c] = Api!Flat(Api!AdminActorRequest)
    BY <1>7 DEF Api!ApiRequests, Api!++
  <2>4. Told(q.self, AdminQcPolicyGetRequestSchema) => Fills(ActorOf(q.self),
        Api!AdminActorRequest)
    BY TextsPass, EnumsPass DEF Told, Worded, AdminQcPolicyGetRequestSchema,
       AdminActorRequestSchema, ActorOf, Fills, Takes, Api!AdminActorRequest
  <2> QED
    BY <2>1, <2>2, <2>3, <2>4, CarriedIsTaken
<1> QED
  BY <1>2, <1>3, <1>4, <1>5, <1>6, <1>7

LEMMA DirectoryRequestsCross ==
  ASSUME NEW q,
         NEW c \in {"REVIEW_SUBMISSION_GET", "ADMIN_INTEGRATIONS_HEALTH_LIST",
                    "ADMIN_DROPBOX_READINESS_GET"}
  PROVE  Crosses(c, q)
<1>1. Body(c, q) = OnTheWire(AuthBody(c, q))
  BY ClientsOf
<1>2. CASE c = "REVIEW_SUBMISSION_GET"
  <2>1. /\ IPC_CONTRACT_REGISTRY[c].request = ReviewSubmissionGetRequestSchema
        /\ Regular(IPC_CONTRACT_REGISTRY[c])
    BY <1>2, ContractsOf, ActorTypes DEF Regular, ReviewContracts, Reviewers, Contract,
       ReviewSubmissionGetRequestSchema
  <2>2. Body(c, q) = OnTheWire(One(ActorOf(q.self)))
    BY <1>2, <1>1 DEF AuthBody
  <2>3. Api!ApiRequests[c] = Api!Flat(Api!ReviewSubmissionRequest)
    BY <1>2 DEF Api!ApiRequests, Api!++
  <2>4. Told(q.self, ReviewSubmissionGetRequestSchema) => Fills(ActorOf(q.self),
        Api!ReviewSubmissionRequest)
    BY TextsPass, EnumsPass DEF Told, Worded, ReviewSubmissionGetRequestSchema, ActorOf, Fills,
       Takes, Api!ReviewSubmissionRequest
  <2> QED
    BY <2>1, <2>2, <2>3, <2>4, CarriedIsTaken
<1>3. CASE c = "ADMIN_INTEGRATIONS_HEALTH_LIST"
  <2>1. /\ IPC_CONTRACT_REGISTRY[c].request = AdminIntegrationHealthListRequestSchema
        /\ Regular(IPC_CONTRACT_REGISTRY[c])
    BY <1>3, ContractsOf, ActorTypes DEF Regular, AdminContracts, Admins, Contract,
       AdminIntegrationHealthListRequestSchema
  <2>2. Body(c, q) = OnTheWire(One(ActorOf(q.self)))
    BY <1>3, <1>1 DEF AuthBody
  <2>3. Api!ApiRequests[c] = Api!Flat(Api!AdminActorRequest)
    BY <1>3 DEF Api!ApiRequests, Api!++
  <2>4. Told(q.self, AdminIntegrationHealthListRequestSchema) => Fills(ActorOf(q.self),
        Api!AdminActorRequest)
    BY TextsPass, EnumsPass DEF Told, Worded, AdminIntegrationHealthListRequestSchema, ActorOf,
       Fills, Takes, Api!AdminActorRequest
  <2> QED
    BY <2>1, <2>2, <2>3, <2>4, CarriedIsTaken
<1>4. CASE c = "ADMIN_DROPBOX_READINESS_GET"
  <2>1. /\ IPC_CONTRACT_REGISTRY[c].request = AdminDropboxReadinessRequestSchema
        /\ Regular(IPC_CONTRACT_REGISTRY[c])
    BY <1>4, ContractsOf, ActorTypes DEF Regular, AdminContracts, Admins, Contract,
       AdminDropboxReadinessRequestSchema
  <2>2. Body(c, q) = OnTheWire(One(ActorOf(q.self)))
    BY <1>4, <1>1 DEF AuthBody
  <2>3. Api!ApiRequests[c] = Api!Flat(Api!AdminActorRequest)
    BY <1>4 DEF Api!ApiRequests, Api!++
  <2>4. Told(q.self, AdminDropboxReadinessRequestSchema) => Fills(ActorOf(q.self),
        Api!AdminActorRequest)
    BY TextsPass, EnumsPass DEF Told, Worded, AdminDropboxReadinessRequestSchema, ActorOf, Fills,
       Takes, Api!AdminActorRequest
  <2> QED
    BY <2>1, <2>2, <2>3, <2>4, CarriedIsTaken
<1> QED
  BY <1>2, <1>3, <1>4

LEMMA ReviewRequestsCross ==
  ASSUME NEW q,
         NEW c \in {"REVIEW_QUEUE_LIST", "REVIEW_APPROVE", "REVIEW_REOPEN", "REVIEW_REJECT",
                    "REVIEW_TAG_ADD", "REVIEW_FLAG_ADD"}
  PROVE  Crosses(c, q)
<1>1. Body(c, q) = OnTheWire(AdminBody(c, q.self))
  BY ClientsOf DEF AdminChannels
<1>2. CASE c = "REVIEW_QUEUE_LIST"
  <2>1. /\ IPC_CONTRACT_REGISTRY[c].request = ReviewQueueListRequestSchema
        /\ Regular(IPC_CONTRACT_REGISTRY[c])
    BY <1>2, ContractsOf, ActorTypes DEF Regular, ReviewContracts, Reviewers, Contract,
       ReviewQueueListRequestSchema
  <2>2. Body(c, q) = OnTheWire(One(reviewQueueQuery(q.self).self))
    BY <1>2, <1>1 DEF AdminBody, One, reviewQueueQuery
  <2>3. Api!ApiRequests[c] = Api!Flat(Api!ReviewQueueQuery)
    BY <1>2 DEF Api!ApiRequests, Api!++
  <2>4. Told(q.self, ReviewQueueListRequestSchema) => Fills(reviewQueueQuery(q.self).self,
        Api!ReviewQueueQuery)
    BY TextsPass, EnumsPass, ChoicesPass DEF Told, Worded, ReviewQueueListRequestSchema,
       reviewQueueQuery, One, ActorOf, ++, Fills, Takes, Api!ReviewQueueQuery
  <2> QED
    BY <2>1, <2>2, <2>3, <2>4, CarriedIsTaken
<1>3. CASE c = "REVIEW_APPROVE"
  <2>1. /\ IPC_CONTRACT_REGISTRY[c].request = ReviewApproveRequestSchema
        /\ Regular(IPC_CONTRACT_REGISTRY[c])
    BY <1>3, ContractsOf, ActorTypes DEF Regular, ReviewContracts, Reviewers, Contract,
       ReviewApproveRequestSchema
  <2>2. Body(c, q) = OnTheWire(One(decideReviewBody(q.self).self))
    BY <1>3, <1>1 DEF AdminBody, One, decideReviewBody
  <2>3. Api!ApiRequests[c] = Api!Flat(Api!ReviewActionBaseRequest)
    BY <1>3 DEF Api!ApiRequests, Api!++
  <2>4. Told(q.self, ReviewApproveRequestSchema) => Fills(decideReviewBody(q.self).self,
        Api!ReviewActionBaseRequest)
    BY TextsPass, EnumsPass, OrElseNullPasses, CoalescePasses DEF Told, Worded,
       ReviewApproveRequestSchema, decideReviewBody, One, ActorOf, ++, Fills, Takes,
       Api!ReviewActionBaseRequest
  <2> QED
    BY <2>1, <2>2, <2>3, <2>4, CarriedIsTaken
<1>4. CASE c = "REVIEW_REOPEN"
  <2>1. /\ IPC_CONTRACT_REGISTRY[c].request = ReviewReopenRequestSchema
        /\ Regular(IPC_CONTRACT_REGISTRY[c])
    BY <1>4, ContractsOf, ActorTypes DEF Regular, ReviewContracts, Reviewers, Contract,
       ReviewReopenRequestSchema
  <2>2. Body(c, q) = OnTheWire(One(decideReviewBody(q.self).self))
    BY <1>4, <1>1 DEF AdminBody, One, decideReviewBody
  <2>3. Api!ApiRequests[c] = Api!Flat(Api!ReviewActionBaseRequest)
    BY <1>4 DEF Api!ApiRequests, Api!++
  <2>4. Told(q.self, ReviewReopenRequestSchema) => Fills(decideReviewBody(q.self).self,
        Api!ReviewActionBaseRequest)
    BY TextsPass, EnumsPass, OrElseNullPasses, CoalescePasses DEF Told, Worded,
       ReviewReopenRequestSchema, decideReviewBody, One, ActorOf, ++, Fills, Takes,
       Api!ReviewActionBaseRequest
  <2> QED
    BY <2>1, <2>2, <2>3, <2>4, CarriedIsTaken
<1>5. CASE c = "REVIEW_REJECT"
  <2>1. /\ IPC_CONTRACT_REGISTRY[c].request = ReviewRejectRequestSchema
        /\ Regular(IPC_CONTRACT_REGISTRY[c])
    BY <1>5, ContractsOf, ActorTypes DEF Regular, ReviewContracts, Reviewers, Contract,
       ReviewRejectRequestSchema
  <2>2. Body(c, q) = OnTheWire(One(rejectReviewBody(q.self).self))
    BY <1>5, <1>1 DEF AdminBody, One, rejectReviewBody
  <2>3. Api!ApiRequests[c] = Api!Flat(Api!RejectSubmissionRequest)
    BY <1>5 DEF Api!ApiRequests, Api!++
  <2>4. Told(q.self, ReviewRejectRequestSchema) => Fills(rejectReviewBody(q.self).self,
        Api!RejectSubmissionRequest)
    BY TextsPass, EnumsPass, OrElseNullPasses, CoalescePasses DEF Told, Worded,
       ReviewRejectRequestSchema, rejectReviewBody, One, ActorOf, ++, Fills, Takes,
       Api!RejectSubmissionRequest, Api!ReviewActionBaseRequest, Api!++
  <2> QED
    BY <2>1, <2>2, <2>3, <2>4, CarriedIsTaken
<1>6. CASE c = "REVIEW_TAG_ADD"
  <2>1. /\ IPC_CONTRACT_REGISTRY[c].request = ReviewTagAddRequestSchema
        /\ Regular(IPC_CONTRACT_REGISTRY[c])
    BY <1>6, ContractsOf, ActorTypes DEF Regular, ReviewContracts, Reviewers, Contract,
       ReviewTagAddRequestSchema
  <2>2. Body(c, q) = OnTheWire(One(addTagBody(q.self).self))
    BY <1>6, <1>1 DEF AdminBody, One, addTagBody
  <2>3. Api!ApiRequests[c] = Api!Flat(Api!AddReviewTagRequest)
    BY <1>6 DEF Api!ApiRequests, Api!++
  <2>4. Told(q.self, ReviewTagAddRequestSchema) => Fills(addTagBody(q.self).self,
        Api!AddReviewTagRequest)
    BY TextsPass, EnumsPass DEF Told, Worded, ReviewTagAddRequestSchema, addTagBody, One, ActorOf,
       ++, Fills, Takes, Api!AddReviewTagRequest
  <2> QED
    BY <2>1, <2>2, <2>3, <2>4, CarriedIsTaken
<1>7. CASE c = "REVIEW_FLAG_ADD"
  <2>1. /\ IPC_CONTRACT_REGISTRY[c].request = ReviewFlagAddRequestSchema
        /\ Regular(IPC_CONTRACT_REGISTRY[c])
    BY <1>7, ContractsOf, ActorTypes DEF Regular, ReviewContracts, Reviewers, Contract,
       ReviewFlagAddRequestSchema
  <2>2. Body(c, q) = OnTheWire(One(addFlagBody(q.self).self))
    BY <1>7, <1>1 DEF AdminBody, One, addFlagBody
  <2>3. Api!ApiRequests[c] = Api!Flat(Api!AddReviewFlagRequest)
    BY <1>7 DEF Api!ApiRequests, Api!++
  <2>4. Told(q.self, ReviewFlagAddRequestSchema) => Fills(addFlagBody(q.self).self,
        Api!AddReviewFlagRequest)
    BY TextsPass, EnumsPass DEF Told, Worded, ReviewFlagAddRequestSchema, addFlagBody, One,
       ActorOf, ++, Fills, Takes, Api!AddReviewFlagRequest
  <2> QED
    BY <2>1, <2>2, <2>3, <2>4, CarriedIsTaken
<1> QED
  BY <1>2, <1>3, <1>4, <1>5, <1>6, <1>7

LEMMA AdminConfigRequestsCross ==
  ASSUME NEW q,
         NEW c \in {"ADMIN_CONFIGS_LIST", "ADMIN_CONFIGS_DRAFT", "ADMIN_CONFIGS_PUBLISH",
                    "ADMIN_CONFIGS_ROLLBACK", "ADMIN_OPS_HISTORY_LIST"}
  PROVE  Crosses(c, q)
<1>1. Body(c, q) = OnTheWire(AdminBody(c, q.self))
  BY ClientsOf DEF AdminChannels
<1>2. CASE c = "ADMIN_CONFIGS_LIST"
  <2>1. /\ IPC_CONTRACT_REGISTRY[c].request = AdminConfigsListRequestSchema
        /\ Regular(IPC_CONTRACT_REGISTRY[c])
    BY <1>2, ContractsOf, ActorTypes DEF Regular, AdminContracts, Admins, Contract,
       AdminConfigsListRequestSchema
  <2>2. Body(c, q) = OnTheWire(One(listConfigsQuery(q.self).self))
    BY <1>2, <1>1 DEF AdminBody, One, listConfigsQuery
  <2>3. Api!ApiRequests[c] = Api!Flat(Api!ListAdminConfigsRequest)
    BY <1>2 DEF Api!ApiRequests, Api!++
  <2>4. Told(q.self, AdminConfigsListRequestSchema) => Fills(listConfigsQuery(q.self).self,
        Api!ListAdminConfigsRequest)
    BY TextsPass, EnumsPass, BooleansPass DEF Told, Worded, AdminConfigsListRequestSchema,
       listConfigsQuery, One, ActorOf, ++, Fills, Takes, Api!ListAdminConfigsRequest,
       Api!AdminActorRequest, Api!++
  <2> QED
    BY <2>1, <2>2, <2>3, <2>4, CarriedIsTaken
<1>3. CASE c = "ADMIN_CONFIGS_DRAFT"
  <2>1. /\ IPC_CONTRACT_REGISTRY[c].request = AdminConfigDraftRequestSchema
        /\ Regular(IPC_CONTRACT_REGISTRY[c])
    BY <1>3, ContractsOf, ActorTypes DEF Regular, AdminContracts, Admins, Contract,
       AdminConfigDraftRequestSchema
  <2>2. Body(c, q) = OnTheWire(One(draftConfigBody(q.self).self))
    BY <1>3, <1>1 DEF AdminBody, One, draftConfigBody
  <2>3. Api!ApiRequests[c] = Api!Flat(Api!CreateAdminConfigDraftRequest)
    BY <1>3 DEF Api!ApiRequests, Api!++
  <2>4. Told(q.self, AdminConfigDraftRequestSchema) => Fills(draftConfigBody(q.self).self,
        Api!CreateAdminConfigDraftRequest)
    BY TextsPass, EnumsPass, ObjectsPass DEF Told, Worded, AdminConfigDraftRequestSchema,
       draftConfigBody, One, ActorOf, ++, Fills, Takes, Api!CreateAdminConfigDraftRequest,
       Api!AdminActorRequest, Api!++
  <2> QED
    BY <2>1, <2>2, <2>3, <2>4, CarriedIsTaken
<1>4. CASE c = "ADMIN_CONFIGS_PUBLISH"
  <2>1. /\ IPC_CONTRACT_REGISTRY[c].request = AdminConfigPublishRequestSchema
        /\ Regular(IPC_CONTRACT_REGISTRY[c])
    BY <1>4, ContractsOf, ActorTypes DEF Regular, AdminContracts, Admins, Contract,
       AdminConfigPublishRequestSchema
  <2>2. Body(c, q) = OnTheWire(One(decideConfigBody(q.self).self))
    BY <1>4, <1>1 DEF AdminBody, One, decideConfigBody
  <2>3. Api!ApiRequests[c] = Api!Flat(Api!PublishAdminConfigRequest)
    BY <1>4 DEF Api!ApiRequests, Api!++
  <2>4. Told(q.self, AdminConfigPublishRequestSchema) => Fills(decideConfigBody(q.self).self,
        Api!PublishAdminConfigRequest)
    BY TextsPass, EnumsPass DEF Told, Worded, AdminConfigPublishRequestSchema, decideConfigBody,
       One, ActorOf, ++, Fills, Takes, Api!PublishAdminConfigRequest, Api!AdminActorRequest,
       Api!++
  <2> QED
    BY <2>1, <2>2, <2>3, <2>4, CarriedIsTaken
<1>5. CASE c = "ADMIN_CONFIGS_ROLLBACK"
  <2>1. /\ IPC_CONTRACT_REGISTRY[c].request = AdminConfigRollbackRequestSchema
        /\ Regular(IPC_CONTRACT_REGISTRY[c])
    BY <1>5, ContractsOf, ActorTypes DEF Regular, AdminContracts, Admins, Contract,
       AdminConfigRollbackRequestSchema
  <2>2. Body(c, q) = OnTheWire(One(decideConfigBody(q.self).self))
    BY <1>5, <1>1 DEF AdminBody, One, decideConfigBody
  <2>3. Api!ApiRequests[c] = Api!Flat(Api!RollbackAdminConfigRequest)
    BY <1>5 DEF Api!ApiRequests, Api!++
  <2>4. Told(q.self, AdminConfigRollbackRequestSchema) => Fills(decideConfigBody(q.self).self,
        Api!RollbackAdminConfigRequest)
    BY TextsPass, EnumsPass DEF Told, Worded, AdminConfigRollbackRequestSchema, decideConfigBody,
       One, ActorOf, ++, Fills, Takes, Api!RollbackAdminConfigRequest, Api!AdminActorRequest,
       Api!++
  <2> QED
    BY <2>1, <2>2, <2>3, <2>4, CarriedIsTaken
<1>6. CASE c = "ADMIN_OPS_HISTORY_LIST"
  <2>1. /\ IPC_CONTRACT_REGISTRY[c].request = AdminOpsHistoryListRequestSchema
        /\ Regular(IPC_CONTRACT_REGISTRY[c])
    BY <1>6, ContractsOf, ActorTypes DEF Regular, AdminContracts, Admins, Contract,
       AdminOpsHistoryListRequestSchema
  <2>2. Body(c, q) = OnTheWire(One(opsHistoryQuery(q.self).self))
    BY <1>6, <1>1 DEF AdminBody, One, opsHistoryQuery
  <2>3. Api!ApiRequests[c] = Api!Flat(Api!ListAdminOpsHistoryRequest)
    BY <1>6 DEF Api!ApiRequests, Api!++
  <2>4. Told(q.self, AdminOpsHistoryListRequestSchema) => Fills(opsHistoryQuery(q.self).self,
        Api!ListAdminOpsHistoryRequest)
    BY TextsPass, EnumsPass, ChoicesPass DEF Told, Worded, AdminOpsHistoryListRequestSchema,
       opsHistoryQuery, One, ActorOf, ++, Fills, Takes, Api!ListAdminOpsHistoryRequest,
       Api!AdminActorRequest, Api!++
  <2> QED
    BY <2>1, <2>2, <2>3, <2>4, CarriedIsTaken
<1> QED
  BY <1>2, <1>3, <1>4, <1>5, <1>6

LEMMA AdminIntegrationRequestsCross ==
  ASSUME NEW q,
         NEW c \in {"ADMIN_INTEGRATIONS_TEST", "ADMIN_INTEGRATIONS_ROTATE",
                    "ADMIN_INTEGRATIONS_AIRTABLE_CONFIGURE", "ADMIN_INTEGRATIONS_SMTP_CONFIGURE",
                    "ADMIN_INTEGRATIONS_DROPBOX_TOKENS_UPDATE",
                    "ADMIN_INTEGRATIONS_DROPBOX_APP_CONFIGURE", "ADMIN_DROPBOX_OAUTH_START",
                    "ADMIN_DROPBOX_OAUTH_COMPLETE"}
  PROVE  Crosses(c, q)
<1>1. Body(c, q) = OnTheWire(AdminBody(c, q.self))
  BY ClientsOf DEF AdminChannels
<1>2. CASE c = "ADMIN_INTEGRATIONS_TEST"
  <2>1. /\ IPC_CONTRACT_REGISTRY[c].request = AdminIntegrationTestRequestSchema
        /\ Regular(IPC_CONTRACT_REGISTRY[c])
    BY <1>2, ContractsOf, ActorTypes DEF Regular, AdminContracts, Admins, Contract,
       AdminIntegrationTestRequestSchema
  <2>2. Body(c, q) = OnTheWire(One(testIntegrationBody(q.self).self))
    BY <1>2, <1>1 DEF AdminBody, One, testIntegrationBody
  <2>3. Api!ApiRequests[c] = Api!Flat(Api!TestIntegrationRequest)
    BY <1>2 DEF Api!ApiRequests, Api!++
  <2>4. Told(q.self, AdminIntegrationTestRequestSchema) => Fills(testIntegrationBody(q.self).self,
        Api!TestIntegrationRequest)
    BY TextsPass, EnumsPass, OrElseNullPasses DEF Told, Worded, AdminIntegrationTestRequestSchema,
       testIntegrationBody, One, ActorOf, ++, Fills, Takes, Api!TestIntegrationRequest,
       Api!AdminActorRequest, Api!++
  <2> QED
    BY <2>1, <2>2, <2>3, <2>4, CarriedIsTaken
<1>3. CASE c = "ADMIN_INTEGRATIONS_ROTATE"
  <2>1. /\ IPC_CONTRACT_REGISTRY[c].request = AdminIntegrationRotateRequestSchema
        /\ Regular(IPC_CONTRACT_REGISTRY[c])
    BY <1>3, ContractsOf, ActorTypes DEF Regular, AdminContracts, Admins, Contract,
       AdminIntegrationRotateRequestSchema
  <2>2. Body(c, q) = OnTheWire(One(rotateIntegrationBody(q.self).self))
    BY <1>3, <1>1 DEF AdminBody, One, rotateIntegrationBody
  <2>3. Api!ApiRequests[c] = Api!Flat(Api!RotateIntegrationRequest)
    BY <1>3 DEF Api!ApiRequests, Api!++
  <2>4. Told(q.self, AdminIntegrationRotateRequestSchema) =>
        Fills(rotateIntegrationBody(q.self).self, Api!RotateIntegrationRequest)
    BY TextsPass, EnumsPass, OrElseNullPasses DEF Told, Worded,
       AdminIntegrationRotateRequestSchema, rotateIntegrationBody, One, ActorOf, ++, Fills, Takes,
       Api!RotateIntegrationRequest, Api!AdminActorRequest, Api!++
  <2> QED
    BY <2>1, <2>2, <2>3, <2>4, CarriedIsTaken
<1>4. CASE c = "ADMIN_INTEGRATIONS_AIRTABLE_CONFIGURE"
  <2>1. /\ IPC_CONTRACT_REGISTRY[c].request = AdminAirtableConfigureRequestSchema
        /\ Regular(IPC_CONTRACT_REGISTRY[c])
    BY <1>4, ContractsOf, ActorTypes DEF Regular, AdminContracts, Admins, Contract,
       AdminAirtableConfigureRequestSchema
  <2>2. Body(c, q) = OnTheWire(One(configureAirtableBody(q.self).self))
    BY <1>4, <1>1 DEF AdminBody, One, configureAirtableBody
  <2>3. Api!ApiRequests[c] = Api!Flat(Api!ConfigureAirtableIntegrationRequest)
    BY <1>4 DEF Api!ApiRequests, Api!++
  <2>4. Told(q.self, AdminAirtableConfigureRequestSchema) =>
        Fills(configureAirtableBody(q.self).self, Api!ConfigureAirtableIntegrationRequest)
    BY TextsPass, EnumsPass, OrElseNullPasses DEF Told, Worded,
       AdminAirtableConfigureRequestSchema, configureAirtableBody, One, ActorOf, ++, Fills, Takes,
       Api!ConfigureAirtableIntegrationRequest, Api!AdminActorRequest, Api!++
  <2> QED
    BY <2>1, <2>2, <2>3, <2>4, CarriedIsTaken
<1>5. CASE c = "ADMIN_INTEGRATIONS_SMTP_CONFIGURE"
  <2>1. /\ IPC_CONTRACT_REGISTRY[c].request = AdminSmtpConfigureRequestSchema
        /\ Regular(IPC_CONTRACT_REGISTRY[c])
    BY <1>5, ContractsOf, ActorTypes DEF Regular, AdminContracts, Admins, Contract,
       AdminSmtpConfigureRequestSchema
  <2>2. Body(c, q) = OnTheWire(One(configureSmtpBody(q.self).self))
    BY <1>5, <1>1 DEF AdminBody, One, configureSmtpBody
  <2>3. Api!ApiRequests[c] = Api!Flat(Api!ConfigureSmtpIntegrationRequest)
    BY <1>5 DEF Api!ApiRequests, Api!++
  <2>4. Told(q.self, AdminSmtpConfigureRequestSchema) => Fills(configureSmtpBody(q.self).self,
        Api!ConfigureSmtpIntegrationRequest)
    BY TextsPass, EnumsPass, KindsPass, OrElseNullPasses DEF Told, Worded,
       AdminSmtpConfigureRequestSchema, configureSmtpBody, One, ActorOf, ++, Fills, Takes,
       Api!ConfigureSmtpIntegrationRequest, Api!AdminActorRequest, Api!++
  <2> QED
    BY <2>1, <2>2, <2>3, <2>4, CarriedIsTaken
<1>6. CASE c = "ADMIN_INTEGRATIONS_DROPBOX_TOKENS_UPDATE"
  <2>1. /\ IPC_CONTRACT_REGISTRY[c].request = AdminDropboxTokensUpdateRequestSchema
        /\ Regular(IPC_CONTRACT_REGISTRY[c])
    BY <1>6, ContractsOf, ActorTypes DEF Regular, AdminContracts, Admins, Contract,
       AdminDropboxTokensUpdateRequestSchema
  <2>2. Body(c, q) = OnTheWire(One(updateDropboxTokensBody(q.self).self))
    BY <1>6, <1>1 DEF AdminBody, One, updateDropboxTokensBody
  <2>3. Api!ApiRequests[c] = Api!Flat(Api!ConfigureDropboxTokensRequest)
    BY <1>6 DEF Api!ApiRequests, Api!++
  <2>4. Told(q.self, AdminDropboxTokensUpdateRequestSchema) =>
        Fills(updateDropboxTokensBody(q.self).self, Api!ConfigureDropboxTokensRequest)
    BY TextsPass, EnumsPass, OrElseNullPasses DEF Told, Worded,
       AdminDropboxTokensUpdateRequestSchema, updateDropboxTokensBody, One, ActorOf, ++, Fills,
       Takes, Api!ConfigureDropboxTokensRequest, Api!AdminActorRequest, Api!++
  <2> QED
    BY <2>1, <2>2, <2>3, <2>4, CarriedIsTaken
<1>7. CASE c = "ADMIN_INTEGRATIONS_DROPBOX_APP_CONFIGURE"
  <2>1. /\ IPC_CONTRACT_REGISTRY[c].request = AdminDropboxAppConfigureRequestSchema
        /\ Regular(IPC_CONTRACT_REGISTRY[c])
    BY <1>7, ContractsOf, ActorTypes DEF Regular, AdminContracts, Admins, Contract,
       AdminDropboxAppConfigureRequestSchema
  <2>2. Body(c, q) = OnTheWire(One(configureDropboxAppBody(q.self).self))
    BY <1>7, <1>1 DEF AdminBody, One, configureDropboxAppBody
  <2>3. Api!ApiRequests[c] = Api!Flat(Api!ConfigureDropboxAppRequest)
    BY <1>7 DEF Api!ApiRequests, Api!++
  <2>4. Told(q.self, AdminDropboxAppConfigureRequestSchema) =>
        Fills(configureDropboxAppBody(q.self).self, Api!ConfigureDropboxAppRequest)
    BY TextsPass, EnumsPass DEF Told, Worded, AdminDropboxAppConfigureRequestSchema,
       configureDropboxAppBody, One, ActorOf, ++, Fills, Takes, Api!ConfigureDropboxAppRequest,
       Api!AdminActorRequest, Api!++
  <2> QED
    BY <2>1, <2>2, <2>3, <2>4, CarriedIsTaken
<1>8. CASE c = "ADMIN_DROPBOX_OAUTH_START"
  <2>1. /\ IPC_CONTRACT_REGISTRY[c].request = AdminDropboxOauthStartRequestSchema
        /\ Regular(IPC_CONTRACT_REGISTRY[c])
    BY <1>8, ContractsOf, ActorTypes DEF Regular, AdminContracts, Admins, Contract,
       AdminDropboxOauthStartRequestSchema
  <2>2. Body(c, q) = OnTheWire(One(startOauthBody(q.self).self))
    BY <1>8, <1>1 DEF AdminBody, One, startOauthBody
  <2>3. Api!ApiRequests[c] = Api!Flat(Api!DropboxOauthStartRequest)
    BY <1>8 DEF Api!ApiRequests, Api!++
  <2>4. Told(q.self, AdminDropboxOauthStartRequestSchema) => Fills(startOauthBody(q.self).self,
        Api!DropboxOauthStartRequest)
    BY TextsPass, EnumsPass, OrElseNullPasses DEF Told, Worded,
       AdminDropboxOauthStartRequestSchema, startOauthBody, One, ActorOf, ++, Fills, Takes,
       Api!DropboxOauthStartRequest, Api!AdminActorRequest, Api!++
  <2> QED
    BY <2>1, <2>2, <2>3, <2>4, CarriedIsTaken
<1>9. CASE c = "ADMIN_DROPBOX_OAUTH_COMPLETE"
  <2>1. /\ IPC_CONTRACT_REGISTRY[c].request = AdminDropboxOauthCompleteRequestSchema
        /\ Regular(IPC_CONTRACT_REGISTRY[c])
    BY <1>9, ContractsOf, ActorTypes DEF Regular, AdminContracts, Admins, Contract,
       AdminDropboxOauthCompleteRequestSchema
  <2>2. Body(c, q) = OnTheWire(One(completeOauthBody(q.self).self))
    BY <1>9, <1>1 DEF AdminBody, One, completeOauthBody
  <2>3. Api!ApiRequests[c] = Api!Flat(Api!DropboxOauthCompleteRequest)
    BY <1>9 DEF Api!ApiRequests, Api!++
  <2>4. Told(q.self, AdminDropboxOauthCompleteRequestSchema) =>
        Fills(completeOauthBody(q.self).self, Api!DropboxOauthCompleteRequest)
    BY TextsPass, EnumsPass, OrElseNullPasses DEF Told, Worded,
       AdminDropboxOauthCompleteRequestSchema, completeOauthBody, One, ActorOf, ++, Fills, Takes,
       Api!DropboxOauthCompleteRequest, Api!AdminActorRequest, Api!++
  <2> QED
    BY <2>1, <2>2, <2>3, <2>4, CarriedIsTaken
<1> QED
  BY <1>2, <1>3, <1>4, <1>5, <1>6, <1>7, <1>8, <1>9

LEMMA JobRequestsCross ==
  ASSUME NEW q,
         NEW c \in {"JOBS_ENQUEUE", "JOBS_REPLAY", "SCHEDULING_OVERRIDE",
                    "SCHEDULING_TRIGGER_RELEASE", "OBSERVABILITY_INCIDENTS_ANNOTATE"}
  PROVE  Crosses(c, q)
<1>1. Body(c, q) = OnTheWire(OperationsBody(c, q))
  BY ClientsOf DEF ActingWork, PlainWork, Owning
<1>2. CASE c = "JOBS_ENQUEUE"
  <2>1. /\ IPC_CONTRACT_REGISTRY[c].request = JobsEnqueueRequestSchema
        /\ Regular(IPC_CONTRACT_REGISTRY[c])
    BY <1>2, ContractsOf, ActorTypes DEF Regular, OperationsContracts, Reviewers, Contract,
       JobsEnqueueRequestSchema
  <2>2. Body(c, q) = OnTheWire(One(enqueueJobBody(q.self).self))
    BY <1>2, <1>1 DEF OperationsBody, One, enqueueJobBody
  <2>3. Api!ApiRequests[c] = Api!Flat(Api!EnqueueJobRequest)
    BY <1>2 DEF Api!ApiRequests, Api!++
  <2>4. Told(q.self, JobsEnqueueRequestSchema) => Fills(enqueueJobBody(q.self).self,
        Api!EnqueueJobRequest)
    BY TextsPass, ObjectsPass, CoalescePasses, OrElseNullPasses DEF Told, Worded,
       JobsEnqueueRequestSchema, enqueueJobBody, One, Fills, Takes, Api!EnqueueJobRequest
  <2> QED
    BY <2>1, <2>2, <2>3, <2>4, CarriedIsTaken
<1>3. CASE c = "JOBS_REPLAY"
  <2>1. /\ IPC_CONTRACT_REGISTRY[c].request = JobsReplayRequestSchema
        /\ Regular(IPC_CONTRACT_REGISTRY[c])
    BY <1>3, ContractsOf, ActorTypes DEF Regular, OperationsContracts, Admins, Contract,
       JobsReplayRequestSchema
  <2>2. Body(c, q) = OnTheWire(One(replayJobBody(q.self).self))
    BY <1>3, <1>1 DEF OperationsBody, One, replayJobBody
  <2>3. Api!ApiRequests[c] = Api!Flat(Api!ReplayJobRequest)
    BY <1>3 DEF Api!ApiRequests, Api!++
  <2>4. Told(q.self, JobsReplayRequestSchema) => Fills(replayJobBody(q.self).self,
        Api!ReplayJobRequest)
    BY TextsPass DEF Told, Worded, JobsReplayRequestSchema, replayJobBody, One, Fills, Takes,
       Api!ReplayJobRequest
  <2> QED
    BY <2>1, <2>2, <2>3, <2>4, CarriedIsTaken
<1>4. CASE c = "SCHEDULING_OVERRIDE"
  <2>1. /\ IPC_CONTRACT_REGISTRY[c].request = SchedulingOverrideRequestSchema
        /\ Regular(IPC_CONTRACT_REGISTRY[c])
    BY <1>4, ContractsOf, ActorTypes DEF Regular, OperationsContracts, Reviewers, Contract,
       SchedulingOverrideRequestSchema
  <2>2. Body(c, q) = OnTheWire(One(overrideScheduleBody(q.self).self))
    BY <1>4, <1>1 DEF OperationsBody, One, overrideScheduleBody
  <2>3. Api!ApiRequests[c] = Api!Flat(Api!ScheduleOverrideRequest)
    BY <1>4 DEF Api!ApiRequests, Api!++
  <2>4. ASSUME Told(q.self, SchedulingOverrideRequestSchema)
        PROVE  Fills(overrideScheduleBody(q.self).self, Api!ScheduleOverrideRequest)
    <3> DEFINE zone == Or(q.self.timezone, Str("utc"))
    <3>1. /\ Wire(zone) \in Api!Own(Api!Timezone)
          /\ Wire(q.self.actorRole) \in Api!Enum({"reviewer", "admin"})
          /\ Wire(q.self.newReleaseAt) \in Api!Iso /\ Wire(q.self.reason) \in Api!Trimmed
          /\ Wire(q.self.requestId) \in Api!Text(1) /\ Wire(q.self.actorId) \in Api!Text(1)
      BY <2>4, DefaultsPass, EnumsPass, TextsPass
         DEF Told, Worded, SchedulingOverrideRequestSchema
    <3>2. overrideScheduleBody(q.self).self =
            ActorOf(q.self) ++
            [request_id |-> q.self.requestId, new_release_at |-> q.self.newReleaseAt,
             reason |-> q.self.reason, timezone |-> zone]
      BY DEF overrideScheduleBody, One
    <3> HIDE DEF zone
    <3> QED
      BY <3>1, <3>2 DEF ActorOf, ++, Fills, Takes, Api!ScheduleOverrideRequest
  <2> QED
    BY <2>1, <2>2, <2>3, <2>4, CarriedIsTaken
<1>5. CASE c = "SCHEDULING_TRIGGER_RELEASE"
  <2>1. /\ IPC_CONTRACT_REGISTRY[c].request = SchedulingTriggerReleaseRequestSchema
        /\ Regular(IPC_CONTRACT_REGISTRY[c])
    BY <1>5, ContractsOf, ActorTypes DEF Regular, OperationsContracts, Admins, Contract,
       SchedulingTriggerReleaseRequestSchema
  <2>2. Body(c, q) = OnTheWire(One(triggerReleaseBody(q.self).self))
    BY <1>5, <1>1 DEF OperationsBody, One, triggerReleaseBody
  <2>3. Api!ApiRequests[c] = Api!Flat(Api!ReleaseTriggerRequest)
    BY <1>5 DEF Api!ApiRequests, Api!++
  <2>4. Told(q.self, SchedulingTriggerReleaseRequestSchema) =>
        Fills(triggerReleaseBody(q.self).self, Api!ReleaseTriggerRequest)
    BY TextsPass, EnumsPass, BooleansPass, OrElseNullPasses DEF Told, Worded,
       SchedulingTriggerReleaseRequestSchema, triggerReleaseBody, One, ActorOf, ++, Fills, Takes,
       Api!ReleaseTriggerRequest
  <2> QED
    BY <2>1, <2>2, <2>3, <2>4, CarriedIsTaken
<1>6. CASE c = "OBSERVABILITY_INCIDENTS_ANNOTATE"
  <2>1. /\ IPC_CONTRACT_REGISTRY[c].request = ObservabilityIncidentsAnnotateRequestSchema
        /\ Regular(IPC_CONTRACT_REGISTRY[c])
    BY <1>6, ContractsOf, ActorTypes DEF Regular, OperationsContracts, Reviewers, Contract,
       ObservabilityIncidentsAnnotateRequestSchema
  <2>2. Body(c, q) = OnTheWire(One(annotateIncidentBody(q.self).self))
    BY <1>6, <1>1 DEF OperationsBody, One, annotateIncidentBody
  <2>3. Api!ApiRequests[c] = Api!Flat(Api!IncidentAnnotationRequest)
    BY <1>6 DEF Api!ApiRequests, Api!++
  <2>4. Told(q.self, ObservabilityIncidentsAnnotateRequestSchema) =>
        Fills(annotateIncidentBody(q.self).self, Api!IncidentAnnotationRequest)
    BY TextsPass, EnumsPass, OrElseNullPasses, DefaultsPass DEF Told, Worded,
       ObservabilityIncidentsAnnotateRequestSchema, annotateIncidentBody, One, Fills, Takes,
       Api!IncidentAnnotationRequest
  <2> QED
    BY <2>1, <2>2, <2>3, <2>4, CarriedIsTaken
<1> QED
  BY <1>2, <1>3, <1>4, <1>5, <1>6

LEMMA CreatorRequestsCross ==
  ASSUME NEW q,
         NEW c \in {"CREATOR_PROFILE_GET", "CREATOR_PROFILE_PUT", "SUBMISSION_DRAFT",
                    "SUBMISSION_METADATA", "SUBMISSION_LIST", "SUBMISSION_TIMELINE",
                    "SUBMISSION_AIRTABLE_SYNC", "SUBMISSION_AIRTABLE_RESET"}
  PROVE  Crosses(c, q)
<1>1. Body(c, q) = OnTheWire(OperationsBody(c, q))
  BY ClientsOf DEF ActingWork, PlainWork, Owning
<1>2. CASE c = "CREATOR_PROFILE_GET"
  <2>1. /\ IPC_CONTRACT_REGISTRY[c].request = CreatorProfileRequestSchema
        /\ Regular(IPC_CONTRACT_REGISTRY[c])
    BY <1>2, ContractsOf, ActorTypes DEF Regular, CreatorContracts, Everyone, Contract,
       CreatorProfileRequestSchema
  <2>2. Body(c, q) = OnTheWire(One(profileQuery(q.self).self))
    BY <1>2, <1>1 DEF OperationsBody, One, profileQuery
  <2>3. Api!ApiRequests[c] = Api!Flat(Api!ProfileQuery)
    BY <1>2 DEF Api!ApiRequests, Api!++
  <2>4. Told(q.self, CreatorProfileRequestSchema) => Fills(profileQuery(q.self).self,
        Api!ProfileQuery)
    BY DefaultsPass, ChoicesPass DEF Told, Worded, CreatorProfileRequestSchema, profileQuery, One,
       Fills, Takes, Api!ProfileQuery
  <2> QED
    BY <2>1, <2>2, <2>3, <2>4, CarriedIsTaken
<1>3. CASE c = "CREATOR_PROFILE_PUT"
  <2>1. /\ IPC_CONTRACT_REGISTRY[c].request = CreatorProfilePutRequestSchema
        /\ Regular(IPC_CONTRACT_REGISTRY[c])
    BY <1>3, ContractsOf, ActorTypes DEF Regular, CreatorContracts, Everyone, Contract,
       CreatorProfilePutRequestSchema
  <2>2. Body(c, q) = OnTheWire(One(putProfileBody(q.self).self))
    BY <1>3, <1>1 DEF OperationsBody, One, putProfileBody
  <2>3. Api!ApiRequests[c] = Api!Flat(Api!CreatorProfilePayload)
    BY <1>3 DEF Api!ApiRequests, Api!++
  <2>4. Told(q.self, CreatorProfilePutRequestSchema) => Fills(putProfileBody(q.self).self,
        Api!CreatorProfilePayload)
    BY TextsPass, DefaultsPass, OrElseNullPasses, ObjectsPass DEF Told, Worded,
       CreatorProfilePutRequestSchema, putProfileBody, One, Fills, Takes,
       Api!CreatorProfilePayload
  <2> QED
    BY <2>1, <2>2, <2>3, <2>4, CarriedIsTaken
<1>4. CASE c = "SUBMISSION_DRAFT"
  <2>1. /\ IPC_CONTRACT_REGISTRY[c].request = SubmissionMutationRequestSchema
        /\ Regular(IPC_CONTRACT_REGISTRY[c])
    BY <1>4, ContractsOf, ActorTypes DEF Regular, CreatorContracts, Creators, Contract,
       SubmissionMutationRequestSchema
  <2>2. Body(c, q) = OnTheWire(One(draftBody(q.self).self))
    BY <1>4, <1>1 DEF OperationsBody, One, draftBody, metadataBody
  <2>3. Api!ApiRequests[c] = Api!Flat(Api!DraftCreatePayload)
    BY <1>4 DEF Api!ApiRequests, Api!++
  <2>4. Told(q.self, SubmissionMutationRequestSchema) => Fills(draftBody(q.self).self,
        Api!DraftCreatePayload)
    BY TextsPass, OrElseNullPasses, ObjectsPass, BooleansPass DEF Told, Worded,
       SubmissionMutationRequestSchema, draftBody, metadataBody, One, ++, Fills, Takes,
       Api!DraftCreatePayload
  <2> QED
    BY <2>1, <2>2, <2>3, <2>4, CarriedIsTaken
<1>5. CASE c = "SUBMISSION_METADATA"
  <2>1. /\ IPC_CONTRACT_REGISTRY[c].request = SubmissionMutationRequestSchema
        /\ Regular(IPC_CONTRACT_REGISTRY[c])
    BY <1>5, ContractsOf, ActorTypes DEF Regular, CreatorContracts, Creators, Contract,
       SubmissionMutationRequestSchema
  <2>2. Body(c, q) = OnTheWire(One(metadataBody(q.self).self))
    BY <1>5, <1>1 DEF OperationsBody, One, metadataBody
  <2>3. Api!ApiRequests[c] = Api!Flat(Api!MetadataUpdatePayload)
    BY <1>5 DEF Api!ApiRequests, Api!++
  <2>4. Told(q.self, SubmissionMutationRequestSchema) => Fills(metadataBody(q.self).self,
        Api!MetadataUpdatePayload)
    BY TextsPass, OrElseNullPasses, ObjectsPass, BooleansPass DEF Told, Worded,
       SubmissionMutationRequestSchema, metadataBody, One, Fills, Takes, Api!MetadataUpdatePayload
  <2> QED
    BY <2>1, <2>2, <2>3, <2>4, CarriedIsTaken
<1>6. CASE c = "SUBMISSION_LIST"
  <2>1. /\ IPC_CONTRACT_REGISTRY[c].request = SubmissionListRequestSchema
        /\ Regular(IPC_CONTRACT_REGISTRY[c])
    BY <1>6, ContractsOf, ActorTypes DEF Regular, CreatorContracts, Everyone, Contract,
       SubmissionListRequestSchema
  <2>2. Body(c, q) = OnTheWire(One(ownerQuery(q.self).self))
    BY <1>6, <1>1 DEF OperationsBody, One, ownerQuery
  <2>3. Api!ApiRequests[c] = Api!Flat(Api!OwnerQuery)
    BY <1>6 DEF Api!ApiRequests, Api!++
  <2>4. Told(q.self, SubmissionListRequestSchema) => Fills(ownerQuery(q.self).self,
        Api!OwnerQuery)
    BY DefaultsPass, ChoicesPass DEF Told, Worded, SubmissionListRequestSchema, ownerQuery, One,
       Fills, Takes, Api!OwnerQuery
  <2> QED
    BY <2>1, <2>2, <2>3, <2>4, CarriedIsTaken
<1>7. CASE c = "SUBMISSION_TIMELINE"
  <2>1. /\ IPC_CONTRACT_REGISTRY[c].request = SubmissionTimelineRequestSchema
        /\ Regular(IPC_CONTRACT_REGISTRY[c])
    BY <1>7, ContractsOf, ActorTypes DEF Regular, CreatorContracts, Everyone, Contract,
       SubmissionTimelineRequestSchema
  <2>2. Body(c, q) = OnTheWire(One(ownerQuery(q.self).self))
    BY <1>7, <1>1 DEF OperationsBody, One, ownerQuery
  <2>3. Api!ApiRequests[c] = Api!Flat(Api!OwnerQuery)
    BY <1>7 DEF Api!ApiRequests, Api!++
  <2>4. Told(q.self, SubmissionTimelineRequestSchema) => Fills(ownerQuery(q.self).self,
        Api!OwnerQuery)
    BY DefaultsPass, ChoicesPass DEF Told, Worded, SubmissionTimelineRequestSchema, ownerQuery,
       One, Fills, Takes, Api!OwnerQuery
  <2> QED
    BY <2>1, <2>2, <2>3, <2>4, CarriedIsTaken
<1>8. CASE c = "SUBMISSION_AIRTABLE_SYNC"
  <2>1. /\ IPC_CONTRACT_REGISTRY[c].request = SubmissionAirtableMutationRequestSchema
        /\ Regular(IPC_CONTRACT_REGISTRY[c])
    BY <1>8, ContractsOf, ActorTypes DEF Regular, CreatorContracts, Everyone, Contract,
       SubmissionAirtableMutationRequestSchema
  <2>2. Body(c, q) = OnTheWire(One(syncAirtableBody(q.self).self))
    BY <1>8, <1>1 DEF OperationsBody, One, syncAirtableBody
  <2>3. Api!ApiRequests[c] = Api!Flat(Api!AirtableSyncPayload)
    BY <1>8 DEF Api!ApiRequests, Api!++
  <2>4. Told(q.self, SubmissionAirtableMutationRequestSchema) =>
        Fills(syncAirtableBody(q.self).self, Api!AirtableSyncPayload)
    BY TextsPass, BooleansPass DEF Told, Worded, SubmissionAirtableMutationRequestSchema,
       syncAirtableBody, One, Fills, Takes, Api!AirtableSyncPayload
  <2> QED
    BY <2>1, <2>2, <2>3, <2>4, CarriedIsTaken
<1>9. CASE c = "SUBMISSION_AIRTABLE_RESET"
  <2>1. /\ IPC_CONTRACT_REGISTRY[c].request = [submissionId |-> Text(1), creatorId |-> Text(1)]
        /\ Regular(IPC_CONTRACT_REGISTRY[c])
    BY <1>9, ContractsOf, ActorTypes, WithoutRelink DEF Regular, CreatorContracts, Everyone,
       Contract
  <2>2. Body(c, q) = OnTheWire(One([creator_id |-> q.self.creatorId]))
    BY <1>9, <1>1 DEF OperationsBody
  <2>3. Api!ApiRequests[c] = Api!Flat(Api!AirtableResetPayload)
    BY <1>9 DEF Api!ApiRequests, Api!++
  <2>4. Told(q.self, [submissionId |-> Text(1), creatorId |-> Text(1)]) => Fills([creator_id |->
        q.self.creatorId], Api!AirtableResetPayload)
    BY TextsPass DEF Told, Worded, Fills, Takes, Api!AirtableResetPayload
  <2> QED
    BY <2>1, <2>2, <2>3, <2>4, CarriedIsTaken
<1> QED
  BY <1>2, <1>3, <1>4, <1>5, <1>6, <1>7, <1>8, <1>9

LEMMA IntakeRequestsCross ==
  ASSUME NEW q,
         NEW c \in {"INTAKE_SESSION_START", "INTAKE_HANDOFF_CREATE", "INTAKE_HANDOFF_CONTROL",
                    "INTAKE_LOCK", "SUBMISSION_TRANSITION"}
  PROVE  Crosses(c, q)
<1>1. Body(c, q) = OnTheWire(OperationsBody(c, q))
  BY ClientsOf DEF ActingWork, PlainWork, Owning
<1>2. CASE c = "INTAKE_SESSION_START"
  <2>1. /\ IPC_CONTRACT_REGISTRY[c].request = IntakeSessionStartRequestSchema
        /\ Regular(IPC_CONTRACT_REGISTRY[c])
    BY <1>2, ContractsOf, ActorTypes DEF Regular, IntakeContracts, Creators, Contract,
       IntakeSessionStartRequestSchema
  <2>2. Body(c, q) = OnTheWire(One(startSessionBody(q.self).self))
    BY <1>2, <1>1 DEF OperationsBody, One, startSessionBody
  <2>3. Api!ApiRequests[c] = Api!Flat(Api!StartIntakeSessionRequest)
    BY <1>2 DEF Api!ApiRequests, Api!++
  <2>4. Told(q.self, IntakeSessionStartRequestSchema) => Fills(startSessionBody(q.self).self,
        Api!StartIntakeSessionRequest)
    BY TextsPass, DefaultsPass, ObjectsPass DEF Told, Worded, IntakeSessionStartRequestSchema,
       startSessionBody, One, Fills, Takes, Api!StartIntakeSessionRequest
  <2> QED
    BY <2>1, <2>2, <2>3, <2>4, CarriedIsTaken
<1>3. CASE c = "INTAKE_HANDOFF_CREATE"
  <2>1. /\ IPC_CONTRACT_REGISTRY[c].request = IntakeHandoffCreateRequestSchema
        /\ Regular(IPC_CONTRACT_REGISTRY[c])
    BY <1>3, ContractsOf, ActorTypes DEF Regular, IntakeContracts, Creators, Contract,
       IntakeHandoffCreateRequestSchema
  <2>2. Body(c, q) = OnTheWire(One(createHandoffBody(q.self).self))
    BY <1>3, <1>1 DEF OperationsBody, One, createHandoffBody
  <2>3. Api!ApiRequests[c] = Api!Flat(Api!CreateStorageHandoffRequest)
    BY <1>3 DEF Api!ApiRequests, Api!++
  <2>4. ASSUME Told(q.self, IntakeHandoffCreateRequestSchema)
        PROVE  Fills(createHandoffBody(q.self).self, Api!CreateStorageHandoffRequest)
    <3> DEFINE target == Str("temporary-object-storage")
    <3>1. /\ Wire(target) \in Api!Own(Api!Enum({"temporary-object-storage"}))
          /\ Wire(q.self.actorRole) \in Api!ActorRole
          /\ Wire(q.self.intakeSessionId) \in Api!Text(1)
          /\ Wire(q.self.requestId) \in Api!Text(1) /\ Wire(q.self.actorId) \in Api!Text(1)
      BY <2>4, EnumsPass, TextsPass DEF Told, IntakeHandoffCreateRequestSchema
    <3>2. createHandoffBody(q.self).self =
            ActorOf(q.self) ++
            [request_id |-> q.self.requestId, intake_session_id |-> q.self.intakeSessionId,
             target |-> target]
      BY DEF createHandoffBody, One
    <3> HIDE DEF target
    <3> QED
      BY <3>1, <3>2 DEF ActorOf, ++, Fills, Takes, Api!CreateStorageHandoffRequest
  <2> QED
    BY <2>1, <2>2, <2>3, <2>4, CarriedIsTaken
<1>4. CASE c = "INTAKE_HANDOFF_CONTROL"
  <2>1. /\ IPC_CONTRACT_REGISTRY[c].request = StorageHandoffControlRequestSchema
        /\ Regular(IPC_CONTRACT_REGISTRY[c])
    BY <1>4, ContractsOf, ActorTypes DEF Regular, IntakeContracts, Creators, Contract,
       StorageHandoffControlRequestSchema
  <2>2. Body(c, q) = OnTheWire(One(controlHandoffBody(q.self).self))
    BY <1>4, <1>1 DEF OperationsBody, One, controlHandoffBody
  <2>3. Api!ApiRequests[c] = Api!Flat(Api!StorageHandoffControlRequest)
    BY <1>4 DEF Api!ApiRequests, Api!++
  <2>4. Told(q.self, StorageHandoffControlRequestSchema) => Fills(controlHandoffBody(q.self).self,
        Api!StorageHandoffControlRequest)
    BY TextsPass, EnumsPass DEF Told, Worded, StorageHandoffControlRequestSchema,
       controlHandoffBody, One, ActorOf, ++, Fills, Takes, Api!StorageHandoffControlRequest
  <2> QED
    BY <2>1, <2>2, <2>3, <2>4, CarriedIsTaken
<1>5. CASE c = "INTAKE_LOCK"
  <2>1. /\ IPC_CONTRACT_REGISTRY[c].request = IntakeLockRequestSchema
        /\ Regular(IPC_CONTRACT_REGISTRY[c])
    BY <1>5, ContractsOf, ActorTypes DEF Regular, IntakeContracts, Creators, Contract,
       IntakeLockRequestSchema
  <2>2. Body(c, q) = OnTheWire(One(lockBody(q.self).self))
    BY <1>5, <1>1 DEF OperationsBody, One, lockBody
  <2>3. Api!ApiRequests[c] = Api!Flat(Api!LockSubmissionFilesRequest)
    BY <1>5 DEF Api!ApiRequests, Api!++
  <2>4. Told(q.self, IntakeLockRequestSchema) => Fills(lockBody(q.self).self,
        Api!LockSubmissionFilesRequest)
    BY TextsPass, EnumsPass, OrElseNullPasses DEF Told, Worded, IntakeLockRequestSchema, lockBody,
       One, ActorOf, ++, Fills, Takes, Api!LockSubmissionFilesRequest
  <2> QED
    BY <2>1, <2>2, <2>3, <2>4, CarriedIsTaken
<1>6. CASE c = "SUBMISSION_TRANSITION"
  <2>1. /\ IPC_CONTRACT_REGISTRY[c].request = SubmissionTransitionRequestSchema
        /\ Regular(IPC_CONTRACT_REGISTRY[c])
    BY <1>6, ContractsOf, ActorTypes DEF Regular, TransitionContracts, Everyone, Contract,
       SubmissionTransitionRequestSchema
  <2>2. Body(c, q) = OnTheWire(One(transitionBody(q.self).self))
    BY <1>6, <1>1 DEF OperationsBody, One, transitionBody
  <2>3. Api!ApiRequests[c] = Api!Flat(Api!TransitionRequest)
    BY <1>6 DEF Api!ApiRequests, Api!++
  <2>4. Told(q.self, SubmissionTransitionRequestSchema) => Fills(transitionBody(q.self).self,
        Api!TransitionRequest)
    BY TextsPass, EnumsPass, OrElseNullPasses, CoalescePasses, ObjectsPass DEF Told, Worded,
       SubmissionTransitionRequestSchema, transitionBody, One, ActorOf, ++, Fills, Takes,
       Api!TransitionRequest
  <2> QED
    BY <2>1, <2>2, <2>3, <2>4, CarriedIsTaken
<1> QED
  BY <1>2, <1>3, <1>4, <1>5, <1>6

\* A payload's fields: the typical values, but for the probe's.
LEMMA PayloadFields ==
  ASSUME NEW c \in IPC_CHANNELS, NEW p, NEW s \in DOMAIN RequestSchemas[c],
         NEW f \in DOMAIN RequestSchemas[c][s]
  PROVE  /\ s \in DOMAIN Probed(TypicalRequests[c], p)
         /\ f \in DOMAIN Probed(TypicalRequests[c], p)[s]
         /\ \/ Probed(TypicalRequests[c], p)[s][f] = Typical(RequestSchemas[c][s][f], f)
            \/ f = "unlisted" /\ Probed(TypicalRequests[c], p)[s][f] = Absent
            \/ p.field = f /\ Probed(TypicalRequests[c], p)[s][f] = p.value
<1> DEFINE t == TypicalRequests[c]
           T == RequestSchemas[c][s][f]
<1>1. /\ s \in DOMAIN t /\ f \in DOMAIN t[s]
      /\ t[s][f] = IF f = "unlisted" THEN Absent ELSE Typical(T, f)
  BY DEF TypicalRequests
<1> HIDE DEF t, T
<1> DEFINE q == Probed(t, p)
<1>2. s \in DOMAIN q /\ f \in DOMAIN q[s]
  BY <1>1 DEF Probed
<1>3. q[s][f] = t[s][f] \/ (p.field = f /\ q[s][f] = p.value)
  BY <1>1 DEF Probed
<1> HIDE DEF q
<1>4. \/ q[s][f] = Typical(T, f)
      \/ f = "unlisted" /\ q[s][f] = Absent
      \/ p.field = f /\ q[s][f] = p.value
  BY <1>1, <1>3
<1> QED
  BY <1>2, <1>4 DEF q, t, T

\* What the router makes of a payload.
LEMMA CanonicalFields ==
  ASSUME NEW k, "self" \in DOMAIN k.payload
  PROVE  /\ DOMAIN Canonical(k) = DOMAIN k.payload
         /\ \A s \in DOMAIN k.payload : s # "self" => Canonical(k)[s] = k.payload[s]
         /\ DOMAIN Canonical(k)["self"] = DOMAIN k.payload["self"]
         /\ \A f \in DOMAIN k.payload["self"] :
              \/ Canonical(k)["self"][f] = k.payload["self"][f]
              \/ f = "actorId" /\ Canonical(k)["self"][f] = SessionActor
              \/ f = "actorRole" /\ Canonical(k)["self"][f] = Str(resolvePrimaryActorRole(k.roles))
<1> DEFINE own == k.payload["self"]
           role == Str(resolvePrimaryActorRole(k.roles))
           new == [f \in DOMAIN own |-> IF own[f] = Absent THEN Absent
                                        ELSE IF f = "actorId" THEN SessionActor
                                        ELSE IF f = "actorRole" THEN role ELSE own[f]]
<1>1. Canonical(k) = [k.payload EXCEPT !["self"] = new]
  BY DEF Canonical, applyActorContextToPayload
<1>2. /\ DOMAIN new = DOMAIN own
      /\ \A f \in DOMAIN own : \/ new[f] = own[f]
                               \/ f = "actorId" /\ new[f] = SessionActor
                               \/ f = "actorRole" /\ new[f] = role
  OBVIOUS
<1> HIDE DEF new, own, role
<1>3. /\ DOMAIN Canonical(k) = DOMAIN k.payload
      /\ \A s \in DOMAIN k.payload : s # "self" => Canonical(k)[s] = k.payload[s]
      /\ Canonical(k)["self"] = new
  BY <1>1
<1> QED
  BY <1>2, <1>3 DEF own, role

\* Typical texts are not blank.
LEMMA TypicalIsWorded ==
  ASSUME NEW T \in Worded, NEW f, Typical(T, f) \in T
  PROVE  Typical(T, f) # Str("blank")
<1>1. Str("t8") \in Text(1) /\ Absent \in Optional(OrNull(Text(1)))
  BY TextLengths DEF Text, Optional, Own
<1>2. Clean(T)
  BY <1>1, TextsAreClean DEF Worded, Clean
<1>3. Typical(T, f) \notin Unsaid
  BY <1>2, TypicalIsSpoken DEF Spoken
<1> QED
  BY <1>3, UnsaidOnes

\* The session's role is one the contract's type holds, and no actor of a session is blank.
LEMMA SessionsRole ==
  ASSUME NEW roles \in AnyRoles, NEW contract, Regular(contract),
         roles \cap contract.allowedRoles # {}, "actorRole" \in DOMAIN contract.request
  PROVE  Str(resolvePrimaryActorRole(roles)) \in contract.request["actorRole"]
<1>1. /\ roles \subseteq {"creator", "reviewer", "admin"}
      /\ resolvePrimaryActorRole(roles) \in {"creator", "reviewer", "admin"}
      /\ roles \cap {"reviewer", "admin"} # {}
            => resolvePrimaryActorRole(roles) \in {"reviewer", "admin"}
      /\ "admin" \in roles => resolvePrimaryActorRole(roles) = "admin"
  BY DEF AnyRoles, resolvePrimaryActorRole
<1>2. "creator" \notin contract.allowedRoles => roles \cap {"reviewer", "admin"} # {}
  BY <1>1
<1>3. contract.allowedRoles = {"admin"} => "admin" \in roles
  OBVIOUS
<1> DEFINE T == contract.request["actorRole"]
<1>4. \/ {Str("creator"), Str("reviewer"), Str("admin")} \subseteq T
      \/ "creator" \notin contract.allowedRoles /\ {Str("reviewer"), Str("admin")} \subseteq T
      \/ contract.allowedRoles = {"admin"} /\ Str("admin") \in T
  BY DEF Regular
<1> HIDE DEF T
<1>5. Str(resolvePrimaryActorRole(roles)) \in T
  BY <1>1, <1>2, <1>3, <1>4
<1> QED
  BY <1>5 DEF T

LEMMA NoActorIsBlank ==
  /\ SessionActor \in Text(1) /\ SessionActor # Str("blank")
  /\ \A roles : Str(resolvePrimaryActorRole(roles)) # Str("blank")
<1>1. SessionActor \in Text(1) /\ SessionActor # Str("blank")
  BY DEF SessionActor, Text, Length, Str
<1>2. \A roles : resolvePrimaryActorRole(roles) # "blank"
  BY DEF resolvePrimaryActorRole
<1> QED
  BY <1>1, <1>2 DEF Str

\* What the property assumes of the probe: no text of white space, and a time zone and a state
\* the service knows.
Known(p) ==
  /\ p.value \notin Blank
  /\ p.field = "timezone" => p.value \in Api!Timezone
  /\ p.field = "toState" => p.value \in Api!SubmissionState

\* What the page asks fits the schema of each object it refers to.
LEMMA PayloadIsTold ==
  ASSUME NEW c \in IPC_CHANNELS, NEW p, Known(p), NEW s \in DOMAIN RequestSchemas[c],
         Referred(Probed(TypicalRequests[c], p), s),
         SatisfiesStrictly(Probed(TypicalRequests[c], p), RequestSchemas[c]),
         "timezone" \in DOMAIN RequestSchemas[c][s] => Absent \in RequestSchemas[c][s]["timezone"]
  PROVE  Told(Probed(TypicalRequests[c], p)[s], RequestSchemas[c][s])
<1> DEFINE q == Probed(TypicalRequests[c], p)
           R == RequestSchemas[c]
<1>1. \A f \in DOMAIN R[s] :
        /\ s \in DOMAIN q /\ f \in DOMAIN q[s]
        /\ \/ q[s][f] = Typical(R[s][f], f)
           \/ f = "unlisted" /\ q[s][f] = Absent
           \/ p.field = f /\ q[s][f] = p.value
  BY ZenonT(60), PayloadFields
<1>2. \A f \in DOMAIN R[s] : s \in DOMAIN q => SchemaAccepts(R[s], f, Value(q, s, f))
  BY DEF SatisfiesStrictly
<1> HIDE DEF q, R
<1>3. \A f \in DOMAIN R[s] : q[s][f] \in R[s][f]
  BY <1>1, <1>2 DEF SchemaAccepts, Value
<1>4. Absent # Str("blank") /\ p.value # Str("blank")
  BY DEF Absent, Str, Known, Blank
<1>5. ASSUME NEW f \in DOMAIN R[s], R[s][f] \in Worded
      PROVE  q[s][f] # Str("blank")
  <2>1. q[s][f] \in {Typical(R[s][f], f), Absent, p.value}
    BY <1>1
  <2>2. q[s][f] = Typical(R[s][f], f) => q[s][f] # Str("blank")
    BY <1>3, <1>5, TypicalIsWorded
  <2> QED
    BY <1>4, <2>1, <2>2
<1>6. Meaningful = [toState |-> Str("under_review")] /\ DOMAIN Meaningful = {"toState"}
  BY DEF Meaningful
<1>7. ASSUME "timezone" \in DOMAIN R[s]
      PROVE  q[s]["timezone"] \in Own(Api!Timezone)
  <2>1. Typical(R[s]["timezone"], "timezone") = Absent
    BY <1>6, <1>7 DEF Typical, R
  <2>2. q[s]["timezone"] \in {Absent} \/ q[s]["timezone"] \in Api!Timezone
    BY <1>1, <1>7, <2>1 DEF Known
  <2> QED
    BY <2>2 DEF Own
<1>8. ASSUME "toState" \in DOMAIN R[s]
      PROVE  q[s]["toState"] \in Api!SubmissionState
  <2>1. Typical(R[s]["toState"], "toState") = Str("under_review")
    BY <1>6 DEF Typical
  <2>2. Str("under_review") \in Api!SubmissionState
    BY SameWords DEF Api!SubmissionState, Enum
  <2> QED
    BY <1>1, <1>8, <2>1, <2>2 DEF Known
<1>9. Told(q[s], R[s])
  BY <1>3, <1>5, <1>7, <1>8 DEF Told
<1> QED
  BY <1>9 DEF q, R

\* The actor of the session fits as well.
LEMMA CanonicalIsTold ==
  ASSUME NEW c \in IPC_CHANNELS, NEW k, Known(k.probe), k.roles \in AnyRoles,
         k.payload = Probed(TypicalRequests[c], k.probe),
         SatisfiesStrictly(k.payload, RequestSchemas[c]),
         Regular(IPC_CONTRACT_REGISTRY[c]),
         k.roles \cap IPC_CONTRACT_REGISTRY[c].allowedRoles # {}
  PROVE  Told(Canonical(k).self, IPC_CONTRACT_REGISTRY[c].request)
<1> DEFINE schema == IPC_CONTRACT_REGISTRY[c].request
           role == Str(resolvePrimaryActorRole(k.roles))
           own == k.payload["self"]
           new == Canonical(k)["self"]
<1>1. "self" \in DOMAIN RequestSchemas[c] /\ RequestSchemas[c]["self"] = schema
  BY SchemasOf
<1>2. /\ "self" \in DOMAIN k.payload
      /\ \A f \in DOMAIN schema : f \in DOMAIN own
  <2>1. "self" \in DOMAIN Probed(TypicalRequests[c], k.probe)
    BY <1>1, PayloadOf
  <2>2. \A f \in DOMAIN RequestSchemas[c]["self"] :
           f \in DOMAIN Probed(TypicalRequests[c], k.probe)["self"]
    BY <1>1, PayloadFields
  <2> QED
    BY <1>1, <2>1, <2>2
<1>3. Told(own, schema)
  <2>1. "timezone" \in DOMAIN schema => Absent \in schema["timezone"]
    BY DEF Regular
  <2>2. Referred(Probed(TypicalRequests[c], k.probe), "self")
    BY DEF Referred
  <2> QED
    BY <1>1, <2>1, <2>2, PayloadIsTold
<1>4. \A f \in DOMAIN own : \/ new[f] = own[f]
                            \/ f = "actorId" /\ new[f] = SessionActor
                            \/ f = "actorRole" /\ new[f] = role
  BY <1>2, CanonicalFields
<1>5. "actorId" \in DOMAIN schema => SessionActor \in schema["actorId"]
  BY NoActorIsBlank DEF Regular, Optional, Own
<1>6. "actorRole" \in DOMAIN schema => role \in schema["actorRole"]
  BY SessionsRole
<1>7. SessionActor # Str("blank") /\ role # Str("blank")
  BY NoActorIsBlank
<1> HIDE DEF schema, role, own, new
<1>8. \A f \in DOMAIN schema : new[f] \in schema[f]
  BY <1>2, <1>3, <1>4, <1>5, <1>6 DEF Told
<1>9. \A f \in DOMAIN schema : schema[f] \in Worded => new[f] # Str("blank")
  BY <1>2, <1>3, <1>4, <1>7 DEF Told
<1>10. \A f \in DOMAIN schema : f \notin {"actorId", "actorRole"} => new[f] = own[f]
  BY <1>2, <1>4
<1>11. /\ "timezone" \in DOMAIN schema => new["timezone"] = own["timezone"]
       /\ "toState" \in DOMAIN schema => new["toState"] = own["toState"]
  BY <1>10
<1>12. Told(new, schema)
  BY <1>3, <1>8, <1>9, <1>11 DEF Told
<1> QED
  BY <1>12 DEF new, schema

\* A body of several objects, each of which fits its model where something refers to it.
Meets(fields, model) ==
  Takes(model, fields) /\ \A f \in DOMAIN model : f \notin DOMAIN fields => Absent \in model[f]

LEMMA FilledMeets ==
  ASSUME NEW fields, NEW model, Fills(fields, model) PROVE Meets(fields, model)
BY DEF Fills, Meets

LEMMA PartsMeet ==
  ASSUME NEW parts, NEW models,
         \A s \in DOMAIN models \cap DOMAIN parts :
            Referred(OnTheWire(parts), s) => Meets(parts[s], models[s])
  PROVE  SatisfiesStrictly(OnTheWire(parts), models)
<1> DEFINE sent == OnTheWire(parts)
<1>1. DOMAIN sent = DOMAIN parts /\ \A s \in DOMAIN parts : DOMAIN sent[s] = DOMAIN parts[s]
  BY DEF OnTheWire
<1>2. \A s \in DOMAIN parts : \A f \in DOMAIN parts[s] : sent[s][f] = Wire(parts[s][f])
  BY DEF OnTheWire, Wire
<1> HIDE DEF sent
<1>3. ASSUME NEW s \in DOMAIN models \cap DOMAIN parts, Meets(parts[s], models[s]),
             NEW f \in DOMAIN sent[s] \cup DOMAIN models[s]
      PROVE  SchemaAccepts(models[s], f, Value(sent, s, f))
  BY <1>1, <1>2, <1>3 DEF Meets, Takes, SchemaAccepts, Value
<1>4. \A s \in DOMAIN models \cap DOMAIN parts : Referred(sent, s) => Meets(parts[s], models[s])
  BY DEF sent
<1>5. SatisfiesStrictly(sent, models)
  BY <1>1, <1>3, <1>4 DEF SatisfiesStrictly
<1> QED
  BY <1>5 DEF sent

\* A request that the router lets pass.
Taken(k) ==
  /\ k.channel \in IPC_CHANNELS /\ k.roles \in AnyRoles
  /\ Known(k.probe) /\ k.probe.value \in AnyValue
  /\ k.payload = Probed(TypicalRequests[k.channel], k.probe)
  /\ MainAccepts(k) /\ hasAllowedRole(k)

\* What the router hands to the handler fits too: the request itself, and its parts.
LEMMA SelfIsTold ==
  ASSUME NEW k, Taken(k), Regular(IPC_CONTRACT_REGISTRY[k.channel])
  PROVE  Told(Canonical(k).self, IPC_CONTRACT_REGISTRY[k.channel].request)
BY CanonicalIsTold DEF Taken, MainAccepts, hasAllowedRole

LEMMA FieldsAreTaken ==
  ASSUME NEW k, Taken(k), NEW s \in DOMAIN RequestSchemas[k.channel], Referred(k.payload, s),
         NEW f \in DOMAIN RequestSchemas[k.channel][s]
  PROVE  /\ s \in DOMAIN k.payload /\ f \in DOMAIN k.payload[s]
         /\ k.payload[s][f] \in RequestSchemas[k.channel][s][f]
<1> DEFINE R == RequestSchemas[k.channel]
<1>1. s \in DOMAIN k.payload /\ f \in DOMAIN k.payload[s]
  BY PayloadFields DEF Taken
<1>2. SchemaAccepts(R[s], f, Value(k.payload, s, f))
  BY <1>1 DEF Taken, MainAccepts, SatisfiesStrictly
<1> QED
  BY <1>1, <1>2 DEF SchemaAccepts, Value

LEMMA PartIsTold ==
  ASSUME NEW k, Taken(k), NEW s \in DOMAIN RequestSchemas[k.channel], s # "self",
         Referred(k.payload, s), "timezone" \notin DOMAIN Nested[s]
  PROVE  Told(Canonical(k)[s], Nested[s])
<1>1. RequestSchemas[k.channel][s] = Nested[s] /\ "self" \in DOMAIN RequestSchemas[k.channel]
  BY SchemasOf DEF Taken
<1>2. Told(k.payload[s], Nested[s])
  BY <1>1, PayloadIsTold DEF Taken, MainAccepts
<1>3. DOMAIN k.payload = DOMAIN RequestSchemas[k.channel]
  BY PayloadOf DEF Taken
<1>4. Canonical(k)[s] = k.payload[s]
  BY <1>1, <1>3, CanonicalFields
<1> QED
  BY <1>2, <1>4

\* What a request refers to has a schema.
LEMMA MentionedOnes ==
  ASSUME NEW c \in IPC_CHANNELS, NEW s
  PROVE  /\ s \in Mentions(IPC_CONTRACT_REGISTRY[c].request) => s \in DOMAIN RequestSchemas[c]
         /\ \A m \in Mentions(IPC_CONTRACT_REGISTRY[c].request) :
               s \in Mentions(Nested[m]) => s \in DOMAIN RequestSchemas[c]
<1> DEFINE schema == IPC_CONTRACT_REGISTRY[c].request
<1>1. DOMAIN [x \in Mentioned(schema) |-> Nested[x]] = Mentioned(schema)
  OBVIOUS
<1>2. Mentioned(schema) \subseteq DOMAIN RequestSchemas[c]
  BY <1>1, MergedDomain DEF RequestSchemas, Closed
<1>3. /\ Mentions(schema) \subseteq Mentioned(schema)
      /\ \A m \in Mentions(schema) : Mentions(Nested[m]) \subseteq Mentioned(schema)
  BY DEF Mentioned
<1> QED
  BY <1>2, <1>3

(* The three channels whose bodies have several objects.                     *)
LEMMA ManifestReaches ==
  ASSUME NEW k, Taken(k), k.channel = "INTAKE_MANIFEST_PUT"
  PROVE  Reaches(k.channel, Canonical(k))
<1> DEFINE q == Canonical(k)
           file == "IntakeManifestPutRequest_files"
           parts == putManifestBody(q)
<1>1. /\ k.channel \in IPC_CHANNELS
      /\ IPC_CONTRACT_REGISTRY[k.channel].request = IntakeManifestPutRequestSchema
      /\ Regular(IPC_CONTRACT_REGISTRY[k.channel])
  BY ContractsOf DEF Taken, Regular, IntakeContracts, Creators, Contract,
     IntakeManifestPutRequestSchema
<1>2. /\ Nested[file] = IntakeManifestPutRequest_files /\ file # "self"
      /\ "timezone" \notin DOMAIN Nested[file]
  BY DEF Nested, IntakeManifestPutRequest_files
<1>3. file \in DOMAIN RequestSchemas[k.channel] /\ Referred(k.payload, file)
  <2>1. NonEmpty(ArrayOf(file)) = {Array(file)}
    BY DEF NonEmpty, ArrayOf, EmptyArray, Array
  <2>2. /\ "files" \in DOMAIN IntakeManifestPutRequestSchema
        /\ IntakeManifestPutRequestSchema["files"] = {Array(file)}
    BY <2>1 DEF IntakeManifestPutRequestSchema
  <2>3. {Object("any"), Array("any")} \cap {Array(file)} = {} /\ file \in Shapes
    BY DEF Object, Array, Shapes
  <2>4. file \in Mentions(IntakeManifestPutRequestSchema)
    BY <2>2, <2>3 DEF Mentions
  <2>5. file \in DOMAIN RequestSchemas[k.channel]
    BY <1>1, <2>4, MentionedOnes
  <2>6. /\ "self" \in DOMAIN RequestSchemas[k.channel]
        /\ RequestSchemas[k.channel]["self"] = IntakeManifestPutRequestSchema
    BY <1>1, SchemasOf
  <2>7. /\ "self" \in DOMAIN k.payload /\ "files" \in DOMAIN k.payload["self"]
        /\ k.payload["self"]["files"] \in {Array(file)}
    BY <2>2, <2>6, FieldsAreTaken DEF Referred
  <2> QED
    BY <2>5, <2>7 DEF Referred
<1>4. Told(q.self, IntakeManifestPutRequestSchema)
  BY <1>1, SelfIsTold
<1>5. Told(q.IntakeManifestPutRequest_files, IntakeManifestPutRequest_files)
  BY <1>2, <1>3, PartIsTold
<1>6. Body(k.channel, q) = OnTheWire(parts)
  <2> HIDE DEF q
  <2>1. Body(k.channel, q) = OnTheWire(OperationsBody(k.channel, q))
    BY ClientsOf DEF PlainWork
  <2>2. OperationsBody(k.channel, q) = parts
    BY DEF OperationsBody
  <2> QED
    BY <2>1, <2>2
<1>7. Api!ApiRequests[k.channel] =
        [self |-> Api!UpsertIntakeManifestRequest, ManifestFileEntry |-> Api!ManifestFileEntry]
  BY DEF Api!ApiRequests, Api!++
<1> HIDE DEF q
<1>8. Fills(parts.self, Api!UpsertIntakeManifestRequest)
  BY <1>4, TextsPass, CoalescePasses, BooleansPass, ObjectsPass
     DEF Told, Worded, IntakeManifestPutRequestSchema, putManifestBody, Fills, Takes,
     Api!UpsertIntakeManifestRequest
<1>9. Fills(parts.ManifestFileEntry, Api!ManifestFileEntry)
  BY <1>5, TextsPass, KindsPass, DefaultsPass, BooleansPass
     DEF Told, Worded, IntakeManifestPutRequest_files, putManifestBody, Fills, Takes,
     Api!ManifestFileEntry
<1>10. DOMAIN parts = {"self", "ManifestFileEntry"}
  BY DEF putManifestBody
<1> HIDE DEF parts
<1>11. SatisfiesStrictly(OnTheWire(parts), Api!ApiRequests[k.channel])
  BY <1>7, <1>8, <1>9, <1>10, FilledMeets, PartsMeet
<1> QED
  BY <1>6, <1>11 DEF Reaches, q

LEMMA PolicyReaches ==
  ASSUME NEW k, Taken(k), k.channel = "ADMIN_QC_POLICY_UPDATE"
  PROVE  Reaches(k.channel, Canonical(k))
<1> DEFINE q == Canonical(k)
           policy == "AdminQcPolicyUpdateRequest_policy"
           rule == "QcPolicyRuleBinding"
           parts == updateActivePolicyBody(q)
<1>1. /\ k.channel \in IPC_CHANNELS
      /\ IPC_CONTRACT_REGISTRY[k.channel].request = AdminQcPolicyUpdateRequestSchema
      /\ Regular(IPC_CONTRACT_REGISTRY[k.channel])
  <2>1. /\ "ADMIN_QC_POLICY_UPDATE" \in DOMAIN AdminContracts
        /\ AdminContracts["ADMIN_QC_POLICY_UPDATE"].request = AdminQcPolicyUpdateRequestSchema
        /\ AdminContracts["ADMIN_QC_POLICY_UPDATE"].allowedRoles = {"admin"}
    BY SMTT(20) DEF AdminContracts, Admins, Contract
  <2>2. IPC_CONTRACT_REGISTRY[k.channel] = AdminContracts["ADMIN_QC_POLICY_UPDATE"]
    BY <2>1, ContractsOf
  <2> QED
    BY <2>1, <2>2, ActorTypes DEF Taken, Regular, AdminQcPolicyUpdateRequestSchema
<1>2. /\ Nested[policy] = AdminQcPolicyUpdateRequest_policy /\ policy # "self"
      /\ "timezone" \notin DOMAIN Nested[policy]
      /\ Nested[rule] = QcPolicyRuleBindingSchema /\ rule # "self"
      /\ "timezone" \notin DOMAIN Nested[rule]
  BY DEF Nested, AdminQcPolicyUpdateRequest_policy, QcPolicyRuleBindingSchema
<1>3. policy \in DOMAIN RequestSchemas[k.channel] /\ Referred(k.payload, policy)
      /\ rule \in DOMAIN RequestSchemas[k.channel] /\ Referred(k.payload, rule)
  <2>1. NonEmpty(ArrayOf(rule)) = {Array(rule)}
    BY DEF NonEmpty, ArrayOf, EmptyArray, Array
  <2>2. /\ "policy" \in DOMAIN AdminQcPolicyUpdateRequestSchema
        /\ AdminQcPolicyUpdateRequestSchema["policy"] = {Object(policy)}
        /\ "rules" \in DOMAIN AdminQcPolicyUpdateRequest_policy
        /\ AdminQcPolicyUpdateRequest_policy["rules"] = {Array(rule)}
    BY <2>1 DEF AdminQcPolicyUpdateRequestSchema, AdminQcPolicyUpdateRequest_policy
  <2>3. /\ {Object("any"), Array("any")} \cap {Array(rule)} = {} /\ rule \in Shapes
        /\ {Object("any"), Array("any")} \cap {Object(policy)} = {} /\ policy \in Shapes
    BY DEF Object, Array, Shapes
  <2>4. /\ policy \in Mentions(AdminQcPolicyUpdateRequestSchema)
        /\ rule \in Mentions(AdminQcPolicyUpdateRequest_policy)
    BY <2>2, <2>3 DEF Mentions
  <2>5. policy \in DOMAIN RequestSchemas[k.channel] /\ rule \in DOMAIN RequestSchemas[k.channel]
    BY <1>1, <1>2, <2>4, MentionedOnes
  <2>6. /\ "self" \in DOMAIN RequestSchemas[k.channel]
        /\ RequestSchemas[k.channel]["self"] = AdminQcPolicyUpdateRequestSchema
        /\ RequestSchemas[k.channel][policy] = AdminQcPolicyUpdateRequest_policy
    BY <1>1, <1>2, <2>5, SchemasOf
  <2>7. /\ "self" \in DOMAIN k.payload /\ "policy" \in DOMAIN k.payload["self"]
        /\ k.payload["self"]["policy"] \in {Object(policy)}
    BY <2>2, <2>6, FieldsAreTaken DEF Referred
  <2>8. Referred(k.payload, policy)
    BY <2>7 DEF Referred
  <2>9. /\ policy \in DOMAIN k.payload /\ "rules" \in DOMAIN k.payload[policy]
        /\ k.payload[policy]["rules"] \in {Array(rule)}
    BY <2>2, <2>5, <2>6, <2>8, FieldsAreTaken
  <2> QED
    BY <2>5, <2>8, <2>9 DEF Referred
<1>4. Told(q.self, AdminQcPolicyUpdateRequestSchema)
  BY <1>1, SelfIsTold
<1>5. /\ Told(q.AdminQcPolicyUpdateRequest_policy, AdminQcPolicyUpdateRequest_policy)
      /\ Told(q.QcPolicyRuleBinding, QcPolicyRuleBindingSchema)
  BY <1>2, <1>3, PartIsTold
<1>6. Body(k.channel, q) = OnTheWire(parts)
  <2> HIDE DEF q
  <2>1. Body(k.channel, q) = OnTheWire(AuthBody(k.channel, q))
    BY ClientsOf
  <2>2. AuthBody(k.channel, q) = parts
    BY DEF AuthBody
  <2> QED
    BY <2>1, <2>2
<1>7. Api!ApiRequests[k.channel] =
        [self |-> Api!UpdateActiveQcPolicyRequest, QcPolicyUpdate |-> Api!QcPolicyUpdate,
         QcPolicyRuleBinding |-> Api!QcPolicyRuleBinding]
  BY DEF Api!ApiRequests, Api!++
<1> HIDE DEF q
<1>8. Fills(parts.self, Api!UpdateActiveQcPolicyRequest)
  <2>1. Wire(Object("QcPolicyUpdate")) \in {Api!Object("QcPolicyUpdate")}
    BY SameKinds, NothingOfAKind DEF Wire, Nothing
  <2> QED
    BY <1>4, <2>1, TextsPass, EnumsPass, CoalescePasses
       DEF Told, Worded, AdminQcPolicyUpdateRequestSchema, updateActivePolicyBody, ActorOf, ++,
       Fills, Takes, Api!UpdateActiveQcPolicyRequest
<1>9. Meets(parts.QcPolicyUpdate, Api!QcPolicyUpdate)
  <2>1. Absent \in Api!Own(Api!Strings)
    BY SameKinds DEF Own
  <2> QED
    BY <1>5, <2>1, TextsPass, OrElseNullPasses, ObjectsPass
       DEF Told, Worded, AdminQcPolicyUpdateRequest_policy, updateActivePolicyBody, Meets, Takes,
       Api!QcPolicyUpdate
<1>10. Fills(parts.QcPolicyRuleBinding, Api!QcPolicyRuleBinding)
  BY <1>5, TextsPass, KindsPass, CoalescePasses, ObjectsPass
     DEF Told, Worded, QcPolicyRuleBindingSchema, updateActivePolicyBody, Fills, Takes,
     Api!QcPolicyRuleBinding
<1>11. DOMAIN parts = {"self", "QcPolicyUpdate", "QcPolicyRuleBinding"}
  BY DEF updateActivePolicyBody
<1> HIDE DEF parts
<1>12. SatisfiesStrictly(OnTheWire(parts), Api!ApiRequests[k.channel])
  BY <1>7, <1>8, <1>9, <1>10, <1>11, FilledMeets, PartsMeet
<1> QED
  BY <1>6, <1>12 DEF Reaches, q

\* The archive a pack may hold: what the client calls it is no value of the page's.
Archive == {Object("QcAudioZipInput"), Array("QcAudioZipInput")}

LEMMA NoArchiveIsAsked ==
  /\ Archive \cap AnyValue = {}
  /\ \A f, T : T \in {Text(1), IntFrom(0)} => Typical(T, f) \notin Archive
<1>1. Archive \cap AnyValue = {}
  <2>1. \A w : Object("QcAudioZipInput") # Str(w) /\ Object("QcAudioZipInput") # Num(w)
               /\ Object("QcAudioZipInput") # Array(w)
    BY DEF Object, Str, Num, Array
  <2>2. \A w : Array("QcAudioZipInput") # Str(w) /\ Array("QcAudioZipInput") # Num(w)
               /\ Array("QcAudioZipInput") # Object(w)
    BY DEF Object, Str, Num, Array
  <2>3. Archive \cap ({Absent, Undefined, Null, Fraction} \cup Bool) = {}
    BY DEF Archive, Object, Array, Absent, Undefined, Null, Fraction, Bool, True, False
  <2>4. /\ "QcAudioZipInput" \notin Shapes \cup {"any", "counts", "labels"}
        /\ "QcAudioZipInput" \notin {"empty", "roles", "texts", "blanks"}
    BY DEF Shapes
  <2>5. \A w : /\ Object(w) = Object("QcAudioZipInput") => w = "QcAudioZipInput"
               /\ Array(w) = Array("QcAudioZipInput") => w = "QcAudioZipInput"
    BY DEF Object, Array
  <2>6. Archive \cap (Integer \cup Text(0)) = {}
    BY <2>1, <2>2 DEF Archive, Integer, Text
  <2>7. Archive \cap AnyObject = {}
    BY <2>2, <2>4, <2>5 DEF Archive, AnyObject
  <2>8. Archive \cap AnyArray = {}
    BY <2>1, <2>4, <2>5 DEF Archive, AnyArray, Strings, Texts, Roles, EmptyArray
  <2> QED
    BY <2>3, <2>6, <2>7, <2>8 DEF AnyValue
<1>2. ASSUME NEW T, T \in {Text(1), IntFrom(0)}
      PROVE  Plain(T) \notin Archive
  <2> DEFINE found == {i \in DOMAIN Preferred : Preferred[i] \in T}
             first == CHOOSE i \in found : \A j \in found : i <= j
  <2>1. /\ DOMAIN Preferred = 1..11 /\ Preferred[1] = Str("t8") /\ Preferred[7] = Num(1)
    BY DEF Preferred
  <2>2. Str("t8") \in Text(1) /\ Num(1) \in IntFrom(0)
    BY DEF Text, Length, IntFrom, IntIn, Numbers, Largest
  <2>3. found \subseteq 1..11 /\ found # {}
    BY <1>2, <2>1, <2>2
  <2>4. \E i \in found : \A j \in found : i <= j
    BY <2>3
  <2>5. first \in found
    BY <2>4
  <2>6. Plain(T) = Preferred[first]
    BY <2>3 DEF Plain
  <2> HIDE DEF first
  <2>7. Plain(T) \in T
    BY <2>5, <2>6
  <2>8. T \subseteq AnyValue
    BY <1>2, MoreTexts DEF AnyValue, IntFrom, IntIn, Integer
  <2> QED
    BY <1>1, <2>7, <2>8
<1>3. Absent \in AnyValue /\ Str("under_review") \in AnyValue
  BY DEF AnyValue, Text, Words
<1>4. ASSUME NEW T, T \in {Text(1), IntFrom(0)}, NEW f
      PROVE  Typical(T, f) \notin Archive
  <2>1. \A g \in DOMAIN Meaningful : Meaningful[g] = Str("under_review")
    BY DEF Meaningful
  <2> QED
    BY <1>1, <1>2, <1>3, <1>4, <2>1 DEF Typical
<1> QED
  BY <1>1, <1>4

\* No type of the service's but the one that is to hold it.
LEMMA NoArchiveElsewhere ==
  /\ \A f \in DOMAIN Api!QcEvaluationRequest : Archive \cap Api!QcEvaluationRequest[f] = {}
  /\ \A f \in DOMAIN Api!QcPackInput \ {"audio_zip"} : Archive \cap Api!QcPackInput[f] = {}
<1>1. \A w : /\ Str(w) \notin Archive /\ Num(w) \notin Archive
             /\ w \in {"empty", "roles", "texts", "blanks"} => Array(w) \notin Archive
  BY DEF Archive, Object, Array, Str, Num
<1>2. /\ Null \notin Archive /\ Absent \notin Archive /\ True \notin Archive
      /\ False \notin Archive /\ Object("QcPackInput") \notin Archive
  BY DEF Archive, Object, Array, Null, Absent, True, False
<1>3. /\ \A n : Archive \cap Text(n) = {} /\ Archive \cap IntFrom(n) = {}
      /\ \A ws : Archive \cap Enum(ws) = {}
  BY <1>1 DEF Text, IntFrom, IntIn, Enum
<1>4. Archive \cap Bool = {} /\ Archive \cap {Object("QcPackInput")} = {}
  BY <1>2 DEF Bool
<1>5. Archive \cap Strings = {}
  BY <1>1 DEF Strings, Texts, Roles, EmptyArray
<1>6. \A T : Archive \cap T = {} => Archive \cap Own(T) = {} /\ Archive \cap OrNull(T) = {}
  BY <1>2 DEF Own, OrNull
<1>7. /\ Archive \cap Own(OrNull(Text(0))) = {} /\ Archive \cap Own(Strings) = {}
      /\ Archive \cap Own(IntFrom(0)) = {} /\ Archive \cap Own(Bool) = {}
  BY <1>3, <1>4, <1>5, <1>6
<1>8. Archive \cap Api!QcActorRole = {}
  BY <1>3, SameWords DEF Api!QcActorRole
<1> HIDE DEF Archive
<1>9. \A f \in DOMAIN Api!QcEvaluationRequest : Archive \cap Api!QcEvaluationRequest[f] = {}
  BY <1>3, <1>4, <1>7, <1>8, SameWords, SameKinds DEF Api!QcEvaluationRequest
<1>10. \A f \in DOMAIN Api!QcPackInput \ {"audio_zip"} : Archive \cap Api!QcPackInput[f] = {}
  BY <1>3, <1>7, SameWords, SameKinds DEF Api!QcPackInput
<1> QED
  BY <1>9, <1>10

\* The values of a part, whether or not anything refers to it.
LEMMA PayloadValues ==
  ASSUME NEW k, Taken(k), NEW s \in DOMAIN RequestSchemas[k.channel],
         NEW f \in DOMAIN RequestSchemas[k.channel][s]
  PROVE  k.payload[s][f] \in {Typical(RequestSchemas[k.channel][s][f], f), Absent, k.probe.value}
<1>1. k.channel \in IPC_CHANNELS /\ k.payload = Probed(TypicalRequests[k.channel], k.probe)
  BY DEF Taken
<1>2. ASSUME NEW c \in IPC_CHANNELS, NEW p, s \in DOMAIN RequestSchemas[c],
             f \in DOMAIN RequestSchemas[c][s]
      PROVE  Probed(TypicalRequests[c], p)[s][f]
               \in {Typical(RequestSchemas[c][s][f], f), Absent, p.value}
  <2> DEFINE v == Probed(TypicalRequests[c], p)[s][f]
  <2>1. \/ v = Typical(RequestSchemas[c][s][f], f)
        \/ f = "unlisted" /\ v = Absent
        \/ p.field = f /\ v = p.value
    BY SMTT(30), <1>2, PayloadFields
  <2> HIDE DEF v
  <2>2. v \in {Typical(RequestSchemas[c][s][f], f), Absent, p.value}
    BY <2>1
  <2> QED
    BY <2>2 DEF v
<1> QED
  BY <1>1, <1>2

LEMMA PackReaches ==
  ASSUME NEW k, Taken(k), k.channel = "QC_EVALUATE_PACK"
  PROVE  Reaches(k.channel, Canonical(k))
<1> DEFINE q == Canonical(k)
           pack == "QcPackInput"
           archive == "QcAudioZip"
           parts == evaluateBody(q)
           sent == OnTheWire(parts)
<1>1. /\ k.channel \in IPC_CHANNELS
      /\ IPC_CONTRACT_REGISTRY[k.channel].request = QcEvaluatePackRequestSchema
      /\ Regular(IPC_CONTRACT_REGISTRY[k.channel])
  <2>1. /\ "QC_EVALUATE_PACK" \in DOMAIN QcContracts
        /\ QcContracts["QC_EVALUATE_PACK"].request = QcEvaluatePackRequestSchema
    BY SMTT(20) DEF QcContracts, Everyone, Contract
  <2>2. IPC_CONTRACT_REGISTRY[k.channel] = QcContracts["QC_EVALUATE_PACK"]
    BY <2>1, ContractsOf
  <2> QED
    BY <2>1, <2>2, ActorTypes DEF Taken, Regular, QcEvaluatePackRequestSchema
<1>2. /\ Nested[pack] = QcPackInputSchema /\ pack # "self"
      /\ "timezone" \notin DOMAIN Nested[pack]
      /\ Nested[archive] = QcAudioZipSchema /\ archive # "self"
      /\ "timezone" \notin DOMAIN Nested[archive]
  BY DEF Nested, QcPackInputSchema, QcAudioZipSchema
<1>3. /\ pack \in DOMAIN RequestSchemas[k.channel] /\ Referred(k.payload, pack)
      /\ archive \in DOMAIN RequestSchemas[k.channel]
      /\ q[pack] = k.payload[pack] /\ q[archive] = k.payload[archive]
      /\ pack \in DOMAIN k.payload /\ "audioZip" \in DOMAIN k.payload[pack]
  <2>1. /\ "pack" \in DOMAIN QcEvaluatePackRequestSchema
        /\ QcEvaluatePackRequestSchema["pack"] = {Object(pack)}
        /\ "audioZip" \in DOMAIN QcPackInputSchema
        /\ QcPackInputSchema["audioZip"] = Optional(OrNull({Object(archive)}))
    BY DEF QcEvaluatePackRequestSchema, QcPackInputSchema
  <2>2. /\ {Object("any"), Array("any")} \cap {Object(pack)} = {} /\ pack \in Shapes
        /\ {Object("any"), Array("any")} \cap Optional(OrNull({Object(archive)})) = {}
        /\ Object(archive) \in Optional(OrNull({Object(archive)})) /\ archive \in Shapes
    BY DEF Object, Array, Shapes, Optional, OrNull, Own, Null, Absent, Undefined
  <2>3. pack \in Mentions(QcEvaluatePackRequestSchema) /\ archive \in Mentions(QcPackInputSchema)
    BY ZenonT(60), <2>1, <2>2 DEF Mentions
  <2>4. pack \in DOMAIN RequestSchemas[k.channel] /\ archive \in DOMAIN RequestSchemas[k.channel]
    BY <1>1, <1>2, <2>3, MentionedOnes
  <2>5. /\ "self" \in DOMAIN RequestSchemas[k.channel]
        /\ RequestSchemas[k.channel]["self"] = QcEvaluatePackRequestSchema
        /\ RequestSchemas[k.channel][pack] = QcPackInputSchema
    BY <1>1, <1>2, <2>4, SchemasOf
  <2>6. /\ "self" \in DOMAIN k.payload /\ "pack" \in DOMAIN k.payload["self"]
        /\ k.payload["self"]["pack"] \in {Object(pack)}
    BY <2>1, <2>5, FieldsAreTaken DEF Referred
  <2>7. Referred(k.payload, pack)
    BY <2>6 DEF Referred
  <2>8. pack \in DOMAIN k.payload /\ "audioZip" \in DOMAIN k.payload[pack]
    BY <2>1, <2>4, <2>5, <2>7, FieldsAreTaken
  <2>9. DOMAIN k.payload = DOMAIN RequestSchemas[k.channel]
    BY PayloadOf DEF Taken
  <2>10. q[pack] = k.payload[pack] /\ q[archive] = k.payload[archive]
    BY <1>2, <2>4, <2>6, <2>9, CanonicalFields
  <2> QED
    BY <2>4, <2>7, <2>8, <2>10
<1>4. Told(q.self, QcEvaluatePackRequestSchema) /\ Told(q.QcPackInput, QcPackInputSchema)
  BY <1>1, <1>2, <1>3, SelfIsTold, PartIsTold
<1>5. ASSUME q.QcPackInput.audioZip = Object(archive)
      PROVE  Told(q.QcAudioZip, QcAudioZipSchema)
  <2>1. Referred(k.payload, archive)
    BY <1>3, <1>5 DEF Referred
  <2> QED
    BY <1>2, <1>3, <2>1, PartIsTold
<1>6. q.QcAudioZip.filename \notin Archive /\ q.QcAudioZip.sizeBytes \notin Archive
  <2>1. RequestSchemas[k.channel][archive] = QcAudioZipSchema
    BY <1>1, <1>2, <1>3, SchemasOf
  <2>2. /\ \A f \in {"filename", "sizeBytes"} : f \in DOMAIN QcAudioZipSchema
        /\ \A f \in {"filename", "sizeBytes"} : QcAudioZipSchema[f] \in {Text(1), IntFrom(0)}
    BY DEF QcAudioZipSchema
  <2>3. \A f \in {"filename", "sizeBytes"} :
           k.payload[archive][f] \in {Typical(QcAudioZipSchema[f], f), Absent, k.probe.value}
    <3> SUFFICES ASSUME NEW f \in {"filename", "sizeBytes"}
                 PROVE  k.payload[archive][f] \in {Typical(QcAudioZipSchema[f], f), Absent,
                                                   k.probe.value}
      OBVIOUS
    <3>1. f \in DOMAIN RequestSchemas[k.channel][archive]
      BY <2>1, <2>2
    <3> QED
      BY <1>3, <2>1, <3>1, PayloadValues
  <2>4. k.probe.value \notin Archive /\ Absent \notin Archive
    BY NoArchiveIsAsked DEF Taken, AnyValue
  <2>5. \A f \in {"filename", "sizeBytes"} : k.payload[archive][f] \notin Archive
    BY <2>2, <2>3, <2>4, NoArchiveIsAsked
  <2> QED
    BY <1>3, <2>5
<1>7. Body(k.channel, q) = sent
  <2> HIDE DEF q
  <2>1. Body(k.channel, q) = OnTheWire(AuthBody(k.channel, q))
    BY ClientsOf
  <2>2. AuthBody(k.channel, q) = parts
    BY DEF AuthBody
  <2> QED
    BY <2>1, <2>2
<1>8. Api!ApiRequests[k.channel] =
        [self |-> Api!QcEvaluationRequest, QcPackInput |-> Api!QcPackInput,
         QcAudioZipInput |-> Api!QcAudioZipInput]
  BY DEF Api!ApiRequests, Api!++
<1> HIDE DEF q
<1>9. Fills(parts.self, Api!QcEvaluationRequest)
  <2>1. Wire(Object("QcPackInput")) \in {Api!Object("QcPackInput")}
    BY SameKinds, NothingOfAKind DEF Wire, Nothing
  <2> QED
    BY <1>4, <2>1, TextsPass, EnumsPass, OrElseNullPasses
       DEF Told, Worded, QcEvaluatePackRequestSchema, evaluateBody, ActorOf, ++, Fills, Takes,
       Api!QcEvaluationRequest
<1>10. Fills(parts.QcPackInput, Api!QcPackInput)
  BY <1>4, TextsPass, KindsPass, OrElseNullPasses, ObjectsPass
     DEF Told, Worded, QcPackInputSchema, evaluateBody, Fills, Takes, Api!QcPackInput
<1>11. ASSUME q.QcPackInput.audioZip = Object(archive)
       PROVE  Fills(parts.QcAudioZipInput, Api!QcAudioZipInput)
  BY <1>5, <1>11, TextsPass, KindsPass
     DEF Told, Worded, QcAudioZipSchema, evaluateBody, Fills, Takes, Api!QcAudioZipInput
<1>12. /\ DOMAIN parts = {"self", "QcPackInput", "QcAudioZipInput"}
       /\ parts.QcPackInput.audio_zip = Part(q.QcPackInput.audioZip, "QcAudioZipInput")
       /\ DOMAIN parts.QcAudioZipInput = {"filename", "size_bytes"}
       /\ parts.QcAudioZipInput.filename = q.QcAudioZip.filename
       /\ parts.QcAudioZipInput.size_bytes = q.QcAudioZip.sizeBytes
  BY DEF evaluateBody
<1> HIDE DEF parts
<1>13. ASSUME Referred(sent, "QcAudioZipInput")
       PROVE  q.QcPackInput.audioZip = Object(archive)
  <2>s. PICK s \in DOMAIN sent : \E f \in DOMAIN sent[s] : sent[s][f] \in Archive
    BY <1>13 DEF Referred, Archive
  <2>1. PICK f \in DOMAIN sent[s] : sent[s][f] \in Archive
    BY <2>s
  <2>2. /\ s \in DOMAIN parts /\ f \in DOMAIN parts[s]
        /\ sent[s][f] = Wire(parts[s][f])
    BY <2>1 DEF OnTheWire, Wire
  <2>3. Absent \notin Archive
    BY DEF Archive, Object, Array, Absent
  <2>4. s # "self"
    BY <1>9, <2>1, <2>2, NoArchiveElsewhere DEF Fills, Takes
  <2>5. s # "QcAudioZipInput"
    BY <1>6, <1>12, <2>1, <2>2, <2>3 DEF Wire
  <2>6. s = "QcPackInput" /\ f = "audio_zip"
    BY <1>10, <1>12, <2>1, <2>2, <2>4, <2>5, NoArchiveElsewhere DEF Fills, Takes
  <2>7. Wire(Part(q.QcPackInput.audioZip, "QcAudioZipInput")) \in Archive
    BY <1>12, <2>1, <2>2, <2>6
  <2>8. q.QcPackInput.audioZip \notin Falsy
    <3>1. Null \notin Archive /\ Null # Undefined
      BY DEF Archive, Object, Array, Null, Undefined
    <3> QED
      BY <2>7, <3>1 DEF Wire, Part
  <2>9. q.QcPackInput.audioZip \in Optional(OrNull({Object(archive)}))
    BY <1>4 DEF Told, QcPackInputSchema
  <2> QED
    BY <2>8, <2>9 DEF Optional, OrNull, Own, Falsy
<1>14. SatisfiesStrictly(sent, Api!ApiRequests[k.channel])
  BY <1>8, <1>9, <1>10, <1>11, <1>12, <1>13, FilledMeets, PartsMeet
<1> QED
  BY <1>7, <1>14 DEF Reaches, q

\* The service would take the query of the desktop's own log as well.
LEMMA AuditRequestsCross ==
  ASSUME NEW q, NEW c \in AuditChannels
  PROVE  Crosses(c, q)
<1> DEFINE fields == [limit |-> q.self.limit]
<1>1. c = "AUDIT_LIST_SECURITY_EVENTS"
  BY DEF AuditChannels
<1>2. /\ IPC_CONTRACT_REGISTRY[c].request = AuditListSecurityEventsRequestSchema
      /\ Regular(IPC_CONTRACT_REGISTRY[c])
  <2>1. /\ c \in DOMAIN DesktopContracts
        /\ DesktopContracts[c].request = AuditListSecurityEventsRequestSchema
    BY <1>1 DEF DesktopContracts, Reviewers, Contract
  <2> QED
    BY <2>1, ContractsOf DEF Regular, AuditListSecurityEventsRequestSchema
<1>3. Body(c, q) = OnTheWire(One(fields))
  <2>1. Body(c, q) = OnTheWire(AdminBody(c, q.self))
    BY <1>1 DEF Body, AccountChannels, AuthChannels, QcChannels, NotificationChannels,
       DirectoryChannels, AuditChannels
  <2> QED
    BY <1>1, <2>1 DEF AdminBody
<1>4. Api!ApiRequests[c] = Api!Flat(Api!AuditQuery)
  BY <1>1 DEF Api!ApiRequests, Api!++
<1>5. \A v \in Optional(IntIn(1, 100)) : Wire(v) \in Api!Own(Api!IntIn(1, 500))
  <2>1. IntIn(1, 100) \subseteq IntIn(1, 500)
    BY DEF IntIn, Numbers
  <2> QED
    BY <2>1, SameKinds DEF Wire, Optional, Own
<1>6. Told(q.self, AuditListSecurityEventsRequestSchema) => Fills(fields, Api!AuditQuery)
  BY <1>5 DEF Told, AuditListSecurityEventsRequestSchema, Fills, Takes, Api!AuditQuery
<1> QED
  BY <1>2, <1>3, <1>4, <1>6, CarriedIsTaken

\* Every channel with a body is one of these.
LEMMA RoutedBodies ==
  ASSUME NEW k, Taken(k), k.channel \in DOMAIN Api!ApiRequests, k.channel # "SCHEDULING_RESOLVE"
  PROVE  Reaches(k.channel, Canonical(k))
<1> DEFINE c == k.channel
<1>1. ASSUME Crosses(c, Canonical(k))
      PROVE  Reaches(c, Canonical(k))
  BY <1>1, SelfIsTold DEF Crosses
<1>2. CASE c \in {"QC_EVALUATE_PACK", "ADMIN_QC_POLICY_UPDATE", "INTAKE_MANIFEST_PUT"}
  BY <1>2, PackReaches, PolicyReaches, ManifestReaches
<1>3. CASE c \in AuthChannels
  BY <1>1, <1>3, AuthRequestsCross DEF AuthChannels
<1>4. CASE c \in NotificationChannels \cup {"QC_LIST_RULES", "ADMIN_QC_POLICY_GET"}
  BY <1>1, <1>4, AccountRequestsCross DEF NotificationChannels
<1>5. CASE c \in DirectoryChannels
  BY <1>1, <1>5, DirectoryRequestsCross DEF DirectoryChannels
<1>6. CASE c \in AdminChannels
  BY <1>1, <1>6, ReviewRequestsCross, AdminConfigRequestsCross, AdminIntegrationRequestsCross
     DEF AdminChannels
<1>7. CASE c \in (ActingWork \cup PlainWork \cup Owning)
                   \ {"INTAKE_MANIFEST_PUT", "SCHEDULING_RESOLVE"}
  BY <1>1, <1>7, JobRequestsCross, CreatorRequestsCross, IntakeRequestsCross
     DEF ActingWork, PlainWork, Owning
<1>8. CASE c \in AuditChannels
  BY <1>1, <1>8, AuditRequestsCross
<1>9. c \in Acting \cup Owning \cup Impersonal
  BY EveryBodyIsOneOfThem
<1> QED
  BY <1>2, <1>3, <1>4, <1>5, <1>6, <1>7, <1>8, <1>9 DEF Acting, Impersonal

\* Who asks, and what is probed.
LEMMA CallsAskWithValues ==
  \A c : \A k \in Calls(c) : k.roles \in AnyRoles /\ k.probe.value \in AnyValue
<1>1. \A s, f, asked, taken : ProbeValues(s, f, asked, taken) \subseteq AnyValue
  <2>1. \A w \in Words : Str(w) \in Text(0)
    BY DEF Text
  <2>2. \A t \in DOMAIN Length : Str(t) \in Text(0)
    BY DEF Text, Length
  <2>3. \A T : WordsIn(T) \subseteq Text(0)
    BY <2>1 DEF WordsIn
  <2>4. Api!SubmissionState \subseteq Text(0)
    BY SameWords DEF Api!SubmissionState, Enum, Text, Words
  <2>5. Str("expired") \in Text(0)
    BY <2>1 DEF Words
  <2>6. NotAWord \subseteq AnyValue
    BY <2>2 DEF NotAWord, AnyValue, AnyObject, AnyArray
  <2>7. Text(0) \subseteq AnyValue
    BY DEF AnyValue
  <2> QED
    BY <2>3, <2>4, <2>5, <2>6, <2>7 DEF ProbeValues
<1>2. \A c, asked, taken : \A p \in RequestProbes(c, asked, taken) : p.value \in AnyValue
  BY <1>1 DEF RequestProbes
<1>3. NoProbe.value \in AnyValue
  BY DEF NoProbe, AnyValue
<1>4. {"admin"} \in AnyRoles
  <2>1. {"admin"} # {} /\ {"admin"} \subseteq {"creator", "reviewer", "admin"}
    OBVIOUS
  <2> QED
    BY <2>1 DEF AnyRoles
<1> QED
  BY <1>2, <1>3, <1>4 DEF Calls, Variants

(* Who asks and with what value; what an admitted call passed, and its body. *)
Admitted ==
  /\ stage # "idle" => call.roles \in AnyRoles /\ call.probe.value \in AnyValue
  /\ stage = "admitted" =>
       /\ MainAccepts(call) /\ hasAllowedRole(call)
       /\ HasBody(call) => body = Body(call.channel, Canonical(call))

LEMMA AdmittedStarts == Init => Admitted
BY DEF Init, Admitted

LEMMA AdmittedSteps ==
  ASSUME Admitted, [Next]_vars
  PROVE  Admitted'
<1>1. CASE Ask
  <2>1. PICK c \in Channels : \E k \in Calls(c) :
          call' = [channel |-> c, payload |-> Probed(TypicalRequests[c], k.probe),
                   helper |-> k.helper, roles |-> k.roles, sender |-> k.sender,
                   probe |-> k.probe]
    BY <1>1 DEF Ask
  <2>2. PICK k \in Calls(c) : call'.roles = k.roles /\ call'.probe = k.probe
    BY <2>1
  <2>3. call'.roles \in AnyRoles /\ call'.probe.value \in AnyValue
    BY <2>2, CallsAskWithValues
  <2>4. stage' \in {"sent", "refused"}
    BY <1>1 DEF Ask
  <2> QED
    BY <2>3, <2>4 DEF Admitted
<1>2. CASE Return
  BY <1>2 DEF Return, Admitted
<1>3. CASE stage # "idle" /\ stage' \notin {"idle", "admitted"} /\ call' = call
  BY <1>3 DEF Admitted
<1>4. CASE UNCHANGED vars
  BY <1>4 DEF Admitted, MainAccepts, hasAllowedRole, HasBody, Canonical, vars
<1>5. CASE Admit
  BY <1>5 DEF Admit, Admitted, MainAccepts, hasAllowedRole, HasBody, Canonical
<1>6. ASSUME stage = "admitted", Ending
      PROVE  stage' \in {"done", "answered"} /\ call' = call
  BY <1>6 DEF Ending, Does
<1>7. ASSUME RejectSender \/ RejectRequest \/ RejectActor
      PROVE  stage = "sent" /\ stage' = "replied" /\ call' = call
  BY <1>7 DEF RejectSender, RejectRequest, RejectActor, Deny
<1>8. ASSUME SelectionCanceled \/ MapReply
      PROVE  stage \in {"admitted", "done"} /\ stage' = "answered" /\ call' = call
  BY <1>8 DEF SelectionCanceled, MapReply, Answered
<1>9. ASSUME Respond \/ Deliver
      PROVE  /\ stage \in {"answered", "replied"} /\ stage' \in {"replied", "delivered"}
             /\ call' = call
  BY <1>9 DEF Respond, Deny, Deliver
<1> QED
  BY <1>1, <1>2, <1>3, <1>4, <1>5, <1>6, <1>7, <1>8, <1>9, HandlerEnds DEF Next

(* For every channel, every value of every field of its request: the body    *)
(* that the main process sends for a call it admitted is one that the        *)
(* service's model of the request takes.  The only calls left out are those  *)
(* the property names.                                                       *)
THEOREM AcceptedReachesServiceHolds == Spec => []AcceptedReachesService
<1>1. ASSUME AskedAs, Admitted
      PROVE  AcceptedReachesService
  <2> SUFFICES ASSUME stage = "admitted", Known(call.probe),
                      call.channel # "SCHEDULING_RESOLVE",
                      call.channel \in DOMAIN Api!ApiRequests
               PROVE  SatisfiesStrictly(body, Api!ApiRequests[call.channel])
    BY DEF AcceptedReachesService, ServiceAccepts, Known
  <2>1. Taken(call)
    BY <1>1, BodiesHaveContracts DEF AskedAs, Admitted, Taken
  <2>2. body = Body(call.channel, Canonical(call))
    BY <1>1 DEF Admitted, HasBody
  <2> QED
    BY <2>1, <2>2, RoutedBodies DEF Reaches
<1>2. AskedAs /\ Thrown /\ [Next]_vars => AskedAs' /\ Thrown'
  BY RefusalSteps
<1>3. Admitted /\ [Next]_vars => Admitted'
  BY AdmittedSteps
<1> QED
  BY RefusalStarts, AdmittedStarts, <1>1, <1>2, <1>3, PTL DEF Spec
=============================================================================
