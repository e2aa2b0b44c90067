-------------------------- MODULE PreloadContracts --------------------------
(***************************************************************************)
(* The checks of the preload bridge: src/electron/preload.js and its       *)
(* helper src/electron/preload/adminIntegrationsValidation.js.             *)
(*                                                                         *)
(* The bridge runs sandboxed and cannot load the main process's schemas,   *)
(* so it has its own hand-written check of every request it sends and of   *)
(* every reply it hands to the page.  A check is a function: "self" names  *)
(* the fields of the payload, the name of a schema the fields of the       *)
(* nested objects of that schema.  A field that is not listed is not       *)
(* looked at.                                                              *)
(***************************************************************************)
EXTENDS IpcSchema

(***************************************************************************)
(* A hasOwnProperty test is Own: the key may be missing, not hold          *)
(* undefined.                                                              *)
(***************************************************************************)
Nullish(T) == Optional(OrNull(T))
Payload(fields) == [self |-> fields]
MustBeEmpty == Payload([unlisted |-> {Absent}])

(* Mutant: one code forgotten.                                             *)
CodesWithoutDropbox ==
  {"VALIDATION_ERROR", "AUTH_FORBIDDEN", "AUTH_UNAUTHORIZED", "AUTH_LOCKED",
   "AUTH_RATE_LIMITED", "AUTH_TOKEN_REUSE", "INVALID_CONTRACT_PAYLOAD",
   "QC_RULE_NOT_FOUND", "QC_POLICY_NOT_FOUND", "QC_POLICY_FORBIDDEN",
   "QC_POLICY_VERSION_CONFLICT", "QC_EVALUATION_NOT_ALLOWED", "NOTIFICATION_NOT_FOUND",
   "NOTIFICATION_SCOPE_FORBIDDEN", "NOTIFICATION_RETRY_FORBIDDEN", "REVIEW_FORBIDDEN",
   "REVIEW_INVALID_STATE", "REVIEW_REASON_REQUIRED", "SUBMISSION_NOT_FOUND",
   "VERSION_CONFLICT", "TRANSITION_NOT_ALLOWED", "TRANSITION_FORBIDDEN",
   "MISSING_REQUIRED_REASON", "JOB_NOT_FOUND", "JOB_REPLAY_NOT_ALLOWED",
   "SCHEDULE_SUBMISSION_MISMATCH", "SCHEDULE_NOT_FOUND", "SCHEDULE_NOT_DUE",
   "SCHEDULE_OVERRIDE_FORBIDDEN", "INTAKE_SESSION_NOT_FOUND", "INTAKE_MANIFEST_LOCKED",
   "INTAKE_MANIFEST_VERSION_CONFLICT", "STORAGE_HANDOFF_NOT_FOUND",
   "STORAGE_HANDOFF_PRECONDITION_FAILED", "STORAGE_HANDOFF_FORBIDDEN",
   "DROPBOX_AUTH_INVALID", "INVALID_EVENT_NAME",
   "UNKNOWN_CHANNEL", "INTERNAL_ERROR"}

KNOWN_ERROR_CODES ==
  {"VALIDATION_ERROR", "AUTH_FORBIDDEN", "AUTH_UNAUTHORIZED", "AUTH_LOCKED",
   "AUTH_RATE_LIMITED", "AUTH_TOKEN_REUSE", "INVALID_CONTRACT_PAYLOAD",
   "QC_RULE_NOT_FOUND", "QC_POLICY_NOT_FOUND", "QC_POLICY_FORBIDDEN",
   "QC_POLICY_VERSION_CONFLICT", "QC_EVALUATION_NOT_ALLOWED", "NOTIFICATION_NOT_FOUND",
   "NOTIFICATION_SCOPE_FORBIDDEN", "NOTIFICATION_RETRY_FORBIDDEN", "REVIEW_FORBIDDEN",
   "REVIEW_INVALID_STATE", "REVIEW_REASON_REQUIRED", "SUBMISSION_NOT_FOUND",
   "VERSION_CONFLICT", "TRANSITION_NOT_ALLOWED", "TRANSITION_FORBIDDEN",
   "MISSING_REQUIRED_REASON", "JOB_NOT_FOUND", "JOB_REPLAY_NOT_ALLOWED",
   "SCHEDULE_SUBMISSION_MISMATCH", "SCHEDULE_NOT_FOUND", "SCHEDULE_NOT_DUE",
   "SCHEDULE_OVERRIDE_FORBIDDEN", "INTAKE_SESSION_NOT_FOUND", "INTAKE_MANIFEST_LOCKED",
   "INTAKE_MANIFEST_VERSION_CONFLICT", "STORAGE_HANDOFF_NOT_FOUND",
   "STORAGE_HANDOFF_PRECONDITION_FAILED", "STORAGE_HANDOFF_FORBIDDEN",
   "DROPBOX_NOT_CONFIGURED", "DROPBOX_AUTH_INVALID", "INVALID_EVENT_NAME",
   "UNKNOWN_CHANNEL", "INTERNAL_ERROR"}

AllowedAuthRoles == Enum({"creator", "reviewer", "admin"})
OtpPurposes == Enum({"register", "forgot-password"})
QcResultStatuses == Enum({"passed", "failed", "not_run"})

(***************************************************************************)
(* What several checks share.                                              *)
(***************************************************************************)
(* Mutant: a pack without a local path is refused.                           *)
QcPackWithPath ==
  [packName |-> Trimmed, localPackPath |-> Own(Trimmed),
   declaredTopLevelFolders |-> Texts, sampleCount |-> IntFrom(0),
   containsUnsupportedNameTokens |-> Bool, audioZip |-> Own(OrNull({Object("QcAudioZip")}))]

QcPack ==
  [packName |-> Trimmed, localPackPath |-> Own(OrNull(Trimmed)),
   declaredTopLevelFolders |-> Texts, sampleCount |-> IntFrom(0),
   containsUnsupportedNameTokens |-> Bool, audioZip |-> Own(OrNull({Object("QcAudioZip")}))]

RuleBinding ==
  [ruleId |-> Trimmed, enabled |-> Bool, blockingOverride |-> Own(OrNull(Bool)),
   params |-> Own(AnyObject)]

PolicySnapshot ==
  [policyId |-> Trimmed, policyVersion |-> IntFrom(1), ruleSetVersion |-> Trimmed,
   rules |-> AnyArray, updatedBy |-> Trimmed, updatedAt |-> Iso, reason |-> Trimmed]

QcRuleDefinition ==
  [ruleId |-> Trimmed, title |-> Trimmed, description |-> Trimmed, category |-> Trimmed,
   remediation |-> Trimmed, severity |-> Enum({"blocking", "warning"}), blocking |-> Bool,
   enabled |-> Bool]

AdminConfigSnapshot ==
  [id |-> Trimmed, configType |-> Trimmed, version |-> IntFrom(1), payloadJson |-> AnyObject,
   isDraft |-> Bool, createdAt |-> Iso, publishedBy |-> Nullish(Trimmed),
   publishedAt |-> Nullish(Iso)]

QcReportFinding ==
  [findingId |-> Trimmed, ruleId |-> Trimmed, severity |-> Enum({"blocking", "warning"}),
   category |-> Trimmed, message |-> Trimmed, remediation |-> Trimmed,
   fileRef |-> Nullish(Trimmed), diffTag |-> Optional(Enum({"new", "resolved", "unchanged"}))]

(* Mutant: the time of reading is required of an unread notification too. *)
UnreadIsNotNull ==
  [notificationId |-> Trimmed,
   type |-> Enum({"qc_failed", "submitted", "under_review", "approved", "rejected",
                  "scheduled", "released"}),
   severity |-> Enum({"info", "warning", "error"}),
   status |-> Enum({"pending", "sent", "failed"}), channel |-> Enum({"in_app", "email"}),
   title |-> Trimmed, message |-> Trimmed, read |-> Bool, attempts |-> IntFrom(0),
   maxAttempts |-> IntFrom(1), createdAt |-> Iso, updatedAt |-> Iso,
   submissionId |-> Nullish(Trimmed), readAt |-> Iso]

NotificationItem ==
  [notificationId |-> Trimmed,
   type |-> Enum({"qc_failed", "submitted", "under_review", "approved", "rejected",
                  "scheduled", "released"}),
   severity |-> Enum({"info", "warning", "error"}),
   status |-> Enum({"pending", "sent", "failed"}), channel |-> Enum({"in_app", "email"}),
   title |-> Trimmed, message |-> Trimmed, read |-> Bool, attempts |-> IntFrom(0),
   maxAttempts |-> IntFrom(1), createdAt |-> Iso, updatedAt |-> Iso,
   submissionId |-> Nullish(Trimmed), readAt |-> Nullish(Iso)]

SubmissionRecord ==
  [submissionId |-> Trimmed, creatorId |-> Trimmed, currentState |-> Trimmed,
   version |-> IntFrom(0), tags |-> Strings, airtableFormCompleted |-> Bool,
   createdAt |-> Iso, updatedAt |-> Iso, draftLastSavedAt |-> Nullish(Iso),
   airtableLastSyncedAt |-> Nullish(Iso)]

StorageHandoffSnapshot ==
  [handoffId |-> Trimmed, submissionId |-> Trimmed, intakeSessionId |-> Trimmed,
   status |-> Enum({"queued", "in_progress", "paused", "completed", "failed", "canceled"}),
   target |-> Trimmed, progressPercent |-> IntIn(0, 100), uploadedBytes |-> IntFrom(0),
   totalBytes |-> IntFrom(0), objectCount |-> IntFrom(0), uploadedFiles |-> IntFrom(0),
   totalFiles |-> IntFrom(0), checksumVerified |-> Bool, createdAt |-> Iso,
   updatedAt |-> Iso, completedAt |-> Nullish(Iso), error |-> Nullish(Trimmed)]

AirtableStateRecord ==
  [self |-> [submissionId |-> Trimmed, syncStatus |-> Trimmed, airtableFormCompleted |-> Bool,
             lastSyncedAt |-> OrNull(Iso),
             mappedPayload |-> Nullish({Object("SubmissionAirtableMappedPayload")})],
   SubmissionAirtableMappedPayload |-> [tags |-> AnyArray]]

TimelineRecord == [transitionId |-> Trimmed, toState |-> Trimmed, createdAt |-> Iso]

TokenBundle ==
  [self |-> [accessToken |-> Trimmed, accessTokenExpiresAt |-> Iso, refreshToken |-> Trimmed,
             refreshTokenExpiresAt |-> Iso, user |-> {Object("AuthUser")}],
   AuthUser |-> [id |-> Trimmed, email |-> Trimmed, status |-> Trimmed,
                 roles |-> NonEmpty(Roles), permissions |-> AnyArray, createdAt |-> Iso,
                 updatedAt |-> Iso]]

OtpSend ==
  Payload([challengeId |-> OrNull(Text(1)), expiresAt |-> OrNull(Iso),
           cooldownSeconds |-> IntFrom(0)])

(***************************************************************************)
(* assertRequest: the branches that can be reached.  From line 1587 it     *)
(* repeats, below the branches that return first, reply checks that were   *)
(* meant for assertSuccessData; only two request branches follow there.    *)
(***************************************************************************)
AuthRequests ==
  [AUTH_GET_SESSION |-> Payload([includePermissions |-> Own(Bool)]),
   AUTH_LOGIN |-> Payload([email |-> Trimmed, password |-> Trimmed,
                           deviceId |-> Optional(Trimmed)]),
   AUTH_REGISTER |-> Payload([email |-> Trimmed, password |-> Trimmed \cap Text(12),
                              otpVerificationToken |-> Trimmed, roles |-> Own(NonEmpty(Roles)),
                              deviceId |-> Optional(Trimmed)]),
   AUTH_OTP_SEND |-> Payload([target |-> Trimmed, purpose |-> OtpPurposes]),
   AUTH_OTP_VERIFY |-> Payload([challengeId |-> Trimmed, purpose |-> OtpPurposes,
                                otpCode |-> Trimmed \cap TextUpTo(4, 8)]),
   AUTH_FORGOT_PASSWORD |-> Payload([email |-> Trimmed]),
   AUTH_RESET_PASSWORD |-> Payload([email |-> Trimmed, otpVerificationToken |-> Trimmed,
                                    newPassword |-> Trimmed \cap Text(12)])]

QcRequests ==
  [QC_EVALUATE_PACK |->
     [self |-> [requestId |-> Trimmed, submissionId |-> Trimmed, actorId |-> Trimmed,
                actorRole |-> AllowedAuthRoles, pack |-> {Object("QcPackInput")},
                ruleSetVersion |-> Optional(Trimmed)],
      QcPackInput |-> QcPack,
      QcAudioZip |-> [filename |-> Trimmed, sizeBytes |-> IntFrom(0)]],
   QC_LIST_RULES |-> Payload([includeDisabled |-> Own(Bool), policyId |-> Optional(Trimmed)]),
   QC_RESULTS_GET |-> Payload([submissionId |-> Trimmed]),
   QC_REPORT_EXPORT |->
     [self |-> [submissionId |-> Trimmed, runId |-> Trimmed, generatedAt |-> Iso,
                ruleSetVersion |-> Trimmed, policyVersion |-> IntFrom(1),
                status |-> Enum({"passed", "failed"}), startedAt |-> Iso, completedAt |-> Iso,
                findings |-> ArrayOf("QcReportFinding")],
      QcReportFinding |-> QcReportFinding]]

Actor == [actorId |-> Trimmed, actorRole |-> AllowedAuthRoles]

NotificationRequests ==
  [NOTIFICATIONS_LIST |-> Payload(Actor ++ [includeRead |-> Own(Bool)]),
   NOTIFICATIONS_MARK_READ |-> Payload(Actor ++ [notificationIds |-> NonEmpty(Texts)]),
   NOTIFICATIONS_MARK_ALL_READ |-> Payload(Actor),
   NOTIFICATIONS_RETRY |-> Payload(Actor ++ [notificationId |-> Trimmed])]

Reviewer == [actorId |-> Trimmed, actorRole |-> Enum({"reviewer", "admin"})]
Decision == Reviewer ++ [submissionId |-> Trimmed]

ReviewRequests ==
  [REVIEW_QUEUE_LIST |-> Payload(Reviewer),
   REVIEW_SUBMISSION_GET |-> Payload(Decision),
   REVIEW_APPROVE |-> Payload(Decision),
   REVIEW_REJECT |-> Payload(Decision ++ [reasonCode |-> Trimmed, notes |-> Trimmed]),
   REVIEW_TAG_ADD |-> Payload(Decision ++ [tag |-> Trimmed]),
   REVIEW_FLAG_ADD |-> Payload(Decision ++ [flagType |-> Trimmed, severity |-> Trimmed]),
   REVIEW_REOPEN |-> Payload(Decision)]

Admin == [actorId |-> Trimmed, actorRole |-> Enum({"admin"})]
ConfigDecision == Admin ++ [id |-> Trimmed, reason |-> Trimmed, confirmation |-> Trimmed]

AdminConfigRequests ==
  [ADMIN_CONFIGS_LIST |-> Payload(Admin ++ [includeDrafts |-> Own(Bool)]),
   ADMIN_QC_POLICY_GET |-> Payload(Admin),
   ADMIN_CONFIGS_DRAFT |-> Payload(Admin ++ [configType |-> Trimmed, payloadJson |-> AnyObject]),
   ADMIN_CONFIGS_PUBLISH |-> Payload(ConfigDecision),
   ADMIN_CONFIGS_ROLLBACK |-> Payload(ConfigDecision)]

AdminPolicyRequests ==
  [ADMIN_OPS_HISTORY_LIST |-> Payload(Admin ++ [limit |-> Own(IntIn(1, 100))]),
   ADMIN_QC_POLICY_UPDATE |->
     [self |-> Admin ++ [requestId |-> Trimmed, reason |-> Trimmed,
                         expectedPolicyVersion |-> Own(IntFrom(1)),
                         policy |-> {Object("AdminQcPolicyUpdateRequest_policy")}],
      AdminQcPolicyUpdateRequest_policy |->
        [policyId |-> Trimmed, ruleSetVersion |-> Optional(Trimmed),
         rules |-> NonEmpty(ArrayOf("QcPolicyRuleBinding"))],
      QcPolicyRuleBinding |-> RuleBinding]]

(***************************************************************************)
(* The integrations of the administration page: the helper's checks, and   *)
(* the five that preload.js repeats for the case that there is no helper.  *)
(***************************************************************************)
Providers == Enum({"dropbox", "airtable", "smtp"})
OptionalAppKey == [appKey |-> Nullish(Trimmed)]
OptionalAppCredentials == OptionalAppKey ++ [appSecret |-> Nullish(Trimmed)]

HelperRequests ==
  [ADMIN_INTEGRATIONS_HEALTH_LIST |-> Payload(Admin),
   ADMIN_INTEGRATIONS_TEST |->
     Payload(Admin ++ [provider |-> Providers, keyRef |-> Own(OrNull(Trimmed))]),
   ADMIN_INTEGRATIONS_ROTATE |->
     Payload(Admin ++ [provider |-> Providers, reason |-> Trimmed, confirmation |-> Trimmed,
                       keyRef |-> Nullish(Trimmed)]),
   ADMIN_INTEGRATIONS_AIRTABLE_CONFIGURE |-> Payload(Admin ++ [apiKey |-> Trimmed]),
   ADMIN_INTEGRATIONS_SMTP_CONFIGURE |->
     Payload(Admin ++ [host |-> Trimmed, port |-> IntIn(1, 65535)]),
   ADMIN_INTEGRATIONS_DROPBOX_TOKENS_UPDATE |-> Payload(Admin ++ [refreshToken |-> Trimmed]),
   ADMIN_INTEGRATIONS_DROPBOX_APP_CONFIGURE |->
     Payload(Admin ++ [appKey |-> Trimmed, appSecret |-> Trimmed]),
   ADMIN_DROPBOX_READINESS_GET |-> Payload(Admin),
   ADMIN_DROPBOX_OAUTH_START |-> Payload(Admin ++ OptionalAppKey)]

HelperOauthRequests ==
  [ADMIN_DROPBOX_OAUTH_COMPLETE |->
     Payload(Admin ++ OptionalAppCredentials
               ++ [authCode |-> Trimmed, redirectUri |-> Nullish(Trimmed)]),
   ADMIN_DROPBOX_OAUTH_DESKTOP_START |-> Payload(Admin ++ OptionalAppCredentials),
   ADMIN_DROPBOX_OAUTH_DESKTOP_STATUS |-> Payload(Admin ++ [sessionId |-> Trimmed])]

InlineIntegrationRequests ==
  [ADMIN_INTEGRATIONS_HEALTH_LIST |-> Payload(Admin),
   ADMIN_INTEGRATIONS_TEST |-> Payload(Admin ++ [provider |-> Providers]),
   ADMIN_DROPBOX_READINESS_GET |-> Payload(Admin),
   ADMIN_DROPBOX_OAUTH_DESKTOP_START |-> Payload(Admin),
   ADMIN_DROPBOX_OAUTH_DESKTOP_STATUS |-> Payload(Admin ++ [sessionId |-> Trimmed])]

OperationsRequests ==
  [DESKTOP_PRIVACY_SHIELD_TOGGLE |-> Payload([enabled |-> Bool]),
   DESKTOP_PRIVACY_SHIELD_STATUS |-> MustBeEmpty,
   JOBS_ENQUEUE |-> Payload([requestId |-> Trimmed, jobType |-> Trimmed,
                             idempotencyKey |-> Trimmed, payloadJson |-> AnyObject]),
   JOBS_GET |-> Payload([id |-> Trimmed]),
   JOBS_REPLAY |-> Payload([id |-> Trimmed, requestId |-> Trimmed, actorId |-> Trimmed,
                            reason |-> Trimmed, confirmation |-> Trimmed]),
   SCHEDULING_RESOLVE |->
     [self |-> [requestId |-> Trimmed, submissionId |-> Trimmed,
                schedulingEvent |-> {Object("SchedulingEvent")}],
      SchedulingEvent |-> [eventName |-> Enum({"submission.approved.scheduling.v1"})]],
   SCHEDULING_OVERRIDE |-> Payload([requestId |-> Trimmed, submissionId |-> Trimmed,
                                    newReleaseAt |-> Iso, reason |-> Trimmed,
                                    actorId |-> Trimmed]),
   SCHEDULING_TRIGGER_RELEASE |->
     Payload([requestId |-> Trimmed, submissionId |-> Trimmed, actorId |-> Trimmed,
              actorRole |-> Enum({"system", "admin"})]),
   OBSERVABILITY_METRICS_GET |-> MustBeEmpty]

IncidentRequests ==
  [OBSERVABILITY_INCIDENTS_ANNOTATE |->
     Payload([source |-> Trimmed, severity |-> Enum({"info", "warning", "critical"}),
              note |-> Trimmed, linkedEntity |-> Trimmed,
              failureClass |-> Nullish(Enum({"integration_failure", "retry_exhaustion",
                                             "scheduling_terminal_failure"})),
              remediationStatus |-> Optional(Enum({"open", "acknowledged", "resolved"})),
              correlationId |-> Nullish(Trimmed), remediationOwner |-> Nullish(Trimmed),
              remediationLink |-> Nullish(Trimmed), auditEventId |-> Nullish(Trimmed)])]

Owned == [submissionId |-> Trimmed, creatorId |-> Trimmed]

CreatorRequests ==
  [CREATOR_PROFILE_GET |-> Payload([actorId |-> Trimmed, userId |-> Optional(Trimmed)]),
   CREATOR_PROFILE_PUT |->
     Payload([actorId |-> Trimmed, userId |-> Optional(Trimmed),
              displayName |-> Nullish(Trimmed), labelName |-> Nullish(Trimmed),
              defaultsJson |-> Own(AnyObject)]),
   SUBMISSION_DRAFT |->
     Payload(Owned ++ [releaseMonth |-> Own(OrNull(Month)), tags |-> Own(Texts),
                       autosaveJson |-> Own(OrNull(AnyObject))])]

SubmissionRequests ==
  [SUBMISSION_METADATA |->
     Payload(Owned ++ [releaseMonth |-> Own(OrNull(Month)), tags |-> Own(OrNull(Texts)),
                       autosaveJson |-> Own(OrNull(AnyObject))]),
   SUBMISSION_LIST |-> Payload([creatorId |-> Trimmed]),
   SUBMISSION_TIMELINE |-> Payload(Owned),
   SUBMISSION_AIRTABLE_SYNC |-> Payload(Owned ++ [forceRelink |-> Own(Bool)]),
   SUBMISSION_AIRTABLE_RESET |-> Payload(Owned),
   SUBMISSION_TRANSITION |-> Payload(Actor ++ [submissionId |-> Trimmed, requestId |-> Trimmed,
                                               toState |-> Trimmed])]

IntakeRequests ==
  [INTAKE_FOLDER_SELECT |-> MustBeEmpty,
   INTAKE_SESSION_START |-> Payload(Owned ++ [requestId |-> Trimmed, packName |-> Trimmed]),
   INTAKE_MANIFEST_PUT |-> Payload([intakeSessionId |-> Trimmed, requestId |-> Trimmed,
                                    files |-> NonEmpty(AnyArray)]),
   INTAKE_HANDOFF_CREATE |-> Payload(Actor ++ [intakeSessionId |-> Trimmed,
                                               requestId |-> Trimmed]),
   INTAKE_HANDOFF_STATUS_GET |-> Payload([handoffId |-> Trimmed]),
   INTAKE_HANDOFF_CONTROL |-> Payload(Actor ++ [handoffId |-> Trimmed, requestId |-> Trimmed,
                                                action |-> Enum({"pause", "resume", "cancel"})]),
   INTAKE_LOCK |-> Payload(Actor ++ [submissionId |-> Trimmed])]

SecurityRequests ==
  [DESKTOP_VERIFY_SECURITY |-> MustBeEmpty,
   AUDIT_LIST_SECURITY_EVENTS |-> Payload([limit |-> Own(IntIn(1, 100))])]

\* The helper is a file of its own, loaded with require(); a load that fails is caught.
IntegrationRequests(helper) ==
  IF helper THEN HelperRequests ++ HelperOauthRequests ELSE InlineIntegrationRequests
BridgeRequests ==
  [helper \in BOOLEAN |->
     (AuthRequests ++ QcRequests ++ NotificationRequests ++ ReviewRequests)
       ++ (AdminConfigRequests ++ IntegrationRequests(helper) ++ AdminPolicyRequests)
       ++ (OperationsRequests ++ IncidentRequests ++ CreatorRequests)
       ++ (SubmissionRequests ++ IntakeRequests ++ SecurityRequests)]
=============================================================================
