--------------------------- MODULE PreloadReplies ---------------------------
(***************************************************************************)
(* The bridge's checks of replies: assertResponse, assertErrorEnvelope and *)
(* assertSuccessData of src/electron/preload.js.                           *)
(***************************************************************************)
EXTENDS PreloadContracts

AuthReplies ==
  [AUTH_GET_SESSION |->
     [self |-> [actor |-> {Object("AuthSessionData_actor")}],
      AuthSessionData_actor |-> [id |-> Trimmed, roles |-> AnyArray]],
   AUTH_LOGIN |-> TokenBundle,
   AUTH_REGISTER |-> TokenBundle,
   AUTH_OTP_SEND |-> OtpSend,
   AUTH_FORGOT_PASSWORD |-> OtpSend,
   AUTH_OTP_VERIFY |-> Payload([otpVerificationToken |-> Trimmed, expiresAt |-> Iso]),
   AUTH_RESET_PASSWORD |-> Payload([revokedSessionCount |-> IntFrom(0)])]

QcEvaluationReply ==
  [self |-> [report |-> {Object("QcReport")}, appliedPolicyId |-> Trimmed, idempotent |-> Bool],
   QcReport |->
     [reportId |-> Trimmed, submissionId |-> Trimmed, status |-> Enum({"passed", "failed"}),
      summary |-> {Object("QcReportSummary")}, findings |-> AnyArray, generatedAt |-> Iso,
      ruleSetVersion |-> Trimmed, policyVersion |-> Integer],
   QcReportSummary |-> [blockingFailures |-> IntFrom(0), warnings |-> IntFrom(0),
                        evaluatedRuleCount |-> IntFrom(0)]]

QcRun ==
  [status |-> QcResultStatuses, findings |-> ArrayOf("QcReportFinding"),
   runId |-> OrNull(Trimmed), submissionId |-> OrNull(Trimmed), startedAt |-> OrNull(Iso),
   completedAt |-> OrNull(Iso), generatedAt |-> OrNull(Iso), ruleSetVersion |-> OrNull(Trimmed),
   policyVersion |-> OrNull(IntFrom(1))]

QcReplies ==
  [QC_EVALUATE_PACK |-> QcEvaluationReply,
   QC_LIST_RULES |->
     [self |-> [rules |-> ArrayOf("QcRuleDefinition"), policy |-> {Object("QcPolicySnapshot")}],
      QcRuleDefinition |-> QcRuleDefinition,
      QcPolicySnapshot |-> PolicySnapshot],
   QC_RESULTS_GET |->
     [self |-> QcRun ++ [history |-> Own(ArrayOf("QcResultsRun"))],
      QcResultsRun |-> QcRun,
      QcReportFinding |-> QcReportFinding],
   QC_REPORT_EXPORT |-> Payload([canceled |-> Bool, path |-> OrNull(Text(1))])]

UpdatedCount == Payload([updatedCount |-> IntFrom(0)])

NotificationReplies ==
  [NOTIFICATIONS_LIST |-> [self |-> [notifications |-> ArrayOf("NotificationItem")],
                           NotificationItem |-> NotificationItem],
   NOTIFICATIONS_MARK_READ |-> UpdatedCount,
   NOTIFICATIONS_MARK_ALL_READ |-> UpdatedCount,
   NOTIFICATIONS_RETRY |-> [self |-> [notification |-> {Object("NotificationItem")}],
                            NotificationItem |-> NotificationItem]]

CreatorProfile ==
  Payload([userId |-> Trimmed, defaultsJson |-> AnyObject, updatedAt |-> Nullish(Iso)])
Draft == Payload([submission |-> AnyObject])

CreatorReplies ==
  [CREATOR_PROFILE_GET |-> CreatorProfile,
   CREATOR_PROFILE_PUT |-> CreatorProfile,
   SUBMISSION_DRAFT |-> Draft,
   SUBMISSION_METADATA |-> Draft,
   SUBMISSION_LIST |-> [self |-> [submissions |-> ArrayOf("SubmissionSummary")],
                        SubmissionSummary |-> SubmissionRecord],
   SUBMISSION_TIMELINE |-> [self |-> [timeline |-> ArrayOf("SubmissionTimelineData_timeline")],
                            SubmissionTimelineData_timeline |-> TimelineRecord],
   SUBMISSION_AIRTABLE_SYNC |-> AirtableStateRecord,
   SUBMISSION_AIRTABLE_RESET |-> AirtableStateRecord,
   SUBMISSION_TRANSITION |-> Payload([submission |-> AnyObject, idempotent |-> Bool])]

IntakeReplies ==
  [INTAKE_FOLDER_SELECT |-> Payload([path |-> Trimmed, fileCount |-> Integer,
                                     topLevelFolders |-> AnyArray, files |-> AnyArray]),
   INTAKE_SESSION_START |-> Payload([created |-> Bool, idempotent |-> Bool,
                                     session |-> AnyObject]),
   INTAKE_MANIFEST_PUT |-> Payload([idempotent |-> Bool, session |-> AnyObject,
                                    manifest |-> AnyObject]),
   INTAKE_HANDOFF_CREATE |->
     [self |-> [idempotent |-> Bool, handoff |-> {Object("IntakeHandoffCreateData_handoff")}],
      IntakeHandoffCreateData_handoff |-> StorageHandoffSnapshot],
   INTAKE_HANDOFF_STATUS_GET |->
     [self |-> [handoff |-> {Object("StorageHandoffStatusData_handoff")}],
      StorageHandoffStatusData_handoff |-> StorageHandoffSnapshot],
   INTAKE_HANDOFF_CONTROL |->
     [self |-> [handoff |-> {Object("StorageHandoffControlData_handoff")}],
      StorageHandoffControlData_handoff |-> StorageHandoffSnapshot],
   INTAKE_LOCK |-> Payload([submissionId |-> Trimmed, intakeSessionId |-> Trimmed,
                            lockedCount |-> Integer, lockedAt |-> Iso])]

DecisionReply == Payload([decision |-> AnyObject, transition |-> AnyObject])

ReviewReplies ==
  [REVIEW_QUEUE_LIST |-> Payload([items |-> AnyArray]),
   REVIEW_SUBMISSION_GET |->
     Payload([submission |-> AnyObject, metadata |-> AnyObject, qcFindings |-> AnyArray,
              decisions |-> AnyArray, tags |-> AnyArray, flags |-> AnyArray]),
   REVIEW_APPROVE |-> DecisionReply,
   REVIEW_REJECT |-> DecisionReply,
   REVIEW_REOPEN |-> DecisionReply,
   REVIEW_TAG_ADD |-> Payload([tag |-> AnyObject]),
   REVIEW_FLAG_ADD |-> Payload([flag |-> AnyObject])]

ConfigReply == [self |-> [config |-> {Object("AdminConfigRecord")}],
                AdminConfigRecord |-> AdminConfigSnapshot]

AdminConfigReplies ==
  [ADMIN_CONFIGS_LIST |-> [self |-> [configs |-> ArrayOf("AdminConfigRecord")],
                           AdminConfigRecord |-> AdminConfigSnapshot],
   ADMIN_CONFIGS_DRAFT |-> ConfigReply,
   ADMIN_CONFIGS_PUBLISH |-> ConfigReply,
   ADMIN_CONFIGS_ROLLBACK |-> ConfigReply]

(***************************************************************************)
(* The integrations: the helper's checks, and the looser ones that are     *)
(* repeated in preload.js.                                                 *)
(***************************************************************************)
IntegrationHealth ==
  [provider |-> Trimmed, ok |-> Bool, latencyMs |-> IntFrom(0),
   statusClass |-> Enum({"healthy", "degraded", "unhealthy", "unconfigured", "unavailable"}),
   recommendedAction |-> Enum({"none", "run_connection_test", "rotate_credentials",
                               "verify_provider_configuration"}),
   statusCopy |-> Trimmed, credentialStatus |-> Trimmed, lastCheckedAt |-> Iso,
   errorCode |-> Nullish(Trimmed), lastRotatedAt |-> Nullish(Iso),
   lastFailureContext |-> Nullish(Trimmed), error |-> Nullish(Trimmed)]

Configured == Payload([provider |-> Providers, status |-> Trimmed, configuredAt |-> Iso])
Readiness ==
  [provider |-> Enum({"dropbox"}), message |-> Trimmed,
   status |-> Enum({"READY", "NOT_CONFIGURED", "INVALID_TOKEN"})]
OauthStarted ==
  Payload([sessionId |-> Trimmed, status |-> Enum({"pending"}), authorizeUrl |-> Trimmed,
           startedAt |-> Iso])
OauthStatus ==
  [sessionId |-> Trimmed, message |-> Trimmed,
   status |-> Enum({"pending", "completed", "failed", "expired"})]

HelperReplies ==
  [ADMIN_INTEGRATIONS_HEALTH_LIST |->
     [self |-> [integrations |-> ArrayOf("AdminIntegrationTestData")],
      AdminIntegrationTestData |-> IntegrationHealth],
   ADMIN_INTEGRATIONS_TEST |-> Payload(IntegrationHealth),
   ADMIN_INTEGRATIONS_AIRTABLE_CONFIGURE |-> Configured,
   ADMIN_INTEGRATIONS_SMTP_CONFIGURE |-> Configured,
   ADMIN_INTEGRATIONS_DROPBOX_TOKENS_UPDATE |-> Configured,
   ADMIN_INTEGRATIONS_DROPBOX_APP_CONFIGURE |-> Configured,
   ADMIN_INTEGRATIONS_ROTATE |-> Payload([provider |-> Trimmed, status |-> Trimmed,
                                          rotatedAt |-> Iso, keyRef |-> Trimmed]),
   ADMIN_DROPBOX_READINESS_GET |->
     Payload(Readiness ++ [hasAppCredentials |-> Optional(Bool),
                           authorizeUrl |-> Nullish(Trimmed)]),
   ADMIN_DROPBOX_OAUTH_START |-> Payload([provider |-> Enum({"dropbox"}),
                                          authorizeUrl |-> Trimmed]),
   ADMIN_DROPBOX_OAUTH_COMPLETE |->
     Payload([provider |-> Enum({"dropbox"}), status |-> Trimmed,
              accountId |-> Nullish(Trimmed), configuredAt |-> Iso]),
   ADMIN_DROPBOX_OAUTH_DESKTOP_START |-> OauthStarted,
   ADMIN_DROPBOX_OAUTH_DESKTOP_STATUS |->
     Payload(OauthStatus ++ [accountId |-> Nullish(Trimmed), configuredAt |-> Nullish(Iso)])]

InlineIntegrationReplies ==
  [ADMIN_INTEGRATIONS_HEALTH_LIST |-> Payload([integrations |-> AnyArray]),
   ADMIN_INTEGRATIONS_TEST |-> Payload(<<>>),
   ADMIN_DROPBOX_READINESS_GET |-> Payload(Readiness),
   ADMIN_DROPBOX_OAUTH_DESKTOP_START |-> OauthStarted,
   ADMIN_DROPBOX_OAUTH_DESKTOP_STATUS |-> Payload(OauthStatus)]

AdminPolicyReplies ==
  [ADMIN_OPS_HISTORY_LIST |->
     [self |-> [entries |-> ArrayOf("AdminOpsHistoryListData_entries")],
      AdminOpsHistoryListData_entries |->
        [id |-> Trimmed, action |-> Trimmed, actorId |-> Nullish(Trimmed),
         reason |-> Nullish(Trimmed), entity |-> Trimmed, timestamp |-> Iso]],
   ADMIN_QC_POLICY_GET |-> [self |-> [policy |-> {Object("QcPolicySnapshot")}],
                            QcPolicySnapshot |-> PolicySnapshot],
   ADMIN_QC_POLICY_UPDATE |->
     [self |-> [policy |-> {Object("QcPolicySnapshot")},
                auditHook |-> {Object("AdminQcPolicyUpdateData_auditHook")},
                observabilityHook |-> {Object("AdminQcPolicyUpdateData_observabilityHook")}],
      QcPolicySnapshot |-> PolicySnapshot,
      AdminQcPolicyUpdateData_auditHook |-> [action |-> Trimmed, idempotencyKey |-> Trimmed],
      AdminQcPolicyUpdateData_observabilityHook |-> [metricName |-> Trimmed,
                                                     emittedAt |-> Iso]]]

\* Jobs and schedules have no branch: see the end of assertRequest.
OperationsReplies ==
  [DESKTOP_VERIFY_SECURITY |->
     [self |-> [checks |-> {Object("VerifySecurityConfigData_checks")}],
      VerifySecurityConfigData_checks |->
        [contextIsolation |-> {True}, nodeIntegration |-> {False}, sandbox |-> {True},
         navigationGuard |-> {True}]],
   AUDIT_LIST_SECURITY_EVENTS |-> Payload([events |-> AnyArray]),
   OBSERVABILITY_METRICS_GET |-> Payload([snapshot |-> Trimmed, capturedAt |-> Iso]),
   OBSERVABILITY_INCIDENTS_ANNOTATE |->
     [self |-> [idempotent |-> Bool,
                annotation |-> {Object("ObservabilityIncidentsAnnotateData_annotation")}],
      ObservabilityIncidentsAnnotateData_annotation |-> [id |-> Trimmed, createdAt |-> Iso]],
   DESKTOP_PRIVACY_SHIELD_TOGGLE |-> Payload([enabled |-> Bool]),
   DESKTOP_PRIVACY_SHIELD_STATUS |-> Payload([enabled |-> Bool])]

BridgeReplies ==
  [helper \in BOOLEAN |->
     AuthReplies ++ QcReplies ++ NotificationReplies ++ CreatorReplies ++ IntakeReplies
       ++ ReviewReplies ++ AdminConfigReplies
       ++ (IF helper THEN HelperReplies ELSE InlineIntegrationReplies)
       ++ AdminPolicyReplies ++ OperationsReplies]

\* assertErrorEnvelope looks at the code; the other three fields are texts.
ErrorEnvelope ==
  [code |-> Enum(KNOWN_ERROR_CODES), message |-> Trimmed, reason |-> Trimmed,
   channel |-> Trimmed]
=============================================================================
