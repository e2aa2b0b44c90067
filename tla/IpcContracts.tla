---------------------------- MODULE IpcContracts ----------------------------
(***************************************************************************)
(* The contracts of the main process: src/electron/ipc/contracts.js.       *)
(*                                                                         *)
(* One schema per operator, under the name it has in the source, and one   *)
(* registry entry per channel: who may call it, what a request holds, and  *)
(* what the data of a successful reply holds.  The schemas are strict: a   *)
(* field that is not listed must be absent.  The three shield schemas are  *)
(* not, and say so with the field "unlisted".                              *)
(***************************************************************************)
EXTENDS IpcAccountContracts

\* Quality control.
QcSeveritySchema == Enum({"blocking", "warning"})
QcFindingStatusSchema == Enum({"failed", "warning"})
QcReportStatusSchema == Enum({"passed", "failed"})
QcAudioZipSchema == [filename |-> Text(1), sizeBytes |-> IntFrom(0)]
QcPackInputSchema ==
  [packName |-> Text(1), localPackPath |-> Optional(OrNull(Text(1))),
   declaredTopLevelFolders |-> Texts, audioZip |-> Optional(OrNull({Object("QcAudioZip")})),
   sampleCount |-> IntFrom(0), containsUnsupportedNameTokens |-> Bool]
QcEvaluatePackRequestSchema ==
  [requestId |-> Text(1), submissionId |-> Text(1), actorId |-> Text(1),
   actorRole |-> ActorRoleSchema, pack |-> {Object("QcPackInput")},
   ruleSetVersion |-> Optional(Text(1))]
QcPolicyRuleBindingSchema ==
  [ruleId |-> Text(1), enabled |-> Bool, blockingOverride |-> Optional(OrNull(Bool)),
   params |-> Optional(AnyObject)]
QcRuleDefinitionSchema ==
  [ruleId |-> Text(1), title |-> Text(1), description |-> Text(1), severity |-> QcSeveritySchema,
   blocking |-> Bool, category |-> Text(1), remediation |-> Text(1), enabled |-> Bool]
QcPolicySnapshotSchema ==
  [policyId |-> Text(1), policyVersion |-> IntFrom(1), ruleSetVersion |-> Text(1),
   rules |-> ArrayOf("QcPolicyRuleBinding"), updatedBy |-> Text(1),
   updatedAt |-> IsoTimestampSchema, reason |-> Text(1)]
QcFindingSchema ==
  [findingId |-> Text(1), ruleId |-> Text(1), severity |-> QcSeveritySchema, blocking |-> Bool,
   status |-> QcFindingStatusSchema, message |-> Text(1), remediation |-> Text(1),
   context |-> AnyObject]
QcReportSummarySchema ==
  [blockingFailures |-> IntFrom(0), warnings |-> IntFrom(0), evaluatedRuleCount |-> IntFrom(0)]
QcReportSchema ==
  [reportId |-> Text(1), submissionId |-> Text(1), status |-> QcReportStatusSchema,
   summary |-> {Object("QcReportSummary")}, findings |-> ArrayOf("QcFinding"),
   generatedAt |-> IsoTimestampSchema, ruleSetVersion |-> Text(1), policyVersion |-> IntFrom(1)]
QcEvaluationDataSchema ==
  [report |-> {Object("QcReport")}, idempotent |-> Bool, appliedPolicyId |-> Text(1)]
QcListRulesRequestSchema == [includeDisabled |-> Optional(Bool), policyId |-> Optional(Text(1))]
QcListRulesDataSchema ==
  [rules |-> ArrayOf("QcRuleDefinition"), policy |-> {Object("QcPolicySnapshot")}]
QcResultsGetRequestSchema == [submissionId |-> Text(1)]
QcFindingDiffTagSchema == Enum({"new", "resolved", "unchanged"})
QcReportFindingSchema ==
  [findingId |-> Text(1), ruleId |-> Text(1), severity |-> QcSeveritySchema, category |-> Text(1),
   fileRef |-> OrNull(Text(1)), message |-> Text(1), remediation |-> Text(1),
   diffTag |-> QcFindingDiffTagSchema]
QcResultsRunSchema ==
  [runId |-> OrNull(Text(1)), submissionId |-> OrNull(Text(1)),
   findings |-> ArrayOf("QcReportFinding"), status |-> Enum({"passed", "failed", "not_run"}),
   startedAt |-> OrNull(IsoTimestampSchema), completedAt |-> OrNull(IsoTimestampSchema),
   generatedAt |-> OrNull(IsoTimestampSchema), ruleSetVersion |-> OrNull(Text(1)),
   policyVersion |-> OrNull(IntFrom(1))]
QcResultsGetDataSchema ==
  [runId |-> OrNull(Text(1)), submissionId |-> OrNull(Text(1)),
   findings |-> ArrayOf("QcReportFinding"), status |-> Enum({"passed", "failed", "not_run"}),
   startedAt |-> OrNull(IsoTimestampSchema), completedAt |-> OrNull(IsoTimestampSchema),
   generatedAt |-> OrNull(IsoTimestampSchema), ruleSetVersion |-> OrNull(Text(1)),
   policyVersion |-> OrNull(IntFrom(1)), history |-> Optional(ArrayOf("QcResultsRun"))]
QcReportExportRequestSchema ==
  [submissionId |-> Text(1), runId |-> Text(1), generatedAt |-> IsoTimestampSchema,
   ruleSetVersion |-> Text(1), policyVersion |-> IntFrom(1),
   status |-> Enum({"passed", "failed"}), startedAt |-> IsoTimestampSchema,
   completedAt |-> IsoTimestampSchema, findings |-> ArrayOf("QcReportFinding")]
QcReportExportDataSchema == [canceled |-> Bool, path |-> OrNull(Text(1))]

\* Notifications.
NotificationTypeSchema ==
  Enum({"qc_failed", "submitted", "under_review", "approved", "rejected",
         "scheduled", "released"})
NotificationSeveritySchema == Enum({"info", "warning", "error"})
NotificationStatusSchema == Enum({"pending", "sent", "failed"})
NotificationChannelSchema == Enum({"in_app", "email"})
NotificationItemSchema ==
  [notificationId |-> Text(1), type |-> NotificationTypeSchema,
   severity |-> NotificationSeveritySchema, status |-> NotificationStatusSchema,
   channel |-> NotificationChannelSchema, title |-> Text(1), message |-> Text(1),
   submissionId |-> Optional(OrNull(Text(1))), read |-> Bool,
   readAt |-> NullableIsoTimestampSchema, attempts |-> IntFrom(0), maxAttempts |-> IntFrom(1),
   createdAt |-> IsoTimestampSchema, updatedAt |-> IsoTimestampSchema]
NotificationsListRequestSchema ==
  [actorId |-> Text(1), actorRole |-> ActorRoleSchema, includeRead |-> Optional(Bool)]
NotificationsListDataSchema == [notifications |-> ArrayOf("NotificationItem")]
NotificationsMarkReadRequestSchema ==
  [actorId |-> Text(1), actorRole |-> ActorRoleSchema, notificationIds |-> NonEmpty(Texts)]
NotificationsMarkAllReadRequestSchema == [actorId |-> Text(1), actorRole |-> ActorRoleSchema]
NotificationsUpdatedCountDataSchema == [updatedCount |-> IntFrom(0)]
NotificationsRetryRequestSchema ==
  [actorId |-> Text(1), actorRole |-> ActorRoleSchema, notificationId |-> Text(1)]
NotificationsRetryDataSchema == [notification |-> {Object("NotificationItem")}]

\* Review.
ReviewSubmissionStateSchema ==
  Enum({"draft", "qc_failed", "under_review", "approved", "rejected",
         "scheduled", "released"})
RejectReasonCodeSchema ==
  Enum({"QUALITY_ISSUES", "METADATA_MISSING", "POLICY_VIOLATION", "OTHER"})
ReviewFlagSchema ==
  [id |-> Text(1), submissionId |-> Text(1), flagType |-> Text(1), severity |-> Text(1),
   addedBy |-> OrNull(Text(1)), createdAt |-> IsoTimestampSchema]
ReviewQueueItemSchema ==
  [submissionId |-> Text(1), packName |-> Text(1), creatorId |-> Text(1),
   submittedAt |-> IsoTimestampSchema, state |-> ReviewSubmissionStateSchema,
   ageDays |-> IntFrom(0), tags |-> Texts, flags |-> ArrayOf("ReviewFlag")]
ReviewQueueListRequestSchema ==
  [actorId |-> Text(1), actorRole |-> Enum({"reviewer", "admin"}),
   state |-> Optional(OrNull(Text(1))), tag |-> Optional(OrNull(Text(1))),
   flag |-> Optional(OrNull(Text(1)))]
ReviewQueueListDataSchema == [items |-> ArrayOf("ReviewQueueItem")]
ReviewSubmissionGetRequestSchema ==
  [submissionId |-> Text(1), actorId |-> Text(1), actorRole |-> Enum({"reviewer", "admin"})]
ReviewSubmissionGetDataSchema ==
  [submission |-> {Object("ReviewQueueItem")}, metadata |-> AnyObject,
   qcFindings |-> ArrayOf("any"), transitions |-> ArrayOf("any"),
   integrationEvents |-> ArrayOf("any"), decisions |-> ArrayOf("any"), tags |-> ArrayOf("any"),
   flags |-> ArrayOf("ReviewFlag")]
ReviewApproveRequestSchema ==
  [submissionId |-> Text(1), actorId |-> Text(1), actorRole |-> Enum({"reviewer", "admin"}),
   requestId |-> Optional(OrNull(Text(1))), expectedVersion |-> Optional(IntFrom(0)),
   notes |-> Optional(OrNull(Text(1)))]
ReviewRejectRequestSchema ==
  [submissionId |-> Text(1), actorId |-> Text(1), actorRole |-> Enum({"reviewer", "admin"}),
   requestId |-> Optional(OrNull(Text(1))), expectedVersion |-> Optional(IntFrom(0)),
   reasonCode |-> RejectReasonCodeSchema, notes |-> Text(1)]
ReviewDecisionDataSchema == [decision |-> AnyObject, transition |-> AnyObject]
ReviewTagAddRequestSchema ==
  [submissionId |-> Text(1), actorId |-> Text(1), actorRole |-> Enum({"reviewer", "admin"}),
   tag |-> Text(1)]
ReviewTagAddDataSchema == [tag |-> AnyObject]
ReviewFlagAddRequestSchema ==
  [submissionId |-> Text(1), actorId |-> Text(1), actorRole |-> Enum({"reviewer", "admin"}),
   flagType |-> Text(1), severity |-> Text(1)]
ReviewFlagAddDataSchema == [flag |-> AnyObject]
ReviewReopenRequestSchema ==
  [submissionId |-> Text(1), actorId |-> Text(1), actorRole |-> Enum({"reviewer", "admin"}),
   requestId |-> Optional(OrNull(Text(1))), expectedVersion |-> Optional(IntFrom(0)),
   notes |-> Optional(OrNull(Text(1)))]

\* Administration.
AdminActorRequestSchema == [actorId |-> Text(1), actorRole |-> Enum({"admin"})]
AdminConfigRecordSchema ==
  [id |-> Text(1), configType |-> Text(1), version |-> IntFrom(1), payloadJson |-> AnyObject,
   publishedBy |-> OrNull(Text(1)), publishedAt |-> OrNull(IsoTimestampSchema), isDraft |-> Bool,
   createdAt |-> IsoTimestampSchema]
AdminConfigsListRequestSchema ==
  [actorId |-> Text(1), actorRole |-> Enum({"admin"}), includeDrafts |-> Optional(Bool)]
AdminConfigsListDataSchema == [configs |-> ArrayOf("AdminConfigRecord")]
AdminConfigDraftRequestSchema ==
  [actorId |-> Text(1), actorRole |-> Enum({"admin"}), configType |-> Text(1),
   payloadJson |-> AnyObject]
AdminConfigMutationDataSchema == [config |-> {Object("AdminConfigRecord")}]
AdminConfigPublishRequestSchema ==
  [id |-> Text(1), actorId |-> Text(1), actorRole |-> Enum({"admin"}), reason |-> Text(1),
   confirmation |-> Text(1)]
AdminConfigRollbackRequestSchema ==
  [id |-> Text(1), actorId |-> Text(1), actorRole |-> Enum({"admin"}), reason |-> Text(1),
   confirmation |-> Text(1)]
AdminConfigRollbackDataSchema == AdminConfigMutationDataSchema
IntegrationStatusClassSchema ==
  Enum({"healthy", "degraded", "unhealthy", "unconfigured", "unavailable"})
IntegrationRecommendedActionSchema ==
  Enum({"none", "run_connection_test", "rotate_credentials", "verify_provider_configuration"})
AdminIntegrationHealthListRequestSchema == [actorId |-> Text(1), actorRole |-> Enum({"admin"})]
AdminIntegrationTestRequestSchema ==
  [provider |-> Enum({"dropbox", "airtable", "smtp"}), actorId |-> Text(1),
   actorRole |-> Enum({"admin"}), keyRef |-> Optional(OrNull(Text(1)))]
AdminIntegrationTestDataSchema ==
  [provider |-> Text(1), ok |-> Bool, latencyMs |-> IntFrom(0),
   statusClass |-> IntegrationStatusClassSchema,
   recommendedAction |-> IntegrationRecommendedActionSchema, statusCopy |-> Text(1),
   credentialStatus |-> Text(1), errorCode |-> Optional(OrNull(Text(1))),
   lastCheckedAt |-> IsoTimestampSchema, lastRotatedAt |-> OrNull(IsoTimestampSchema),
   lastFailureContext |-> OrNull(Text(1)), error |-> OrNull(Text(1))]
AdminIntegrationHealthListDataSchema == [integrations |-> ArrayOf("AdminIntegrationTestData")]
AdminIntegrationRotateRequestSchema ==
  [provider |-> Enum({"dropbox", "airtable", "smtp"}), actorId |-> Text(1),
   actorRole |-> Enum({"admin"}), reason |-> Text(1), confirmation |-> Text(1),
   keyRef |-> Optional(OrNull(Text(1)))]
AdminIntegrationRotateDataSchema ==
  [provider |-> Text(1), status |-> Text(1), rotatedAt |-> IsoTimestampSchema, keyRef |-> Text(1)]
AdminIntegrationConfigureDataSchema ==
  [provider |-> Enum({"dropbox", "airtable", "smtp"}), status |-> Text(1),
   configuredAt |-> IsoTimestampSchema]
AdminAirtableConfigureRequestSchema ==
  [actorId |-> Text(1), actorRole |-> Enum({"admin"}), apiKey |-> Text(1),
   submissionsTable |-> Optional(OrNull(Text(1))), completionView |-> Optional(OrNull(Text(1)))]
AdminSmtpConfigureRequestSchema ==
  [actorId |-> Text(1), actorRole |-> Enum({"admin"}), host |-> Text(1), port |-> IntIn(1, 65535),
   username |-> Optional(OrNull(Text(1))), password |-> Optional(OrNull(Text(1))),
   fromEmail |-> Optional(OrNull(Text(3)))]
AdminDropboxTokensUpdateRequestSchema ==
  [actorId |-> Text(1), actorRole |-> Enum({"admin"}), refreshToken |-> Text(1),
   accessToken |-> Optional(OrNull(Text(1)))]
AdminDropboxAppConfigureRequestSchema ==
  [actorId |-> Text(1), actorRole |-> Enum({"admin"}), appKey |-> Text(1), appSecret |-> Text(1)]
DropboxReadinessStatusSchema == Enum({"READY", "NOT_CONFIGURED", "INVALID_TOKEN"})
AdminDropboxReadinessRequestSchema == [actorId |-> Text(1), actorRole |-> Enum({"admin"})]
AdminDropboxReadinessDataSchema ==
  [provider |-> Enum({"dropbox"}), status |-> DropboxReadinessStatusSchema, message |-> Text(1),
   hasAppCredentials |-> Optional(Bool), authorizeUrl |-> Optional(OrNull(Url))]
AdminDropboxOauthStartRequestSchema ==
  [actorId |-> Text(1), actorRole |-> Enum({"admin"}), appKey |-> Optional(OrNull(Text(1)))]
AdminDropboxOauthStartDataSchema == [provider |-> Enum({"dropbox"}), authorizeUrl |-> Url]
AdminDropboxOauthCompleteRequestSchema ==
  [actorId |-> Text(1), actorRole |-> Enum({"admin"}), authCode |-> Text(1),
   appKey |-> Optional(OrNull(Text(1))), appSecret |-> Optional(OrNull(Text(1))),
   redirectUri |-> Optional(OrNull(Url))]
AdminDropboxOauthCompleteDataSchema ==
  [provider |-> Enum({"dropbox"}), status |-> Text(1), accountId |-> Optional(OrNull(Text(1))),
   configuredAt |-> IsoTimestampSchema]
AdminDropboxOauthDesktopStartRequestSchema ==
  [actorId |-> Text(1), actorRole |-> Enum({"admin"}), appKey |-> Optional(OrNull(Text(1))),
   appSecret |-> Optional(OrNull(Text(1)))]
AdminDropboxOauthDesktopStartDataSchema ==
  [sessionId |-> Text(1), status |-> Enum({"pending"}), authorizeUrl |-> Url,
   startedAt |-> IsoTimestampSchema]
DropboxOauthDesktopStatusSchema == Enum({"pending", "completed", "failed", "expired"})
AdminDropboxOauthDesktopStatusRequestSchema ==
  [actorId |-> Text(1), actorRole |-> Enum({"admin"}), sessionId |-> Text(1)]
AdminDropboxOauthDesktopStatusDataSchema ==
  [sessionId |-> Text(1), status |-> DropboxOauthDesktopStatusSchema, message |-> Text(1),
   accountId |-> Optional(OrNull(Text(1))), configuredAt |-> Optional(OrNull(IsoTimestampSchema))]
AdminOpsHistoryListRequestSchema ==
  [actorId |-> Text(1), actorRole |-> Enum({"admin"}), limit |-> Optional(IntIn(1, 100))]
AdminOpsHistoryListData_entries ==
  [id |-> Text(1), action |-> Text(1), actorId |-> OrNull(Text(1)), reason |-> OrNull(Text(1)),
   entity |-> Text(1), timestamp |-> IsoTimestampSchema]
AdminOpsHistoryListDataSchema == [entries |-> ArrayOf("AdminOpsHistoryListData_entries")]
AdminQcPolicyGetRequestSchema == AdminActorRequestSchema
AdminQcPolicyGetDataSchema == [policy |-> {Object("QcPolicySnapshot")}]
AdminQcPolicyUpdateRequest_policy ==
  [policyId |-> Text(1), ruleSetVersion |-> Optional(Text(1)),
   rules |-> NonEmpty(ArrayOf("QcPolicyRuleBinding"))]
AdminQcPolicyUpdateRequestSchema ==
  [requestId |-> Text(1), actorId |-> Text(1), actorRole |-> Enum({"admin"}), reason |-> Text(1),
   expectedPolicyVersion |-> Optional(IntFrom(1)),
   policy |-> {Object("AdminQcPolicyUpdateRequest_policy")}]
AdminQcPolicyUpdateData_auditHook ==
  [action |-> Text(1), entityType |-> Text(1), entityId |-> Text(1), actorId |-> Text(1),
   idempotencyKey |-> Text(1), metadata |-> AnyObject]
AdminQcPolicyUpdateData_observabilityHook ==
  [metricName |-> Text(1), tags |-> {Object("labels")}, value |-> AnyNumber,
   emittedAt |-> IsoTimestampSchema]
AdminQcPolicyUpdateDataSchema ==
  [policy |-> {Object("QcPolicySnapshot")},
   auditHook |-> {Object("AdminQcPolicyUpdateData_auditHook")},
   observabilityHook |-> {Object("AdminQcPolicyUpdateData_observabilityHook")}]

\* Jobs, scheduling and observability.
JobStatusSchema ==
  Enum({"queued", "running", "retrying", "succeeded", "failed", "dead_lettered"})
JobStatusClassSchema ==
  Enum({"ready", "running", "pending_retry", "completed", "terminal_failure"})
FailureClassSchema == Enum({"transient", "terminal"})
RecommendedActionSchema == Enum({"none", "wait_for_retry", "replay_safe", "inspect_and_fix"})
ScheduleSourceSchema == Enum({"approval_event", "manual_override"})
IncidentSeveritySchema == Enum({"info", "warning", "critical"})
IncidentFailureClassSchema ==
  Enum({"integration_failure", "retry_exhaustion", "scheduling_terminal_failure"})
IncidentRemediationStatusSchema == Enum({"open", "acknowledged", "resolved"})
JobSnapshotSchema ==
  [id |-> Text(1), jobType |-> Text(1), idempotencyKey |-> Text(1), status |-> JobStatusSchema,
   attemptCount |-> IntFrom(0), maxAttempts |-> IntFrom(1), payloadJson |-> AnyObject,
   correlationId |-> OrNull(Text(1)), createdAt |-> IsoTimestampSchema,
   startedAt |-> OrNull(IsoTimestampSchema), endedAt |-> OrNull(IsoTimestampSchema),
   scheduledFor |-> OrNull(IsoTimestampSchema), nextRetryAt |-> OrNull(IsoTimestampSchema),
   lastError |-> OrNull(Text(0)), statusClass |-> Optional(OrNull(JobStatusClassSchema)),
   failureClass |-> Optional(OrNull(FailureClassSchema)),
   recommendedAction |-> Optional(RecommendedActionSchema)]
DeadLetterSnapshotSchema ==
  [id |-> Text(1), jobRunId |-> Text(1), payloadJson |-> AnyObject, failureReason |-> Text(1),
   createdAt |-> IsoTimestampSchema, replayedAt |-> OrNull(IsoTimestampSchema),
   statusClass |-> Optional(OrNull(JobStatusClassSchema)),
   failureClass |-> Optional(OrNull(FailureClassSchema)),
   recommendedAction |-> Optional(RecommendedActionSchema)]
SchedulingEventSchema ==
  [eventName |-> Enum({"submission.approved.scheduling.v1"}), schemaVersion |-> IntFrom(1),
   submissionId |-> Text(1), transitionId |-> Text(1), occurredAt |-> IsoTimestampSchema,
   approvedBy |-> Text(1), preferredReleaseMonth |-> Month, idempotencyKey |-> Text(1)]
ScheduleSnapshotSchema ==
  [submissionId |-> Text(1), preferredMonth |-> Month, plannedReleaseAt |-> IsoTimestampSchema,
   timezone |-> Text(1), source |-> ScheduleSourceSchema, updatedBy |-> Text(1),
   updatedAt |-> IsoTimestampSchema, releaseTriggeredAt |-> OrNull(IsoTimestampSchema),
   version |-> IntFrom(1)]
JobsEnqueueRequestSchema ==
  [requestId |-> Text(1), jobType |-> Text(1), idempotencyKey |-> Text(1),
   payloadJson |-> AnyObject, maxAttempts |-> Optional(IntIn(1, 10)),
   scheduledFor |-> Optional(OrNull(IsoTimestampSchema)),
   correlationId |-> Optional(OrNull(Text(1)))]
JobsEnqueueDataSchema == [idempotent |-> Bool, job |-> {Object("JobSnapshot")}]
JobsGetRequestSchema == [id |-> Text(1)]
JobsGetDataSchema ==
  [job |-> {Object("JobSnapshot")}, deadLetter |-> OrNull({Object("DeadLetterSnapshot")})]
JobsReplayRequestSchema ==
  [id |-> Text(1), requestId |-> Text(1), actorId |-> Text(1), reason |-> Text(1),
   confirmation |-> Text(1)]
JobsReplayDataSchema ==
  [idempotent |-> Bool, job |-> {Object("JobSnapshot")},
   deadLetter |-> {Object("DeadLetterSnapshot")}]
SchedulingResolveRequestSchema ==
  [requestId |-> Text(1), submissionId |-> Text(1),
   schedulingEvent |-> {Object("SchedulingEvent")}, timezone |-> Optional(Text(1))]
SchedulingResolveDataSchema ==
  [idempotent |-> Bool, schedule |-> {Object("ScheduleSnapshot")},
   releaseJob |-> {Object("JobSnapshot")}]
SchedulingOverrideRequestSchema ==
  [requestId |-> Text(1), submissionId |-> Text(1), newReleaseAt |-> IsoTimestampSchema,
   reason |-> Text(1), actorId |-> Text(1), actorRole |-> Enum({"reviewer", "admin"}),
   timezone |-> Optional(Text(1))]
SchedulingOverrideData_override ==
  [id |-> Text(1), submissionId |-> Text(1), oldReleaseAt |-> IsoTimestampSchema,
   newReleaseAt |-> IsoTimestampSchema, reason |-> Text(1), actorId |-> Text(1),
   createdAt |-> IsoTimestampSchema]
SchedulingOverrideDataSchema ==
  [idempotent |-> Bool, schedule |-> {Object("ScheduleSnapshot")},
   override |-> {Object("SchedulingOverrideData_override")},
   releaseJob |-> {Object("JobSnapshot")}]
SchedulingTriggerReleaseRequestSchema ==
  [requestId |-> Text(1), submissionId |-> Text(1), actorId |-> Text(1),
   actorRole |-> Enum({"system", "admin"}), force |-> Optional(Bool),
   jobRunId |-> Optional(OrNull(Text(1)))]
SchedulingTriggerReleaseDataSchema ==
  [idempotent |-> Bool, schedule |-> {Object("ScheduleSnapshot")}, submission |-> AnyObject]
ObservabilityMetricsGetRequestSchema == <<>>
ObservabilityMetricsGetDataSchema == [snapshot |-> Text(0), capturedAt |-> IsoTimestampSchema]
ObservabilityIncidentsAnnotateRequestSchema ==
  [source |-> Text(1), severity |-> IncidentSeveritySchema, note |-> Text(1),
   linkedEntity |-> Text(1), failureClass |-> Optional(OrNull(IncidentFailureClassSchema)),
   correlationId |-> Optional(OrNull(Text(1))),
   remediationStatus |-> Optional(IncidentRemediationStatusSchema),
   remediationOwner |-> Optional(OrNull(Text(1))), remediationLink |-> Optional(OrNull(Text(1))),
   auditEventId |-> Optional(OrNull(Text(1))), requestId |-> Optional(OrNull(Text(1))),
   idempotencyKey |-> Optional(OrNull(Text(1)))]
ObservabilityIncidentsAnnotateData_annotation ==
  [id |-> Text(1), source |-> Text(1), severity |-> IncidentSeveritySchema, note |-> Text(1),
   linkedEntity |-> Text(1), failureClass |-> OrNull(IncidentFailureClassSchema),
   correlationId |-> OrNull(Text(1)), remediationStatus |-> IncidentRemediationStatusSchema,
   remediationOwner |-> OrNull(Text(1)), remediationLink |-> OrNull(Text(1)),
   auditEventId |-> OrNull(Text(1)), createdAt |-> IsoTimestampSchema]
ObservabilityIncidentsAnnotateDataSchema ==
  [idempotent |-> Bool, annotation |-> {Object("ObservabilityIncidentsAnnotateData_annotation")}]

\* Creator profile, submissions and Airtable.
CreatorProfileRequestSchema == [actorId |-> Text(1), userId |-> Optional(Text(1))]
CreatorProfilePutRequestSchema ==
  [actorId |-> Text(1), userId |-> Optional(Text(1)), displayName |-> Optional(OrNull(Text(1))),
   labelName |-> Optional(OrNull(Text(1))), defaultsJson |-> Optional(AnyObject)]
CreatorProfileDataSchema ==
  [userId |-> Text(1), displayName |-> OrNull(Text(0)), labelName |-> OrNull(Text(0)),
   defaultsJson |-> AnyObject, updatedAt |-> OrNull(IsoTimestampSchema)]
SubmissionMutationRequestSchema ==
  [submissionId |-> Text(1), creatorId |-> Text(1), packName |-> Optional(OrNull(Text(0))),
   labelName |-> Optional(OrNull(Text(0))), releaseMonth |-> Optional(OrNull(Month)),
   notes |-> Optional(OrNull(Text(0))), tags |-> Optional(Strings),
   airtableFormCompleted |-> Optional(Bool),
   airtablePayloadChecksum |-> Optional(OrNull(Text(0))), autosaveJson |-> Optional(AnyObject)]
SubmissionListRequestSchema == [creatorId |-> Text(1), actorId |-> Optional(Text(1))]
SubmissionTimelineRequestSchema ==
  [submissionId |-> Text(1), creatorId |-> Text(1), actorId |-> Optional(Text(1))]
SubmissionAirtableMutationRequestSchema ==
  [submissionId |-> Text(1), creatorId |-> Text(1), forceRelink |-> Optional(Bool)]
SubmissionSummarySchema ==
  [submissionId |-> Text(1), creatorId |-> Text(1), currentState |-> Text(1),
   version |-> IntFrom(0), packName |-> OrNull(Text(0)), labelName |-> OrNull(Text(0)),
   releaseMonth |-> OrNull(Text(0)), notes |-> OrNull(Text(0)), tags |-> Strings,
   airtableFormCompleted |-> Bool, airtablePayloadChecksum |-> OrNull(Text(0)),
   airtableSyncStatus |-> Optional(OrNull(Text(0))),
   airtableRecordId |-> Optional(OrNull(Text(0))),
   airtableRecordUrl |-> Optional(OrNull(Text(0))),
   airtableLastSyncedAt |-> Optional(OrNull(IsoTimestampSchema)),
   airtableLastErrorCode |-> Optional(OrNull(Text(0))),
   airtableLastErrorDetail |-> Optional(OrNull(Text(0))), createdAt |-> IsoTimestampSchema,
   updatedAt |-> IsoTimestampSchema, draftLastSavedAt |-> OrNull(IsoTimestampSchema),
   uploadIntakeSessionId |-> Optional(OrNull(Text(1))),
   uploadHandoffId |-> Optional(OrNull(Text(1))),
   uploadManifestVersion |-> Optional(OrNull(IntFrom(0))),
   uploadStatus |-> Optional(OrNull(Text(1))), uploadProgressPercent |-> Optional(IntIn(0, 100)),
   uploadUploadedBytes |-> Optional(IntFrom(0)), uploadTotalBytes |-> Optional(IntFrom(0)),
   uploadUploadedFiles |-> Optional(IntFrom(0)), uploadTotalFiles |-> Optional(IntFrom(0)),
   uploadError |-> Optional(OrNull(Text(1))),
   uploadUpdatedAt |-> Optional(OrNull(IsoTimestampSchema))]
SubmissionAirtableMappedPayloadSchema ==
  [labelName |-> OrNull(Text(0)), packName |-> OrNull(Text(0)), releaseMonth |-> OrNull(Text(0)),
   notes |-> OrNull(Text(0)), tags |-> Strings]
SubmissionAirtableStateDataSchema ==
  [submissionId |-> Text(1), syncStatus |-> Text(1), airtableFormCompleted |-> Bool,
   airtablePayloadChecksum |-> OrNull(Text(0)), airtableRecordId |-> OrNull(Text(0)),
   airtableRecordUrl |-> OrNull(Text(0)), lastSyncedAt |-> OrNull(IsoTimestampSchema),
   lastErrorCode |-> OrNull(Text(0)), lastErrorDetail |-> OrNull(Text(0)),
   canonicalRecordId |-> Optional(OrNull(Text(0))),
   mappedPayload |-> Optional(OrNull({Object("SubmissionAirtableMappedPayload")}))]
SubmissionDraftDataSchema == [submission |-> AnyObject]
SubmissionListDataSchema == [submissions |-> ArrayOf("SubmissionSummary")]
SubmissionTimelineData_timeline ==
  [transitionId |-> Text(1), fromState |-> OrNull(Text(0)), toState |-> Text(1),
   actorId |-> OrNull(Text(0)), actorRole |-> OrNull(Text(0)), reason |-> OrNull(Text(0)),
   requestId |-> OrNull(Text(0)), createdAt |-> IsoTimestampSchema]
SubmissionTimelineDataSchema == [timeline |-> ArrayOf("SubmissionTimelineData_timeline")]

\* Intake and hand-off.
IntakeFolderSelectRequestSchema == <<>>
IntakeFolderSelectData_files ==
  [relativePath |-> Text(1), sizeBytes |-> IntFrom(1), mimeType |-> Text(1)]
IntakeFolderSelectDataSchema ==
  [path |-> Text(1), fileCount |-> IntFrom(0), topLevelFolders |-> Texts,
   files |-> ArrayOf("IntakeFolderSelectData_files")]
IntakeSessionStartRequestSchema ==
  [requestId |-> Text(1), submissionId |-> Text(1), creatorId |-> Text(1), packName |-> Text(1),
   declaredTopLevelFolders |-> Optional(Texts), metadata |-> Optional(AnyObject)]
IntakeManifestPutRequest_files ==
  [relativePath |-> Text(1), sizeBytes |-> IntFrom(1), sha256 |-> Sha256, mimeType |-> Text(1),
   category |-> Optional(Text(1)), requiredAsset |-> Optional(Bool)]
IntakeManifestPutRequestSchema ==
  [intakeSessionId |-> Text(1), requestId |-> Text(1),
   expectedManifestVersion |-> Optional(IntFrom(0)), lockManifest |-> Optional(Bool),
   files |-> NonEmpty(ArrayOf("IntakeManifestPutRequest_files"))]
IntakeHandoffCreateRequestSchema ==
  [intakeSessionId |-> Text(1), requestId |-> Text(1), actorId |-> Text(1),
   actorRole |-> ActorRoleSchema]
StorageHandoffStatusRequestSchema == [handoffId |-> Text(1)]
StorageHandoffControlRequestSchema ==
  [handoffId |-> Text(1), action |-> Enum({"pause", "resume", "cancel"}), requestId |-> Text(1),
   actorId |-> Text(1), actorRole |-> ActorRoleSchema]
IntakeLockRequestSchema ==
  [submissionId |-> Text(1), actorId |-> Text(1), actorRole |-> ActorRoleSchema,
   intakeSessionId |-> Optional(OrNull(Text(1)))]
IntakeSessionDataSchema ==
  [intakeSessionId |-> Text(1), submissionId |-> Text(1), creatorId |-> Text(1),
   packName |-> Text(1), declaredTopLevelFolders |-> Strings, status |-> Text(1),
   manifestVersion |-> IntFrom(0), metadata |-> AnyObject, createdAt |-> IsoTimestampSchema,
   updatedAt |-> IsoTimestampSchema]
IntakeManifestData_files ==
  [relativePath |-> Text(1), sizeBytes |-> IntFrom(1), sha256 |-> Sha256, mimeType |-> Text(1),
   category |-> Text(1), requiredAsset |-> Bool]
IntakeManifestData_summary ==
  [totalFileCount |-> IntFrom(0), totalBytes |-> IntFrom(0),
   countsByCategory |-> {Object("counts")}, requiredAudioZipPresent |-> Bool]
IntakeManifestDataSchema ==
  [manifestVersion |-> IntFrom(0), locked |-> Bool, files |-> ArrayOf("IntakeManifestData_files"),
   summary |-> {Object("IntakeManifestData_summary")}, updatedAt |-> IsoTimestampSchema]
IntakeSessionStartDataSchema ==
  [created |-> Bool, idempotent |-> Bool, session |-> {Object("IntakeSessionData")},
   event |-> OrNull(AnyObject)]
IntakeManifestPutDataSchema ==
  [idempotent |-> Bool, session |-> {Object("IntakeSessionData")},
   manifest |-> {Object("IntakeManifestData")}, event |-> AnyObject]
IntakeHandoffCreateData_handoff ==
  [handoffId |-> Text(1), submissionId |-> Text(1), intakeSessionId |-> Text(1),
   status |-> Enum({"queued", "in_progress", "paused", "completed", "failed", "canceled"}),
   target |-> Text(1), progressPercent |-> IntIn(0, 100), uploadedBytes |-> IntFrom(0),
   totalBytes |-> IntFrom(0), objectCount |-> IntFrom(0), uploadedFiles |-> IntFrom(0),
   totalFiles |-> IntFrom(0), checksumVerified |-> Bool, createdAt |-> IsoTimestampSchema,
   updatedAt |-> IsoTimestampSchema, completedAt |-> OrNull(IsoTimestampSchema),
   error |-> OrNull(Text(1))]
IntakeHandoffCreateDataSchema ==
  [idempotent |-> Bool, handoff |-> {Object("IntakeHandoffCreateData_handoff")},
   event |-> AnyObject]
StorageHandoffStatusData_handoff == IntakeHandoffCreateData_handoff
StorageHandoffStatusDataSchema == [handoff |-> {Object("StorageHandoffStatusData_handoff")}]
StorageHandoffControlData_handoff == IntakeHandoffCreateData_handoff
StorageHandoffControlDataSchema == [handoff |-> {Object("StorageHandoffControlData_handoff")}]
IntakeLockDataSchema ==
  [submissionId |-> Text(1), intakeSessionId |-> Text(1), lockedCount |-> IntFrom(0),
   lockedAt |-> IsoTimestampSchema]

\* Transitions.
SubmissionTransitionRequestSchema ==
  [submissionId |-> Text(1), requestId |-> Text(1), toState |-> Text(1), actorId |-> Text(1),
   actorRole |-> ActorRoleSchema, reason |-> Optional(OrNull(Text(1))),
   expectedVersion |-> Optional(IntFrom(0)), metadata |-> Optional(AnyObject)]
SubmissionTransitionDataSchema ==
  [submission |-> AnyObject, transition |-> OrNull(AnyObject), domainEvent |-> OrNull(AnyObject),
   idempotent |-> Bool, orchestration |-> OrNull(AnyObject)]

\* The schemas of nested objects, by the name a field's type gives them.
Nested ==
  [AdminConfigRecord |-> AdminConfigRecordSchema,
   AdminIntegrationTestData |-> AdminIntegrationTestDataSchema,
   AdminOpsHistoryListData_entries |-> AdminOpsHistoryListData_entries,
   AdminQcPolicyUpdateData_auditHook |-> AdminQcPolicyUpdateData_auditHook,
   AdminQcPolicyUpdateData_observabilityHook |-> AdminQcPolicyUpdateData_observabilityHook,
   AdminQcPolicyUpdateRequest_policy |-> AdminQcPolicyUpdateRequest_policy,
   AuditEventRecord |-> AuditEventRecordSchema,
   AuditSecurityEvent |-> AuditSecurityEventSchema,
   AuthSessionData_actor |-> AuthSessionData_actor,
   AuthUser |-> AuthUserSchema,
   DeadLetterSnapshot |-> DeadLetterSnapshotSchema,
   IntakeFolderSelectData_files |-> IntakeFolderSelectData_files,
   IntakeHandoffCreateData_handoff |-> IntakeHandoffCreateData_handoff,
   IntakeManifestData |-> IntakeManifestDataSchema,
   IntakeManifestData_files |-> IntakeManifestData_files,
   IntakeManifestData_summary |-> IntakeManifestData_summary,
   IntakeManifestPutRequest_files |-> IntakeManifestPutRequest_files,
   IntakeSessionData |-> IntakeSessionDataSchema,
   IpcError |-> IpcErrorSchema,
   JobSnapshot |-> JobSnapshotSchema,
   NotificationItem |-> NotificationItemSchema,
   ObservabilityIncidentsAnnotateData_annotation |-> ObservabilityIncidentsAnnotateData_annotation,
   QcAudioZip |-> QcAudioZipSchema,
   QcFinding |-> QcFindingSchema,
   QcPackInput |-> QcPackInputSchema,
   QcPolicyRuleBinding |-> QcPolicyRuleBindingSchema,
   QcPolicySnapshot |-> QcPolicySnapshotSchema,
   QcReport |-> QcReportSchema,
   QcReportFinding |-> QcReportFindingSchema,
   QcReportSummary |-> QcReportSummarySchema,
   QcResultsRun |-> QcResultsRunSchema,
   QcRuleDefinition |-> QcRuleDefinitionSchema,
   ReviewFlag |-> ReviewFlagSchema,
   ReviewQueueItem |-> ReviewQueueItemSchema,
   ScheduleSnapshot |-> ScheduleSnapshotSchema,
   SchedulingEvent |-> SchedulingEventSchema,
   SchedulingOverrideData_override |-> SchedulingOverrideData_override,
   StorageHandoffControlData_handoff |-> StorageHandoffControlData_handoff,
   StorageHandoffStatusData_handoff |-> StorageHandoffStatusData_handoff,
   SubmissionAirtableMappedPayload |-> SubmissionAirtableMappedPayloadSchema,
   SubmissionSummary |-> SubmissionSummarySchema,
   SubmissionTimelineData_timeline |-> SubmissionTimelineData_timeline,
   VerifySecurityConfigData_checks |-> VerifySecurityConfigData_checks]

(***************************************************************************)
(* The registry.  A contract names the roles that may call its channel and *)
(* the permissions they need.                                              *)
(***************************************************************************)
Contract(roles, permissions, request, data) ==
  [allowedRoles |-> roles, requiredPermissions |-> permissions,
   request |-> request, data |-> data]
Everyone(permissions, request, data) ==
  Contract({"creator", "reviewer", "admin"}, permissions, request, data)
Reviewers(permissions, request, data) ==
  Contract({"reviewer", "admin"}, permissions, request, data)
Creators(permissions, request, data) ==
  Contract({"creator", "admin"}, permissions, request, data)
Admins(permissions, request, data) == Contract({"admin"}, permissions, request, data)
Without(field, schema) == [f \in DOMAIN schema \ {field} |-> schema[f]]

AuthContracts ==
  [AUTH_GET_SESSION |-> Everyone({}, AuthGetSessionRequestSchema, AuthSessionDataSchema),
   AUTH_LOGIN |-> Everyone({}, AuthLoginRequestSchema, AuthTokenBundleSchema),
   AUTH_REGISTER |-> Everyone({}, AuthRegisterRequestSchema, AuthTokenBundleSchema),
   AUTH_OTP_SEND |-> Everyone({}, AuthOtpSendRequestSchema, AuthOtpSendDataSchema),
   AUTH_OTP_VERIFY |-> Everyone({}, AuthOtpVerifyRequestSchema, AuthOtpVerifyDataSchema),
   AUTH_FORGOT_PASSWORD |-> Everyone({}, AuthForgotPasswordRequestSchema,
     AuthOtpSendDataSchema),
   AUTH_RESET_PASSWORD |-> Everyone({}, AuthResetPasswordRequestSchema,
     AuthRevocationDataSchema)]

DesktopContracts ==
  [DESKTOP_VERIFY_SECURITY |-> Everyone({}, VerifySecurityConfigRequestSchema,
     VerifySecurityConfigDataSchema),
   AUDIT_LIST_SECURITY_EVENTS |-> Reviewers({"audit:read"}, AuditListSecurityEventsRequestSchema,
     AuditListSecurityEventsDataSchema),
   AUDIT_EVENTS_LIST |-> Admins({"audit:read"}, AuditEventsListRequestSchema,
     AuditEventsListDataSchema),
   AUDIT_EVENTS_EXPORT |-> Admins({"audit:read"}, AuditEventsExportRequestSchema,
     AuditEventsExportDataSchema)]

QcContracts ==
  [QC_EVALUATE_PACK |-> Everyone({}, QcEvaluatePackRequestSchema, QcEvaluationDataSchema),
   QC_LIST_RULES |-> Everyone({}, QcListRulesRequestSchema, QcListRulesDataSchema),
   QC_RESULTS_GET |-> Everyone({}, QcResultsGetRequestSchema, QcResultsGetDataSchema),
   QC_REPORT_EXPORT |-> Everyone({}, QcReportExportRequestSchema, QcReportExportDataSchema)]

NotificationContracts ==
  [NOTIFICATIONS_LIST |-> Everyone({}, NotificationsListRequestSchema,
     NotificationsListDataSchema),
   NOTIFICATIONS_MARK_READ |-> Everyone({}, NotificationsMarkReadRequestSchema,
     NotificationsUpdatedCountDataSchema),
   NOTIFICATIONS_MARK_ALL_READ |-> Everyone({}, NotificationsMarkAllReadRequestSchema,
     NotificationsUpdatedCountDataSchema),
   NOTIFICATIONS_RETRY |-> Reviewers({}, NotificationsRetryRequestSchema,
     NotificationsRetryDataSchema)]

ReviewContracts ==
  [REVIEW_QUEUE_LIST |-> Reviewers({}, ReviewQueueListRequestSchema, ReviewQueueListDataSchema),
   REVIEW_SUBMISSION_GET |-> Reviewers({}, ReviewSubmissionGetRequestSchema,
     ReviewSubmissionGetDataSchema),
   REVIEW_APPROVE |-> Reviewers({}, ReviewApproveRequestSchema, ReviewDecisionDataSchema),
   REVIEW_REJECT |-> Reviewers({}, ReviewRejectRequestSchema, ReviewDecisionDataSchema),
   REVIEW_TAG_ADD |-> Reviewers({}, ReviewTagAddRequestSchema, ReviewTagAddDataSchema),
   REVIEW_FLAG_ADD |-> Reviewers({}, ReviewFlagAddRequestSchema, ReviewFlagAddDataSchema),
   REVIEW_REOPEN |-> Reviewers({}, ReviewReopenRequestSchema, ReviewDecisionDataSchema)]

AdminContracts ==
  [ADMIN_CONFIGS_LIST |-> Admins({}, AdminConfigsListRequestSchema, AdminConfigsListDataSchema),
   ADMIN_CONFIGS_DRAFT |-> Admins({}, AdminConfigDraftRequestSchema,
     AdminConfigMutationDataSchema),
   ADMIN_CONFIGS_PUBLISH |-> Admins({}, AdminConfigPublishRequestSchema,
     AdminConfigMutationDataSchema),
   ADMIN_CONFIGS_ROLLBACK |-> Admins({}, AdminConfigRollbackRequestSchema,
     AdminConfigRollbackDataSchema),
   ADMIN_INTEGRATIONS_HEALTH_LIST |-> Admins({}, AdminIntegrationHealthListRequestSchema,
     AdminIntegrationHealthListDataSchema),
   ADMIN_INTEGRATIONS_TEST |-> Admins({}, AdminIntegrationTestRequestSchema,
     AdminIntegrationTestDataSchema),
   ADMIN_INTEGRATIONS_ROTATE |-> Admins({}, AdminIntegrationRotateRequestSchema,
     AdminIntegrationRotateDataSchema),
   ADMIN_INTEGRATIONS_AIRTABLE_CONFIGURE |-> Admins({}, AdminAirtableConfigureRequestSchema,
     AdminIntegrationConfigureDataSchema),
   ADMIN_INTEGRATIONS_SMTP_CONFIGURE |-> Admins({}, AdminSmtpConfigureRequestSchema,
     AdminIntegrationConfigureDataSchema),
   ADMIN_INTEGRATIONS_DROPBOX_TOKENS_UPDATE |-> Admins({}, AdminDropboxTokensUpdateRequestSchema,
     AdminIntegrationConfigureDataSchema),
   ADMIN_INTEGRATIONS_DROPBOX_APP_CONFIGURE |-> Admins({}, AdminDropboxAppConfigureRequestSchema,
     AdminIntegrationConfigureDataSchema),
   ADMIN_DROPBOX_READINESS_GET |-> Admins({}, AdminDropboxReadinessRequestSchema,
     AdminDropboxReadinessDataSchema),
   ADMIN_DROPBOX_OAUTH_START |-> Admins({}, AdminDropboxOauthStartRequestSchema,
     AdminDropboxOauthStartDataSchema),
   ADMIN_DROPBOX_OAUTH_COMPLETE |-> Admins({}, AdminDropboxOauthCompleteRequestSchema,
     AdminDropboxOauthCompleteDataSchema),
   ADMIN_DROPBOX_OAUTH_DESKTOP_START |-> Admins({}, AdminDropboxOauthDesktopStartRequestSchema,
     AdminDropboxOauthDesktopStartDataSchema),
   ADMIN_DROPBOX_OAUTH_DESKTOP_STATUS |-> Admins({}, AdminDropboxOauthDesktopStatusRequestSchema,
     AdminDropboxOauthDesktopStatusDataSchema),
   ADMIN_OPS_HISTORY_LIST |-> Admins({}, AdminOpsHistoryListRequestSchema,
     AdminOpsHistoryListDataSchema),
   ADMIN_QC_POLICY_GET |-> Admins({}, AdminQcPolicyGetRequestSchema,
     AdminQcPolicyGetDataSchema),
   ADMIN_QC_POLICY_UPDATE |-> Admins({"qc:policy:write"}, AdminQcPolicyUpdateRequestSchema,
     AdminQcPolicyUpdateDataSchema)]

OperationsContracts ==
  [JOBS_ENQUEUE |-> Reviewers({}, JobsEnqueueRequestSchema, JobsEnqueueDataSchema),
   JOBS_GET |-> Reviewers({}, JobsGetRequestSchema, JobsGetDataSchema),
   JOBS_REPLAY |-> Admins({}, JobsReplayRequestSchema, JobsReplayDataSchema),
   SCHEDULING_RESOLVE |-> Reviewers({}, SchedulingResolveRequestSchema,
     SchedulingResolveDataSchema),
   SCHEDULING_OVERRIDE |-> Reviewers({}, SchedulingOverrideRequestSchema,
     SchedulingOverrideDataSchema),
   SCHEDULING_TRIGGER_RELEASE |-> Admins({}, SchedulingTriggerReleaseRequestSchema,
     SchedulingTriggerReleaseDataSchema),
   OBSERVABILITY_METRICS_GET |-> Reviewers({}, ObservabilityMetricsGetRequestSchema,
     ObservabilityMetricsGetDataSchema),
   OBSERVABILITY_INCIDENTS_ANNOTATE |-> Reviewers({}, ObservabilityIncidentsAnnotateRequestSchema,
     ObservabilityIncidentsAnnotateDataSchema)]

CreatorContracts ==
  [CREATOR_PROFILE_GET |-> Everyone({}, CreatorProfileRequestSchema, CreatorProfileDataSchema),
   CREATOR_PROFILE_PUT |-> Everyone({}, CreatorProfilePutRequestSchema,
     CreatorProfileDataSchema),
   SUBMISSION_DRAFT |-> Creators({}, SubmissionMutationRequestSchema,
     SubmissionDraftDataSchema),
   SUBMISSION_METADATA |-> Creators({}, SubmissionMutationRequestSchema,
     SubmissionDraftDataSchema),
   SUBMISSION_LIST |-> Everyone({}, SubmissionListRequestSchema, SubmissionListDataSchema),
   SUBMISSION_TIMELINE |-> Everyone({}, SubmissionTimelineRequestSchema,
     SubmissionTimelineDataSchema),
   SUBMISSION_AIRTABLE_SYNC |-> Everyone({}, SubmissionAirtableMutationRequestSchema,
     SubmissionAirtableStateDataSchema),
   SUBMISSION_AIRTABLE_RESET |-> Everyone({}, Without("forceRelink", SubmissionAirtableMutationRequestSchema),
     SubmissionAirtableStateDataSchema)]

IntakeContracts ==
  [INTAKE_FOLDER_SELECT |-> Everyone({}, IntakeFolderSelectRequestSchema,
     IntakeFolderSelectDataSchema),
   INTAKE_SESSION_START |-> Creators({}, IntakeSessionStartRequestSchema,
     IntakeSessionStartDataSchema),
   INTAKE_MANIFEST_PUT |-> Creators({}, IntakeManifestPutRequestSchema,
     IntakeManifestPutDataSchema),
   INTAKE_HANDOFF_CREATE |-> Creators({}, IntakeHandoffCreateRequestSchema,
     IntakeHandoffCreateDataSchema),
   INTAKE_HANDOFF_STATUS_GET |-> Everyone({}, StorageHandoffStatusRequestSchema,
     StorageHandoffStatusDataSchema),
   INTAKE_HANDOFF_CONTROL |-> Creators({}, StorageHandoffControlRequestSchema,
     StorageHandoffControlDataSchema),
   INTAKE_LOCK |-> Creators({}, IntakeLockRequestSchema, IntakeLockDataSchema)]

TransitionContracts ==
  [SUBMISSION_TRANSITION |-> Everyone({}, SubmissionTransitionRequestSchema,
     SubmissionTransitionDataSchema)]

ShieldContracts ==
  [DESKTOP_PRIVACY_SHIELD_TOGGLE |-> Creators({}, [enabled |-> Bool, unlisted |-> AnyValue],
     [success |-> Bool, enabled |-> Bool, unlisted |-> AnyValue]),
   DESKTOP_PRIVACY_SHIELD_STATUS |-> Creators({}, [unlisted |-> AnyValue],
     [enabled |-> Bool, unlisted |-> AnyValue])]

IPC_CONTRACT_REGISTRY ==
  (AuthContracts ++ DesktopContracts ++ QcContracts ++ NotificationContracts)
    ++ (ReviewContracts ++ AdminContracts ++ OperationsContracts)
    ++ (CreatorContracts ++ IntakeContracts ++ TransitionContracts ++ ShieldContracts)

IPC_CHANNELS == DOMAIN IPC_CONTRACT_REGISTRY

\* A strict schema accepts no field it does not list.
SchemaAccepts(schema, field, value) ==
  IF field \in DOMAIN schema THEN value \in schema[field] ELSE value = Absent
=============================================================================
