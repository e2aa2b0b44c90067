--------------------------- MODULE BackendClients ---------------------------
(***************************************************************************)
(* The clients with which the main process calls the HTTP service:         *)
(* authBackendClient.js, notificationsBackendClient.js, qcBackendClient.js *)
(* and operationsBackendClient.js under src/electron/ipc.                  *)
(*                                                                         *)
(* A request or a reply is a function from the names of its objects        *)
(* ("self" is the outermost) to their fields.  A client builds the body of *)
(* a call from the fields of the request, and the data of the reply from   *)
(* what came back: "q" is a request, "r" a reply.                          *)
(***************************************************************************)
EXTENDS IpcContracts

(***************************************************************************)
(* JavaScript's readings of a field that may be missing or empty.          *)
(***************************************************************************)
Falsy == {Absent, Undefined, Null, False, Num(0), Str("empty")}
Nothing == {Absent, Undefined, Null}
Or(v, d) == IF v \in Falsy THEN d ELSE v            \* v || d
Coalesce(v, d) == IF v \in Nothing THEN d ELSE v    \* v ?? d
Boolean(v) == IF v \in Falsy THEN False ELSE True
OrElseNull(v) == Or(v, Null)
OrEmpty(v) == Or(v, Object("any"))                  \* v || {}
IntegerOr(v, d) == IF v \in Integer THEN v ELSE d   \* Number.isInteger(v) ? v : d
toIsoString(v) == IF v \in Falsy THEN Null ELSE Str("iso")
Items(v) == IF v[1] = "array" THEN v ELSE EmptyArray
Rows(v, shape) == IF v[1] = "array" /\ v # EmptyArray THEN Array(shape) ELSE EmptyArray
Part(v, shape) == IF v \in Falsy THEN Null ELSE Object(shape)

One(fields) == [self |-> fields]
ActorOf(q) == [actor_id |-> q.actorId, actor_role |-> q.actorRole]

(***************************************************************************)
(* authBackendClient.js                                                    *)
(***************************************************************************)
mapUser(r) ==
  [id |-> r.id, email |-> r.email, roles |-> r.roles, permissions |-> r.permissions,
   status |-> r.status, createdAt |-> toIsoString(r.created_at),
   updatedAt |-> toIsoString(r.updated_at)]
mapTokenBundle(r) ==
  [self |->
     [accessToken |-> r.self.access_token,
      accessTokenExpiresAt |-> toIsoString(r.self.access_token_expires_at),
      refreshToken |-> r.self.refresh_token,
      refreshTokenExpiresAt |-> toIsoString(r.self.refresh_token_expires_at),
      user |-> Part(r.self.user, "AuthUser")],
   AuthUser |-> mapUser(r.UserResponse)]
mapOtpSend(r) ==
  One([challengeId |-> Coalesce(r.challenge_id, Null), expiresAt |-> toIsoString(r.expires_at),
       cooldownSeconds |-> r.cooldown_seconds])
mapOtpVerify(r) ==
  One([otpVerificationToken |-> r.otp_verification_token,
       expiresAt |-> toIsoString(r.expires_at)])
mapRevocation(r) == One([revokedSessionCount |-> r.revoked_session_count])

loginBody(q) ==
  One([email |-> q.email, password |-> q.password, device_id |-> OrElseNull(q.deviceId)])
registerBody(q) ==
  One([email |-> q.email, password |-> q.password,
       otp_verification_token |-> q.otpVerificationToken, roles |-> q.roles,
       device_id |-> OrElseNull(q.deviceId)])
verifyOtpBody(q) ==
  One([challenge_id |-> q.challengeId, purpose |-> q.purpose, otp_code |-> q.otpCode])
resetPasswordBody(q) ==
  One([email |-> q.email, otp_verification_token |-> q.otpVerificationToken,
       new_password |-> q.newPassword])

(***************************************************************************)
(* notificationsBackendClient.js                                           *)
(***************************************************************************)
mapNotification(r) ==
  [notificationId |-> r.notification_id, type |-> r.type, severity |-> r.severity,
   status |-> r.status, channel |-> r.channel, title |-> r.title, message |-> r.message,
   submissionId |-> r.submission_id, read |-> Boolean(r.read),
   readAt |-> toIsoString(r.read_at), attempts |-> r.attempts, maxAttempts |-> r.max_attempts,
   createdAt |-> toIsoString(r.created_at), updatedAt |-> toIsoString(r.updated_at)]

(***************************************************************************)
(* qcBackendClient.js, and what router.js makes of a run's findings.       *)
(***************************************************************************)
mapRuleBinding(r) ==
  [ruleId |-> r.rule_id, enabled |-> Boolean(r.enabled),
   blockingOverride |-> IF r.blocking_override \in Bool THEN r.blocking_override ELSE Null,
   params |-> IF r.params \in AnyObject THEN r.params ELSE Object("any")]
mapPolicy(r) ==
  [policyId |-> r.policy_id, policyVersion |-> r.policy_version,
   ruleSetVersion |-> r.rule_set_version, rules |-> Rows(r.rules, "QcPolicyRuleBinding"),
   updatedBy |-> r.updated_by, updatedAt |-> toIsoString(r.updated_at), reason |-> r.reason]
PolicyObjects(r) ==
  [QcPolicySnapshot |-> mapPolicy(r.QcPolicySnapshot),
   QcPolicyRuleBinding |-> mapRuleBinding(r.QcPolicyRuleBinding)]
mapRuleDefinition(r) ==
  [ruleId |-> r.rule_id, title |-> r.title, description |-> r.description,
   severity |-> r.severity, blocking |-> Boolean(r.blocking), category |-> r.category,
   remediation |-> r.remediation, enabled |-> Boolean(r.enabled)]
mapEvaluationFinding(r) ==
  [findingId |-> r.finding_id, ruleId |-> r.rule_id, severity |-> r.severity,
   blocking |-> Boolean(r.blocking), status |-> r.status, message |-> r.message,
   remediation |-> r.remediation, context |-> OrEmpty(r.context)]
mapEvaluationResult(r) ==
  [self |-> [report |-> Object("QcReport"), idempotent |-> Boolean(r.self.idempotent),
             appliedPolicyId |-> r.self.applied_policy_id],
   QcReport |->
     [reportId |-> r.QcReport.report_id, submissionId |-> r.QcReport.submission_id,
      status |-> r.QcReport.status, summary |-> Object("QcReportSummary"),
      findings |-> Rows(r.QcReport.findings, "QcFinding"),
      generatedAt |-> toIsoString(r.QcReport.generated_at),
      ruleSetVersion |-> r.QcReport.rule_set_version,
      policyVersion |-> r.QcReport.policy_version],
   QcReportSummary |->
     [blockingFailures |-> r.QcReportSummary.blocking_failures,
      warnings |-> r.QcReportSummary.warnings,
      evaluatedRuleCount |-> r.QcReportSummary.evaluated_rule_count],
   QcFinding |-> mapEvaluationFinding(r.QcFinding)]

\* The category is inferred from the rule's identifier and is never empty.  The file is the
\* first of several keys that holds a text; a context that has one of them is a "labels".
FileOf(context) == IF context = Object("labels") THEN Str("t8") ELSE Null
mapReportFinding(r) ==
  [findingId |-> r.finding_id, ruleId |-> r.rule_id, severity |-> r.severity,
   category |-> Str("t8"), fileRef |-> FileOf(r.context), message |-> r.message,
   remediation |-> r.remediation, diffTag |-> Str("unchanged")]
mapPersistedRun(r) ==
  [runId |-> r.run_id, submissionId |-> r.submission_id, status |-> r.status,
   startedAt |-> toIsoString(r.started_at), completedAt |-> toIsoString(r.completed_at),
   generatedAt |-> toIsoString(r.generated_at), ruleSetVersion |-> r.rule_set_version,
   policyVersion |-> r.policy_version, findings |-> Rows(r.findings, "QcReportFinding")]
mapFindingForQcReport(f) ==
  [findingId |-> Or(f.findingId, Str("t8")), ruleId |-> Or(f.ruleId, Str("t8")),
   severity |-> IF f.severity = Str("blocking") THEN f.severity ELSE Str("warning"),
   category |-> Str("t8"),
   fileRef |-> IF "context" \in DOMAIN f THEN FileOf(f.context) ELSE Null,
   message |-> Or(f.message, Str("t8")),
   remediation |-> Or(f.remediation, Str("t8")), diffTag |-> f.diffTag]
mapRun(run) ==
  [runId |-> OrElseNull(run.runId), submissionId |-> OrElseNull(run.submissionId),
   findings |-> Items(run.findings), status |-> Or(run.status, Str("not_run")),
   startedAt |-> OrElseNull(run.startedAt), completedAt |-> OrElseNull(run.completedAt),
   generatedAt |-> OrElseNull(run.generatedAt),
   ruleSetVersion |-> OrElseNull(run.ruleSetVersion),
   policyVersion |-> OrElseNull(run.policyVersion)]
ResultsReply(r) ==
  LET run == mapRun(mapPersistedRun(r.QcRunResult)) IN
  [self |-> run ++ [history |-> Rows(r.self.history, "QcResultsRun")],
   QcResultsRun |-> run,
   QcReportFinding |-> mapFindingForQcReport(mapReportFinding(r.QcFinding))]

evaluateBody(q) ==
  [self |->
     ActorOf(q.self) ++
     [request_id |-> q.self.requestId, submission_id |-> q.self.submissionId,
      pack |-> Object("QcPackInput"), rule_set_version |-> OrElseNull(q.self.ruleSetVersion)],
   QcPackInput |->
     [pack_name |-> q.QcPackInput.packName,
      local_pack_path |-> OrElseNull(q.QcPackInput.localPackPath),
      declared_top_level_folders |-> q.QcPackInput.declaredTopLevelFolders,
      audio_zip |-> Part(q.QcPackInput.audioZip, "QcAudioZipInput"),
      sample_count |-> q.QcPackInput.sampleCount,
      contains_unsupported_name_tokens |-> q.QcPackInput.containsUnsupportedNameTokens],
   QcAudioZipInput |->
     [filename |-> q.QcAudioZip.filename, size_bytes |-> q.QcAudioZip.sizeBytes]]
listRulesQuery(q) ==
  One([include_disabled |-> IF q.includeDisabled \in Bool THEN q.includeDisabled ELSE Absent,
       policy_id |-> IF q.policyId \in Trimmed THEN q.policyId ELSE Absent])
updateActivePolicyBody(q) ==
  LET policy == q.AdminQcPolicyUpdateRequest_policy IN
  [self |->
     ActorOf(q.self) ++
     [request_id |-> q.self.requestId, reason |-> q.self.reason,
      expected_policy_version |-> Coalesce(q.self.expectedPolicyVersion, Null),
      policy |-> Object("QcPolicyUpdate")],
   QcPolicyUpdate |->
     [policy_id |-> policy.policyId, rule_set_version |-> OrElseNull(policy.ruleSetVersion),
      rules |-> Rows(policy.rules, "QcPolicyRuleBinding")],
   QcPolicyRuleBinding |->
     [rule_id |-> q.QcPolicyRuleBinding.ruleId, enabled |-> q.QcPolicyRuleBinding.enabled,
      blocking_override |-> Coalesce(q.QcPolicyRuleBinding.blockingOverride, Null),
      params |-> IF q.QcPolicyRuleBinding.params \in AnyObject
                 THEN q.QcPolicyRuleBinding.params ELSE Object("any")]]
updateActivePolicyReply(r) ==
  PolicyObjects(r) ++
  [self |-> [policy |-> Object("QcPolicySnapshot"),
             auditHook |-> Object("AdminQcPolicyUpdateData_auditHook"),
             observabilityHook |-> Object("AdminQcPolicyUpdateData_observabilityHook")],
   AdminQcPolicyUpdateData_auditHook |->
     [action |-> r.AuditHookPayload.action, entityType |-> r.AuditHookPayload.entity_type,
      entityId |-> r.AuditHookPayload.entity_id, actorId |-> r.AuditHookPayload.actor_id,
      idempotencyKey |-> r.AuditHookPayload.idempotency_key,
      metadata |-> OrEmpty(r.AuditHookPayload.metadata)],
   AdminQcPolicyUpdateData_observabilityHook |->
     [metricName |-> r.ObservabilityHookPayload.metric_name,
      tags |-> OrEmpty(r.ObservabilityHookPayload.tags),
      value |-> r.ObservabilityHookPayload.value,
      emittedAt |-> toIsoString(r.ObservabilityHookPayload.emitted_at)]]

(***************************************************************************)
(* operationsBackendClient.js: jobs and schedules.                         *)
(***************************************************************************)
mapJob(r) ==
  [id |-> r.id, jobType |-> r.job_type, idempotencyKey |-> r.idempotency_key,
   status |-> r.status, attemptCount |-> r.attempt_count, maxAttempts |-> r.max_attempts,
   payloadJson |-> OrEmpty(r.payload_json), correlationId |-> OrElseNull(r.correlation_id),
   createdAt |-> toIsoString(r.created_at), startedAt |-> toIsoString(r.started_at),
   endedAt |-> toIsoString(r.ended_at), scheduledFor |-> toIsoString(r.scheduled_for),
   nextRetryAt |-> toIsoString(r.next_retry_at), lastError |-> OrElseNull(r.last_error),
   statusClass |-> OrElseNull(r.status_class), failureClass |-> OrElseNull(r.failure_class),
   recommendedAction |-> Or(r.recommended_action, Str("none"))]
mapDeadLetter(r) ==
  [id |-> r.id, jobRunId |-> r.job_run_id, payloadJson |-> OrEmpty(r.payload_json),
   failureReason |-> r.failure_reason, createdAt |-> toIsoString(r.created_at),
   replayedAt |-> toIsoString(r.replayed_at), statusClass |-> OrElseNull(r.status_class),
   failureClass |-> OrElseNull(r.failure_class),
   recommendedAction |-> Or(r.recommended_action, Str("none"))]
mapSchedule(r) ==
  [submissionId |-> r.submission_id, preferredMonth |-> r.preferred_month,
   plannedReleaseAt |-> toIsoString(r.planned_release_at), timezone |-> r.timezone,
   source |-> r.source, updatedBy |-> r.updated_by, updatedAt |-> toIsoString(r.updated_at),
   releaseTriggeredAt |-> toIsoString(r.release_triggered_at), version |-> r.version]
Job(r) == [JobSnapshot |-> mapJob(r.JobRunSnapshot)]
Schedule(r) == [ScheduleSnapshot |-> mapSchedule(r.ReleaseScheduleSnapshot)]

enqueueJobBody(q) ==
  One([request_id |-> q.requestId, job_type |-> q.jobType, idempotency_key |-> q.idempotencyKey,
       payload_json |-> OrEmpty(q.payloadJson), max_attempts |-> Coalesce(q.maxAttempts, Num(3)),
       scheduled_for |-> OrElseNull(q.scheduledFor),
       correlation_id |-> OrElseNull(q.correlationId)])
enqueueJobReply(r) ==
  Job(r) ++ One([idempotent |-> Boolean(r.self.idempotent), job |-> Object("JobSnapshot")])
getJobReply(r) ==
  Job(r) ++
  [self |-> [job |-> Object("JobSnapshot"),
             deadLetter |-> Part(r.self.dead_letter, "DeadLetterSnapshot")],
   DeadLetterSnapshot |-> mapDeadLetter(r.DeadLetterJobSnapshot)]
replayJobBody(q) ==
  One([request_id |-> q.requestId, actor_id |-> q.actorId, reason |-> q.reason,
       confirmation |-> q.confirmation])
replayJobReply(r) ==
  Job(r) ++
  [self |-> [idempotent |-> Boolean(r.self.idempotent), job |-> Object("JobSnapshot"),
             deadLetter |-> Object("DeadLetterSnapshot")],
   DeadLetterSnapshot |-> mapDeadLetter(r.DeadLetterJobSnapshot)]

resolveScheduleBody(q) ==
  LET event == q.SchedulingEvent IN
  [self |-> [request_id |-> q.self.requestId,
             scheduling_event |-> Object("SchedulingTriggerEvent"),
             timezone |-> Or(q.self.timezone, Str("utc"))],
   SchedulingTriggerEvent |->
     [event_name |-> event.eventName, schema_version |-> event.schemaVersion,
      submission_id |-> event.submissionId, transition_id |-> event.transitionId,
      occurred_at |-> event.occurredAt, approved_by |-> event.approvedBy,
      preferred_release_month |-> event.preferredReleaseMonth,
      idempotency_key |-> event.idempotencyKey]]
resolveScheduleReply(r) ==
  Job(r) ++ Schedule(r) ++
  One([idempotent |-> Boolean(r.self.idempotent), schedule |-> Object("ScheduleSnapshot"),
       releaseJob |-> Object("JobSnapshot")])
overrideScheduleBody(q) ==
  One(ActorOf(q) ++
      [request_id |-> q.requestId, new_release_at |-> q.newReleaseAt, reason |-> q.reason,
       timezone |-> Or(q.timezone, Str("utc"))])
overrideScheduleReply(r) ==
  Job(r) ++ Schedule(r) ++
  [self |-> [idempotent |-> Boolean(r.self.idempotent), schedule |-> Object("ScheduleSnapshot"),
             override |-> Object("SchedulingOverrideData_override"),
             releaseJob |-> Object("JobSnapshot")],
   SchedulingOverrideData_override |->
     [id |-> r.ScheduleOverrideSnapshot.id,
      submissionId |-> r.ScheduleOverrideSnapshot.submission_id,
      oldReleaseAt |-> toIsoString(r.ScheduleOverrideSnapshot.old_release_at),
      newReleaseAt |-> toIsoString(r.ScheduleOverrideSnapshot.new_release_at),
      reason |-> r.ScheduleOverrideSnapshot.reason,
      actorId |-> r.ScheduleOverrideSnapshot.actor_id,
      createdAt |-> toIsoString(r.ScheduleOverrideSnapshot.created_at)]]
triggerReleaseBody(q) ==
  One(ActorOf(q) ++ [request_id |-> q.requestId, force |-> Boolean(q.force),
                   job_run_id |-> OrElseNull(q.jobRunId)])
triggerReleaseReply(r) ==
  Schedule(r) ++
  One([idempotent |-> Boolean(r.self.idempotent), schedule |-> Object("ScheduleSnapshot"),
       submission |-> OrEmpty(r.self.submission)])

(***************************************************************************)
(* Incidents, administration and integrations.                             *)
(***************************************************************************)
mapAnnotation(r) ==
  [id |-> r.id, source |-> r.source, severity |-> r.severity, note |-> r.note,
   linkedEntity |-> r.linked_entity, failureClass |-> OrElseNull(r.failure_class),
   correlationId |-> OrElseNull(r.correlation_id),
   remediationStatus |-> Or(r.remediation_status, Str("open")),
   remediationOwner |-> OrElseNull(r.remediation_owner),
   remediationLink |-> OrElseNull(r.remediation_link),
   auditEventId |-> OrElseNull(r.audit_event_id), createdAt |-> toIsoString(r.created_at)]
annotateIncidentBody(q) ==
  One([source |-> q.source, severity |-> q.severity, note |-> q.note,
       linked_entity |-> q.linkedEntity, failure_class |-> OrElseNull(q.failureClass),
       correlation_id |-> OrElseNull(q.correlationId),
       remediation_status |-> Or(q.remediationStatus, Str("open")),
       remediation_owner |-> OrElseNull(q.remediationOwner),
       remediation_link |-> OrElseNull(q.remediationLink),
       audit_event_id |-> OrElseNull(q.auditEventId), request_id |-> OrElseNull(q.requestId),
       idempotency_key |-> OrElseNull(q.idempotencyKey)])
annotateIncidentReply(r) ==
  [self |-> [idempotent |-> Boolean(r.self.idempotent),
             annotation |-> Object("ObservabilityIncidentsAnnotateData_annotation")],
   ObservabilityIncidentsAnnotateData_annotation |-> mapAnnotation(r.IncidentAnnotationSnapshot)]

mapAdminConfig(r) ==
  [id |-> r.id, configType |-> r.config_type, version |-> r.version,
   payloadJson |-> OrEmpty(r.payload_json), publishedBy |-> OrElseNull(r.published_by),
   publishedAt |-> toIsoString(r.published_at), isDraft |-> Boolean(r.is_draft),
   createdAt |-> toIsoString(r.created_at)]
configReply(r) ==
  [self |-> [config |-> Object("AdminConfigRecord")],
   AdminConfigRecord |-> mapAdminConfig(r.AdminConfigRecord)]
configsReply(r) ==
  [self |-> [configs |-> Rows(r.self.configs, "AdminConfigRecord")],
   AdminConfigRecord |-> mapAdminConfig(r.AdminConfigRecord)]
listConfigsQuery(q) ==
  One(ActorOf(q) ++ [include_drafts |-> IF Boolean(q.includeDrafts) = True THEN True ELSE Absent])
draftConfigBody(q) ==
  One(ActorOf(q) ++ [config_type |-> q.configType, payload_json |-> OrEmpty(q.payloadJson)])
decideConfigBody(q) ==
  One(ActorOf(q) ++ [reason |-> q.reason, confirmation |-> q.confirmation])

mapIntegrationHealth(r) ==
  [provider |-> r.provider, ok |-> Boolean(r.ok), latencyMs |-> IntegerOr(r.latency_ms, Num(0)),
   statusClass |-> r.status_class, recommendedAction |-> r.recommended_action,
   statusCopy |-> Or(r.status_copy, Str("t8")),
   credentialStatus |-> Or(r.credential_status, Str("t8")),
   errorCode |-> OrElseNull(r.error_code), lastCheckedAt |-> toIsoString(r.last_checked_at),
   lastRotatedAt |-> toIsoString(r.last_rotated_at),
   lastFailureContext |-> OrElseNull(r.last_failure_context), error |-> OrElseNull(r.error)]
healthReply(r) ==
  [self |-> [integrations |-> Rows(r.self.integrations, "AdminIntegrationTestData")],
   AdminIntegrationTestData |-> mapIntegrationHealth(r.IntegrationTestResult)]
testIntegrationBody(q) == One(ActorOf(q) ++ [key_ref |-> OrElseNull(q.keyRef)])
rotateIntegrationBody(q) ==
  One(ActorOf(q) ++ [reason |-> q.reason, confirmation |-> q.confirmation,
                   key_ref |-> OrElseNull(q.keyRef)])
rotateIntegrationReply(r) ==
  One([provider |-> r.provider, status |-> r.status, rotatedAt |-> toIsoString(r.rotated_at),
       keyRef |-> r.key_ref])
configureAirtableBody(q) ==
  One(ActorOf(q) ++ [api_key |-> q.apiKey, submissions_table |-> OrElseNull(q.submissionsTable),
                   completion_view |-> OrElseNull(q.completionView)])
configureSmtpBody(q) ==
  One(ActorOf(q) ++ [host |-> q.host, port |-> q.port, username |-> OrElseNull(q.username),
                   password |-> OrElseNull(q.password), from_email |-> OrElseNull(q.fromEmail)])
updateDropboxTokensBody(q) ==
  One(ActorOf(q) ++ [refresh_token |-> q.refreshToken, access_token |-> OrElseNull(q.accessToken)])
configureDropboxAppBody(q) ==
  One(ActorOf(q) ++ [app_key |-> q.appKey, app_secret |-> q.appSecret])
configuredReply(r) ==
  One([provider |-> r.provider, status |-> r.status,
       configuredAt |-> toIsoString(r.configured_at)])
readinessReply(r) ==
  One([provider |-> r.provider, status |-> r.status, message |-> r.message,
       hasAppCredentials |-> Boolean(r.has_app_credentials),
       authorizeUrl |-> OrElseNull(r.authorize_url)])
startOauthBody(q) == One(ActorOf(q) ++ [app_key |-> OrElseNull(q.appKey)])
startOauthReply(r) == One([provider |-> r.provider, authorizeUrl |-> r.authorize_url])
completeOauthBody(q) ==
  One(ActorOf(q) ++ [auth_code |-> q.authCode, app_key |-> OrElseNull(q.appKey),
                   app_secret |-> OrElseNull(q.appSecret),
                   redirect_uri |-> OrElseNull(q.redirectUri)])
completeOauthReply(r) ==
  One([provider |-> r.provider, status |-> r.status, accountId |-> OrElseNull(r.account_id),
       configuredAt |-> toIsoString(r.configured_at)])
opsHistoryQuery(q) == One(ActorOf(q) ++ [limit |-> IF q.limit \in Integer THEN q.limit ELSE Absent])
opsHistoryReply(r) ==
  LET entry == r.AdminOpsHistoryEntry IN
  [self |-> [entries |-> Rows(r.self.entries, "AdminOpsHistoryListData_entries")],
   AdminOpsHistoryListData_entries |->
     [id |-> entry.id, action |-> entry.action, actorId |-> OrElseNull(entry.actor_id),
      reason |-> OrElseNull(entry.reason), entity |-> entry.entity,
      timestamp |-> toIsoString(entry.timestamp)]]
metricsReply(r) == One([snapshot |-> r.text, capturedAt |-> Str("iso")])

(***************************************************************************)
(* The review console.                                                     *)
(***************************************************************************)
mapReviewFlag(r) ==
  [id |-> r.id, submissionId |-> r.submission_id, flagType |-> r.flag_type,
   severity |-> r.severity, addedBy |-> OrElseNull(r.added_by),
   createdAt |-> toIsoString(r.created_at)]
mapReviewQueueItem(r) ==
  [submissionId |-> r.submission_id, packName |-> r.pack_name, creatorId |-> r.creator_id,
   submittedAt |-> toIsoString(r.submitted_at), state |-> r.state, ageDays |-> r.age_days,
   tags |-> Items(r.tags), flags |-> Rows(r.flags, "ReviewFlag")]
ReviewObjects(r) ==
  [ReviewQueueItem |-> mapReviewQueueItem(r.ReviewQueueItem),
   ReviewFlag |-> mapReviewFlag(r.ReviewFlagItem)]
reviewQueueReply(r) ==
  ReviewObjects(r) ++ One([items |-> Rows(r.self.items, "ReviewQueueItem")])
mapReviewDetail(r) ==
  ReviewObjects(r) ++
  One([submission |-> Object("ReviewQueueItem"), metadata |-> OrEmpty(r.self.metadata),
       qcFindings |-> Items(r.self.qc_findings), transitions |-> Items(r.self.transitions),
       integrationEvents |-> Items(r.self.integration_events),
       decisions |-> Items(r.self.decisions), tags |-> Items(r.self.tags),
       flags |-> Rows(r.self.flags, "ReviewFlag")])
reviewQueueQuery(q) ==
  LET Given(v) == IF v \in Falsy THEN Absent ELSE v IN
  One(ActorOf(q) ++ [state |-> Given(q.state), tag |-> Given(q.tag), flag |-> Given(q.flag)])
decideReviewBody(q) ==
  One(ActorOf(q) ++ [request_id |-> OrElseNull(q.requestId),
                   expected_version |-> Coalesce(q.expectedVersion, Null),
                   notes |-> OrElseNull(q.notes)])
rejectReviewBody(q) ==
  One(ActorOf(q) ++ [request_id |-> OrElseNull(q.requestId),
                   expected_version |-> Coalesce(q.expectedVersion, Null),
                   reason_code |-> q.reasonCode, notes |-> q.notes])
decisionReply(r) ==
  One([decision |-> OrEmpty(r.decision), transition |-> OrEmpty(r.transition)])
addTagBody(q) == One(ActorOf(q) ++ [tag |-> q.tag])
addTagReply(r) == One([tag |-> OrEmpty(r.tag)])
addFlagBody(q) == One(ActorOf(q) ++ [flag_type |-> q.flagType, severity |-> q.severity])
addFlagReply(r) ==
  [self |-> [flag |-> Object("ReviewFlag")], ReviewFlag |-> mapReviewFlag(r.ReviewFlagItem)]

(***************************************************************************)
(* Creators and their submissions.                                         *)
(***************************************************************************)
profileQuery(q) ==
  One([user_id |-> Or(q.userId, Str("t2")),
       actor_id |-> IF Boolean(q.actorId) = True THEN q.actorId ELSE Absent])
putProfileBody(q) ==
  One([actor_id |-> q.actorId, user_id |-> Or(q.userId, Str("t2")),
       display_name |-> OrElseNull(q.displayName), label_name |-> OrElseNull(q.labelName),
       defaults_json |-> OrEmpty(q.defaultsJson)])
profileReply(r) ==
  One([userId |-> r.user_id, displayName |-> OrElseNull(r.display_name),
       labelName |-> OrElseNull(r.label_name), defaultsJson |-> OrEmpty(r.defaults_json),
       updatedAt |-> toIsoString(r.updated_at)])
metadataBody(q) ==
  One([creator_id |-> q.creatorId, pack_name |-> OrElseNull(q.packName),
       label_name |-> OrElseNull(q.labelName), release_month |-> OrElseNull(q.releaseMonth),
       notes |-> OrElseNull(q.notes), tags |-> Items(q.tags),
       airtable_form_completed |-> Boolean(q.airtableFormCompleted),
       airtable_payload_checksum |-> OrElseNull(q.airtablePayloadChecksum),
       autosave_json |-> OrEmpty(q.autosaveJson)])
draftBody(q) == One(metadataBody(q).self ++ [submission_id |-> q.submissionId])
draftReply(r) == One([submission |-> OrEmpty(r.submission)])
ownerQuery(q) ==
  One([creator_id |-> Or(q.creatorId, Str("t2")),
       actor_id |-> IF Boolean(q.actorId) = True THEN q.actorId ELSE Absent])

\* The rows the service sends name neither the intake session nor the files of an upload.
mapSubmission(r) ==
  [submissionId |-> r.submission_id, creatorId |-> r.creator_id,
   currentState |-> r.current_state, version |-> r.version,
   packName |-> OrElseNull(r.pack_name), labelName |-> OrElseNull(r.label_name),
   releaseMonth |-> OrElseNull(r.release_month), notes |-> OrElseNull(r.notes),
   tags |-> Items(r.tags), airtableFormCompleted |-> Boolean(r.airtable_form_completed),
   airtablePayloadChecksum |-> OrElseNull(r.airtable_payload_checksum),
   airtableSyncStatus |-> OrElseNull(r.airtable_sync_status),
   airtableRecordId |-> OrElseNull(r.airtable_record_id),
   airtableRecordUrl |-> OrElseNull(r.airtable_record_url),
   airtableLastSyncedAt |-> toIsoString(r.airtable_last_synced_at),
   airtableLastErrorCode |-> OrElseNull(r.airtable_last_error_code),
   airtableLastErrorDetail |-> OrElseNull(r.airtable_last_error_detail),
   createdAt |-> toIsoString(r.created_at), updatedAt |-> toIsoString(r.updated_at),
   draftLastSavedAt |-> toIsoString(r.draft_last_saved_at), uploadIntakeSessionId |-> Null,
   uploadHandoffId |-> OrElseNull(r.upload_handoff_id),
   uploadManifestVersion |-> IntegerOr(r.upload_manifest_version, Null),
   uploadStatus |-> OrElseNull(r.upload_status),
   uploadProgressPercent |-> IntegerOr(r.upload_progress_percent, Num(0)),
   uploadUploadedBytes |-> IntegerOr(r.upload_uploaded_bytes, Num(0)),
   uploadTotalBytes |-> IntegerOr(r.upload_total_bytes, Num(0)),
   uploadUploadedFiles |-> Num(0), uploadTotalFiles |-> Num(0),
   uploadError |-> OrElseNull(r.upload_error),
   uploadUpdatedAt |-> toIsoString(r.upload_updated_at)]
submissionsReply(r) ==
  [self |-> [submissions |-> Rows(r.self.rows, "SubmissionSummary")],
   SubmissionSummary |-> mapSubmission(r.SubmissionListItem)]
mapTimelineEntry(r) ==
  [transitionId |-> r.transition_id, fromState |-> r.from_state, toState |-> r.to_state,
   actorId |-> r.actor_id, actorRole |-> r.actor_role, reason |-> r.reason,
   reviewDecision |-> OrElseNull(r.review_decision),
   reviewReasonCode |-> OrElseNull(r.review_reason_code),
   reviewNotes |-> OrElseNull(r.review_notes), requestId |-> r.request_id,
   createdAt |-> toIsoString(r.created_at)]
timelineReply(r) ==
  [self |-> [timeline |-> Rows(r.self.rows, "SubmissionTimelineData_timeline")],
   SubmissionTimelineData_timeline |-> mapTimelineEntry(r.TimelineItem)]
syncAirtableBody(q) ==
  One([creator_id |-> q.creatorId, force_relink |-> Boolean(q.forceRelink)])
mapAirtableState(r) ==
  LET mapped == r.AirtableMappedPayload IN
  [self |->
     [submissionId |-> r.self.submission_id, syncStatus |-> r.self.sync_status,
      airtableFormCompleted |-> Boolean(r.self.airtable_form_completed),
      airtablePayloadChecksum |-> OrElseNull(r.self.airtable_payload_checksum),
      airtableRecordId |-> OrElseNull(r.self.airtable_record_id),
      airtableRecordUrl |-> OrElseNull(r.self.airtable_record_url),
      lastSyncedAt |-> toIsoString(r.self.last_synced_at),
      lastErrorCode |-> OrElseNull(r.self.last_error_code),
      lastErrorDetail |-> OrElseNull(r.self.last_error_detail),
      canonicalRecordId |-> OrElseNull(r.self.canonical_record_id),
      mappedPayload |-> Part(r.self.mapped_payload, "SubmissionAirtableMappedPayload")],
   SubmissionAirtableMappedPayload |->
     [labelName |-> OrElseNull(mapped.label_name), packName |-> OrElseNull(mapped.pack_name),
      releaseMonth |-> OrElseNull(mapped.release_month), notes |-> OrElseNull(mapped.notes),
      tags |-> Items(mapped.tags)]]
transitionBody(q) ==
  One(ActorOf(q) ++ [request_id |-> q.requestId, to_state |-> q.toState,
                   reason |-> OrElseNull(q.reason),
                   expected_version |-> Coalesce(q.expectedVersion, Null),
                   metadata |-> OrEmpty(q.metadata)])
transitionReply(r) ==
  One([submission |-> OrEmpty(r.submission), transition |-> OrElseNull(r.transition),
       domainEvent |-> OrElseNull(r.domain_event), idempotent |-> Boolean(r.idempotent),
       orchestration |-> OrElseNull(r.orchestration)])

(***************************************************************************)
(* Intake and the upload.                                                  *)
(***************************************************************************)
mapIntakeSession(r) ==
  [intakeSessionId |-> r.intake_session_id, submissionId |-> r.submission_id,
   creatorId |-> r.creator_id, packName |-> r.pack_name,
   declaredTopLevelFolders |-> Items(r.declared_top_level_folders), status |-> r.status,
   manifestVersion |-> IntegerOr(r.manifest_version, Num(0)), metadata |-> OrEmpty(r.metadata),
   createdAt |-> toIsoString(r.created_at), updatedAt |-> toIsoString(r.updated_at)]
mapManifest(r) ==
  [IntakeManifestData |->
     [manifestVersion |-> r.ManifestSnapshot.manifest_version,
      locked |-> Boolean(r.ManifestSnapshot.locked),
      files |-> Rows(r.ManifestSnapshot.files, "IntakeManifestData_files"),
      summary |-> Object("IntakeManifestData_summary"),
      updatedAt |-> toIsoString(r.ManifestSnapshot.updated_at)],
   IntakeManifestData_files |->
     [relativePath |-> r.ManifestFileEntry.relative_path,
      sizeBytes |-> r.ManifestFileEntry.size_bytes, sha256 |-> r.ManifestFileEntry.sha256,
      mimeType |-> r.ManifestFileEntry.mime_type, category |-> r.ManifestFileEntry.category,
      requiredAsset |-> Boolean(r.ManifestFileEntry.required_asset)],
   IntakeManifestData_summary |->
     [totalFileCount |-> Or(r.ManifestSummary.total_file_count, Num(0)),
      totalBytes |-> Or(r.ManifestSummary.total_bytes, Num(0)),
      countsByCategory |-> OrEmpty(r.ManifestSummary.counts_by_category),
      requiredAudioZipPresent |-> Boolean(r.ManifestSummary.required_audio_zip_present)]]
mapStorageHandoff(r) ==
  [handoffId |-> r.handoff_id, submissionId |-> r.submission_id,
   intakeSessionId |-> r.intake_session_id, status |-> r.status, target |-> r.target,
   progressPercent |-> IntegerOr(r.progress_percent, Num(0)),
   uploadedBytes |-> IntegerOr(r.uploaded_bytes, Num(0)),
   totalBytes |-> IntegerOr(r.total_bytes, Num(0)),
   objectCount |-> IntegerOr(r.object_count, Num(0)),
   uploadedFiles |-> IntegerOr(r.uploaded_files, Num(0)),
   totalFiles |-> IntegerOr(r.total_files, Num(0)),
   checksumVerified |-> Boolean(r.checksum_verified), createdAt |-> toIsoString(r.created_at),
   updatedAt |-> toIsoString(r.updated_at), completedAt |-> toIsoString(r.completed_at),
   error |-> OrElseNull(r.error)]

startSessionBody(q) ==
  One([request_id |-> q.requestId, submission_id |-> q.submissionId,
       creator_id |-> q.creatorId, pack_name |-> q.packName,
       declared_top_level_folders |-> Or(q.declaredTopLevelFolders, EmptyArray),
       metadata |-> OrEmpty(q.metadata)])
startSessionReply(r) ==
  [self |-> [created |-> Boolean(r.self.created), idempotent |-> Boolean(r.self.idempotent),
             session |-> Object("IntakeSessionData"), event |-> OrElseNull(r.self.event)],
   IntakeSessionData |-> mapIntakeSession(r.IntakeSessionSnapshot)]
putManifestBody(q) ==
  LET file == q.IntakeManifestPutRequest_files IN
  [self |-> [request_id |-> q.self.requestId,
             expected_manifest_version |-> Coalesce(q.self.expectedManifestVersion, Null),
             lock_manifest |-> Boolean(q.self.lockManifest),
             files |-> Rows(q.self.files, "ManifestFileEntry")],
   ManifestFileEntry |->
     [relative_path |-> file.relativePath, size_bytes |-> file.sizeBytes,
      sha256 |-> file.sha256, mime_type |-> file.mimeType,
      category |-> Or(file.category, Str("t8")),
      required_asset |-> Boolean(file.requiredAsset)]]
putManifestReply(r) ==
  mapManifest(r) ++
  [self |-> [idempotent |-> Boolean(r.self.idempotent), session |-> Object("IntakeSessionData"),
             manifest |-> Object("IntakeManifestData"), event |-> OrElseNull(r.self.event)],
   IntakeSessionData |-> mapIntakeSession(r.IntakeSessionSnapshot)]
createHandoffBody(q) ==
  One(ActorOf(q) ++ [request_id |-> q.requestId, intake_session_id |-> q.intakeSessionId,
                   target |-> Str("temporary-object-storage")])
createHandoffReply(r) ==
  [self |-> [idempotent |-> Boolean(r.self.idempotent),
             handoff |-> Object("IntakeHandoffCreateData_handoff"),
             event |-> OrElseNull(r.self.event)],
   IntakeHandoffCreateData_handoff |-> mapStorageHandoff(r.StorageHandoffSnapshot)]
handoffStatusReply(r) ==
  [self |-> [handoff |-> Object("StorageHandoffStatusData_handoff")],
   StorageHandoffStatusData_handoff |-> mapStorageHandoff(r.StorageHandoffSnapshot)]
controlHandoffBody(q) ==
  One(ActorOf(q) ++ [request_id |-> q.requestId, action |-> q.action])
controlHandoffReply(r) ==
  [self |-> [handoff |-> Object("StorageHandoffControlData_handoff")],
   StorageHandoffControlData_handoff |-> mapStorageHandoff(r.StorageHandoffSnapshot)]
lockBody(q) == One(ActorOf(q) ++ [intake_session_id |-> OrElseNull(q.intakeSessionId)])
lockReply(r) ==
  One([submissionId |-> r.submission_id, intakeSessionId |-> r.intake_session_id,
       lockedCount |-> r.locked_count, lockedAt |-> toIsoString(r.locked_at)])

(***************************************************************************)
(* Which method answers which channel: the handlers of router.js that ask  *)
(* the service.  JSON leaves out a key that holds undefined.               *)
(***************************************************************************)
OnTheWire(body) ==
  [s \in DOMAIN body |->
     [f \in DOMAIN body[s] |-> IF body[s][f] = Undefined THEN Absent ELSE body[s][f]]]

AuthBody(c, q) ==
  CASE c = "AUTH_LOGIN" -> loginBody(q.self)
    [] c = "AUTH_REGISTER" -> registerBody(q.self)
    [] c = "AUTH_OTP_SEND" -> One([target |-> q.self.target, purpose |-> q.self.purpose])
    [] c = "AUTH_OTP_VERIFY" -> verifyOtpBody(q.self)
    [] c = "AUTH_FORGOT_PASSWORD" -> One([email |-> q.self.email])
    [] c = "AUTH_RESET_PASSWORD" -> resetPasswordBody(q.self)
    [] c = "QC_EVALUATE_PACK" -> evaluateBody(q)
    [] c = "QC_LIST_RULES" -> listRulesQuery(q.self)
    [] c = "ADMIN_QC_POLICY_UPDATE" -> updateActivePolicyBody(q)
    [] c = "NOTIFICATIONS_LIST" ->
         One(ActorOf(q.self) ++ [include_read |-> Boolean(q.self.includeRead)])
    [] c = "NOTIFICATIONS_MARK_READ" ->
         One(ActorOf(q.self) ++ [notification_ids |-> q.self.notificationIds])
    [] c = "NOTIFICATIONS_RETRY" ->
         One(ActorOf(q.self) ++ [notification_id |-> q.self.notificationId])
    [] c \in {"NOTIFICATIONS_MARK_ALL_READ", "ADMIN_QC_POLICY_GET", "REVIEW_SUBMISSION_GET",
              "ADMIN_INTEGRATIONS_HEALTH_LIST", "ADMIN_DROPBOX_READINESS_GET"} ->
         One(ActorOf(q.self))
AdminBody(c, q) ==
  CASE c = "REVIEW_QUEUE_LIST" -> reviewQueueQuery(q)
    [] c \in {"REVIEW_APPROVE", "REVIEW_REOPEN"} -> decideReviewBody(q)
    [] c = "REVIEW_REJECT" -> rejectReviewBody(q)
    [] c = "REVIEW_TAG_ADD" -> addTagBody(q)
    [] c = "REVIEW_FLAG_ADD" -> addFlagBody(q)
    [] c = "ADMIN_CONFIGS_LIST" -> listConfigsQuery(q)
    [] c = "ADMIN_CONFIGS_DRAFT" -> draftConfigBody(q)
    [] c \in {"ADMIN_CONFIGS_PUBLISH", "ADMIN_CONFIGS_ROLLBACK"} -> decideConfigBody(q)
    [] c = "ADMIN_INTEGRATIONS_TEST" -> testIntegrationBody(q)
    [] c = "ADMIN_INTEGRATIONS_ROTATE" -> rotateIntegrationBody(q)
    [] c = "ADMIN_INTEGRATIONS_AIRTABLE_CONFIGURE" -> configureAirtableBody(q)
    [] c = "ADMIN_INTEGRATIONS_SMTP_CONFIGURE" -> configureSmtpBody(q)
    [] c = "ADMIN_INTEGRATIONS_DROPBOX_TOKENS_UPDATE" -> updateDropboxTokensBody(q)
    [] c = "ADMIN_INTEGRATIONS_DROPBOX_APP_CONFIGURE" -> configureDropboxAppBody(q)
    [] c = "ADMIN_DROPBOX_OAUTH_START" -> startOauthBody(q)
    [] c = "ADMIN_DROPBOX_OAUTH_COMPLETE" -> completeOauthBody(q)
    [] c = "ADMIN_OPS_HISTORY_LIST" -> opsHistoryQuery(q)
    [] c = "AUDIT_LIST_SECURITY_EVENTS" -> One([limit |-> q.limit])
OperationsBody(c, q) ==
  CASE c = "JOBS_ENQUEUE" -> enqueueJobBody(q.self)
    [] c = "JOBS_REPLAY" -> replayJobBody(q.self)
    [] c = "SCHEDULING_RESOLVE" -> resolveScheduleBody(q)
    [] c = "SCHEDULING_OVERRIDE" -> overrideScheduleBody(q.self)
    [] c = "SCHEDULING_TRIGGER_RELEASE" -> triggerReleaseBody(q.self)
    [] c = "OBSERVABILITY_INCIDENTS_ANNOTATE" -> annotateIncidentBody(q.self)
    [] c = "CREATOR_PROFILE_GET" -> profileQuery(q.self)
    [] c = "CREATOR_PROFILE_PUT" -> putProfileBody(q.self)
    [] c = "SUBMISSION_DRAFT" -> draftBody(q.self)
    [] c = "SUBMISSION_METADATA" -> metadataBody(q.self)
    [] c \in {"SUBMISSION_LIST", "SUBMISSION_TIMELINE"} -> ownerQuery(q.self)
    [] c = "SUBMISSION_AIRTABLE_SYNC" -> syncAirtableBody(q.self)
    [] c = "SUBMISSION_AIRTABLE_RESET" -> One([creator_id |-> q.self.creatorId])
    [] c = "INTAKE_SESSION_START" -> startSessionBody(q.self)
    [] c = "INTAKE_MANIFEST_PUT" -> putManifestBody(q)
    [] c = "INTAKE_HANDOFF_CREATE" -> createHandoffBody(q.self)
    [] c = "INTAKE_HANDOFF_CONTROL" -> controlHandoffBody(q.self)
    [] c = "INTAKE_LOCK" -> lockBody(q.self)
    [] c = "SUBMISSION_TRANSITION" -> transitionBody(q.self)

AuthReply(c, r) ==
  CASE c \in {"AUTH_LOGIN", "AUTH_REGISTER"} -> mapTokenBundle(r)
    [] c \in {"AUTH_OTP_SEND", "AUTH_FORGOT_PASSWORD"} -> mapOtpSend(r.self)
    [] c = "AUTH_OTP_VERIFY" -> mapOtpVerify(r.self)
    [] c = "AUTH_RESET_PASSWORD" -> mapRevocation(r.self)
    [] c = "QC_EVALUATE_PACK" -> mapEvaluationResult(r)
    [] c = "QC_LIST_RULES" ->
         PolicyObjects(r) ++
         [self |-> [rules |-> Rows(r.self.rules, "QcRuleDefinition"),
                    policy |-> Object("QcPolicySnapshot")],
          QcRuleDefinition |-> mapRuleDefinition(r.QcRuleDefinition)]
    [] c = "QC_RESULTS_GET" -> ResultsReply(r)
    [] c = "ADMIN_QC_POLICY_GET" ->
         PolicyObjects(r) ++ One([policy |-> Object("QcPolicySnapshot")])
    [] c = "ADMIN_QC_POLICY_UPDATE" -> updateActivePolicyReply(r)
    [] c = "NOTIFICATIONS_LIST" ->
         [self |-> [notifications |-> Rows(r.self.notifications, "NotificationItem")],
          NotificationItem |-> mapNotification(r.NotificationItem)]
    [] c \in {"NOTIFICATIONS_MARK_READ", "NOTIFICATIONS_MARK_ALL_READ"} ->
         One([updatedCount |-> r.self.updated_count])
    [] c = "NOTIFICATIONS_RETRY" ->
         [self |-> [notification |-> Object("NotificationItem")],
          NotificationItem |-> mapNotification(r.NotificationItem)]
AdminReply(c, r) ==
  CASE c = "REVIEW_QUEUE_LIST" -> reviewQueueReply(r)
    [] c = "REVIEW_SUBMISSION_GET" -> mapReviewDetail(r)
    [] c \in {"REVIEW_APPROVE", "REVIEW_REJECT", "REVIEW_REOPEN"} -> decisionReply(r.self)
    [] c = "REVIEW_TAG_ADD" -> addTagReply(r.self)
    [] c = "REVIEW_FLAG_ADD" -> addFlagReply(r)
    [] c = "ADMIN_CONFIGS_LIST" -> configsReply(r)
    [] c \in {"ADMIN_CONFIGS_DRAFT", "ADMIN_CONFIGS_PUBLISH", "ADMIN_CONFIGS_ROLLBACK"} ->
         configReply(r)
    [] c = "ADMIN_INTEGRATIONS_HEALTH_LIST" -> healthReply(r)
    [] c = "ADMIN_INTEGRATIONS_TEST" -> One(mapIntegrationHealth(r.self))
    [] c = "ADMIN_INTEGRATIONS_ROTATE" -> rotateIntegrationReply(r.self)
    [] c \in {"ADMIN_INTEGRATIONS_AIRTABLE_CONFIGURE", "ADMIN_INTEGRATIONS_SMTP_CONFIGURE",
              "ADMIN_INTEGRATIONS_DROPBOX_TOKENS_UPDATE",
              "ADMIN_INTEGRATIONS_DROPBOX_APP_CONFIGURE"} -> configuredReply(r.self)
    [] c = "ADMIN_DROPBOX_READINESS_GET" -> readinessReply(r.self)
    [] c = "ADMIN_DROPBOX_OAUTH_START" -> startOauthReply(r.self)
    [] c = "ADMIN_DROPBOX_OAUTH_COMPLETE" -> completeOauthReply(r.self)
    [] c = "ADMIN_OPS_HISTORY_LIST" -> opsHistoryReply(r)
OperationsReply(c, r) ==
  CASE c = "JOBS_ENQUEUE" -> enqueueJobReply(r)
    [] c = "JOBS_GET" -> getJobReply(r)
    [] c = "JOBS_REPLAY" -> replayJobReply(r)
    [] c = "SCHEDULING_RESOLVE" -> resolveScheduleReply(r)
    [] c = "SCHEDULING_OVERRIDE" -> overrideScheduleReply(r)
    [] c = "SCHEDULING_TRIGGER_RELEASE" -> triggerReleaseReply(r)
    [] c = "OBSERVABILITY_METRICS_GET" -> metricsReply(r.self)
    [] c = "OBSERVABILITY_INCIDENTS_ANNOTATE" -> annotateIncidentReply(r)
    [] c \in {"CREATOR_PROFILE_GET", "CREATOR_PROFILE_PUT"} -> profileReply(r.self)
    [] c \in {"SUBMISSION_DRAFT", "SUBMISSION_METADATA"} -> draftReply(r.self)
    [] c = "SUBMISSION_LIST" -> submissionsReply(r)
    [] c = "SUBMISSION_TIMELINE" -> timelineReply(r)
    [] c \in {"SUBMISSION_AIRTABLE_SYNC", "SUBMISSION_AIRTABLE_RESET"} -> mapAirtableState(r)
    [] c = "INTAKE_SESSION_START" -> startSessionReply(r)
    [] c = "INTAKE_MANIFEST_PUT" -> putManifestReply(r)
    [] c = "INTAKE_HANDOFF_CREATE" -> createHandoffReply(r)
    [] c = "INTAKE_HANDOFF_STATUS_GET" -> handoffStatusReply(r)
    [] c = "INTAKE_HANDOFF_CONTROL" -> controlHandoffReply(r)
    [] c = "INTAKE_LOCK" -> lockReply(r.self)
    [] c = "SUBMISSION_TRANSITION" -> transitionReply(r.self)

\* The channels each client answers for.
AuthChannels ==
  {"AUTH_LOGIN", "AUTH_REGISTER", "AUTH_OTP_SEND", "AUTH_OTP_VERIFY", "AUTH_FORGOT_PASSWORD",
   "AUTH_RESET_PASSWORD"}
QcChannels ==
  {"QC_EVALUATE_PACK", "QC_LIST_RULES", "QC_RESULTS_GET", "ADMIN_QC_POLICY_GET",
   "ADMIN_QC_POLICY_UPDATE"}
NotificationChannels ==
  {"NOTIFICATIONS_LIST", "NOTIFICATIONS_MARK_READ", "NOTIFICATIONS_MARK_ALL_READ",
   "NOTIFICATIONS_RETRY"}
\* Administration and review methods of the operations client; it has all the others too.
AccountChannels == AuthChannels \cup QcChannels \cup NotificationChannels
DirectoryChannels == {"REVIEW_SUBMISSION_GET", "ADMIN_INTEGRATIONS_HEALTH_LIST",
                      "ADMIN_DROPBOX_READINESS_GET"}
AdminChannels ==
  {"REVIEW_QUEUE_LIST", "REVIEW_APPROVE", "REVIEW_REJECT", "REVIEW_TAG_ADD", "REVIEW_FLAG_ADD",
   "REVIEW_REOPEN", "ADMIN_CONFIGS_LIST", "ADMIN_CONFIGS_DRAFT", "ADMIN_CONFIGS_PUBLISH",
   "ADMIN_CONFIGS_ROLLBACK", "ADMIN_INTEGRATIONS_TEST", "ADMIN_INTEGRATIONS_ROTATE",
   "ADMIN_INTEGRATIONS_AIRTABLE_CONFIGURE", "ADMIN_INTEGRATIONS_SMTP_CONFIGURE",
   "ADMIN_INTEGRATIONS_DROPBOX_TOKENS_UPDATE", "ADMIN_INTEGRATIONS_DROPBOX_APP_CONFIGURE",
   "ADMIN_DROPBOX_OAUTH_START", "ADMIN_DROPBOX_OAUTH_COMPLETE", "ADMIN_OPS_HISTORY_LIST"}
AuditChannels == {"AUDIT_LIST_SECURITY_EVENTS"}

Body(c, q) ==
  OnTheWire(IF c \in AccountChannels \cup DirectoryChannels THEN AuthBody(c, q)
            ELSE IF c \in AdminChannels \cup AuditChannels THEN AdminBody(c, q.self)
            ELSE OperationsBody(c, q))
Data(c, r) ==
  IF c \in AccountChannels THEN AuthReply(c, r)
  ELSE IF c \in AdminChannels \cup DirectoryChannels THEN AdminReply(c, r)
  ELSE OperationsReply(c, r)

\* An answer that is not a success: an error envelope, FastAPI's list of details, or anything
\* else.  An unknown code becomes INTERNAL_ERROR.
throwMappedError(answer) ==
  CASE answer.kind = "envelope" ->
         IF answer.code \in AUTH_ERROR_CODES THEN answer.code ELSE "INTERNAL_ERROR"
    [] answer.kind = "details" -> "VALIDATION_ERROR"
    [] answer.kind = "other" -> "INTERNAL_ERROR"
=============================================================================
