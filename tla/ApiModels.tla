------------------------------ MODULE ApiModels ------------------------------
(***************************************************************************)
(* What the HTTP service lets in and puts out: the pydantic models of      *)
(* src/apps/api/app/features/*/contracts.py, one per operator under its    *)
(* name there, and the query parameters of the listing routes.  A request  *)
(* model accepts no field it does not list (extra="forbid").  A reply has  *)
(* every field of its model; its texts are identifiers, names and messages *)
(* the service made or stored, never blank.                                *)
(***************************************************************************)
EXTENDS IpcSchema

Timezone == {Str("utc")} \* the names zoneinfo knows

(***************************************************************************)
(* Enumerations and request models.  A field with a default is Own: its    *)
(* key may be missing.                                                     *)
(***************************************************************************)
ActorRole == Enum({"creator", "reviewer", "admin", "system"})
DropboxReadinessStatus == Enum({"READY", "NOT_CONFIGURED", "INVALID_TOKEN"})
FailureClass == Enum({"transient", "terminal"})
IncidentFailureClass ==
  Enum({"integration_failure", "retry_exhaustion", "scheduling_terminal_failure"})
IncidentRemediationStatus == Enum({"open", "acknowledged", "resolved"})
IncidentSeverity == Enum({"info", "warning", "critical"})
IntakeSessionStatus == Enum({"initiated", "manifest_ready", "transfer_completed"})
IntegrationRecommendedAction ==
  Enum({"none", "run_connection_test", "rotate_credentials",
         "verify_provider_configuration"})
IntegrationStatusClass ==
  Enum({"healthy", "degraded", "unhealthy", "unconfigured", "unavailable"})
JobRunStatus == Enum({"queued", "running", "retrying", "succeeded", "failed", "dead_lettered"})
JobStatusClass == Enum({"ready", "running", "pending_retry", "completed", "terminal_failure"})
NotificationActorRole == Enum({"creator", "reviewer", "admin"})
NotificationSeverity == Enum({"info", "warning", "error"})
NotificationStatus == Enum({"pending", "sent", "failed"})
NotificationType ==
  Enum({"qc_failed", "submitted", "under_review", "approved", "rejected", "scheduled",
         "released"})
OtpPurpose == Enum({"register", "forgot-password"})
QcActorRole == Enum({"creator", "reviewer", "admin", "system"})
QcFindingStatus == Enum({"failed", "warning"})
QcReportStatus == Enum({"passed", "failed"})
QcSeverity == Enum({"blocking", "warning"})
RecommendedAction == Enum({"none", "wait_for_retry", "replay_safe", "inspect_and_fix"})
RejectReasonCode == Enum({"QUALITY_ISSUES", "METADATA_MISSING", "POLICY_VIOLATION", "OTHER"})
ReviewActorRole == Enum({"creator", "reviewer", "admin"})
ScheduleSource == Enum({"approval_event", "manual_override"})
StorageHandoffControlAction == Enum({"pause", "resume", "cancel"})
StorageHandoffStatus ==
  Enum({"queued", "in_progress", "paused", "completed", "canceled", "failed"})
SubmissionState ==
  Enum({"draft", "qc_failed", "uploading", "under_review", "approved", "rejected",
         "scheduled", "released"})

LoginRequest == [email |-> Text(3), password |-> Text(1), device_id |-> Own(OrNull(Text(0)))]
RegisterRequest ==
  [email |-> Text(3), password |-> Text(12), otp_verification_token |-> Text(1),
   roles |-> Own(OrNull(Roles)), device_id |-> Own(OrNull(Text(0)))]
OtpSendRequest == [target |-> Text(3), purpose |-> OtpPurpose]
OtpVerifyRequest ==
  [challenge_id |-> Text(1), purpose |-> OtpPurpose, otp_code |-> TextUpTo(4, 8)]
ForgotPasswordRequest == [email |-> Text(3)]
ResetPasswordRequest ==
  [email |-> Text(3), otp_verification_token |-> Text(1), new_password |-> Text(12)]

CreatorProfilePayload ==
  [actor_id |-> Text(1), user_id |-> Own(Text(1)), display_name |-> Own(OrNull(Text(0))),
   label_name |-> Own(OrNull(Text(0))), defaults_json |-> Own(AnyObject)]
DraftCreatePayload ==
  [submission_id |-> Text(1), creator_id |-> Text(1), pack_name |-> Own(OrNull(Text(0))),
   label_name |-> Own(OrNull(Text(0))), release_month |-> Own(OrNull(Month)),
   notes |-> Own(OrNull(Text(0))), tags |-> Own(Strings), airtable_form_completed |-> Own(Bool),
   airtable_payload_checksum |-> Own(OrNull(Text(0))), autosave_json |-> Own(OrNull(AnyObject))]
MetadataUpdatePayload ==
  [creator_id |-> Text(1), pack_name |-> Own(OrNull(Text(0))),
   label_name |-> Own(OrNull(Text(0))), release_month |-> Own(OrNull(Month)),
   notes |-> Own(OrNull(Text(0))), tags |-> Own(OrNull(Strings)),
   airtable_form_completed |-> Own(OrNull(Bool)),
   airtable_payload_checksum |-> Own(OrNull(Text(0))), autosave_json |-> Own(OrNull(AnyObject))]
AirtableSyncPayload == [creator_id |-> Text(1), force_relink |-> Own(Bool)]
AirtableResetPayload == [creator_id |-> Text(1)]

ListNotificationsRequest ==
  [actor_id |-> Text(1), actor_role |-> NotificationActorRole, include_read |-> Own(Bool)]
MarkNotificationsReadRequest ==
  [actor_id |-> Text(1), actor_role |-> NotificationActorRole,
   notification_ids |-> NonEmpty(Strings)]
MarkAllNotificationsReadRequest == [actor_id |-> Text(1), actor_role |-> NotificationActorRole]
RetryNotificationRequest ==
  [actor_id |-> Text(1), actor_role |-> NotificationActorRole, notification_id |-> Text(1)]

TransitionRequest ==
  [request_id |-> Text(1), to_state |-> SubmissionState, actor_id |-> Text(1),
   actor_role |-> ActorRole, reason |-> Own(OrNull(Text(0))),
   expected_version |-> Own(OrNull(IntFrom(0))), metadata |-> Own(AnyObject)]
SchedulingTriggerEvent ==
  [event_name |-> Enum({"submission.approved.scheduling.v1"}), schema_version |-> IntIn(1, 1),
   submission_id |-> Text(1), preferred_release_month |-> Month, idempotency_key |-> Text(1),
   approved_at |-> Iso, triggered_by |-> Text(1), correlation_id |-> Text(1)]

StartIntakeSessionRequest ==
  [request_id |-> Text(1), submission_id |-> Text(1), creator_id |-> Text(1),
   pack_name |-> Text(1), declared_top_level_folders |-> Own(Strings),
   metadata |-> Own(AnyObject)]
ManifestFileEntry ==
  [relative_path |-> Trimmed, size_bytes |-> IntFrom(1), sha256 |-> Sha256,
   mime_type |-> Text(1), category |-> Own(Text(1)), required_asset |-> Own(Bool)]
UpsertIntakeManifestRequest ==
  [request_id |-> Text(1), expected_manifest_version |-> Own(OrNull(IntFrom(0))),
   files |-> NonEmpty(ArrayOf("ManifestFileEntry")), lock_manifest |-> Own(Bool)]
CreateStorageHandoffRequest ==
  [request_id |-> Text(1), intake_session_id |-> Text(1), actor_id |-> Text(1),
   actor_role |-> ActorRole, target |-> Own(Enum({"temporary-object-storage"}))]
StorageHandoffControlRequest ==
  [request_id |-> Text(1), actor_id |-> Text(1), actor_role |-> ActorRole,
   action |-> StorageHandoffControlAction]
LockSubmissionFilesRequest ==
  [actor_id |-> Text(1), actor_role |-> ActorRole, intake_session_id |-> Own(OrNull(Text(0)))]

EnqueueJobRequest ==
  [request_id |-> Text(1), job_type |-> Text(1), idempotency_key |-> Text(1),
   payload_json |-> Own(AnyObject), max_attempts |-> Own(IntIn(1, 10)),
   scheduled_for |-> Own(OrNull(Iso)), correlation_id |-> Own(OrNull(Text(1)))]
ReplayJobRequest ==
  [request_id |-> Text(1), actor_id |-> Text(1), reason |-> Trimmed, confirmation |-> Trimmed]
ScheduleResolveRequest ==
  [request_id |-> Text(1), scheduling_event |-> {Object("SchedulingTriggerEvent")},
   timezone |-> Own(Timezone)]
ScheduleOverrideRequest ==
  [request_id |-> Text(1), new_release_at |-> Iso, reason |-> Trimmed, actor_id |-> Text(1),
   actor_role |-> Enum({"reviewer", "admin"}), timezone |-> Own(Timezone)]
ReleaseTriggerRequest ==
  [request_id |-> Text(1), actor_id |-> Text(1), actor_role |-> Enum({"system", "admin"}),
   force |-> Own(Bool), job_run_id |-> Own(OrNull(Text(0)))]
IncidentAnnotationRequest ==
  [source |-> Trimmed, severity |-> IncidentSeverity, note |-> Trimmed,
   linked_entity |-> Trimmed, failure_class |-> Own(OrNull(IncidentFailureClass)),
   correlation_id |-> Own(OrNull(Trimmed)),
   remediation_status |-> Own(IncidentRemediationStatus),
   remediation_owner |-> Own(OrNull(Trimmed)), remediation_link |-> Own(OrNull(Trimmed)),
   audit_event_id |-> Own(OrNull(Trimmed)), request_id |-> Own(OrNull(Trimmed)),
   idempotency_key |-> Own(OrNull(Trimmed))]

QcPolicyRuleBinding ==
  [rule_id |-> Text(1), enabled |-> Own(Bool), blocking_override |-> Own(OrNull(Bool)),
   params |-> Own(AnyObject)]
QcPolicyUpdate ==
  [policy_id |-> Text(1), rule_set_version |-> Own(OrNull(Text(0))),
   rules |-> NonEmpty(ArrayOf("QcPolicyRuleBinding")), disabled_rule_ids |-> Own(Strings)]
QcAudioZipInput == [filename |-> Text(1), size_bytes |-> IntFrom(0)]
QcPackInput ==
  [pack_name |-> Text(1), local_pack_path |-> Own(OrNull(Text(0))),
   declared_top_level_folders |-> Own(Strings),
   audio_zip |-> Own(OrNull({Object("QcAudioZipInput")})), sample_count |-> Own(IntFrom(0)),
   contains_unsupported_name_tokens |-> Own(Bool)]
QcEvaluationRequest ==
  [request_id |-> Text(1), submission_id |-> Text(1), actor_id |-> Text(1),
   actor_role |-> QcActorRole, pack |-> {Object("QcPackInput")},
   rule_set_version |-> Own(OrNull(Text(0)))]
UpdateActiveQcPolicyRequest ==
  [request_id |-> Text(1), actor_id |-> Text(1), actor_role |-> QcActorRole, reason |-> Trimmed,
   expected_policy_version |-> Own(OrNull(IntFrom(1))), policy |-> {Object("QcPolicyUpdate")}]

ReviewQueueRequest ==
  [actor_id |-> Text(1), actor_role |-> ReviewActorRole, state |-> Own(OrNull(Text(0))),
   tag |-> Own(OrNull(Text(0))), flag |-> Own(OrNull(Text(0)))]
ReviewSubmissionRequest == [actor_id |-> Text(1), actor_role |-> ReviewActorRole]
ReviewActionBaseRequest ==
  [actor_id |-> Text(1), actor_role |-> ReviewActorRole, request_id |-> Own(OrNull(Text(0))),
   expected_version |-> Own(OrNull(IntFrom(0))), notes |-> Own(OrNull(Text(0)))]
RejectSubmissionRequest ==
  ReviewActionBaseRequest
    ++ [reason_code |-> Own(OrNull(RejectReasonCode))]
AddReviewTagRequest == [actor_id |-> Text(1), actor_role |-> ReviewActorRole, tag |-> Trimmed]
AddReviewFlagRequest ==
  [actor_id |-> Text(1), actor_role |-> ReviewActorRole, flag_type |-> Trimmed,
   severity |-> Trimmed]

AdminActorRequest == [actor_id |-> Text(1), actor_role |-> QcActorRole]
ListAdminConfigsRequest == AdminActorRequest ++ [include_drafts |-> Own(Bool)]
CreateAdminConfigDraftRequest ==
  AdminActorRequest
    ++ [config_type |-> Trimmed, payload_json |-> Own(AnyObject)]
PublishAdminConfigRequest == AdminActorRequest ++ [reason |-> Trimmed, confirmation |-> Trimmed]
RollbackAdminConfigRequest == AdminActorRequest ++ [reason |-> Trimmed, confirmation |-> Trimmed]
TestIntegrationRequest == AdminActorRequest ++ [key_ref |-> Own(OrNull(Text(0)))]
RotateIntegrationRequest ==
  AdminActorRequest
    ++ [reason |-> Trimmed, confirmation |-> Trimmed, key_ref |-> Own(OrNull(Text(0)))]
ConfigureAirtableIntegrationRequest ==
  AdminActorRequest
    ++ [api_key |-> Trimmed, submissions_table |-> Own(OrNull(Text(0))),
        completion_view |-> Own(OrNull(Text(0)))]
ConfigureSmtpIntegrationRequest ==
  AdminActorRequest
    ++ [host |-> Trimmed, port |-> IntIn(1, 65535), username |-> Own(OrNull(Text(0))),
        password |-> Own(OrNull(Text(0))), from_email |-> Own(OrNull(Text(0)))]
ConfigureDropboxTokensRequest ==
  AdminActorRequest
    ++ [refresh_token |-> Trimmed, access_token |-> Own(OrNull(Text(0)))]
ConfigureDropboxAppRequest == AdminActorRequest ++ [app_key |-> Trimmed, app_secret |-> Trimmed]
DropboxOauthStartRequest == AdminActorRequest ++ [app_key |-> Own(OrNull(Text(0)))]
DropboxOauthCompleteRequest ==
  AdminActorRequest
    ++ [auth_code |-> Trimmed, app_key |-> Own(OrNull(Text(0))),
        app_secret |-> Own(OrNull(Text(0))), redirect_uri |-> Own(OrNull(Text(0)))]
ListAdminOpsHistoryRequest == AdminActorRequest ++ [limit |-> Own(IntIn(1, 100))]

\* Query parameters of the routes without a body.
ProfileQuery == [user_id |-> Own(Text(1)), actor_id |-> Own(Text(0))]
OwnerQuery == [creator_id |-> Own(Text(1)), actor_id |-> Own(Text(0))]
RulesQuery == [include_disabled |-> Own(Bool), policy_id |-> Own(Text(0))]
ReviewQueueQuery ==
  [actor_id |-> Text(1), actor_role |-> ReviewActorRole, state |-> Own(Text(0)),
   tag |-> Own(Text(0)), flag |-> Own(Text(0))]
NotificationsQuery ==
  [actor_id |-> Text(1), actor_role |-> Text(1), include_read |-> Own(Bool)]
AuditQuery == [limit |-> Own(IntIn(1, 500))]

(***************************************************************************)
(* Reply models.                                                           *)
(***************************************************************************)
UserResponse ==
  [id |-> Trimmed, email |-> Text(3), roles |-> NonEmpty(Roles), permissions |-> Texts,
   status |-> Trimmed, created_at |-> Iso, updated_at |-> Iso]
TokenBundleResponse ==
  [access_token |-> Trimmed, access_token_expires_at |-> Iso, refresh_token |-> Trimmed,
   refresh_token_expires_at |-> Iso, user |-> {Object("UserResponse")}]
OtpSendResponse ==
  [challenge_id |-> OrNull(Trimmed), expires_at |-> OrNull(Iso), cooldown_seconds |-> IntFrom(0)]
OtpVerifyResponse == [otp_verification_token |-> Trimmed, expires_at |-> Iso]
RevocationResponse == [revoked_session_count |-> IntFrom(0)]

CreatorProfileResponse ==
  [user_id |-> Trimmed, display_name |-> OrNull(Trimmed), label_name |-> OrNull(Trimmed),
   defaults_json |-> {Object("any")}, updated_at |-> OrNull(Iso)]
SubmissionListItem ==
  [submission_id |-> Trimmed, creator_id |-> Trimmed, current_state |-> Trimmed,
   version |-> IntFrom(0), pack_name |-> OrNull(Trimmed), label_name |-> OrNull(Trimmed),
   release_month |-> OrNull(Trimmed), notes |-> OrNull(Trimmed), tags |-> Texts,
   airtable_form_completed |-> Bool, airtable_payload_checksum |-> OrNull(Trimmed),
   airtable_sync_status |-> OrNull(Trimmed), airtable_record_id |-> OrNull(Trimmed),
   airtable_record_url |-> OrNull(Trimmed), airtable_last_synced_at |-> OrNull(Iso),
   airtable_last_error_code |-> OrNull(Trimmed), airtable_last_error_detail |-> OrNull(Trimmed),
   created_at |-> Iso, updated_at |-> Iso, draft_last_saved_at |-> OrNull(Iso),
   upload_handoff_id |-> OrNull(Trimmed), upload_status |-> OrNull(Trimmed),
   upload_progress_percent |-> OrNull(IntIn(0, 100)), upload_uploaded_bytes |-> OrNull(IntFrom(0)),
   upload_total_bytes |-> OrNull(IntFrom(0)), upload_error |-> OrNull(Trimmed),
   upload_updated_at |-> OrNull(Iso), upload_manifest_version |-> OrNull(IntFrom(0))]
TimelineItem ==
  [transition_id |-> Trimmed, from_state |-> OrNull(Trimmed), to_state |-> Trimmed,
   actor_id |-> OrNull(Trimmed), actor_role |-> OrNull(Trimmed), reason |-> OrNull(Trimmed),
   review_decision |-> OrNull(Trimmed), review_reason_code |-> OrNull(Trimmed),
   review_notes |-> OrNull(Trimmed), request_id |-> OrNull(Trimmed), created_at |-> Iso]
AirtableMappedPayload ==
  [label_name |-> OrNull(Trimmed), pack_name |-> OrNull(Trimmed),
   release_month |-> OrNull(Trimmed), notes |-> OrNull(Trimmed), tags |-> Texts]
AirtableLinkStateResponse ==
  [submission_id |-> Trimmed, sync_status |-> Trimmed, airtable_form_completed |-> Bool,
   airtable_payload_checksum |-> OrNull(Trimmed), airtable_record_id |-> OrNull(Trimmed),
   airtable_record_url |-> OrNull(Trimmed), last_synced_at |-> OrNull(Iso),
   last_error_code |-> OrNull(Trimmed), last_error_detail |-> OrNull(Trimmed),
   canonical_record_id |-> OrNull(Trimmed),
   mapped_payload |-> OrNull({Object("AirtableMappedPayload")})]

NotificationItem ==
  [notification_id |-> Trimmed, type |-> NotificationType, severity |-> NotificationSeverity,
   status |-> NotificationStatus, channel |-> Enum({"in_app", "email"}), title |-> Trimmed,
   message |-> Trimmed, submission_id |-> OrNull(Trimmed), read |-> Bool,
   read_at |-> OrNull(Iso), attempts |-> IntFrom(0), max_attempts |-> IntFrom(1),
   created_at |-> Iso, updated_at |-> Iso]

IntakeSessionSnapshot ==
  [intake_session_id |-> Trimmed, submission_id |-> Trimmed, creator_id |-> Trimmed,
   pack_name |-> Trimmed, declared_top_level_folders |-> Texts, status |-> IntakeSessionStatus,
   manifest_version |-> IntFrom(0), metadata |-> {Object("any")}, created_at |-> Iso,
   updated_at |-> Iso]
ManifestSummary ==
  [total_file_count |-> IntFrom(0), total_bytes |-> IntFrom(0),
   counts_by_category |-> {Object("counts")}, required_audio_zip_present |-> Bool]
ManifestSnapshot ==
  [manifest_version |-> IntFrom(0), locked |-> Bool, files |-> ArrayOf("ManifestFileEntry"),
   summary |-> {Object("ManifestSummary")}, updated_at |-> Iso]
StorageHandoffSnapshot ==
  [handoff_id |-> Trimmed, submission_id |-> Trimmed, intake_session_id |-> Trimmed,
   status |-> StorageHandoffStatus, target |-> Trimmed, progress_percent |-> IntIn(0, 100),
   uploaded_bytes |-> IntFrom(0), total_bytes |-> IntFrom(0), object_count |-> IntFrom(0),
   uploaded_files |-> IntFrom(0), total_files |-> IntFrom(0),
   completed_object_count |-> IntFrom(0), checksum_verified |-> Bool, created_at |-> Iso,
   updated_at |-> Iso, completed_at |-> OrNull(Iso), error |-> OrNull(Trimmed)]
LockSubmissionFilesResult ==
  [submission_id |-> Trimmed, intake_session_id |-> Trimmed, locked_count |-> IntFrom(0),
   locked_at |-> Iso]

JobRunSnapshot ==
  [id |-> Trimmed, job_type |-> Trimmed, idempotency_key |-> Trimmed, status |-> JobRunStatus,
   attempt_count |-> IntFrom(0), max_attempts |-> IntFrom(1), payload_json |-> {Object("any")},
   correlation_id |-> OrNull(Trimmed), created_at |-> Iso, started_at |-> OrNull(Iso),
   ended_at |-> OrNull(Iso), scheduled_for |-> OrNull(Iso), next_retry_at |-> OrNull(Iso),
   last_error |-> OrNull(Trimmed), status_class |-> JobStatusClass,
   failure_class |-> OrNull(FailureClass), recommended_action |-> RecommendedAction]
DeadLetterJobSnapshot ==
  [id |-> Trimmed, job_run_id |-> Trimmed, payload_json |-> {Object("any")},
   failure_reason |-> Trimmed, created_at |-> Iso, replayed_at |-> OrNull(Iso),
   status_class |-> JobStatusClass, failure_class |-> FailureClass,
   recommended_action |-> RecommendedAction]
ReleaseScheduleSnapshot ==
  [submission_id |-> Trimmed, preferred_month |-> Month, planned_release_at |-> Iso,
   timezone |-> Timezone, source |-> ScheduleSource, updated_by |-> Trimmed, updated_at |-> Iso,
   release_triggered_at |-> OrNull(Iso), version |-> IntFrom(1)]
ScheduleOverrideSnapshot ==
  [id |-> Trimmed, submission_id |-> Trimmed, old_release_at |-> Iso, new_release_at |-> Iso,
   reason |-> Trimmed, actor_id |-> Trimmed, created_at |-> Iso]
IncidentAnnotationSnapshot ==
  [id |-> Trimmed, source |-> Trimmed, severity |-> IncidentSeverity, note |-> Trimmed,
   linked_entity |-> Trimmed, failure_class |-> OrNull(IncidentFailureClass),
   correlation_id |-> OrNull(Trimmed), remediation_status |-> IncidentRemediationStatus,
   remediation_owner |-> OrNull(Trimmed), remediation_link |-> OrNull(Trimmed),
   audit_event_id |-> OrNull(Trimmed), created_at |-> Iso]

QcRuleDefinition ==
  [rule_id |-> Trimmed, title |-> Trimmed, description |-> Trimmed, severity |-> QcSeverity,
   blocking |-> Bool, category |-> Trimmed, remediation |-> Trimmed, enabled |-> Bool]
QcPolicySnapshot ==
  [policy_id |-> Trimmed, policy_version |-> IntFrom(1), rule_set_version |-> Trimmed,
   rules |-> ArrayOf("QcPolicyRuleBinding"), updated_by |-> Trimmed, updated_at |-> Iso,
   reason |-> Trimmed]
QcFinding ==
  [finding_id |-> Trimmed, rule_id |-> Trimmed, severity |-> QcSeverity, blocking |-> Bool,
   status |-> QcFindingStatus, message |-> Trimmed, remediation |-> Trimmed,
   context |-> {Object("any"), Object("labels")}]
QcReportSummary ==
  [blocking_failures |-> IntFrom(0), warnings |-> IntFrom(0),
   evaluated_rule_count |-> IntFrom(0)]
QcReport ==
  [report_id |-> Trimmed, submission_id |-> Trimmed, status |-> QcReportStatus,
   summary |-> {Object("QcReportSummary")}, findings |-> ArrayOf("QcFinding"),
   generated_at |-> Iso, rule_set_version |-> Trimmed, policy_version |-> IntFrom(1)]
QcEvaluationResult ==
  [report |-> {Object("QcReport")}, idempotent |-> Bool, applied_policy_id |-> Trimmed]
QcRunResult ==
  [run_id |-> OrNull(Trimmed), submission_id |-> OrNull(Trimmed),
   status |-> QcReportStatus \cup Enum({"not_run"}), started_at |-> OrNull(Iso),
   completed_at |-> OrNull(Iso), generated_at |-> OrNull(Iso),
   rule_set_version |-> OrNull(Trimmed), policy_version |-> OrNull(IntFrom(1)),
   findings |-> ArrayOf("QcFinding")]
AuditHookPayload ==
  [action |-> Trimmed, entity_type |-> Trimmed, entity_id |-> Trimmed, actor_id |-> Trimmed,
   idempotency_key |-> Trimmed, metadata |-> {Object("any")}]
ObservabilityHookPayload ==
  [metric_name |-> Trimmed, tags |-> {Object("labels")}, value |-> AnyNumber, emitted_at |-> Iso]

ReviewFlagItem ==
  [id |-> Trimmed, submission_id |-> Trimmed, flag_type |-> Trimmed, severity |-> Trimmed,
   added_by |-> OrNull(Trimmed), created_at |-> Iso]
ReviewQueueItem ==
  [submission_id |-> Trimmed, pack_name |-> Trimmed, creator_id |-> Trimmed,
   submitted_at |-> Iso, state |-> SubmissionState, age_days |-> IntFrom(0), tags |-> Texts,
   flags |-> ArrayOf("ReviewFlagItem")]
ReviewSubmissionDetailResponse ==
  [submission |-> {Object("ReviewQueueItem")}, metadata |-> {Object("any")},
   qc_findings |-> ArrayOf("any"), transitions |-> ArrayOf("any"),
   integration_events |-> ArrayOf("any"), decisions |-> ArrayOf("any"), tags |-> ArrayOf("any"),
   flags |-> ArrayOf("ReviewFlagItem")]

AdminConfigRecord ==
  [id |-> Trimmed, config_type |-> Trimmed, version |-> IntFrom(1),
   payload_json |-> {Object("any")}, published_by |-> OrNull(Trimmed),
   published_at |-> OrNull(Iso), is_draft |-> Bool, created_at |-> Iso]
IntegrationTestResult ==
  [provider |-> Enum({"dropbox", "airtable", "smtp"}), ok |-> Bool, latency_ms |-> IntFrom(0),
   status_class |-> IntegrationStatusClass, recommended_action |-> IntegrationRecommendedAction,
   status_copy |-> Trimmed, credential_status |-> Trimmed, error_code |-> OrNull(Trimmed),
   last_checked_at |-> Iso, last_rotated_at |-> OrNull(Iso),
   last_failure_context |-> OrNull(Trimmed), error |-> OrNull(Trimmed)]
IntegrationConfigureResponse ==
  [provider |-> Enum({"dropbox", "airtable", "smtp"}), status |-> Trimmed, configured_at |-> Iso]
IntegrationRotateResult ==
  [provider |-> Enum({"dropbox", "airtable", "smtp"}), status |-> Trimmed, rotated_at |-> Iso,
   key_ref |-> Trimmed]
DropboxReadinessResponse ==
  [provider |-> Enum({"dropbox"}), status |-> DropboxReadinessStatus,
   message |-> Trimmed, has_app_credentials |-> Bool, authorize_url |-> OrNull(Url)]
DropboxOauthStartResponse ==
  [provider |-> Enum({"dropbox"}), authorize_url |-> Url]
DropboxOauthCompleteResponse ==
  [provider |-> Enum({"dropbox"}), status |-> Trimmed,
   account_id |-> OrNull(Trimmed), configured_at |-> Iso]
AdminOpsHistoryEntry ==
  [id |-> Trimmed, action |-> Trimmed, actor_id |-> OrNull(Trimmed), reason |-> OrNull(Trimmed),
   entity |-> Trimmed, timestamp |-> Iso]

(***************************************************************************)
(* The route each channel is sent to.  Channels that are answered in the   *)
(* main process, or read without parameters, have no request model.        *)
(***************************************************************************)
Flat(fields) == [self |-> fields]

ApiRequests ==
  [AUTH_LOGIN |-> Flat(LoginRequest),
   AUTH_REGISTER |-> Flat(RegisterRequest),
   AUTH_OTP_SEND |-> Flat(OtpSendRequest),
   AUTH_OTP_VERIFY |-> Flat(OtpVerifyRequest),
   AUTH_FORGOT_PASSWORD |-> Flat(ForgotPasswordRequest),
   AUTH_RESET_PASSWORD |-> Flat(ResetPasswordRequest),
   QC_EVALUATE_PACK |-> [self |-> QcEvaluationRequest, QcPackInput |-> QcPackInput,
                         QcAudioZipInput |-> QcAudioZipInput],
   QC_LIST_RULES |-> Flat(RulesQuery),
   ADMIN_QC_POLICY_GET |-> Flat(AdminActorRequest),
   ADMIN_QC_POLICY_UPDATE |-> [self |-> UpdateActiveQcPolicyRequest,
                               QcPolicyUpdate |-> QcPolicyUpdate,
                               QcPolicyRuleBinding |-> QcPolicyRuleBinding],
   NOTIFICATIONS_LIST |-> Flat(NotificationsQuery),
   NOTIFICATIONS_MARK_READ |-> Flat(MarkNotificationsReadRequest),
   NOTIFICATIONS_MARK_ALL_READ |-> Flat(MarkAllNotificationsReadRequest),
   NOTIFICATIONS_RETRY |-> Flat(RetryNotificationRequest)]
  ++
  [REVIEW_QUEUE_LIST |-> Flat(ReviewQueueQuery),
   REVIEW_SUBMISSION_GET |-> Flat(ReviewSubmissionRequest),
   REVIEW_APPROVE |-> Flat(ReviewActionBaseRequest),
   REVIEW_REJECT |-> Flat(RejectSubmissionRequest),
   REVIEW_TAG_ADD |-> Flat(AddReviewTagRequest),
   REVIEW_FLAG_ADD |-> Flat(AddReviewFlagRequest),
   REVIEW_REOPEN |-> Flat(ReviewActionBaseRequest),
   ADMIN_CONFIGS_LIST |-> Flat(ListAdminConfigsRequest),
   ADMIN_CONFIGS_DRAFT |-> Flat(CreateAdminConfigDraftRequest),
   ADMIN_CONFIGS_PUBLISH |-> Flat(PublishAdminConfigRequest),
   ADMIN_CONFIGS_ROLLBACK |-> Flat(RollbackAdminConfigRequest),
   ADMIN_INTEGRATIONS_HEALTH_LIST |-> Flat(AdminActorRequest),
   ADMIN_INTEGRATIONS_TEST |-> Flat(TestIntegrationRequest),
   ADMIN_INTEGRATIONS_ROTATE |-> Flat(RotateIntegrationRequest),
   ADMIN_INTEGRATIONS_AIRTABLE_CONFIGURE |-> Flat(ConfigureAirtableIntegrationRequest),
   ADMIN_INTEGRATIONS_SMTP_CONFIGURE |-> Flat(ConfigureSmtpIntegrationRequest),
   ADMIN_INTEGRATIONS_DROPBOX_TOKENS_UPDATE |-> Flat(ConfigureDropboxTokensRequest),
   ADMIN_INTEGRATIONS_DROPBOX_APP_CONFIGURE |-> Flat(ConfigureDropboxAppRequest),
   ADMIN_DROPBOX_READINESS_GET |-> Flat(AdminActorRequest),
   ADMIN_DROPBOX_OAUTH_START |-> Flat(DropboxOauthStartRequest),
   ADMIN_DROPBOX_OAUTH_COMPLETE |-> Flat(DropboxOauthCompleteRequest),
   ADMIN_OPS_HISTORY_LIST |-> Flat(ListAdminOpsHistoryRequest)]
  ++
  [JOBS_ENQUEUE |-> Flat(EnqueueJobRequest),
   JOBS_REPLAY |-> Flat(ReplayJobRequest),
   SCHEDULING_RESOLVE |-> [self |-> ScheduleResolveRequest,
                           SchedulingTriggerEvent |-> SchedulingTriggerEvent],
   SCHEDULING_OVERRIDE |-> Flat(ScheduleOverrideRequest),
   SCHEDULING_TRIGGER_RELEASE |-> Flat(ReleaseTriggerRequest),
   OBSERVABILITY_INCIDENTS_ANNOTATE |-> Flat(IncidentAnnotationRequest),
   CREATOR_PROFILE_GET |-> Flat(ProfileQuery),
   CREATOR_PROFILE_PUT |-> Flat(CreatorProfilePayload),
   SUBMISSION_DRAFT |-> Flat(DraftCreatePayload),
   SUBMISSION_METADATA |-> Flat(MetadataUpdatePayload),
   SUBMISSION_LIST |-> Flat(OwnerQuery),
   SUBMISSION_TIMELINE |-> Flat(OwnerQuery),
   SUBMISSION_AIRTABLE_SYNC |-> Flat(AirtableSyncPayload),
   SUBMISSION_AIRTABLE_RESET |-> Flat(AirtableResetPayload),
   INTAKE_SESSION_START |-> Flat(StartIntakeSessionRequest),
   INTAKE_MANIFEST_PUT |-> [self |-> UpsertIntakeManifestRequest,
                            ManifestFileEntry |-> ManifestFileEntry],
   INTAKE_HANDOFF_CREATE |-> Flat(CreateStorageHandoffRequest),
   INTAKE_HANDOFF_CONTROL |-> Flat(StorageHandoffControlRequest),
   INTAKE_LOCK |-> Flat(LockSubmissionFilesRequest),
   SUBMISSION_TRANSITION |-> Flat(TransitionRequest),
   AUDIT_LIST_SECURITY_EVENTS |-> Flat(AuditQuery)]

TokenBundle == [self |-> TokenBundleResponse, UserResponse |-> UserResponse]
UpdatedCount == Flat([updated_count |-> IntFrom(0)])
Decision == Flat([decision |-> {Object("any")}, transition |-> {Object("any")}])
Config == [self |-> [config |-> {Object("AdminConfigRecord")}],
           AdminConfigRecord |-> AdminConfigRecord]
Draft == Flat([submission |-> {Object("any")}])
AirtableState == [self |-> AirtableLinkStateResponse,
                  AirtableMappedPayload |-> AirtableMappedPayload]
ReviewItem == [ReviewQueueItem |-> ReviewQueueItem, ReviewFlagItem |-> ReviewFlagItem]
JobDetail == [JobRunSnapshot |-> JobRunSnapshot,
              DeadLetterJobSnapshot |-> DeadLetterJobSnapshot]

ApiReplies ==
  [AUTH_LOGIN |-> TokenBundle,
   AUTH_REGISTER |-> TokenBundle,
   AUTH_OTP_SEND |-> Flat(OtpSendResponse),
   AUTH_OTP_VERIFY |-> Flat(OtpVerifyResponse),
   AUTH_FORGOT_PASSWORD |-> Flat(OtpSendResponse),
   AUTH_RESET_PASSWORD |-> Flat(RevocationResponse),
   QC_EVALUATE_PACK |-> [self |-> QcEvaluationResult, QcReport |-> QcReport,
                         QcReportSummary |-> QcReportSummary, QcFinding |-> QcFinding],
   QC_LIST_RULES |-> [self |-> [rules |-> ArrayOf("QcRuleDefinition"),
                                policy |-> {Object("QcPolicySnapshot")}],
                      QcRuleDefinition |-> QcRuleDefinition,
                      QcPolicySnapshot |-> QcPolicySnapshot,
                      QcPolicyRuleBinding |-> QcPolicyRuleBinding],
   QC_RESULTS_GET |-> [self |-> [latest |-> {Object("QcRunResult")},
                                 history |-> ArrayOf("QcRunResult")],
                       QcRunResult |-> QcRunResult, QcFinding |-> QcFinding],
   ADMIN_QC_POLICY_GET |-> [self |-> [policy |-> {Object("QcPolicySnapshot")}],
                            QcPolicySnapshot |-> QcPolicySnapshot,
                            QcPolicyRuleBinding |-> QcPolicyRuleBinding],
   ADMIN_QC_POLICY_UPDATE |-> [self |-> [policy |-> {Object("QcPolicySnapshot")},
                                         audit_hook |-> {Object("AuditHookPayload")},
                                         observability_hook |-> {Object("ObservabilityHookPayload")}],
                               QcPolicySnapshot |-> QcPolicySnapshot,
                               QcPolicyRuleBinding |-> QcPolicyRuleBinding,
                               AuditHookPayload |-> AuditHookPayload,
                               ObservabilityHookPayload |-> ObservabilityHookPayload],
   NOTIFICATIONS_LIST |-> [self |-> [notifications |-> ArrayOf("NotificationItem")],
                           NotificationItem |-> NotificationItem],
   NOTIFICATIONS_MARK_READ |-> UpdatedCount,
   NOTIFICATIONS_MARK_ALL_READ |-> UpdatedCount,
   NOTIFICATIONS_RETRY |-> [self |-> [notification |-> {Object("NotificationItem")}],
                            NotificationItem |-> NotificationItem]]
  ++
  [REVIEW_QUEUE_LIST |-> [self |-> [items |-> ArrayOf("ReviewQueueItem")]] ++ ReviewItem,
   REVIEW_SUBMISSION_GET |-> [self |-> ReviewSubmissionDetailResponse] ++ ReviewItem,
   REVIEW_APPROVE |-> Decision,
   REVIEW_REJECT |-> Decision,
   REVIEW_TAG_ADD |-> Flat([tag |-> {Object("any")}]),
   REVIEW_FLAG_ADD |-> [self |-> [flag |-> {Object("ReviewFlagItem")}],
                        ReviewFlagItem |-> ReviewFlagItem],
   REVIEW_REOPEN |-> Decision,
   ADMIN_CONFIGS_LIST |-> [self |-> [configs |-> ArrayOf("AdminConfigRecord")],
                           AdminConfigRecord |-> AdminConfigRecord],
   ADMIN_CONFIGS_DRAFT |-> Config,
   ADMIN_CONFIGS_PUBLISH |-> Config,
   ADMIN_CONFIGS_ROLLBACK |-> Config,
   ADMIN_INTEGRATIONS_HEALTH_LIST |->
     [self |-> [integrations |-> ArrayOf("IntegrationTestResult")],
      IntegrationTestResult |-> IntegrationTestResult],
   ADMIN_INTEGRATIONS_TEST |-> Flat(IntegrationTestResult),
   ADMIN_INTEGRATIONS_ROTATE |-> Flat(IntegrationRotateResult),
   ADMIN_INTEGRATIONS_AIRTABLE_CONFIGURE |-> Flat(IntegrationConfigureResponse),
   ADMIN_INTEGRATIONS_SMTP_CONFIGURE |-> Flat(IntegrationConfigureResponse),
   ADMIN_INTEGRATIONS_DROPBOX_TOKENS_UPDATE |-> Flat(IntegrationConfigureResponse),
   ADMIN_INTEGRATIONS_DROPBOX_APP_CONFIGURE |-> Flat(IntegrationConfigureResponse),
   ADMIN_DROPBOX_READINESS_GET |-> Flat(DropboxReadinessResponse),
   ADMIN_DROPBOX_OAUTH_START |-> Flat(DropboxOauthStartResponse),
   ADMIN_DROPBOX_OAUTH_COMPLETE |-> Flat(DropboxOauthCompleteResponse),
   ADMIN_OPS_HISTORY_LIST |-> [self |-> [entries |-> ArrayOf("AdminOpsHistoryEntry")],
                               AdminOpsHistoryEntry |-> AdminOpsHistoryEntry]]
  ++
  [JOBS_ENQUEUE |-> [self |-> [idempotent |-> Bool, job |-> {Object("JobRunSnapshot")}],
                     JobRunSnapshot |-> JobRunSnapshot],
   JOBS_GET |-> [self |-> [job |-> {Object("JobRunSnapshot")},
                           dead_letter |-> OrNull({Object("DeadLetterJobSnapshot")})]]
                  ++ JobDetail,
   JOBS_REPLAY |-> [self |-> [idempotent |-> Bool, job |-> {Object("JobRunSnapshot")},
                              dead_letter |-> {Object("DeadLetterJobSnapshot")}]] ++ JobDetail,
   SCHEDULING_RESOLVE |-> [self |-> [idempotent |-> Bool,
                                     schedule |-> {Object("ReleaseScheduleSnapshot")},
                                     release_job |-> {Object("JobRunSnapshot")}],
                           ReleaseScheduleSnapshot |-> ReleaseScheduleSnapshot,
                           JobRunSnapshot |-> JobRunSnapshot],
   SCHEDULING_OVERRIDE |-> [self |-> [idempotent |-> Bool,
                                      schedule |-> {Object("ReleaseScheduleSnapshot")},
                                      override |-> {Object("ScheduleOverrideSnapshot")},
                                      release_job |-> {Object("JobRunSnapshot")}],
                            ReleaseScheduleSnapshot |-> ReleaseScheduleSnapshot,
                            ScheduleOverrideSnapshot |-> ScheduleOverrideSnapshot,
                            JobRunSnapshot |-> JobRunSnapshot],
   SCHEDULING_TRIGGER_RELEASE |-> [self |-> [idempotent |-> Bool,
                                             schedule |-> {Object("ReleaseScheduleSnapshot")},
                                             submission |-> {Object("any")}],
                                   ReleaseScheduleSnapshot |-> ReleaseScheduleSnapshot],
   OBSERVABILITY_METRICS_GET |-> Flat([text |-> Text(0)]),
   OBSERVABILITY_INCIDENTS_ANNOTATE |->
     [self |-> [idempotent |-> Bool, annotation |-> {Object("IncidentAnnotationSnapshot")}],
      IncidentAnnotationSnapshot |-> IncidentAnnotationSnapshot],
   CREATOR_PROFILE_GET |-> Flat(CreatorProfileResponse),
   CREATOR_PROFILE_PUT |-> Flat(CreatorProfileResponse),
   SUBMISSION_DRAFT |-> Draft,
   SUBMISSION_METADATA |-> Draft,
   SUBMISSION_LIST |-> [self |-> [rows |-> ArrayOf("SubmissionListItem")],
                        SubmissionListItem |-> SubmissionListItem],
   SUBMISSION_TIMELINE |-> [self |-> [rows |-> ArrayOf("TimelineItem")],
                            TimelineItem |-> TimelineItem],
   SUBMISSION_AIRTABLE_SYNC |-> AirtableState,
   SUBMISSION_AIRTABLE_RESET |-> AirtableState]
  ++
  [INTAKE_SESSION_START |-> [self |-> [created |-> Bool, idempotent |-> Bool,
                                       session |-> {Object("IntakeSessionSnapshot")},
                                       event |-> OrNull({Object("any")})],
                             IntakeSessionSnapshot |-> IntakeSessionSnapshot],
   INTAKE_MANIFEST_PUT |-> [self |-> [idempotent |-> Bool,
                                      session |-> {Object("IntakeSessionSnapshot")},
                                      manifest |-> {Object("ManifestSnapshot")},
                                      event |-> {Object("any")}],
                            IntakeSessionSnapshot |-> IntakeSessionSnapshot,
                            ManifestSnapshot |-> ManifestSnapshot,
                            ManifestSummary |-> ManifestSummary,
                            ManifestFileEntry |-> ManifestFileEntry],
   INTAKE_HANDOFF_CREATE |-> [self |-> [idempotent |-> Bool,
                                        handoff |-> {Object("StorageHandoffSnapshot")},
                                        event |-> {Object("any")}],
                              StorageHandoffSnapshot |-> StorageHandoffSnapshot],
   INTAKE_HANDOFF_STATUS_GET |-> [self |-> [handoff |-> {Object("StorageHandoffSnapshot")}],
                                  StorageHandoffSnapshot |-> StorageHandoffSnapshot],
   INTAKE_HANDOFF_CONTROL |-> [self |-> [handoff |-> {Object("StorageHandoffSnapshot")}],
                               StorageHandoffSnapshot |-> StorageHandoffSnapshot],
   INTAKE_LOCK |-> Flat(LockSubmissionFilesResult),
   SUBMISSION_TRANSITION |-> Flat([submission |-> {Object("any")},
                                   transition |-> OrNull({Object("any")}),
                                   domain_event |-> OrNull({Object("any")}), idempotent |-> Bool,
                                   orchestration |-> OrNull({Object("any")})])]
=============================================================================
