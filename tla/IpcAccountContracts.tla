------------------------ MODULE IpcAccountContracts ------------------------
(* The first part of src/electron/ipc/contracts.js: what all contracts share, *)
(* sign-in and sessions, security checks and audit events.                    *)
EXTENDS IpcSchema

AUTH_ERROR_CODES ==
  {"VALIDATION_ERROR", "AUTH_FORBIDDEN", "AUTH_UNAUTHORIZED", "AUTH_LOCKED",
   "AUTH_RATE_LIMITED", "AUTH_TOKEN_REUSE", "INVALID_CONTRACT_PAYLOAD",
   "QC_RULE_NOT_FOUND", "QC_POLICY_NOT_FOUND", "QC_POLICY_FORBIDDEN",
   "QC_POLICY_VERSION_CONFLICT", "QC_EVALUATION_NOT_ALLOWED", "NOTIFICATION_NOT_FOUND",
   "NOTIFICATION_SCOPE_FORBIDDEN", "NOTIFICATION_RETRY_FORBIDDEN", "REVIEW_FORBIDDEN",
   "REVIEW_INVALID_STATE", "REVIEW_REASON_REQUIRED", "SUBMISSION_NOT_FOUND",
   "VERSION_CONFLICT", "ADMIN_CONFIG_ROLLBACK_NOT_AVAILABLE", "TRANSITION_NOT_ALLOWED",
   "TRANSITION_FORBIDDEN", "MISSING_REQUIRED_REASON", "JOB_NOT_FOUND",
   "JOB_REPLAY_NOT_ALLOWED", "SCHEDULE_SUBMISSION_MISMATCH", "SCHEDULE_NOT_FOUND",
   "SCHEDULE_NOT_DUE", "SCHEDULE_OVERRIDE_FORBIDDEN", "INVALID_EVENT_NAME",
   "INTAKE_SESSION_NOT_FOUND", "INTAKE_MANIFEST_LOCKED",
   "INTAKE_MANIFEST_VERSION_CONFLICT", "STORAGE_HANDOFF_NOT_FOUND",
   "STORAGE_HANDOFF_PRECONDITION_FAILED", "STORAGE_HANDOFF_FORBIDDEN",
   "DROPBOX_NOT_CONFIGURED", "DROPBOX_AUTH_INVALID", "UNKNOWN_CHANNEL", "INTERNAL_ERROR"}

\* Envelopes and enumerations shared by every channel.
ActorRoleSchema == Enum({"creator", "reviewer", "admin"})
OtpPurposeSchema == Enum({"register", "forgot-password"})
IpcErrorCodeSchema == Enum(AUTH_ERROR_CODES)
IsoTimestampSchema == Iso
NullableIsoTimestampSchema == OrNull(IsoTimestampSchema)
IpcErrorSchema ==
  [code |-> IpcErrorCodeSchema, message |-> Text(1), reason |-> Text(1), channel |-> Text(1)]
IpcErrorResponseSchema == [ok |-> {False}, error |-> {Object("IpcError")}]

\* Sessions and credentials.
AuthGetSessionRequestSchema == [includePermissions |-> Optional(Bool)]
AuthSessionData_actor == [id |-> Text(1), roles |-> NonEmpty(Roles)]
AuthSessionDataSchema ==
  [actor |-> {Object("AuthSessionData_actor")}, permissions |-> Strings,
   sessionIssuedAt |-> IsoTimestampSchema]
AuthUserSchema ==
  [id |-> Text(1), email |-> Text(3), roles |-> NonEmpty(Roles), permissions |-> Strings,
   status |-> Text(1), createdAt |-> IsoTimestampSchema, updatedAt |-> IsoTimestampSchema]
AuthTokenBundleSchema ==
  [accessToken |-> Text(1), accessTokenExpiresAt |-> IsoTimestampSchema, refreshToken |-> Text(1),
   refreshTokenExpiresAt |-> IsoTimestampSchema, user |-> {Object("AuthUser")}]
AuthLoginRequestSchema ==
  [email |-> Text(3), password |-> Text(1), deviceId |-> Optional(Text(1))]
AuthRegisterRequestSchema ==
  [email |-> Text(3), password |-> Text(12), otpVerificationToken |-> Text(1),
   roles |-> Optional(NonEmpty(Roles)), deviceId |-> Optional(Text(1))]
AuthOtpSendRequestSchema == [target |-> Text(3), purpose |-> OtpPurposeSchema]
AuthOtpSendDataSchema ==
  [challengeId |-> OrNull(Text(1)), expiresAt |-> NullableIsoTimestampSchema,
   cooldownSeconds |-> IntFrom(0)]
AuthOtpVerifyRequestSchema ==
  [challengeId |-> Text(1), purpose |-> OtpPurposeSchema, otpCode |-> TextUpTo(4, 8)]
AuthOtpVerifyDataSchema == [otpVerificationToken |-> Text(1), expiresAt |-> IsoTimestampSchema]
AuthForgotPasswordRequestSchema == [email |-> Text(3)]
AuthResetPasswordRequestSchema ==
  [email |-> Text(3), otpVerificationToken |-> Text(1), newPassword |-> Text(12)]
AuthRevocationDataSchema == [revokedSessionCount |-> IntFrom(0)]

\* Security checks and audit events.
VerifySecurityConfigRequestSchema == <<>>
VerifySecurityConfigData_checks ==
  [contextIsolation |-> {True}, nodeIntegration |-> {False}, sandbox |-> {True},
   navigationGuard |-> {True}]
VerifySecurityConfigDataSchema == [checks |-> {Object("VerifySecurityConfigData_checks")}]
AuditListSecurityEventsRequestSchema == [limit |-> Optional(IntIn(1, 100))]
AuditSecurityEventSchema ==
  [id |-> Text(1), channel |-> Text(1), actorId |-> Text(1),
   outcome |-> Enum({"allowed", "denied"}), reason |-> Text(1), timestamp |-> IsoTimestampSchema]
AuditListSecurityEventsDataSchema == [events |-> ArrayOf("AuditSecurityEvent")]
AuditEventsListRequestSchema ==
  [actorId |-> Text(1), actorRole |-> Enum({"admin"}), action |-> Optional(OrNull(Text(1))),
   entityType |-> Optional(OrNull(Text(1))), entityId |-> Optional(OrNull(Text(1))),
   from |-> Optional(OrNull(IsoTimestampSchema)), to |-> Optional(OrNull(IsoTimestampSchema)),
   limit |-> Optional(IntIn(1, 500)), offset |-> Optional(IntFrom(0))]
AuditEventRecordSchema ==
  [id |-> Text(1), schemaVersion |-> IntFrom(1), actorId |-> OrNull(Text(0)), action |-> Text(1),
   entityType |-> Text(1), entityId |-> Text(1), beforeJson |-> OrNull(AnyObject),
   afterJson |-> OrNull(AnyObject), metadata |-> OrNull(AnyObject),
   occurredAt |-> NullableIsoTimestampSchema, requestId |-> OrNull(Text(0)),
   idempotencyKey |-> OrNull(Text(0)), createdAt |-> IsoTimestampSchema,
   prevHash |-> OrNull(Text(0)), eventHash |-> Text(1)]
AuditEventsListDataSchema ==
  [total |-> IntFrom(0), limit |-> IntFrom(1), offset |-> IntFrom(0),
   events |-> ArrayOf("AuditEventRecord")]
AuditEventsExportRequestSchema ==
  [actorId |-> Text(1), actorRole |-> Enum({"admin"}), format |-> Optional(Enum({"json", "csv"})),
   includeHashChain |-> Optional(Bool), action |-> Optional(OrNull(Text(1))),
   entityType |-> Optional(OrNull(Text(1))), entityId |-> Optional(OrNull(Text(1))),
   from |-> Optional(OrNull(IsoTimestampSchema)), to |-> Optional(OrNull(IsoTimestampSchema)),
   limit |-> Optional(IntIn(1, 5000))]
AuditEventsExportDataSchema ==
  [format |-> Enum({"json", "csv"}), contentType |-> Text(1), fileName |-> Text(1),
   exportedAt |-> IsoTimestampSchema, signedAt |-> IsoTimestampSchema,
   signatureAlgorithm |-> Text(1), signature |-> Text(1), content |-> Text(0)]
=============================================================================
