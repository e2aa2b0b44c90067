------------------------------ MODULE IpcSchema ------------------------------
(***************************************************************************)
(* The values that cross the boundary between the renderer and the main    *)
(* process, cut down to what the two hand-written contracts of that        *)
(* boundary tell apart, and the field types both are written with.         *)
(*                                                                         *)
(* A value is a pair <<kind, what>>.  A field type is the set of values a   *)
(* field may hold; a schema is a record that maps the fields of an object  *)
(* to their types.  An object or a non-empty array is represented by the   *)
(* name of the schema that it, or each of its elements, is an instance of: *)
(* the instances themselves are looked at one schema at a time.            *)
(***************************************************************************)
EXTENDS Integers

Str(s) == <<"string", s>>
Num(n) == <<"number", n>>
Object(s) == <<"object", s>>
Array(s) == <<"array", s>>

\* {...g, ...f}: the fields of both, f's where they share one.
f ++ g == [x \in DOMAIN f \cup DOMAIN g |-> IF x \in DOMAIN f THEN f[x] ELSE g[x]]

\* The key is missing; the key is there and holds undefined.
Absent == <<"absent", "">>
Undefined == <<"undefined", "">>
Null == <<"null", "">>
True == <<"boolean", "true">>
False == <<"boolean", "false">>
Fraction == <<"fraction", "">>

(***************************************************************************)
(* Strings.  Lengths matter up to the twelve characters of a password.     *)
(* "blank" is white space only: not empty, and nothing once it is trimmed. *)
(* A word is a member of some enumeration; the shortest has three letters. *)
(***************************************************************************)
Length == [empty |-> 0, blank |-> 2, t2 |-> 2, t3 |-> 3, t4 |-> 4, t8 |-> 8, t9 |-> 9,
           t11 |-> 11, t12 |-> 12, utc |-> 3, iso |-> 24, month |-> 7, sha256 |-> 64,
           url |-> 20]
Words ==
  {"INVALID_TOKEN", "METADATA_MISSING", "NOT_CONFIGURED", "OTHER",
   "POLICY_VIOLATION", "QUALITY_ISSUES", "READY", "acknowledged", "admin",
   "airtable", "allowed", "approval_event", "approved", "blocking", "cancel",
   "canceled", "completed", "creator", "critical", "csv", "dead_lettered",
   "degraded", "denied", "draft", "dropbox", "email", "error", "expired",
   "failed", "forgot-password", "healthy", "in_app", "in_progress", "info",
   "initiated", "inspect_and_fix", "integration_failure", "json",
   "manifest_ready", "manual_override", "new",
   "none", "not_run", "open", "passed", "pause", "paused", "pending",
   "pending_retry", "qc_failed", "queued", "ready", "register", "rejected",
   "released", "replay_safe", "resolved", "resume", "retry_exhaustion",
   "retrying", "reviewer", "rotate_credentials", "run_connection_test",
   "running", "scheduled", "scheduling_terminal_failure", "sent", "smtp",
   "submission.approved.scheduling.v1", "submitted", "succeeded", "system",
   "temporary-object-storage", "terminal", "terminal_failure",
   "transfer_completed", "transient", "unavailable", "unchanged",
   "unconfigured", "under_review", "unhealthy", "uploading",
   "verify_provider_configuration", "wait_for_retry", "warning"}

Text(min) == {Str(s) : s \in {t \in DOMAIN Length : Length[t] >= min}}
               \cup {Str(w) : w \in IF min <= 3 THEN Words ELSE {}}
TextUpTo(min, max) == {Str(s) : s \in {t \in DOMAIN Length : Length[t] \in min..max}}
Trimmed == Text(1) \ {Str("blank")}
Enum(ws) == {Str(w) : w \in ws}
Iso == {Str("iso")}
Month == {Str("month")}
Sha256 == {Str("sha256")}
Url == {Str("url")}

(***************************************************************************)
(* Numbers (the bounds the contracts name, and their neighbours), Booleans *)
(* and the alternatives null and undefined.                                *)
(***************************************************************************)
Numbers == {-1, 0, 1, 3, 10, 11, 100, 101, 500, 501, 5000, 5001, 65535, 65536}
Largest == 65536
Integer == {Num(n) : n \in Numbers}
IntIn(min, max) == {Num(n) : n \in {k \in Numbers : min <= k /\ k <= max}}
IntFrom(min) == IntIn(min, Largest)
AnyNumber == Integer \cup {Fraction}
Bool == {True, False}
OrNull(T) == T \cup {Null}
Own(T) == T \cup {Absent}
Optional(T) == Own(T) \cup {Undefined}

(***************************************************************************)
(* Objects and arrays.  "any" is an object of no schema in particular, and *)
(* an array of them; "counts" and "labels" are maps to numbers and texts;  *)
(* "blanks" is an array of texts one of which is empty.                    *)
(***************************************************************************)
\* The schemas of nested objects: the domain of Nested in IpcContracts.
Shapes ==
  {"AdminConfigRecord", "AdminIntegrationTestData", "AdminOpsHistoryListData_entries",
   "AdminQcPolicyUpdateData_auditHook", "AdminQcPolicyUpdateData_observabilityHook",
   "AdminQcPolicyUpdateRequest_policy", "AuditEventRecord", "AuditSecurityEvent",
   "AuthSessionData_actor", "AuthUser", "DeadLetterSnapshot",
   "IntakeFolderSelectData_files", "IntakeHandoffCreateData_handoff", "IntakeManifestData",
   "IntakeManifestData_files", "IntakeManifestData_summary",
   "IntakeManifestPutRequest_files", "IntakeSessionData", "IpcError", "JobSnapshot",
   "NotificationItem", "ObservabilityIncidentsAnnotateData_annotation", "QcAudioZip",
   "QcFinding", "QcPackInput", "QcPolicyRuleBinding", "QcPolicySnapshot", "QcReport",
   "QcReportFinding", "QcReportSummary", "QcResultsRun", "QcRuleDefinition", "ReviewFlag",
   "ReviewQueueItem", "ScheduleSnapshot", "SchedulingEvent",
   "SchedulingOverrideData_override", "StorageHandoffControlData_handoff",
   "StorageHandoffStatusData_handoff", "SubmissionAirtableMappedPayload",
   "SubmissionSummary", "SubmissionTimelineData_timeline", "VerifySecurityConfigData_checks"}

AnyObject == {Object(s) : s \in Shapes \cup {"any", "counts", "labels"}}
EmptyArray == Array("empty")
Roles == {EmptyArray, Array("roles")}
Texts == Roles \cup {Array("texts")}
Strings == Texts \cup {Array("blanks")}
ArrayOf(s) == {EmptyArray, Array(s)}
NonEmpty(A) == A \ {EmptyArray}
AnyArray == Strings \cup {Array(s) : s \in Shapes \cup {"any"}}

AnyValue == {Absent, Undefined, Null, Fraction} \cup Bool \cup Integer \cup Text(0)
         \cup AnyObject \cup AnyArray

(***************************************************************************)
(* What is nothing once it is trimmed, and a key that is there without a   *)
(* value.                                                                  *)
(***************************************************************************)
Blank == {Str("blank"), Array("blanks")}
=============================================================================
